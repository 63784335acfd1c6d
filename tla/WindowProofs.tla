--------------------------- MODULE WindowProofs ---------------------------
(***************************************************************************)
(* Theorems about four parts of the window and of the desktop. Vault: for  *)
(* any number of processes that run side by side, of keys and of saved     *)
(* versions, and any loss of the key store and of files. SiteTree: for any *)
(* sites, folders and batches of operations. SyncPlan: for any files,      *)
(* sizes, times, limits of the comparison of contents and any changes of   *)
(* both sides while a plan stands; PlanInv relates what was listed, what   *)
(* is planned and what is pending to the two sides as they are now, for    *)
(* every file that was not touched since it was listed. FileCommands: for  *)
(* any number of commands at a time, with any names, copies and files on   *)
(* any of the servers; FileInv says what a command has seen when it        *)
(* writes, who is writing what is not whole, and what the trash owes to a  *)
(* command.                                                                *)
(***************************************************************************)
EXTENDS Vault, SiteTree, SyncPlan, FileCommands, WellFoundedInduction, TLAPS

VaultStage == {"off", "idle", "file", "store", "migrate", "verify", "drop file", "mint", "mint file",
               "fill", "open", "quarantine", "tree aside", "seal", "keep", "write"}
Sealed  == [key : Nat, ver : Nat]
ProcSet == [step : VaultStage, op : {"none", "load", "save", "read tree", "save tree"},
            fileKey : Nat, found : Nat, seen : Sealed, sites : Nat, next : Nat,
            tree : {"unread", "ready", "read only"}, blocked : BOOLEAN, deaf : SUBSET {"file", "store"}]

VaultTyped ==
    /\ has_store \in BOOLEAN /\ keychain \in Nat
    /\ keyfile \in [is : {"absent", "blank", "filled"}, key : Nat, open : SUBSET Proc]
    /\ vault \in Sealed /\ bak \in Sealed /\ layout \in Sealed /\ aside \in SUBSET Sealed
    /\ proc \in [Proc -> ProcSet]
    /\ keys \in Nat /\ saves \in Nat /\ starts \in Nat
    /\ relied \in SUBSET Nat /\ unmoved \in BOOLEAN

KeysSound ==
    /\ ~has_store => keychain = 0
    /\ keyfile.key # 0 <=> keyfile.is = "filled"

Opens(f) == f # Nothing => Readable(f)
FilesSound == Opens(vault) /\ Opens(bak) /\ Opens(layout) /\ \A f \in aside : Opens(f)
ListsSound ==
    unmoved \/ \A v \in relied : v # 0 /\ (vault.ver = v \/ \E f \in aside : f.ver = v)

Role(p) ==
    /\ At(p, "off") => proc[p] = NoOp
    /\ ~At(p, "off") /\ p \notin Full => ~has_store
    /\ p \notin Full => proc[p].step \in {"off", "file", "open", "quarantine"}
                        /\ Op(p) \in {"none", "load"}
    /\ Op(p) = "save" => proc[p].next # 0 /\ ~proc[p].blocked
    /\ Op(p) = "none" <=> proc[p].step \in {"off", "idle"} \/ (At(p, "quarantine") /\ proc[p].seen = Nothing)
    /\ proc[p].step \in {"open"} => Op(p) \in {"load", "read tree"}
    /\ proc[p].step \in {"quarantine"} => Op(p) \in {"load", "none"}
    /\ proc[p].step \in {"tree aside"} => Op(p) = "read tree"
    /\ proc[p].step \in {"mint", "mint file", "fill", "seal"} => Saving(p)
    /\ proc[p].step \in {"keep", "write"} => Op(p) = "save"
Holds(p) ==
    /\ proc[p].found # 0 => proc[p].found \in HeldKeys
    /\ proc[p].step \in {"open", "seal", "keep", "write"} => proc[p].found # 0
    /\ Op(p) \in {"load", "save"} => Opens(proc[p].seen)
    /\ Op(p) = "load" => proc[p].seen # Nothing
    /\ At(p, "idle") => proc[p].seen = Nothing
Finds(p) ==
    /\ proc[p].step \in {"store", "migrate", "verify", "drop file"} =>
          has_store /\ proc[p].fileKey = keyfile.key
    /\ At(p, "migrate") => keychain = 0 /\ keyfile.key # 0
    /\ proc[p].step \in {"verify", "drop file"} => keychain = keyfile.key /\ keyfile.key # 0
    /\ proc[p].step \in {"mint", "mint file", "fill"} => vault = Nothing
    /\ proc[p].step \in {"mint", "mint file"} => keyfile.is # "filled"
    /\ At(p, "mint") => has_store
    /\ At(p, "fill") => keyfile.is = "blank" /\ p \in keyfile.open
Answered(p) ==
    /\ has_store /\ Op(p) = "load" => vault = proc[p].seen
    /\ At(p, "quarantine") => proc[p].deaf # {}
    /\ At(p, "open") /\ Op(p) = "load" /\ proc[p].deaf = {} => proc[p].seen.key = proc[p].found
    /\ At(p, "seal") /\ Op(p) = "save" /\ proc[p].deaf = {} /\ vault # Nothing => vault.key = proc[p].found
    /\ At(p, "keep") => vault \in {proc[p].seen, Nothing}
    /\ At(p, "keep") /\ proc[p].deaf = {} => proc[p].seen.key = proc[p].found
Knows(p) ==
    p \in Full /\ vault # Nothing /\ ~unmoved =>
        /\ Op(p) = "load" => vault = proc[p].seen
        /\ Op(p) # "load" /\ proc[p].step \notin {"off", "quarantine"} /\ ~proc[p].blocked =>
               vault.ver = proc[p].sites

ProcSound(p) == Role(p) /\ Holds(p) /\ Finds(p) /\ Answered(p) /\ Knows(p)
VaultInv == VaultTyped /\ KeysSound /\ FilesSound /\ ListsSound /\ \A p \in Proc : ProcSound(p)

(* What a step makes of one process, field by field. *)
Moved(p) == proc' \in [Proc -> ProcSet] /\ \A q \in Proc : q # p => proc'[q] = proc[q]
Fields(p, s, o, k, f, v, i, n, t, b, d) ==
    /\ proc'[p].step = s /\ proc'[p].op = o /\ proc'[p].fileKey = k /\ proc'[p].found = f
    /\ proc'[p].seen = v /\ proc'[p].sites = i /\ proc'[p].next = n /\ proc'[p].tree = t
    /\ proc'[p].blocked = b /\ proc'[p].deaf = d
FilesTyped ==
    /\ has_store \in BOOLEAN /\ keychain \in Nat
    /\ keyfile \in [is : {"absent", "blank", "filled"}, key : Nat, open : SUBSET Proc]
    /\ vault \in Sealed /\ bak \in Sealed /\ layout \in Sealed /\ aside \in SUBSET Sealed
    /\ keys \in Nat /\ saves \in Nat /\ starts \in Nat
    /\ relied \in SUBSET Nat /\ unmoved \in BOOLEAN

LEMMA VaultBasics ==
    /\ Nothing \in Sealed /\ Nothing.key = 0 /\ Nothing.ver = 0
    /\ NoOp \in ProcSet
    /\ \A p, q \in Full : p = q
    /\ Full \subseteq Proc
  BY VaultAssumption DEF VaultAssumption, Nothing, Sealed, NoOp, ProcSet, VaultStage

LEMMA NoOpIs ==
    /\ NoOp.step = "off" /\ NoOp.op = "none" /\ NoOp.fileKey = 0 /\ NoOp.found = 0 /\ NoOp.seen = Nothing
    /\ NoOp.sites = 0 /\ NoOp.next = 0 /\ NoOp.tree = "unread" /\ NoOp.blocked = FALSE /\ NoOp.deaf = {}
  BY DEF NoOp

LEMMA MovesOne ==
    ASSUME proc \in [Proc -> ProcSet], NEW p \in Proc, NEW r \in ProcSet, proc' = [proc EXCEPT ![p] = r]
    PROVE  Moved(p) /\ proc'[p] = r
  BY DEF Moved

LEMMA GoIs ==
    ASSUME proc \in [Proc -> ProcSet], NEW p \in Proc, NEW s \in VaultStage, Go(p, s)
    PROVE  Moved(p) /\ Fields(p, s, proc[p].op, proc[p].fileKey, proc[p].found, proc[p].seen, proc[p].sites,
                              proc[p].next, proc[p].tree, proc[p].blocked, proc[p].deaf)
  <1> DEFINE r == [proc[p] EXCEPT !.step = s]
  <1>1. proc[p] \in ProcSet
    OBVIOUS
  <1>2. r \in ProcSet
    BY <1>1 DEF ProcSet
  <1>3. r.step = s /\ r.op = proc[p].op /\ r.fileKey = proc[p].fileKey /\ r.found = proc[p].found
        /\ r.seen = proc[p].seen /\ r.sites = proc[p].sites /\ r.next = proc[p].next /\ r.tree = proc[p].tree
        /\ r.blocked = proc[p].blocked /\ r.deaf = proc[p].deaf
    BY <1>1 DEF ProcSet
  <1>4. proc' = [proc EXCEPT ![p] = r]
    BY DEF Go
  <1> HIDE DEF r
  <1>5. Moved(p) /\ proc'[p] = r
    BY <1>2, <1>4, MovesOne
  <1> QED
    BY <1>3, <1>5 DEF Fields

LEMMA FoundIs ==
    ASSUME proc \in [Proc -> ProcSet], NEW p \in Proc, NEW k \in Nat,
           Found(p, k) \/ FoundDeaf(p, k)
    PROVE  \E d \in SUBSET {"file", "store"} :
              /\ Moved(p)
              /\ Fields(p, Goes(p), proc[p].op, proc[p].fileKey, k, proc[p].seen, proc[p].sites,
                        proc[p].next, proc[p].tree, proc[p].blocked, d)
              /\ d = (IF FoundDeaf(p, k) THEN proc[p].deaf \cup {"store"} ELSE proc[p].deaf)
  <1> DEFINE d == IF FoundDeaf(p, k) THEN proc[p].deaf \cup {"store"} ELSE proc[p].deaf
             r == [proc[p] EXCEPT !.step = Goes(p), !.found = k, !.deaf = d]
  <1>1. proc[p] \in ProcSet
    OBVIOUS
  <1>2. Goes(p) \in VaultStage /\ d \in SUBSET {"file", "store"}
    BY <1>1 DEF Goes, VaultStage, ProcSet
  <1>3. proc' = [proc EXCEPT ![p] = r]
    <2>1. CASE ~FoundDeaf(p, k)
      <3>1. [proc[p] EXCEPT !.step = Goes(p), !.found = k] = r
        BY <1>1, <2>1 DEF ProcSet
      <3> QED
        BY <2>1, <3>1 DEF Found
    <2>2. CASE FoundDeaf(p, k)
      BY <2>2 DEF FoundDeaf
    <2> QED
      BY <2>1, <2>2
  <1> HIDE DEF d
  <1>4. r \in ProcSet
    BY <1>1, <1>2 DEF ProcSet
  <1>5. r.step = Goes(p) /\ r.op = proc[p].op /\ r.fileKey = proc[p].fileKey /\ r.found = k
        /\ r.seen = proc[p].seen /\ r.sites = proc[p].sites /\ r.next = proc[p].next /\ r.tree = proc[p].tree
        /\ r.blocked = proc[p].blocked /\ r.deaf = d
    BY <1>1 DEF ProcSet
  <1> HIDE DEF r
  <1>6. Moved(p) /\ proc'[p] = r
    BY <1>3, <1>4, MovesOne
  <1> QED
    BY <1>2, <1>5, <1>6 DEF Fields, d

(* r is a process at rest, with this list of sites and this tree. *)
Rests(r, i, t, b) ==
    /\ r.step = "idle" /\ r.op = "none" /\ r.fileKey = 0 /\ r.found = 0 /\ r.seen = Nothing
    /\ r.sites = i /\ r.next = 0 /\ r.tree = t /\ r.blocked = b /\ r.deaf = {}

LEMMA IdleIs ==
    ASSUME NEW p \in Proc, proc[p] \in ProcSet
    PROVE  /\ Idle(p) \in ProcSet
           /\ Rests(Idle(p), proc[p].sites, proc[p].tree, proc[p].blocked)
  <1>1. Idle(p) \in ProcSet
    BY VaultBasics DEF Idle, ProcSet, VaultStage
  <1> QED
    BY <1>1 DEF Idle, Rests, ProcSet

LEMMA RestsWith ==
    ASSUME NEW r \in ProcSet, NEW i \in Nat, NEW t, NEW b, Rests(r, i, t, b)
    PROVE  /\ \A n \in Nat : [r EXCEPT !.sites = n] \in ProcSet /\ Rests([r EXCEPT !.sites = n], n, t, b)
           /\ \A u \in {"ready", "read only"} :
                 [r EXCEPT !.tree = u] \in ProcSet /\ Rests([r EXCEPT !.tree = u], i, u, b)
           /\ [r EXCEPT !.blocked = TRUE] \in ProcSet /\ Rests([r EXCEPT !.blocked = TRUE], i, t, TRUE)
  BY DEF Rests, ProcSet

LEMMA NoOpSound ==
    ASSUME NEW p \in Proc, proc'[p] = NoOp
    PROVE  ProcSound(p)'
  BY NoOpIs DEF ProcSound, Role, Holds, Finds, Answered, Knows, At, Op, Saving, Opens

LEMMA DoneSound ==
    ASSUME proc \in [Proc -> ProcSet], NEW p \in Proc, NEW r \in ProcSet, NEW i, NEW t, NEW b,
           Rests(r, i, t, b), Done(p, r), vault' # Nothing /\ ~unmoved' /\ ~b => vault'.ver = i
    PROVE  Moved(p) /\ ProcSound(p)'
  <1>3. CASE p \notin Full
    <2>1. proc' = [proc EXCEPT ![p] = NoOp]
      BY <1>3 DEF Done
    <2> QED
      BY <2>1, VaultBasics, MovesOne, NoOpSound
  <1>4. CASE p \in Full
    <2>1. proc' = [proc EXCEPT ![p] = r]
      BY <1>4 DEF Done
    <2>2. Moved(p) /\ proc'[p] = r
      BY <2>1, MovesOne
    <2> QED
      BY <1>4, <2>2 DEF Rests, ProcSound, Role, Holds, Finds, Answered, Knows, At, Op, Saving, Opens
  <1> QED
    BY <1>3, <1>4

(* What a process knows stays true while another one acts: keys are added  *)
(* only, and next to the process that stays the others only put the vault  *)
(* aside.                                                                  *)
LEMMA OthersStay ==
    ASSUME VaultInv, NEW q \in Proc, proc'[q] = proc[q], UNCHANGED has_store,
           HeldKeys \subseteq HeldKeys',
           q \in Full \/ has_store => At(q, "off") \/
               (~has_store /\ UNCHANGED keyVars /\ vault' \in {vault, Nothing} /\ (unmoved => unmoved'))
    PROVE  ProcSound(q)'
  <1>1. Role(q) /\ Holds(q) /\ Finds(q) /\ Answered(q) /\ Knows(q)
    BY DEF VaultInv, ProcSound
  <1>2. Role(q)'
    BY <1>1 DEF Role, At, Op, Saving
  <1>3. Holds(q)'
    BY <1>1 DEF Holds, At, Op, Opens, Readable
  <1>4. CASE At(q, "off")
    BY <1>1, <1>4, NoOpSound DEF Role
  <1>5. CASE ~At(q, "off") /\ (q \in Full \/ has_store)
    <2>1. ~has_store /\ UNCHANGED keyVars /\ vault' \in {vault, Nothing} /\ (unmoved => unmoved')
      BY <1>5
    <2>2. Finds(q)'
      BY <1>1, <2>1 DEF Finds, At, keyVars
    <2>3. Answered(q)'
      BY <1>1, <2>1 DEF Answered, At, Op
    <2>4. Knows(q)'
      BY <1>1, <2>1 DEF Knows, At, Op
    <2> QED
      BY <1>2, <1>3, <2>2, <2>3, <2>4 DEF ProcSound
  <1>6. CASE q \notin Full /\ ~has_store
    <2>1. proc[q].step \in {"off", "file", "open", "quarantine"}
      BY <1>1, <1>6 DEF Role
    <2>2. Finds(q)' /\ Answered(q)' /\ Knows(q)'
      BY <1>1, <1>6, <2>1 DEF Finds, Answered, Knows, At, Op
    <2> QED
      BY <1>2, <1>3, <2>2 DEF ProcSound
  <1> QED
    BY <1>4, <1>5, <1>6

LEMMA StepSound ==
    ASSUME VaultInv, NEW p \in Proc, Moved(p), ProcSound(p)', FilesTyped', KeysSound', FilesSound', ListsSound',
           HeldKeys \subseteq HeldKeys', UNCHANGED has_store,
           p \in Full \/ (~has_store /\ UNCHANGED keyVars /\ vault' \in {vault, Nothing} /\ (unmoved => unmoved'))
    PROVE  VaultInv'
  <1>1. VaultTyped'
    BY DEF VaultTyped, FilesTyped, Moved
  <1>2. ASSUME NEW q \in Proc, q # p PROVE ProcSound(q)'
    <2>1. proc'[q] = proc[q]
      BY <1>2 DEF Moved
    <2>2. Role(q)
      BY DEF VaultInv, ProcSound
    <2>3. q \in Full \/ has_store => At(q, "off") \/
               (~has_store /\ UNCHANGED keyVars /\ vault' \in {vault, Nothing} /\ (unmoved => unmoved'))
      <3>1. CASE p \in Full
        BY <1>2, <2>2, <3>1, VaultBasics DEF Role
      <3> QED
        BY <3>1
    <2> QED
      BY <2>1, <2>3, OthersStay
  <1> QED
    BY <1>1, <1>2 DEF VaultInv

(* A step that touches no file. *)
LEMMA LocalStep ==
    ASSUME VaultInv, NEW p \in Proc, Moved(p), ProcSound(p)', UNCHANGED <<has_store, keyVars, files, ghosts>>,
           p \in Full \/ ~has_store, keys' \in Nat /\ saves' \in Nat /\ starts' \in Nat
    PROVE  VaultInv'
  <1>1. FilesTyped'
    BY DEF VaultInv, VaultTyped, FilesTyped, keyVars, files, ghosts
  <1>2. HeldKeys' = HeldKeys /\ KeysSound'
    BY DEF HeldKeys, KeysSound, VaultInv, keyVars
  <1>3. FilesSound' /\ ListsSound'
    BY <1>2 DEF VaultInv, FilesSound, ListsSound, Opens, Readable, files, ghosts
  <1>4. vault' \in {vault, Nothing} /\ (unmoved => unmoved')
    BY DEF files, ghosts
  <1> QED
    BY <1>1, <1>2, <1>3, <1>4, StepSound

LEMMA VaultFacts ==
    ASSUME VaultInv, NEW p \in Proc
    PROVE  /\ proc \in [Proc -> ProcSet] /\ FilesTyped /\ KeysSound /\ FilesSound /\ ListsSound
           /\ Role(p) /\ Holds(p) /\ Finds(p) /\ Answered(p) /\ Knows(p)
           /\ proc[p].step \in VaultStage /\ proc[p].op \in {"none", "load", "save", "read tree", "save tree"}
           /\ proc[p].fileKey \in Nat /\ proc[p].found \in Nat /\ proc[p].seen \in Sealed
           /\ proc[p].sites \in Nat /\ proc[p].next \in Nat /\ proc[p].tree \in {"unread", "ready", "read only"}
           /\ proc[p].blocked \in BOOLEAN /\ proc[p].deaf \in SUBSET {"file", "store"}
  <1>1. proc \in [Proc -> ProcSet] /\ FilesTyped
    BY DEF VaultInv, VaultTyped, FilesTyped
  <1>2. proc[p] \in ProcSet
    BY <1>1
  <1> QED
    BY <1>1, <1>2 DEF VaultInv, ProcSound, ProcSet

LEMMA InitVault == VaultInit => VaultInv
  <1> SUFFICES ASSUME VaultInit PROVE VaultInv
    OBVIOUS
  <1>1. VaultTyped
    BY VaultBasics DEF VaultInit, VaultTyped, NoKeyFile
  <1>2. KeysSound /\ FilesSound /\ ListsSound
    BY DEF VaultInit, KeysSound, FilesSound, ListsSound, Opens, NoKeyFile
  <1>3. ASSUME NEW p \in Proc PROVE ProcSound(p)
    <2>1. proc[p] = NoOp
      BY DEF VaultInit
    <2> QED
      BY <2>1, NoOpIs DEF ProcSound, Role, Holds, Finds, Answered, Knows, At, Op, Saving, Opens
  <1> QED
    BY <1>1, <1>2, <1>3 DEF VaultInv

LEMMA StartKeeps ==
    ASSUME VaultInv, NEW p \in Proc, Start(p)
    PROVE  VaultInv'
  <1>0. proc[p] \in ProcSet /\ proc[p] = NoOp /\ Role(p) /\ starts' \in Nat /\ keys' \in Nat /\ saves' \in Nat
    <2>1. proc[p] \in ProcSet /\ Role(p) /\ starts \in Nat /\ keys \in Nat /\ saves \in Nat
      BY VaultFacts DEF FilesTyped
    <2> QED
      BY <2>1 DEF Start, Role, At
  <1>1. Moved(p) /\ ProcSound(p)'
    <2>1. CASE vault = Nothing /\ Done(p, Idle(p))
      <3>1. vault' = Nothing
        BY <2>1 DEF Start, files
      <3> QED
        BY <2>1, <3>1, <1>0, IdleIs, DoneSound, VaultFacts
    <2>2. ASSUME exists(vault), proc' = [proc EXCEPT ![p].step = "file", ![p].op = "load", ![p].seen = vault]
          PROVE  Moved(p) /\ ProcSound(p)'
      <3> DEFINE r == [NoOp EXCEPT !.step = "file", !.op = "load", !.seen = vault]
      <3>1. r \in ProcSet
        BY VaultBasics, VaultFacts DEF ProcSet, VaultStage, FilesTyped
      <3>2. proc' = [proc EXCEPT ![p] = r]
        BY <1>0, <2>2
      <3>3. r.step = "file" /\ r.op = "load" /\ r.found = 0 /\ r.seen = vault /\ r.deaf = {}
        BY DEF NoOp
      <3> HIDE DEF r
      <3>4. Moved(p) /\ proc'[p] = r
        BY <3>1, <3>2, MovesOne, VaultFacts
      <3>5. Opens(vault)' /\ vault' = vault /\ vault # Nothing /\ (p \in Full \/ ~has_store') /\ ~At(p, "off")'
        BY <2>2, <3>3, <3>4, VaultFacts
           DEF FilesSound, Opens, Readable, HeldKeys, keyVars, files, Start, At, exists
      <3> QED
        BY <3>3, <3>4, <3>5 DEF ProcSound, Role, Holds, Finds, Answered, Knows, At, Op, Saving
    <2>3. ASSUME proc' = [proc EXCEPT ![p].step = "quarantine", ![p].deaf = {"file"}]
          PROVE  Moved(p) /\ ProcSound(p)'
      <3> DEFINE r == [NoOp EXCEPT !.step = "quarantine", !.deaf = {"file"}]
      <3>1. r \in ProcSet
        BY VaultBasics, VaultFacts DEF ProcSet, VaultStage, FilesTyped
      <3>2. proc' = [proc EXCEPT ![p] = r]
        BY <1>0, <2>3
      <3>3. r.step = "quarantine" /\ r.op = "none" /\ r.found = 0 /\ r.seen = Nothing /\ r.deaf = {"file"}
        BY DEF NoOp
      <3> HIDE DEF r
      <3>4. Moved(p) /\ proc'[p] = r
        BY <3>1, <3>2, MovesOne, VaultFacts
      <3>5. p \in Full \/ ~has_store'
        BY DEF Start
      <3> QED
        BY <3>3, <3>4, <3>5 DEF ProcSound, Role, Holds, Finds, Answered, Knows, At, Op, Saving
    <2> QED
      BY <2>1, <2>2, <2>3 DEF Start
  <1>2. UNCHANGED <<has_store, keyVars, files, ghosts>> /\ (p \in Full \/ ~has_store)
    BY DEF Start
  <1> QED
    BY <1>0, <1>1, <1>2, LocalStep

LEMMA SaveSitesKeeps ==
    ASSUME VaultInv, NEW p \in Proc, SaveSites(p)
    PROVE  VaultInv'
  <1>1. proc[p] \in ProcSet /\ Role(p) /\ Holds(p) /\ Knows(p) /\ saves \in Nat /\ starts' \in Nat /\ keys' \in Nat
    BY VaultFacts DEF SaveSites, FilesTyped
  <1> DEFINE r == [proc[p] EXCEPT !.step = "file", !.op = "save", !.next = saves + 1]
  <1>2. r \in ProcSet /\ proc' = [proc EXCEPT ![p] = r]
    <2>1. saves + 1 \in Nat
      BY <1>1
    <2>2. r \in ProcSet
      BY <1>1, <2>1 DEF ProcSet, VaultStage
    <2> QED
      BY <2>2 DEF SaveSites
  <1>3. r.step = "file" /\ r.op = "save" /\ r.next = saves + 1 /\ r.found = proc[p].found
        /\ r.seen = proc[p].seen /\ r.sites = proc[p].sites /\ r.blocked = proc[p].blocked
    BY <1>1 DEF ProcSet
  <1> HIDE DEF r
  <1>4. Moved(p) /\ proc'[p] = r
    BY <1>2, MovesOne, VaultFacts
  <1>5. proc'[p].step = "file" /\ proc'[p].op = "save" /\ proc'[p].next # 0 /\ proc'[p].found = proc[p].found
        /\ ~proc'[p].blocked
    BY <1>1, <1>3, <1>4 DEF SaveSites
  <1>6. p \in Full /\ proc[p].step = "idle" /\ UNCHANGED <<has_store, keyVars, files, ghosts>> /\ saves' \in Nat
    BY <1>1 DEF SaveSites, Role, At
  <1>7. Role(p)'
    BY <1>5, <1>6 DEF Role, At, Op, Saving
  <1>8. Holds(p)'
    BY <1>1, <1>3, <1>4, <1>5, <1>6 DEF Holds, At, Op, Opens, HeldKeys, keyVars
  <1>9. Finds(p)' /\ Answered(p)'
    BY <1>5 DEF Finds, Answered, At, Op
  <1>10. Knows(p)'
    BY <1>1, <1>3, <1>4, <1>5, <1>6 DEF Knows, Role, SaveSites, At, Op, files, ghosts
  <1> QED
    BY <1>1, <1>4, <1>6, <1>7, <1>8, <1>9, <1>10, LocalStep DEF ProcSound

LEMMA LoadTreeKeeps ==
    ASSUME VaultInv, NEW p \in Proc, LoadTree(p)
    PROVE  VaultInv'
  <1>1. proc[p] \in ProcSet /\ Role(p) /\ Holds(p) /\ Knows(p) /\ layout \in Sealed
        /\ saves' \in Nat /\ starts' \in Nat /\ keys' \in Nat
    BY VaultFacts DEF LoadTree, FilesTyped, counters
  <1>2. p \in Full /\ proc[p].step = "idle" /\ proc[p].op = "none" /\ UNCHANGED <<has_store, keyVars, files, ghosts>>
    BY <1>1 DEF LoadTree, Role, At, Op
  <1>3. CASE exists(layout)
    <2> DEFINE r == [proc[p] EXCEPT !.step = "file", !.op = "read tree", !.seen = layout]
    <2>1. r \in ProcSet /\ proc' = [proc EXCEPT ![p] = r]
      BY <1>1, <1>3 DEF LoadTree, ProcSet, VaultStage
    <2>2. r.step = "file" /\ r.op = "read tree" /\ r.found = proc[p].found
          /\ r.sites = proc[p].sites /\ r.blocked = proc[p].blocked
      BY <1>1 DEF ProcSet
    <2> HIDE DEF r
    <2>3. Moved(p) /\ proc'[p] = r
      BY <2>1, MovesOne, VaultFacts
    <2>4. ProcSound(p)'
      BY <1>1, <1>2, <2>2, <2>3
         DEF ProcSound, Role, Holds, Finds, Answered, Knows, At, Op, Saving, HeldKeys, keyVars, files, ghosts
    <2> QED
      BY <1>1, <1>2, <2>3, <2>4, LocalStep
  <1>4. CASE ~exists(layout)
    <2> DEFINE r == [proc[p] EXCEPT !.tree = "ready"]
    <2>1. r \in ProcSet /\ proc' = [proc EXCEPT ![p] = r]
      BY <1>1, <1>4 DEF LoadTree, ProcSet
    <2>2. r.step = "idle" /\ r.op = "none" /\ r.found = proc[p].found
          /\ r.sites = proc[p].sites /\ r.blocked = proc[p].blocked /\ r.seen = proc[p].seen
      BY <1>1, <1>2 DEF ProcSet
    <2> HIDE DEF r
    <2>3. Moved(p) /\ proc'[p] = r
      BY <2>1, MovesOne, VaultFacts
    <2>4. ProcSound(p)'
      BY <1>1, <1>2, <2>2, <2>3
         DEF ProcSound, Role, Holds, Finds, Answered, Knows, At, Op, Saving, HeldKeys, keyVars, files, ghosts
    <2> QED
      BY <1>1, <1>2, <2>3, <2>4, LocalStep
  <1> QED
    BY <1>3, <1>4

LEMMA SaveTreeKeeps ==
    ASSUME VaultInv, NEW p \in Proc, SaveTree(p)
    PROVE  VaultInv'
  <1>1. proc[p] \in ProcSet /\ Role(p) /\ Holds(p) /\ Knows(p) /\ saves' \in Nat /\ starts' \in Nat /\ keys' \in Nat
    BY VaultFacts DEF SaveTree, FilesTyped, counters
  <1> DEFINE r == [proc[p] EXCEPT !.step = "file", !.op = "save tree"]
  <1>2. r \in ProcSet /\ proc' = [proc EXCEPT ![p] = r]
    BY <1>1 DEF SaveTree, ProcSet, VaultStage
  <1>3. r.step = "file" /\ r.op = "save tree" /\ r.found = proc[p].found
        /\ r.sites = proc[p].sites /\ r.blocked = proc[p].blocked
    BY <1>1 DEF ProcSet
  <1> HIDE DEF r
  <1>4. Moved(p) /\ proc'[p] = r
    BY <1>2, MovesOne, VaultFacts
  <1>6. p \in Full /\ proc[p].step = "idle" /\ UNCHANGED <<has_store, keyVars, files, ghosts>>
    BY <1>1 DEF SaveTree, Role, At
  <1>5. ~proc[p].blocked
    BY DEF SaveTree
  <1>7. ProcSound(p)'
    BY <1>1, <1>3, <1>4, <1>5, <1>6
       DEF ProcSound, Role, Holds, Finds, Answered, Knows, At, Op, Saving, Opens, HeldKeys, keyVars, files, ghosts
  <1> QED
    BY <1>1, <1>4, <1>6, <1>7, LocalStep

LEMMA DieKeeps ==
    ASSUME VaultInv, NEW p \in Proc, Die(p)
    PROVE  VaultInv'
  <1>1. Moved(p) /\ ProcSound(p)'
    BY VaultBasics, VaultFacts, MovesOne, NoOpSound DEF Die
  <1>2. UNCHANGED <<has_store, keyVars, files, ghosts>> /\ saves' \in Nat /\ starts' \in Nat /\ keys' \in Nat
    BY VaultFacts DEF Die, FilesTyped, counters
  <1>3. p \in Full \/ ~has_store
    BY VaultFacts DEF Role, Die
  <1> QED
    BY <1>1, <1>2, <1>3, LocalStep

(* A key that was found is kept, and opens what this operation has read    *)
(* unless something went unread.                                           *)
LEMMA FoundSound ==
    ASSUME VaultInv, NEW p \in Proc, NEW k \in Nat, Found(p, k) \/ FoundDeaf(p, k),
           k # 0, k \in HeldKeys', HeldKeys \subseteq HeldKeys',
           UNCHANGED <<has_store, vault, unmoved>>,
           proc[p].step \in {"file", "store", "migrate", "verify", "drop file", "mint", "mint file", "fill"},
           ~FoundDeaf(p, k) /\ Op(p) = "load" => proc[p].seen.key = k,
           ~FoundDeaf(p, k) /\ Op(p) = "save" /\ vault # Nothing => vault.key = k
    PROVE  Moved(p) /\ ProcSound(p)'
  <1>1. Role(p) /\ Holds(p) /\ Answered(p) /\ Knows(p) /\ proc[p].deaf \in SUBSET {"file", "store"}
        /\ proc[p].op \in {"none", "load", "save", "read tree", "save tree"}
    BY VaultFacts
  <1>2. PICK d \in SUBSET {"file", "store"} :
           /\ Moved(p)
           /\ Fields(p, Goes(p), proc[p].op, proc[p].fileKey, k, proc[p].seen, proc[p].sites,
                     proc[p].next, proc[p].tree, proc[p].blocked, d)
           /\ d = (IF FoundDeaf(p, k) THEN proc[p].deaf \cup {"store"} ELSE proc[p].deaf)
    BY FoundIs, VaultFacts
  <1>3. d = {} => ~FoundDeaf(p, k)
    BY <1>2
  <1>4. proc'[p].step = Goes(p) /\ proc'[p].op = proc[p].op /\ proc'[p].found = k /\ proc'[p].deaf = d
        /\ proc'[p].seen = proc[p].seen /\ proc'[p].sites = proc[p].sites /\ proc'[p].next = proc[p].next
        /\ proc'[p].blocked = proc[p].blocked
    BY <1>2 DEF Fields
  <1>5. Role(p)'
    BY <1>1, <1>4 DEF Role, At, Op, Saving, Goes
  <1>6. Holds(p)'
    BY <1>1, <1>4 DEF Holds, At, Op, Opens, Readable, Goes, Saving
  <1>7. Finds(p)'
    BY <1>4 DEF Finds, At, Goes
  <1>8. Answered(p)'
    BY <1>1, <1>3, <1>4 DEF Answered, At, Op, Goes, Saving
  <1>9. Knows(p)'
    BY <1>1, <1>4 DEF Knows, At, Op, Goes
  <1> QED
    BY <1>2, <1>5, <1>6, <1>7, <1>8, <1>9 DEF ProcSound

(* Any other step of the operation p is in. *)
LEMMA GoSound ==
    ASSUME VaultInv, NEW p \in Proc, NEW s \in VaultStage, Go(p, s), HeldKeys \subseteq HeldKeys',
           UNCHANGED <<has_store, vault, unmoved>>, proc[p].step \notin {"off", "idle", "quarantine"},
           s \in {"migrate", "verify", "drop file", "mint", "mint file", "fill", "quarantine", "tree aside"},
           p \notin Full => s = "quarantine",
           s = "quarantine" => Op(p) = "load" /\ proc[p].deaf # {},
           s = "tree aside" => Op(p) = "read tree",
           s \in {"mint", "mint file", "fill"} => Saving(p) /\ vault = Nothing,
           Finds(p)'
    PROVE  Moved(p) /\ ProcSound(p)'
  <1>1. Role(p) /\ Holds(p) /\ Answered(p) /\ Knows(p)
    BY VaultFacts
  <1>2. Moved(p) /\ Fields(p, s, proc[p].op, proc[p].fileKey, proc[p].found, proc[p].seen, proc[p].sites,
                           proc[p].next, proc[p].tree, proc[p].blocked, proc[p].deaf)
    BY GoIs, VaultFacts
  <1>3. proc'[p].step = s /\ proc'[p].op = proc[p].op /\ proc'[p].found = proc[p].found
        /\ proc'[p].deaf = proc[p].deaf /\ proc'[p].seen = proc[p].seen /\ proc'[p].sites = proc[p].sites
        /\ proc'[p].next = proc[p].next /\ proc'[p].blocked = proc[p].blocked
    BY <1>2 DEF Fields
  <1>4. Role(p)'
    BY <1>1, <1>3 DEF Role, Holds, At, Op, Saving
  <1>5. Holds(p)'
    BY <1>1, <1>3 DEF Holds, At, Op, Opens, Readable
  <1>6. Answered(p)'
    BY <1>1, <1>3 DEF Answered, At, Op
  <1>7. Knows(p)'
    BY <1>1, <1>3 DEF Knows, At, Op
  <1> QED
    BY <1>2, <1>4, <1>5, <1>6, <1>7 DEF ProcSound

LEMMA NotFoundKeeps ==
    ASSUME VaultInv, NEW p \in Proc, NEW error \in {"missing", "unavailable"}, NotFound(p, error),
           At(p, "file") \/ At(p, "store"), keyfile.key = 0, error = "missing" => keychain = 0,
           UNCHANGED <<has_store, keyVars, files, counters, ghosts>>
    PROVE  VaultInv'
  <1>1. Role(p) /\ Holds(p) /\ Finds(p) /\ Knows(p) /\ KeysSound /\ FilesSound /\ proc[p] \in ProcSet
        /\ keys' \in Nat /\ saves' \in Nat /\ starts' \in Nat
    BY VaultFacts DEF FilesTyped, counters
  <1>2. HeldKeys' = HeldKeys /\ vault' = vault /\ unmoved' = unmoved /\ keyfile' = keyfile /\ keychain' = keychain
        /\ has_store' = has_store /\ UNCHANGED <<has_store, keyVars, files, ghosts>>
    BY DEF HeldKeys, keyVars, files, ghosts
  <1>3. Op(p) \in {"load", "save", "read tree", "save tree"} /\ (p \in Full \/ ~has_store)
        /\ (p \notin Full => Op(p) = "load") /\ proc[p].step \in {"file", "store"}
    BY <1>1, VaultFacts DEF Role, At, Op
  <1>4. error = "missing" => HeldKeys = {}
    BY DEF HeldKeys
  <1>5. error = "missing" => vault = Nothing
    BY <1>1, <1>4 DEF FilesSound, Opens, Readable
  <1>6. error = "missing" => Op(p) # "load"
    BY <1>1, <1>4 DEF Holds, Opens, Readable
  <1> DEFINE r == [Idle(p) EXCEPT !.tree = "read only"]
             b == [r EXCEPT !.blocked = TRUE]
  <1>7. r \in ProcSet /\ Rests(r, proc[p].sites, "read only", proc[p].blocked)
        /\ b \in ProcSet /\ Rests(b, proc[p].sites, "read only", TRUE)
    <2>1. Idle(p) \in ProcSet /\ Rests(Idle(p), proc[p].sites, proc[p].tree, proc[p].blocked) /\ proc[p].sites \in Nat
      BY <1>1, IdleIs, VaultFacts
    <2>2. r \in ProcSet /\ Rests(r, proc[p].sites, "read only", proc[p].blocked)
      BY <2>1, RestsWith
    <2> HIDE DEF r
    <2> QED
      BY <2>1, <2>2, RestsWith
  <1>8. \/ Op(p) = "load" /\ Done(p, b)
        \/ Op(p) = "read tree" /\ Done(p, r)
        \/ Op(p) = "read tree" /\ error = "missing" /\ Go(p, "tree aside")
        \/ Saving(p) /\ Done(p, Idle(p))
        \/ Saving(p) /\ vault = Nothing /\ error = "missing" /\ has_store /\ Go(p, "mint")
        \/ Saving(p) /\ vault = Nothing /\ Go(p, "mint file")
    BY <1>3, <1>6 DEF NotFound, Saving, exists
  <1>9. Moved(p) /\ ProcSound(p)'
    <2> HIDE DEF r, b
    <2>0. vault' # Nothing /\ ~unmoved' /\ ~proc[p].blocked /\ Op(p) # "load" => vault'.ver = proc[p].sites
      BY <1>1, <1>2, <1>3 DEF Knows, Op
    <2>1. CASE Op(p) = "load" /\ Done(p, b)
      BY <2>1, <1>7, DoneSound, VaultFacts
    <2>2. CASE Op(p) = "read tree" /\ Done(p, r)
      BY <2>0, <2>2, <1>7, DoneSound, VaultFacts
    <2>3. CASE Op(p) = "read tree" /\ error = "missing" /\ Go(p, "tree aside")
      <3>1. Finds(p)'
        BY <2>3, GoIs, VaultFacts DEF Finds, Fields, At, VaultStage
      <3> QED
        BY <2>3, <3>1, <1>2, <1>3, GoSound DEF VaultStage
    <2>4. CASE Saving(p) /\ Done(p, Idle(p))
      BY <2>0, <2>4, <1>1, IdleIs, DoneSound, VaultFacts DEF Saving
    <2>5. CASE Saving(p) /\ vault = Nothing /\ error = "missing" /\ has_store /\ Go(p, "mint")
      <3>1. keyfile.is # "filled"
        BY <1>1 DEF KeysSound
      <3>4. proc'[p].step = "mint"
        BY <2>5, GoIs, VaultFacts DEF Fields, VaultStage
      <3>2. Finds(p)'
        BY <2>5, <3>1, <3>4, <1>2 DEF Finds, At
      <3>3. p \in Full
        BY <1>3, <2>5 DEF Saving
      <3> QED
        BY <2>5, <3>2, <3>3, <1>2, <1>3, GoSound DEF VaultStage
    <2>6. CASE Saving(p) /\ vault = Nothing /\ Go(p, "mint file")
      <3>1. keyfile.is # "filled"
        BY <1>1 DEF KeysSound
      <3>4. proc'[p].step = "mint file"
        BY <2>6, GoIs, VaultFacts DEF Fields, VaultStage
      <3>2. Finds(p)'
        BY <2>6, <3>1, <3>4, <1>2 DEF Finds, At
      <3>3. p \in Full
        BY <1>3, <2>6 DEF Saving
      <3> QED
        BY <2>6, <3>2, <3>3, <1>2, <1>3, GoSound DEF VaultStage
    <2> QED
      BY <1>8, <2>1, <2>2, <2>3, <2>4, <2>5, <2>6
  <1> QED
    BY <1>1, <1>2, <1>3, <1>9, LocalStep

LEMMA ReadKeyFileKeeps ==
    ASSUME VaultInv, NEW p \in Proc, ReadKeyFile(p)
    PROVE  VaultInv'
  <1>1. Role(p) /\ Holds(p) /\ Finds(p) /\ Knows(p) /\ Answered(p) /\ KeysSound /\ FilesSound /\ proc[p] \in ProcSet
        /\ keys' \in Nat /\ saves' \in Nat /\ starts' \in Nat /\ keyfile.key \in Nat
    BY VaultFacts DEF FilesTyped, counters, ReadKeyFile
  <1>2. HeldKeys' = HeldKeys /\ vault' = vault /\ unmoved' = unmoved /\ keyfile' = keyfile /\ keychain' = keychain
        /\ has_store' = has_store /\ UNCHANGED <<has_store, keyVars, files, counters, ghosts>>
    BY DEF HeldKeys, keyVars, files, ghosts, ReadKeyFile
  <1>3. Op(p) \in {"load", "save", "read tree", "save tree"} /\ (p \in Full \/ ~has_store) /\ proc[p].step = "file"
    BY <1>1, VaultFacts DEF Role, At, Op, ReadKeyFile
  <1> DEFINE k == IF keyfile.is = "filled" THEN keyfile.key ELSE 0
  <1>4. k = keyfile.key
    BY <1>1 DEF KeysSound
  <1>5. \/ has_store /\ proc' = [proc EXCEPT ![p].step = "store", ![p].fileKey = k]
        \/ ~has_store /\ k # 0 /\ Found(p, k)
        \/ ~has_store /\ k = 0 /\ NotFound(p, "missing")
    BY DEF ReadKeyFile
  <1> HIDE DEF k
  <1>6. CASE has_store /\ proc' = [proc EXCEPT ![p].step = "store", ![p].fileKey = k]
    <2> DEFINE r == [proc[p] EXCEPT !.step = "store", !.fileKey = k]
    <2>1. r \in ProcSet /\ proc' = [proc EXCEPT ![p] = r]
      BY <1>1, <1>4, <1>6 DEF ProcSet, VaultStage
    <2>2. r.step = "store" /\ r.op = proc[p].op /\ r.fileKey = k /\ r.found = proc[p].found /\ r.seen = proc[p].seen
          /\ r.sites = proc[p].sites /\ r.next = proc[p].next /\ r.blocked = proc[p].blocked
      BY <1>1 DEF ProcSet
    <2> HIDE DEF r
    <2>3. Moved(p) /\ proc'[p] = r
      BY <2>1, MovesOne, VaultFacts
    <2>4. Role(p)'
      BY <1>1, <1>2, <1>3, <1>6, <2>2, <2>3 DEF Role, At, Op, Saving
    <2>5. Holds(p)'
      BY <1>1, <1>2, <1>3, <2>2, <2>3 DEF Holds, At, Op, Opens, Readable
    <2>6. Finds(p)' /\ Answered(p)' /\ Knows(p)'
      BY <1>1, <1>2, <1>3, <1>4, <1>6, <2>2, <2>3 DEF Finds, Answered, Knows, At, Op
    <2> QED
      BY <1>1, <1>2, <1>3, <2>3, <2>4, <2>5, <2>6, LocalStep DEF ProcSound
  <1>7. CASE ~has_store /\ k # 0 /\ Found(p, k)
    <2>1. HeldKeys = {k}
      BY <1>1, <1>4, <1>7 DEF HeldKeys, KeysSound
    <2>2. Op(p) = "load" => proc[p].seen.key = k
      BY <1>1, <2>1 DEF Holds, Opens, Readable
    <2>3. vault # Nothing => vault.key = k
      BY <1>1, <2>1 DEF FilesSound, Opens, Readable
    <2>4. Moved(p) /\ ProcSound(p)'
      BY <1>1, <1>2, <1>3, <1>4, <1>7, <2>1, <2>2, <2>3, FoundSound
    <2> QED
      BY <1>1, <1>2, <1>3, <2>4, LocalStep
  <1>8. CASE ~has_store /\ k = 0 /\ NotFound(p, "missing")
    BY <1>1, <1>2, <1>3, <1>4, <1>8, NotFoundKeeps DEF KeysSound, At
  <1> QED
    BY <1>5, <1>6, <1>7, <1>8

LEMMA AskStoreKeeps ==
    ASSUME VaultInv, NEW p \in Proc, AskStore(p)
    PROVE  VaultInv'
  <1>1. Role(p) /\ Holds(p) /\ Finds(p) /\ Knows(p) /\ Answered(p) /\ KeysSound /\ FilesSound /\ proc[p] \in ProcSet
        /\ keys' \in Nat /\ saves' \in Nat /\ starts' \in Nat /\ keyfile.key \in Nat /\ keychain \in Nat
    BY VaultFacts DEF FilesTyped, counters, AskStore
  <1>2. HeldKeys' = HeldKeys /\ vault' = vault /\ unmoved' = unmoved /\ keyfile' = keyfile /\ keychain' = keychain
        /\ has_store' = has_store /\ UNCHANGED <<has_store, keyVars, files, counters, ghosts>>
    BY DEF HeldKeys, keyVars, files, ghosts, AskStore
  <1>3. proc[p].step = "store" /\ has_store /\ proc[p].fileKey = keyfile.key /\ p \in Full
    BY <1>1 DEF AskStore, At, Finds, Role
  <1>4. Op(p) \in {"load", "save", "read tree", "save tree"}
    BY <1>1, <1>3, VaultFacts DEF Role, At, Op
  <1>5. (Op(p) = "load" => proc[p].seen.key \in HeldKeys /\ vault = proc[p].seen)
        /\ (vault # Nothing => vault.key \in HeldKeys)
    BY <1>1, <1>3 DEF Holds, FilesSound, Opens, Readable, Answered
  <1> DEFINE file == keyfile.key
  <1>6. \/ file # 0 /\ FoundDeaf(p, file)
        \/ file = 0 /\ NotFound(p, "unavailable")
        \/ keychain = 0 /\ file = 0 /\ NotFound(p, "missing")
        \/ keychain = 0 /\ file # 0 /\ migrate(p) /\ Go(p, "migrate")
        \/ keychain = 0 /\ file # 0 /\ Found(p, file)
        \/ keychain # 0 /\ file = 0 /\ Found(p, keychain)
        \/ keychain # 0 /\ file = keychain /\ migrate(p) /\ Go(p, "drop file")
        \/ keychain # 0 /\ file = keychain /\ Found(p, file)
        \/ keychain # 0 /\ file # 0 /\ file # keychain /\ Found(p, Choose(file))
    BY <1>3 DEF AskStore
  <1>7. HeldKeys = {keychain, file} \ {0}
    BY DEF HeldKeys
  <1> HIDE DEF file
  <1>8. file = keyfile.key /\ file \in Nat
    BY <1>1 DEF file
  <1>9. ASSUME NEW k \in Nat, Found(p, k), k # 0, HeldKeys = {k} \/ (k \in HeldKeys /\ k = Choose(file))
        PROVE  VaultInv'
    <2>1. (Op(p) = "load" => proc[p].seen.key = k) /\ (vault # Nothing => vault.key = k)
      <3>1. CASE HeldKeys = {k}
        BY <1>5, <3>1
      <3>2. CASE k \in HeldKeys /\ k = Choose(file)
        <4>1. vault.key \in HeldKeys => k = vault.key
          BY <1>7, <3>2 DEF Choose
        <4>2. Op(p) = "load" => proc[p].seen.key = k
          BY <1>5, <4>1
        <4> QED
          BY <1>5, <4>1, <4>2
      <3> QED
        BY <1>9, <3>1, <3>2
    <2>2. Moved(p) /\ ProcSound(p)'
      BY <1>2, <1>3, <1>9, <2>1, FoundSound
    <2> QED
      BY <1>1, <1>2, <1>3, <2>2, LocalStep
  <1>10. CASE file # 0 /\ FoundDeaf(p, file)
    <2>1. Moved(p) /\ ProcSound(p)'
      BY <1>2, <1>3, <1>7, <1>8, <1>10, FoundSound
    <2> QED
      BY <1>1, <1>2, <1>3, <2>1, LocalStep
  <1>11. CASE keychain = 0 /\ file # 0 /\ migrate(p) /\ Go(p, "migrate")
    <2>1. proc'[p].step = "migrate" /\ proc'[p].fileKey = proc[p].fileKey
      BY <1>11, GoIs, VaultFacts DEF Fields, VaultStage
    <2>2. Finds(p)'
      BY <1>2, <1>3, <1>8, <1>11, <2>1 DEF Finds, At
    <2>3. Moved(p) /\ ProcSound(p)'
      BY <1>2, <1>3, <1>11, <2>2, GoSound DEF VaultStage
    <2> QED
      BY <1>1, <1>2, <1>3, <2>3, LocalStep
  <1>12. CASE keychain # 0 /\ file = keychain /\ migrate(p) /\ Go(p, "drop file")
    <2>1. proc'[p].step = "drop file" /\ proc'[p].fileKey = proc[p].fileKey
      BY <1>12, GoIs, VaultFacts DEF Fields, VaultStage
    <2>4. keychain' = keyfile'.key /\ keyfile'.key # 0 /\ has_store' /\ proc'[p].fileKey = keyfile'.key
      <3>1. keychain' = keyfile'.key
        BY <1>2, <1>8, <1>12
      <3>2. keyfile'.key # 0
        BY <1>2, <1>8, <1>12
      <3>3. has_store'
        BY <1>2, <1>3
      <3>4. proc'[p].fileKey = keyfile'.key
        BY <1>2, <1>3, <2>1
      <3> QED BY <3>1, <3>2, <3>3, <3>4
    <2>2. Finds(p)'
      BY <2>1, <2>4 DEF Finds, At
    <2>3. Moved(p) /\ ProcSound(p)'
      BY <1>2, <1>3, <1>12, <2>2, GoSound DEF VaultStage
    <2> QED
      BY <1>1, <1>2, <1>3, <2>3, LocalStep
  <1>13. CASE file = 0 /\ NotFound(p, "unavailable")
    BY <1>2, <1>3, <1>8, <1>13, NotFoundKeeps DEF At
  <1>14. CASE keychain = 0 /\ file = 0 /\ NotFound(p, "missing")
    BY <1>2, <1>3, <1>8, <1>14, NotFoundKeeps DEF At
  <1>15. CASE keychain = 0 /\ file # 0 /\ Found(p, file)
    <2>1. HeldKeys = {file}
      BY <1>7, <1>15
    <2> QED
      BY <1>8, <1>9, <1>15, <2>1
  <1>16. CASE keychain # 0 /\ file = 0 /\ Found(p, keychain)
    <2>1. HeldKeys = {keychain}
      BY <1>7, <1>16
    <2> QED
      BY <1>1, <1>9, <1>16, <2>1
  <1>17. CASE keychain # 0 /\ file = keychain /\ Found(p, file)
    <2>1. HeldKeys = {file}
      BY <1>7, <1>17
    <2> QED
      BY <1>8, <1>9, <1>17, <2>1
  <1>18. CASE keychain # 0 /\ file # 0 /\ file # keychain /\ Found(p, Choose(file))
    <2>1. Choose(file) \in HeldKeys /\ Choose(file) \in Nat /\ Choose(file) # 0
      BY <1>1, <1>7, <1>8, <1>18 DEF Choose
    <2> QED
      BY <1>9, <1>18, <2>1
  <1> QED
    BY <1>6, <1>10, <1>11, <1>12, <1>13, <1>14, <1>15, <1>16, <1>17, <1>18

(* A step that finds, moves or makes a key; it is the process that stays. *)
LEMMA KeyStep ==
    ASSUME VaultInv, NEW p \in Proc, p \in Full, Moved(p), ProcSound(p)', UNCHANGED <<has_store, files, ghosts>>,
           keychain' \in Nat, keyfile' \in [is : {"absent", "blank", "filled"}, key : Nat, open : SUBSET Proc],
           keys' \in Nat /\ saves' = saves /\ starts' = starts, KeysSound', HeldKeys \subseteq HeldKeys'
    PROVE  VaultInv'
  <1>1. FilesTyped'
    BY VaultFacts DEF FilesTyped, files, ghosts
  <1>2. FilesSound' /\ ListsSound'
    BY VaultFacts DEF FilesSound, ListsSound, Opens, Readable, files, ghosts
  <1> QED
    BY <1>1, <1>2, StepSound

LEMMA MigrateKeeps ==
    ASSUME VaultInv, NEW p \in Proc, Migrate(p)
    PROVE  VaultInv'
  <1> DEFINE k == proc[p].fileKey
  <1>1. Role(p) /\ Holds(p) /\ Finds(p) /\ KeysSound /\ FilesSound /\ keychain \in Nat
        /\ keyfile \in [is : {"absent", "blank", "filled"}, key : Nat, open : SUBSET Proc]
        /\ keys' \in Nat /\ saves' = saves /\ starts' = starts /\ proc[p].fileKey \in Nat
    BY VaultFacts DEF FilesTyped, counters, Migrate
  <1>2. proc[p].step \in {"migrate", "verify"} /\ has_store /\ k = keyfile.key /\ k # 0 /\ p \in Full
        /\ (keychain = 0 \/ keychain = k)
    BY <1>1 DEF Migrate, At, Finds, Role
  <1>3. UNCHANGED <<has_store, files, ghosts>> /\ vault' = vault /\ unmoved' = unmoved /\ keyfile' = keyfile
        /\ has_store' = has_store
    BY DEF Migrate, files, ghosts
  <1> HIDE DEF k
  <1>4. HeldKeys = {k}
    BY <1>2 DEF HeldKeys
  <1>5. (Op(p) = "load" => proc[p].seen.key = k) /\ (vault # Nothing => vault.key = k)
    BY <1>1, <1>4 DEF Holds, FilesSound, Opens, Readable
  <1>6. \/ Found(p, k) /\ keychain' = keychain
        \/ Go(p, "verify") /\ keychain' = k
        \/ Go(p, "drop file") /\ keychain' = keychain /\ keychain = k
    BY <1>2 DEF Migrate, k
  <1>9. k \in Nat
    BY <1>1 DEF k
  <1>10. (keychain' = keychain \/ keychain' = k) /\ keychain' \in Nat
    BY <1>1, <1>6, <1>9
  <1>11. KeysSound'
    BY <1>1, <1>2, <1>3 DEF KeysSound
  <1>12. HeldKeys' = {k}
    BY <1>2, <1>3, <1>9, <1>10 DEF HeldKeys
  <1>7. HeldKeys' = {k} /\ keychain' \in Nat /\ KeysSound'
    BY <1>10, <1>11, <1>12
  <1>8. Moved(p) /\ ProcSound(p)'
    <2>1. CASE Found(p, k)
      <3>1. k \in Nat
        BY <1>1 DEF k
      <3> QED
        BY <1>2, <1>3, <1>4, <1>5, <1>7, <2>1, <3>1, FoundSound
    <2>2. ASSUME NEW s \in {"verify", "drop file"}, Go(p, s), keychain' = k
          PROVE  Moved(p) /\ ProcSound(p)'
      <3>1. proc'[p].step = s /\ proc'[p].fileKey = k
        BY <2>2, GoIs, VaultFacts DEF Fields, VaultStage, k
      <3>3. keychain' = keyfile'.key /\ keyfile'.key # 0 /\ has_store' /\ proc'[p].fileKey = keyfile'.key
        <4>1. keychain' = keyfile'.key
          BY <1>2, <1>3, <2>2
        <4>2. keyfile'.key # 0
          BY <1>2, <1>3
        <4>3. has_store'
          <5>1. has_store
            BY <1>2
          <5>2. has_store' = has_store
            BY <1>3
          <5> QED BY <5>1, <5>2
        <4>4. proc'[p].fileKey = keyfile'.key
          BY <1>2, <1>3, <3>1
        <4> QED BY <4>1, <4>2, <4>3, <4>4
      <3>2. Finds(p)'
        BY <3>1, <3>3 DEF Finds, At
      <3> QED
        BY <1>2, <1>3, <1>4, <1>7, <2>2, <3>2, GoSound DEF VaultStage
    <2> QED
      BY <1>6, <2>1, <2>2
  <1> QED
    BY <1>1, <1>2, <1>3, <1>4, <1>7, <1>8, KeyStep

LEMMA DropKeyFileKeeps ==
    ASSUME VaultInv, NEW p \in Proc, DropKeyFile(p)
    PROVE  VaultInv'
  <1> DEFINE k == proc[p].fileKey
  <1>1. Role(p) /\ Holds(p) /\ Finds(p) /\ KeysSound /\ FilesSound /\ keychain \in Nat
        /\ keyfile \in [is : {"absent", "blank", "filled"}, key : Nat, open : SUBSET Proc]
        /\ keys' \in Nat /\ saves' = saves /\ starts' = starts /\ k \in Nat
    BY VaultFacts DEF FilesTyped, counters, DropKeyFile
  <1>2. proc[p].step = "drop file" /\ has_store /\ k = keyfile.key /\ k # 0 /\ p \in Full /\ keychain = k
    BY <1>1 DEF DropKeyFile, At, Finds, Role
  <1>3. UNCHANGED <<has_store, files, ghosts>> /\ vault' = vault /\ unmoved' = unmoved /\ has_store' = has_store
        /\ keychain' = keychain /\ keyfile' \in {keyfile, NoKeyFile} /\ Found(p, k)
    BY DEF DropKeyFile, files, ghosts
  <1>4. NoKeyFile \in [is : {"absent", "blank", "filled"}, key : Nat, open : SUBSET Proc]
        /\ NoKeyFile.key = 0 /\ NoKeyFile.is = "absent"
    BY DEF NoKeyFile
  <1> HIDE DEF k
  <1>8. KeysSound'
    <2>1. has_store'
      <3>1. has_store
        BY <1>2
      <3>2. has_store' = has_store
        BY <1>3
      <3> QED BY <3>1, <3>2
    <2>2. keyfile'.key # 0 <=> keyfile'.is = "filled"
      BY <1>1, <1>3, <1>4 DEF KeysSound
    <2> QED
      BY <2>1, <2>2 DEF KeysSound
  <1>9. keyfile'.key \in {k, 0}
    BY <1>2, <1>3, <1>4
  <1>11. keychain = k /\ keychain' = k /\ keyfile.key = k /\ k # 0
    BY <1>2, <1>3
  <1>10. HeldKeys = {k} /\ HeldKeys' = {k}
    BY <1>9, <1>11 DEF HeldKeys
  <1>5. HeldKeys = {k} /\ HeldKeys' = {k} /\ KeysSound'
    BY <1>8, <1>10
  <1>6. (Op(p) = "load" => proc[p].seen.key = k) /\ (vault # Nothing => vault.key = k)
    BY <1>1, <1>5 DEF Holds, FilesSound, Opens, Readable
  <1>7. Moved(p) /\ ProcSound(p)'
    BY <1>1, <1>2, <1>3, <1>5, <1>6, FoundSound
  <1> QED
    BY <1>1, <1>2, <1>3, <1>4, <1>5, <1>7, KeyStep

(* A key just found or made while a save or a key search is under way. *)
LEMMA MakeKeyFacts ==
    ASSUME VaultInv, NEW p \in Proc, proc[p].step \in {"mint", "mint file", "fill"}
    PROVE  /\ p \in Full /\ vault = Nothing /\ Saving(p) /\ Op(p) \notin {"none", "load", "read tree"}
           /\ keychain \in Nat /\ keys \in Nat /\ keyfile.key \in Nat
           /\ keyfile \in [is : {"absent", "blank", "filled"}, key : Nat, open : SUBSET Proc]
           /\ proc[p] \in ProcSet /\ keyfile.open \in SUBSET Proc
  <1>1. Role(p) /\ Finds(p) /\ FilesTyped /\ proc[p] \in ProcSet
    BY VaultFacts
  <1>2. p \in Full /\ vault = Nothing /\ Saving(p)
    BY <1>1 DEF Role, Finds
  <1> QED
    BY <1>1, <1>2 DEF FilesTyped, Saving

LEMMA MintKeeps ==
    ASSUME VaultInv, NEW p \in Proc, Mint(p)
    PROVE  VaultInv'
  <1>1. KeysSound /\ Finds(p) /\ proc[p].step = "mint" /\ has_store /\ keyfile.is # "filled" /\ has_store \in BOOLEAN
    BY VaultFacts DEF Mint, At, Finds, FilesTyped
  <1>2. p \in Full /\ vault = Nothing /\ Saving(p) /\ Op(p) \notin {"none", "load", "read tree"}
        /\ keychain \in Nat /\ keys \in Nat /\ keyfile.key \in Nat
        /\ keyfile \in [is : {"absent", "blank", "filled"}, key : Nat, open : SUBSET Proc] /\ proc[p] \in ProcSet
    BY <1>1, MakeKeyFacts
  <1>3. UNCHANGED <<has_store, files, ghosts>> /\ vault' = vault /\ unmoved' = unmoved /\ has_store' = has_store
        /\ keyfile' = keyfile /\ saves' = saves /\ starts' = starts
    BY DEF Mint, files, ghosts
  <1>4. keyfile.key = 0
    BY <1>1 DEF KeysSound
  <1>5. KeysSound'
    <2>1. has_store'
      <3>1. has_store
        BY <1>1
      <3>2. has_store' = has_store
        BY <1>3
      <3> QED
        BY <3>1, <3>2
    <2>2. keyfile'.key # 0 <=> keyfile'.is = "filled"
      BY <1>1, <1>3 DEF KeysSound
    <2> QED
      BY <2>1, <2>2 DEF KeysSound
  <1>6. CASE keychain = 0 /\ keys' = keys + 1 /\ keychain' = keys + 1 /\ Found(p, keys + 1)
    <2> DEFINE k == keys + 1
    <2>1. k \in Nat /\ k # 0
      <3>1. keys \in Nat
        BY <1>2
      <3> QED
        BY <3>1
    <2>2. keychain' = k /\ keys' = k /\ Found(p, k)
      BY <1>6
    <2> HIDE DEF k
    <2>3. HeldKeys = {} /\ HeldKeys' = {k}
      BY <1>3, <1>4, <1>6, <2>1, <2>2 DEF HeldKeys
    <2>4. Moved(p) /\ ProcSound(p)'
      BY <1>1, <1>2, <1>3, <2>1, <2>2, <2>3, FoundSound
    <2> QED
      BY <1>2, <1>3, <1>5, <2>1, <2>2, <2>3, <2>4, KeyStep
  <1>7. ASSUME UNCHANGED <<keys, keychain>>, Moved(p) /\ ProcSound(p)'
        PROVE  VaultInv'
    <2>1. HeldKeys' = HeldKeys
      BY <1>3, <1>7 DEF HeldKeys
    <2> QED
      BY <1>2, <1>3, <1>5, <1>7, <2>1, KeyStep
  <1>8. CASE keychain # 0 /\ Found(p, keychain) /\ UNCHANGED <<keys, keychain>>
    <2>1. keychain \in HeldKeys' /\ HeldKeys' = HeldKeys
      BY <1>3, <1>8 DEF HeldKeys
    <2>2. Moved(p) /\ ProcSound(p)'
      BY <1>1, <1>2, <1>3, <1>8, <2>1, FoundSound
    <2> QED
      BY <1>7, <1>8, <2>2
  <1>9. CASE Done(p, Idle(p)) /\ UNCHANGED <<keys, keychain>>
    <2>1. Moved(p) /\ ProcSound(p)'
      BY <1>2, <1>3, <1>9, IdleIs, DoneSound, VaultFacts
    <2> QED
      BY <1>7, <1>9, <2>1
  <1>10. CASE Go(p, "mint file") /\ UNCHANGED <<keys, keychain>>
    <2>1. proc'[p].step = "mint file"
      BY <1>10, GoIs, VaultFacts DEF Fields, VaultStage
    <2>2. Finds(p)'
      BY <1>1, <1>2, <1>3, <2>1 DEF Finds, At
    <2>3. HeldKeys' = HeldKeys
      BY <1>3, <1>10 DEF HeldKeys
    <2>4. Moved(p) /\ ProcSound(p)'
      BY <1>1, <1>2, <1>3, <1>10, <2>2, <2>3, GoSound DEF VaultStage
    <2> QED
      BY <1>7, <1>10, <2>4
  <1> QED
    BY <1>6, <1>8, <1>9, <1>10 DEF Mint

LEMMA MintFileKeeps ==
    ASSUME VaultInv, NEW p \in Proc, MintFile(p)
    PROVE  VaultInv'
  <1>1. KeysSound /\ Finds(p) /\ proc[p].step = "mint file" /\ keyfile.is # "filled"
    BY VaultFacts DEF MintFile, At, Finds
  <1>2. p \in Full /\ vault = Nothing /\ Saving(p) /\ Op(p) \notin {"none", "load", "read tree"}
        /\ keychain \in Nat /\ keys \in Nat /\ keyfile.key \in Nat
        /\ keyfile \in [is : {"absent", "blank", "filled"}, key : Nat, open : SUBSET Proc] /\ proc[p] \in ProcSet
    BY <1>1, MakeKeyFacts
  <1>3. UNCHANGED <<has_store, files, ghosts>> /\ vault' = vault /\ unmoved' = unmoved /\ has_store' = has_store
        /\ keychain' = keychain /\ saves' = saves /\ starts' = starts
    BY DEF MintFile, files, ghosts
  <1>4. keyfile.key = 0
    BY <1>1 DEF KeysSound
  <1>5. ~has_store' => keychain' = 0
    <2>1. ~has_store => keychain = 0
      BY <1>1 DEF KeysSound
    <2>2. has_store' = has_store /\ keychain' = keychain
      BY <1>3
    <2> QED
      BY <2>1, <2>2
  <1>6. CASE keyfile' = [is |-> "blank", key |-> 0, open |-> {p}] /\ Go(p, "fill") /\ UNCHANGED keys
    <2>1. keyfile'.is = "blank" /\ keyfile'.key = 0 /\ keyfile'.open = {p}
          /\ keyfile' \in [is : {"absent", "blank", "filled"}, key : Nat, open : SUBSET Proc]
      BY <1>6
    <2>2. proc'[p].step = "fill"
      BY <1>6, GoIs, VaultFacts DEF Fields, VaultStage
    <2>3. Finds(p)'
      BY <1>2, <1>3, <2>1, <2>2 DEF Finds, At
    <2>4. HeldKeys' = HeldKeys
      BY <1>3, <1>4, <2>1 DEF HeldKeys
    <2>5. Moved(p) /\ ProcSound(p)'
      BY <1>1, <1>2, <1>3, <1>6, <2>3, <2>4, GoSound DEF VaultStage
    <2>6. KeysSound'
      BY <1>5, <2>1 DEF KeysSound
    <2> QED
      BY <1>2, <1>3, <1>6, <2>1, <2>4, <2>5, <2>6, KeyStep
  <1>7. CASE keys' = keys + 1 /\ keyfile' = [is |-> "filled", key |-> keys + 1, open |-> {}] /\ Found(p, keys + 1)
    <2> DEFINE k == keys + 1
    <2>1. k \in Nat /\ k # 0
      <3>1. keys \in Nat
        BY <1>2
      <3> QED
        BY <3>1
    <2>2. keyfile' = [is |-> "filled", key |-> k, open |-> {}] /\ keys' = k /\ Found(p, k)
      BY <1>7
    <2> HIDE DEF k
    <2>3. keyfile'.is = "filled" /\ keyfile'.key = k
          /\ keyfile' \in [is : {"absent", "blank", "filled"}, key : Nat, open : SUBSET Proc]
      BY <2>1, <2>2
    <2>4. HeldKeys \subseteq HeldKeys' /\ k \in HeldKeys'
      BY <1>3, <1>4, <2>1, <2>3 DEF HeldKeys
    <2>5. Moved(p) /\ ProcSound(p)'
      BY <1>1, <1>2, <1>3, <2>1, <2>2, <2>4, FoundSound
    <2>6. KeysSound'
      BY <1>5, <2>1, <2>3 DEF KeysSound
    <2> QED
      BY <1>2, <1>3, <2>1, <2>2, <2>3, <2>4, <2>5, <2>6, KeyStep
  <1>8. CASE Done(p, Idle(p)) /\ UNCHANGED <<keyfile, keys>>
    <2>1. Moved(p) /\ ProcSound(p)'
      BY <1>2, <1>3, <1>8, IdleIs, DoneSound, VaultFacts
    <2>2. HeldKeys' = HeldKeys
      BY <1>3, <1>8 DEF HeldKeys
    <2>3. KeysSound'
      BY <1>1, <1>5, <1>8 DEF KeysSound
    <2> QED
      BY <1>2, <1>3, <1>8, <2>1, <2>2, <2>3, KeyStep
  <1> QED
    BY <1>1, <1>6, <1>7, <1>8 DEF MintFile

LEMMA FillKeeps ==
    ASSUME VaultInv, NEW p \in Proc, Fill(p)
    PROVE  VaultInv'
  <1>1. KeysSound /\ Finds(p) /\ proc[p].step = "fill" /\ keyfile.is = "blank" /\ p \in keyfile.open
    BY VaultFacts DEF Fill, At, Finds
  <1>2. p \in Full /\ vault = Nothing /\ Saving(p) /\ Op(p) \notin {"none", "load", "read tree"}
        /\ keychain \in Nat /\ keys \in Nat /\ keyfile.key \in Nat
    BY <1>1, MakeKeyFacts
  <1>3. UNCHANGED <<has_store, files, ghosts>> /\ vault' = vault /\ unmoved' = unmoved /\ has_store' = has_store
        /\ keychain' = keychain /\ saves' = saves /\ starts' = starts
    BY DEF Fill, files, ghosts
  <1>4. keyfile.key = 0
    BY <1>1 DEF KeysSound
  <1>5. ~has_store' => keychain' = 0
    <2>1. ~has_store => keychain = 0
      BY <1>1 DEF KeysSound
    <2>2. has_store' = has_store /\ keychain' = keychain
      BY <1>3
    <2> QED
      BY <2>1, <2>2
  <1> DEFINE k == keys + 1
  <1>6. k \in Nat /\ k # 0
    <2>1. keys \in Nat
      BY <1>2
    <2> QED
      BY <2>1
  <1>7. keyfile' = [is |-> "filled", key |-> k, open |-> {}] /\ keys' = k /\ Found(p, k)
    BY <1>1 DEF Fill
  <1> HIDE DEF k
  <1>8. keyfile'.is = "filled" /\ keyfile'.key = k
        /\ keyfile' \in [is : {"absent", "blank", "filled"}, key : Nat, open : SUBSET Proc]
    BY <1>6, <1>7
  <1>9. HeldKeys \subseteq HeldKeys' /\ k \in HeldKeys'
    BY <1>3, <1>4, <1>6, <1>8 DEF HeldKeys
  <1>10. Moved(p) /\ ProcSound(p)'
    BY <1>1, <1>2, <1>3, <1>6, <1>7, <1>9, FoundSound
  <1>11. KeysSound'
    BY <1>5, <1>6, <1>8 DEF KeysSound
  <1> QED
    BY <1>2, <1>3, <1>6, <1>7, <1>8, <1>9, <1>10, <1>11, KeyStep

LEMMA OpenSealedKeeps ==
    ASSUME VaultInv, NEW p \in Proc, OpenSealed(p)
    PROVE  VaultInv'
  <1>1. Role(p) /\ Holds(p) /\ Finds(p) /\ Knows(p) /\ Answered(p) /\ proc[p] \in ProcSet
        /\ proc[p].sites \in Nat /\ proc[p].seen \in Sealed /\ proc[p].tree \in {"unread", "ready", "read only"}
        /\ keys' \in Nat /\ saves' \in Nat /\ starts' \in Nat
    BY VaultFacts DEF FilesTyped, counters, OpenSealed
  <1>2. HeldKeys' = HeldKeys /\ vault' = vault /\ unmoved' = unmoved
        /\ UNCHANGED <<has_store, keyVars, files, ghosts>>
    BY DEF HeldKeys, keyVars, files, ghosts, OpenSealed
  <1>3. proc[p].step = "open" /\ Op(p) \in {"load", "read tree"} /\ (p \in Full \/ ~has_store)
        /\ (p \notin Full => Op(p) = "load") /\ proc[p].seen.ver \in Nat
    BY <1>1 DEF Role, At, Op, OpenSealed, Sealed
  <1>4. Idle(p) \in ProcSet /\ Rests(Idle(p), proc[p].sites, proc[p].tree, proc[p].blocked)
    BY <1>1, IdleIs
  <1>5. Moved(p) /\ ProcSound(p)'
    <2>1. CASE Op(p) = "load" /\ Done(p, [Idle(p) EXCEPT !.sites = proc[p].seen.ver])
      <3>1. p \in Full /\ vault' # Nothing /\ ~unmoved' => vault'.ver = proc[p].seen.ver
        BY <1>1, <1>2, <2>1 DEF Knows
      <3> DEFINE r == [Idle(p) EXCEPT !.sites = proc[p].seen.ver]
      <3>2. r \in ProcSet /\ Rests(r, proc[p].seen.ver, proc[p].tree, proc[p].blocked)
        BY <1>1, <1>3, <1>4, RestsWith
      <3>3. Done(p, r)
        BY <2>1
      <3> HIDE DEF r
      <3>4. CASE p \in Full
        BY <3>1, <3>2, <3>3, <3>4, DoneSound, VaultFacts
      <3>5. CASE p \notin Full
        <4>1. proc' = [proc EXCEPT ![p] = NoOp]
          BY <3>3, <3>5 DEF Done
        <4> QED
          BY <4>1, VaultBasics, MovesOne, NoOpSound, VaultFacts
      <3> QED
        BY <3>4, <3>5
    <2>2. CASE Op(p) = "load" /\ proc[p].seen.key # proc[p].found /\ Go(p, "quarantine")
      <3>1. proc[p].deaf # {}
        BY <1>1, <1>3, <2>2 DEF Answered, At
      <3>2. proc'[p].step = "quarantine"
        BY <2>2, GoIs, VaultFacts DEF Fields, VaultStage
      <3>3. Finds(p)'
        BY <3>2 DEF Finds, At
      <3> QED
        BY <1>2, <1>3, <2>2, <3>1, <3>3, GoSound DEF VaultStage
    <2>3. CASE Op(p) = "read tree" /\ Done(p, [Idle(p) EXCEPT !.tree = "ready"])
      <3>1. vault' # Nothing /\ ~unmoved' /\ ~proc[p].blocked => vault'.ver = proc[p].sites
        BY <1>1, <1>2, <1>3, <2>3 DEF Knows
      <3> DEFINE r == [Idle(p) EXCEPT !.tree = "ready"]
      <3>2. r \in ProcSet /\ Rests(r, proc[p].sites, "ready", proc[p].blocked)
        BY <1>1, <1>4, RestsWith
      <3>3. Done(p, r)
        BY <2>3
      <3> HIDE DEF r
      <3> QED
        BY <3>1, <3>2, <3>3, DoneSound, VaultFacts
    <2>4. CASE Op(p) = "read tree" /\ Go(p, "tree aside")
      <3>2. proc'[p].step = "tree aside"
        BY <2>4, GoIs, VaultFacts DEF Fields, VaultStage
      <3>3. Finds(p)'
        BY <3>2 DEF Finds, At
      <3> QED
        BY <1>2, <1>3, <2>4, <3>3, GoSound DEF VaultStage
    <2> QED
      BY <1>3, <2>1, <2>2, <2>3, <2>4 DEF OpenSealed
  <1> QED
    BY <1>1, <1>2, <1>3, <1>5, LocalStep

(* A vault put aside is one the list of sites can still be read from. *)
LEMMA AsideKeepsLists ==
    ASSUME VaultInv, UNCHANGED relied, unmoved => unmoved',
           \/ aside \subseteq aside' /\ (vault' = vault \/ vault \in aside' \/ vault = Nothing)
           \/ unmoved'
    PROVE  ListsSound'
  <1>1. ListsSound /\ Nothing.ver = 0
    BY VaultBasics DEF VaultInv
  <1> QED
    BY <1>1 DEF ListsSound

LEMMA QuarantineKeeps ==
    ASSUME VaultInv, NEW p \in Proc, Quarantine(p)
    PROVE  VaultInv'
  <1>1. Role(p) /\ KeysSound /\ FilesTyped /\ FilesSound /\ proc[p] \in ProcSet /\ proc[p].step = "quarantine"
        /\ proc[p].sites \in Nat
    BY VaultFacts DEF Quarantine, At
  <1>2. UNCHANGED <<has_store, keyVars, bak, layout, counters, relied>> /\ HeldKeys' = HeldKeys
    BY DEF Quarantine, HeldKeys, keyVars
  <1>3. p \in Full \/ ~has_store
    BY <1>1 DEF Role, At
  <1>4. \/ aside' = aside \cup ({vault} \ {Nothing}) /\ vault' = Nothing /\ unmoved' = unmoved
        \/ unmoved' = TRUE /\ aside' = aside /\ vault' = vault
    BY DEF Quarantine, MovedAside
  <1>5. Moved(p) /\ ProcSound(p)'
    <2> DEFINE r == [Idle(p) EXCEPT !.tree = "read only"]
    <2>1. r \in ProcSet /\ Rests(r, proc[p].sites, "read only", proc[p].blocked)
      <3>1. Idle(p) \in ProcSet /\ Rests(Idle(p), proc[p].sites, proc[p].tree, proc[p].blocked)
        BY <1>1, IdleIs
      <3> QED
        BY <1>1, <3>1, RestsWith
    <2>2. Done(p, r)
      BY DEF Quarantine
    <2> HIDE DEF r
    <2>3. vault' = Nothing \/ unmoved'
      BY <1>4
    <2> QED
      BY <2>1, <2>2, <2>3, DoneSound, VaultFacts
  <1>6. FilesTyped'
    BY <1>1, <1>2, <1>4, VaultBasics DEF FilesTyped, keyVars, counters
  <1>7. KeysSound'
    BY <1>1, <1>2 DEF KeysSound, keyVars
  <1>8. FilesSound'
    BY <1>1, <1>2, <1>4 DEF FilesSound, Opens, Readable
  <1>9. ListsSound'
    <2>1. UNCHANGED relied
      BY <1>2
    <2> QED
      BY <1>4, <2>1, AsideKeepsLists
  <1>10. vault' \in {vault, Nothing} /\ (unmoved => unmoved')
    BY <1>4
  <1> QED
    BY <1>2, <1>3, <1>5, <1>6, <1>7, <1>8, <1>9, <1>10, StepSound

LEMMA TreeAsideKeeps ==
    ASSUME VaultInv, NEW p \in Proc, TreeAside(p)
    PROVE  VaultInv'
  <1>1. Role(p) /\ Knows(p) /\ KeysSound /\ FilesTyped /\ FilesSound /\ proc[p] \in ProcSet
        /\ proc[p].step = "tree aside" /\ proc[p].sites \in Nat
    BY VaultFacts DEF TreeAside, At
  <1>2. UNCHANGED <<has_store, keyVars, vault, bak, counters, ghosts>> /\ HeldKeys' = HeldKeys
    BY DEF TreeAside, HeldKeys, keyVars
  <1>3. p \in Full /\ Op(p) = "read tree"
    BY <1>1 DEF Role, At
  <1>4. PICK t \in {"ready", "read only"} : Done(p, [Idle(p) EXCEPT !.tree = t])
    BY DEF TreeAside
  <1>5. \/ aside' = aside \cup ({layout} \ {Nothing}) /\ layout' = Nothing
        \/ aside' = aside /\ layout' = layout
    BY DEF TreeAside
  <1>6. Moved(p) /\ ProcSound(p)'
    <2> DEFINE r == [Idle(p) EXCEPT !.tree = t]
    <2>1. r \in ProcSet /\ Rests(r, proc[p].sites, t, proc[p].blocked)
      <3>1. Idle(p) \in ProcSet /\ Rests(Idle(p), proc[p].sites, proc[p].tree, proc[p].blocked)
        BY <1>1, IdleIs
      <3> QED
        BY <1>1, <3>1, RestsWith
    <2>2. Done(p, r)
      BY <1>4
    <2> HIDE DEF r
    <2>3. vault' # Nothing /\ ~unmoved' /\ ~proc[p].blocked => vault'.ver = proc[p].sites
      BY <1>1, <1>2, <1>3 DEF Knows, ghosts
    <2> QED
      BY <2>1, <2>2, <2>3, DoneSound, VaultFacts
  <1>7. FilesTyped'
    BY <1>1, <1>2, <1>5, VaultBasics DEF FilesTyped, keyVars, counters, ghosts
  <1>8. KeysSound'
    BY <1>1, <1>2 DEF KeysSound, keyVars
  <1>9. FilesSound'
    BY <1>1, <1>2, <1>5 DEF FilesSound, Opens, Readable
  <1>10. ListsSound'
    BY <1>2, <1>5, AsideKeepsLists DEF ghosts
  <1> QED
    BY <1>2, <1>3, <1>6, <1>7, <1>8, <1>9, <1>10, StepSound

LEMMA SafetyNetKeeps ==
    ASSUME VaultInv, NEW p \in Proc, SafetyNet(p)
    PROVE  VaultInv'
  <1>1. Role(p) /\ Holds(p) /\ Answered(p) /\ Knows(p) /\ KeysSound /\ FilesTyped /\ FilesSound /\ proc[p] \in ProcSet
        /\ proc[p].sites \in Nat /\ vault \in Sealed /\ proc[p].seen \in Sealed
    BY VaultFacts DEF FilesTyped
  <1>2. UNCHANGED <<has_store, keyVars, layout, counters, ghosts>> /\ HeldKeys' = HeldKeys /\ unmoved' = unmoved
        /\ has_store' = has_store
    BY DEF SafetyNet, HeldKeys, keyVars, ghosts
  <1>3. proc[p].step \in {"seal", "keep"} /\ p \in Full /\ Op(p) = "save"
    BY <1>1 DEF SafetyNet, Role, At
  <1>4. \/ /\ At(p, "seal") /\ UNCHANGED <<vault, bak, aside>>
           /\ proc' = [proc EXCEPT ![p].step = IF exists(vault) THEN "keep" ELSE "write", ![p].seen = vault]
        \/ At(p, "keep") /\ bak' \in {bak, proc[p].seen} /\ UNCHANGED <<vault, aside>> /\ Go(p, "write")
        \/ /\ At(p, "keep") /\ aside' = aside \cup ({vault} \ {Nothing}) /\ vault' = Nothing /\ UNCHANGED bak
           /\ Go(p, "write")
        \/ Done(p, Idle(p)) /\ UNCHANGED <<vault, bak, aside>>
    BY DEF SafetyNet, KeepExisting
  <1>5. Opens(vault)' /\ Opens(bak)' /\ Opens(layout)' /\ (\A f \in aside' : Opens(f)') /\ vault' \in {vault, Nothing}
        /\ aside \subseteq aside' /\ (vault' = vault \/ vault \in aside' \/ vault = Nothing)
    <2>1. Opens(proc[p].seen) /\ Opens(vault) /\ Opens(bak) /\ Opens(layout) /\ \A f \in aside : Opens(f)
      BY <1>1, <1>3 DEF Holds, FilesSound
    <2>2. vault' \in {vault, Nothing} /\ bak' \in {bak, proc[p].seen} /\ aside' \subseteq aside \cup {vault}
          /\ aside \subseteq aside' /\ (vault' = vault \/ vault \in aside' \/ vault = Nothing)
      BY <1>4
    <2> QED
      BY <1>2, <2>1, <2>2 DEF Opens, Readable
  <1>6. FilesTyped'
    <2>1. vault' \in Sealed /\ bak' \in Sealed /\ aside' \in SUBSET Sealed
      BY <1>1, <1>4, VaultBasics DEF FilesTyped
    <2> QED
      BY <1>1, <1>2, <2>1 DEF FilesTyped, keyVars, counters, ghosts
  <1>7. KeysSound'
    BY <1>1, <1>2 DEF KeysSound, keyVars
  <1>8. FilesSound'
    BY <1>5 DEF FilesSound
  <1>9. ListsSound'
    BY <1>2, <1>5, AsideKeepsLists DEF ghosts
  <1>10. Moved(p) /\ ProcSound(p)'
    <2>1. ASSUME At(p, "seal"), vault' = vault,
                 proc' = [proc EXCEPT ![p].step = IF exists(vault) THEN "keep" ELSE "write", ![p].seen = vault]
          PROVE  Moved(p) /\ ProcSound(p)'
      <3> DEFINE s == IF exists(vault) THEN "keep" ELSE "write"
                 r == [proc[p] EXCEPT !.step = s, !.seen = vault]
      <3>1. s \in {"keep", "write"} /\ (s = "keep" => vault # Nothing)
        BY DEF exists
      <3>2. proc' = [proc EXCEPT ![p] = r]
        BY <2>1
      <3> HIDE DEF s
      <3>3. r \in ProcSet
        BY <1>1, <3>1 DEF ProcSet, VaultStage
      <3>4. r.step = s /\ r.op = proc[p].op /\ r.found = proc[p].found /\ r.seen = vault /\ r.next = proc[p].next
            /\ r.sites = proc[p].sites /\ r.blocked = proc[p].blocked /\ r.deaf = proc[p].deaf
        BY <1>1 DEF ProcSet
      <3> HIDE DEF r
      <3>5. Moved(p) /\ proc'[p] = r
        BY <3>2, <3>3, MovesOne, VaultFacts
      <3>6. Role(p)'
        BY <1>1, <1>3, <3>1, <3>4, <3>5 DEF Role, At, Op, Saving
      <3>7. Holds(p)'
        BY <1>1, <1>2, <1>3, <2>1, <3>1, <3>4, <3>5 DEF Holds, FilesSound, Opens, Readable, At, Op
      <3>8. Finds(p)' /\ Answered(p)'
        BY <1>1, <1>3, <2>1, <3>1, <3>4, <3>5 DEF Finds, Answered, At, Op
      <3>9. Knows(p)'
        BY <1>1, <1>2, <1>3, <2>1, <3>1, <3>4, <3>5 DEF Knows, At, Op
      <3> QED
        BY <3>5, <3>6, <3>7, <3>8, <3>9 DEF ProcSound
    <2>2. ASSUME At(p, "keep"), Go(p, "write")
          PROVE  Moved(p) /\ ProcSound(p)'
      <3>1. Moved(p) /\ Fields(p, "write", proc[p].op, proc[p].fileKey, proc[p].found, proc[p].seen, proc[p].sites,
                               proc[p].next, proc[p].tree, proc[p].blocked, proc[p].deaf)
        BY <2>2, GoIs, VaultFacts DEF VaultStage
      <3>2. proc'[p].step = "write" /\ proc'[p].op = proc[p].op /\ proc'[p].found = proc[p].found
            /\ proc'[p].seen = proc[p].seen /\ proc'[p].sites = proc[p].sites /\ proc'[p].next = proc[p].next
            /\ proc'[p].blocked = proc[p].blocked
        BY <3>1 DEF Fields
      <3>3. Role(p)'
        BY <1>1, <1>3, <3>2 DEF Role, At, Op, Saving
      <3>4. Holds(p)'
        BY <1>1, <1>2, <2>2, <3>2 DEF Holds, Opens, Readable, At, Op
      <3>5. Finds(p)' /\ Answered(p)'
        BY <1>3, <3>2 DEF Finds, Answered, At, Op
      <3>6. Knows(p)'
        BY <1>1, <1>2, <1>3, <1>5, <2>2, <3>2 DEF Knows, At, Op
      <3> QED
        BY <3>1, <3>3, <3>4, <3>5, <3>6 DEF ProcSound
    <2>3. ASSUME Done(p, Idle(p)), vault' = vault PROVE Moved(p) /\ ProcSound(p)'
      <3>1. vault' # Nothing /\ ~unmoved' /\ ~proc[p].blocked => vault'.ver = proc[p].sites
        BY <1>1, <1>2, <1>3, <2>3 DEF Knows
      <3> QED
        BY <1>1, <2>3, <3>1, IdleIs, DoneSound, VaultFacts
    <2> QED
      BY <1>4, <2>1, <2>2, <2>3
  <1> QED
    BY <1>2, <1>3, <1>6, <1>7, <1>8, <1>9, <1>10, StepSound

LEMMA WriteKeeps ==
    ASSUME VaultInv, NEW p \in Proc, Write(p)
    PROVE  VaultInv'
  <1>1. Role(p) /\ Holds(p) /\ Knows(p) /\ KeysSound /\ FilesTyped /\ FilesSound /\ ListsSound
        /\ proc[p] \in ProcSet /\ proc[p].step = "write" /\ proc[p].sites \in Nat /\ proc[p].next \in Nat
        /\ proc[p].found \in Nat
    BY VaultFacts DEF Write, At
  <1>2. UNCHANGED <<has_store, keyVars, bak, layout, aside, counters, unmoved>> /\ HeldKeys' = HeldKeys
        /\ unmoved' = unmoved /\ aside' = aside
    BY DEF Write, HeldKeys, keyVars
  <1>3. p \in Full /\ Op(p) = "save" /\ proc[p].next # 0 /\ proc[p].found \in HeldKeys /\ ~proc[p].blocked
    BY <1>1 DEF Role, Holds, At
  <1>4. vault # Nothing /\ ~unmoved => vault.ver = proc[p].sites
    BY <1>1, <1>3 DEF Knows
  <1>5. KeysSound'
    BY <1>1, <1>2 DEF KeysSound, keyVars
  <1>6. Idle(p) \in ProcSet /\ Rests(Idle(p), proc[p].sites, proc[p].tree, proc[p].blocked)
    BY <1>1, IdleIs
  <1>7. CASE /\ vault' = [key |-> proc[p].found, ver |-> proc[p].next]
             /\ Done(p, [Idle(p) EXCEPT !.sites = proc[p].next])
             /\ relied' = (relied \ {proc[p].sites}) \cup {proc[p].next}
    <2>1. vault' \in Sealed /\ vault'.key = proc[p].found /\ vault'.ver = proc[p].next
      BY <1>1, <1>7 DEF Sealed
    <2>2. Moved(p) /\ ProcSound(p)'
      <3> DEFINE r == [Idle(p) EXCEPT !.sites = proc[p].next]
      <3>1. r \in ProcSet /\ Rests(r, proc[p].next, proc[p].tree, proc[p].blocked)
        BY <1>1, <1>6, RestsWith
      <3>2. Done(p, r)
        BY <1>7
      <3> HIDE DEF r
      <3> QED
        BY <2>1, <3>1, <3>2, DoneSound, VaultFacts
    <2>3. FilesTyped'
      <3>1. relied' \in SUBSET Nat
        BY <1>1, <1>7 DEF FilesTyped
      <3> QED
        BY <1>1, <1>2, <2>1, <3>1 DEF FilesTyped, keyVars, counters
    <2>4. FilesSound'
      BY <1>1, <1>2, <1>3, <2>1 DEF FilesSound, Opens, Readable
    <2>5. ListsSound'
      <3>1. ASSUME ~unmoved, NEW v \in relied' PROVE v # 0 /\ (vault'.ver = v \/ \E f \in aside' : f.ver = v)
        <4>1. CASE v = proc[p].next
          BY <1>3, <2>1, <4>1
        <4>2. CASE v # proc[p].next
          <5>1. v \in relied /\ v # proc[p].sites
            BY <1>7, <3>1, <4>2
          <5>2. v # 0 /\ (vault.ver = v \/ \E f \in aside : f.ver = v)
            BY <1>1, <3>1, <5>1 DEF ListsSound
          <5>3. vault.ver # v
            BY <1>4, <3>1, <5>1, <5>2, VaultBasics
          <5> QED
            BY <1>2, <5>2, <5>3
        <4> QED
          BY <4>1, <4>2
      <3> QED
        BY <1>2, <3>1 DEF ListsSound
    <2> QED
      BY <1>2, <1>3, <1>5, <2>2, <2>3, <2>4, <2>5, StepSound
  <1>8. CASE Done(p, Idle(p)) /\ UNCHANGED <<vault, relied>>
    <2>1. vault' # Nothing /\ ~unmoved' => vault'.ver = proc[p].sites
      BY <1>2, <1>4, <1>8
    <2>2. Moved(p) /\ ProcSound(p)'
      BY <1>1, <1>6, <1>8, <2>1, DoneSound, VaultFacts
    <2>3. FilesTyped' /\ FilesSound'
      BY <1>1, <1>2, <1>8 DEF FilesTyped, FilesSound, Opens, Readable, keyVars, counters
    <2>4. ListsSound'
      BY <1>1, <1>2, <1>8 DEF ListsSound
    <2> QED
      BY <1>2, <1>3, <1>5, <2>2, <2>3, <2>4, StepSound
  <1> QED
    BY <1>7, <1>8 DEF Write

LEMMA WriteTreeKeeps ==
    ASSUME VaultInv, NEW p \in Proc, WriteTree(p)
    PROVE  VaultInv'
  <1>1. Role(p) /\ Holds(p) /\ Knows(p) /\ KeysSound /\ FilesTyped /\ FilesSound /\ proc[p] \in ProcSet
        /\ proc[p].step = "seal" /\ Op(p) = "save tree" /\ proc[p].sites \in Nat /\ proc[p].found \in Nat
    BY VaultFacts DEF WriteTree, At
  <1>2. UNCHANGED <<has_store, keyVars, vault, bak, aside, counters, ghosts>> /\ HeldKeys' = HeldKeys
    BY DEF WriteTree, HeldKeys, keyVars
  <1>3. p \in Full /\ proc[p].found \in HeldKeys
    BY <1>1 DEF Role, Holds, At
  <1>4. layout' = layout \/ (layout' \in Sealed /\ layout'.key = proc[p].found)
    <2>1. layout' \in {layout, [key |-> proc[p].found, ver |-> 0]}
      BY DEF WriteTree
    <2>2. LET f == [key |-> proc[p].found, ver |-> 0] IN f \in Sealed /\ f.key = proc[p].found
      BY <1>1 DEF Sealed
    <2> QED
      BY <2>1, <2>2
  <1>5. Moved(p) /\ ProcSound(p)'
    <2>1. vault' # Nothing /\ ~unmoved' /\ ~proc[p].blocked => vault'.ver = proc[p].sites
      BY <1>1, <1>2, <1>3 DEF Knows, ghosts
    <2> QED
      BY <1>1, <2>1, IdleIs, DoneSound, VaultFacts DEF WriteTree
  <1>6. FilesTyped'
    BY <1>1, <1>2, <1>4 DEF FilesTyped, keyVars, counters, ghosts
  <1>7. KeysSound'
    BY <1>1, <1>2 DEF KeysSound, keyVars
  <1>8. FilesSound'
    BY <1>1, <1>2, <1>3, <1>4 DEF FilesSound, Opens, Readable
  <1>9. ListsSound'
    BY <1>2, AsideKeepsLists DEF ghosts
  <1> QED
    BY <1>2, <1>3, <1>5, <1>6, <1>7, <1>8, <1>9, StepSound

LEMMA StepVault ==
    ASSUME VaultInv, NEW p \in Proc, VaultStep(p)
    PROVE  VaultInv'
  BY StartKeeps, SaveSitesKeeps, LoadTreeKeeps, SaveTreeKeeps, ReadKeyFileKeeps, AskStoreKeeps, MigrateKeeps,
     DropKeyFileKeeps, MintKeeps, MintFileKeeps, FillKeeps, OpenSealedKeeps, QuarantineKeeps, TreeAsideKeeps,
     SafetyNetKeeps, WriteKeeps, WriteTreeKeeps, DieKeeps DEF VaultStep

LEMMA NextVault == VaultInv /\ [VaultNext]_vaultVars => VaultInv'
  <1> SUFFICES ASSUME VaultInv, [VaultNext]_vaultVars PROVE VaultInv'
    OBVIOUS
  <1>1. CASE VaultNext
    BY <1>1, StepVault DEF VaultNext
  <1>2. CASE UNCHANGED vaultVars
    <2>1. UNCHANGED <<has_store, keychain, keyfile, vault, bak, layout, aside, proc, keys, saves, starts, relied, unmoved>>
      BY <1>2 DEF vaultVars, keyVars, files, counters, ghosts
    <2>2. VaultTyped' /\ KeysSound' /\ FilesSound' /\ ListsSound'
      BY <2>1 DEF VaultInv, VaultTyped, KeysSound, FilesSound, ListsSound, Opens, Readable, HeldKeys
    <2>3. ASSUME NEW p \in Proc PROVE ProcSound(p)'
      <3>1. Role(p) /\ Holds(p) /\ Finds(p) /\ Answered(p) /\ Knows(p)
        BY DEF VaultInv, ProcSound
      <3>2. Role(p)'
        BY <2>1, <3>1 DEF Role, At, Op, Saving
      <3>3. Holds(p)'
        BY <2>1, <3>1 DEF Holds, Opens, Readable, HeldKeys, At, Op
      <3>4. Finds(p)'
        BY <2>1, <3>1 DEF Finds, At
      <3>5. Answered(p)'
        BY <2>1, <3>1 DEF Answered, At, Op
      <3>6. Knows(p)'
        BY <2>1, <3>1 DEF Knows, At, Op
      <3> QED
        BY <3>2, <3>3, <3>4, <3>5, <3>6 DEF ProcSound
    <2> QED
      BY <2>2, <2>3 DEF VaultInv
  <1> QED
    BY <1>1, <1>2

(* Every state of the vault, its keys and the processes that use them      *)
(* satisfies the inductive invariant.                                      *)
THEOREM VaultInductive == VaultSpec => []VaultInv
  BY InitVault, NextVault, PTL DEF VaultSpec

(* The sites of a save reported written, and not built upon since, are in  *)
(* a file whose key is still held, unless a start could neither read nor   *)
(* move the vault (load_vault_with, save_vault_with, resolve_device_key).  *)
THEOREM SitesAreKept == VaultSpec => []SavedSitesAreKept
  <1>1. VaultInv => SavedSitesAreKept
    BY VaultBasics DEF VaultInv, FilesSound, ListsSound, Opens, SavedSitesAreKept
  <1> QED
    BY VaultInductive, <1>1, PTL

LEMMA PutAsideUnanswered ==
    ASSUME VaultInv, [VaultNext]_vaultVars, NEW p \in Proc, PutAside(p)
    PROVE  proc[p].deaf # {}
  <1>1. PICK q \in Proc : VaultStep(q)
    BY DEF VaultNext, PutAside, vaultVars, files
  <1>2. proc \in [Proc -> ProcSet] /\ Answered(q) /\ Role(q)
    BY VaultFacts
  <1>3. vault' = Nothing /\ vault # Nothing /\ vault \in aside' /\ proc'[p] # proc[p]
    BY DEF PutAside
  <1>4. Quarantine(q) \/ (At(q, "keep") /\ KeepExisting(q) /\ Go(q, "write"))
    <2>1. vault' # vault
      BY <1>3
    <2>2. Write(q) => vault' = vault \/ vault' # Nothing
      <3>1. ASSUME Write(q), vault' = [key |-> proc[q].found, ver |-> proc[q].next] PROVE vault' # Nothing
        <4>1. proc[q].found # 0
          BY <3>1, VaultFacts DEF Write, At, Holds
        <4> QED
          BY <3>1, <4>1 DEF Nothing
      <3> QED
        BY <3>1 DEF Write
    <2> QED
      BY <1>1, <1>3, <2>1, <2>2
         DEF VaultStep, Start, SaveSites, LoadTree, SaveTree, ReadKeyFile, AskStore, Migrate, DropKeyFile, Mint,
             MintFile, Fill, OpenSealed, TreeAside, SafetyNet, WriteTree, Die, files
  <1>5. q = p
    <2>1. proc' = [proc EXCEPT ![q] = proc'[q]]
      <3>1. CASE Quarantine(q)
        BY <1>2, <3>1 DEF Quarantine, Done
      <3>2. CASE Go(q, "write")
        BY <1>2, <3>2 DEF Go
      <3> QED
        BY <1>4, <3>1, <3>2
    <2> QED
      BY <1>2, <1>3, <2>1
  <1>6. CASE Quarantine(q)
    BY <1>2, <1>5, <1>6 DEF Quarantine, Answered, At
  <1>7. CASE At(q, "keep") /\ KeepExisting(q)
    <2>1. proc[q].seen.key # proc[q].found
      BY <1>3, <1>7 DEF KeepExisting
    <2> QED
      BY <1>2, <1>5, <1>7, <2>1 DEF Answered, At
  <1> QED
    BY <1>4, <1>6, <1>7

(* An operation that could read the key file and the key store never puts  *)
(* aside a vault whose key is held (quarantine_file and its callers).      *)
THEOREM VaultStays == VaultSpec => VaultStaysIfAnswered
  <1>1. VaultInv /\ [VaultNext]_vaultVars =>
           [\A p \in Proc : PutAside(p) /\ proc[p].deaf = {} => ~Readable(vault)]_vaultVars
    BY PutAsideUnanswered
  <1> QED
    BY VaultInductive, <1>1, PTL DEF VaultSpec, VaultStaysIfAnswered

(* ------------------------- the tree of the sites ------------------------- *)
(* Every other part of the state may be anything: what the operations make *)
(* of a layout does not matter to when it is written.                      *)
TreeInv ==
    /\ gen \in Nat /\ asks \in Nat /\ slotted \in BOOLEAN /\ dirty \in BOOLEAN
    /\ failed \in BOOLEAN /\ exiting \in BOOLEAN /\ read_only \in BOOLEAN
    /\ storing # <<>> => Head(storing).changed \in BOOLEAN
    /\ LayoutGetsWritten

LEMMA InitTree == TreeInit => TreeInv
  <1> SUFFICES ASSUME TreeInit PROVE TreeInv
    OBVIOUS
  <1>1. gen \in Nat /\ asks \in Nat
    BY DEF TreeInit
  <1>2. slotted = FALSE /\ dirty = FALSE /\ failed = FALSE /\ exiting = FALSE /\ read_only \in BOOLEAN
    BY DEF TreeInit
  <1>3. ~slotted /\ slotted \in BOOLEAN /\ dirty \in BOOLEAN /\ failed \in BOOLEAN /\ exiting \in BOOLEAN
    BY <1>2
  <1>4. storing = <<>>
    BY DEF TreeInit
  <1> QED
    BY <1>1, <1>2, <1>3, <1>4 DEF TreeInv, LayoutGetsWritten

(* After a write the layout is clean, or the write has failed.             *)
LEMMA WriteSettles ==
    ASSUME TreeInv, NEW l, NEW isDirty \in BOOLEAN, WriteIfDirty(l, isDirty), UNCHANGED read_only
    PROVE  /\ dirty' \in BOOLEAN /\ failed' \in BOOLEAN
           /\ dirty' /\ Writable' => failed'
  BY DEF WriteIfDirty, TreeInv, Writable

LEMMA StoreSettles ==
    ASSUME TreeInv, NEW l, NEW changed \in BOOLEAN, StoreLayout(l, changed), storing' = <<>>,
           UNCHANGED <<read_only, exiting, gen, asks>>
    PROVE  TreeInv'
  <1>1. /\ slotted' = TRUE /\ ((slotted /\ dirty) \/ changed) \in BOOLEAN
        /\ WriteIfDirty(l, (slotted /\ dirty) \/ changed)
    BY DEF StoreLayout
  <1>2. /\ dirty' \in BOOLEAN /\ failed' \in BOOLEAN
        /\ dirty' /\ Writable' => failed'
    BY <1>1, WriteSettles
  <1> QED
    BY <1>1, <1>2 DEF TreeInv, LayoutGetsWritten

(* A command that could not save the sites leaves the layout as dirty as   *)
(* it was.                                                                 *)
LEMMA FailureKeeps ==
    ASSUME TreeInv, SaveFails, UNCHANGED <<read_only, exiting, writes>>
    PROVE  TreeInv'
  BY DEF SaveFails, Slot, TreeInv, LayoutGetsWritten, Locked, Writable, writes

(* A command that changed the view asks for a write.                       *)
LEMMA ViewAsks ==
    ASSUME TreeInv, NEW l, NEW isDirty \in BOOLEAN, Slot(l, isDirty), Asks(isDirty),
           UNCHANGED <<read_only, storing, gen, delayed, exiting, failed>>
    PROVE  TreeInv'
  BY DEF Slot, Asks, TreeInv, LayoutGetsWritten, Locked, Writable

LEMMA ToStore ==
    ASSUME NEW l, NEW changed \in BOOLEAN, NEW push
    PROVE  LET st == <<[layout |-> l, changed |-> changed, push |-> push]>> IN
           st # <<>> /\ Head(st).changed \in BOOLEAN
  OBVIOUS

LEMMA BatchKeeps ==
    ASSUME TreeInv, NEW ops, ApplyBatch(ops)
    PROVE  TreeInv'
  <1>1. PICK u \in apply_ops(sites, Now, ops) :
          LET changed == u.layout_after # Now IN
          \/ /\ storing' = <<[layout |-> u.layout_after, changed |-> changed, push |-> <<u>>]>>
             /\ UNCHANGED <<tree, slotted, dirty, diskLayout, undos, fails, failed>>
          \/ StoreLayout(u.layout_after, changed) /\ storing' = storing
          \/ SaveFails
    BY DEF ApplyBatch
  <1>2. UNCHANGED <<read_only, exiting, gen, asks, delayed>> /\ UNCHANGED writes
    BY DEF ApplyBatch, writes
  <1>3. storing = <<>>
    BY DEF ApplyBatch, Holding, Locked
  <1>4. CASE StoreLayout(u.layout_after, u.layout_after # Now) /\ storing' = storing
    BY <1>2, <1>3, <1>4, StoreSettles
  <1>5. CASE SaveFails
    BY <1>2, <1>5, FailureKeeps
  <1>6. CASE storing' = <<[layout |-> u.layout_after, changed |-> (u.layout_after # Now), push |-> <<u>>]>>
             /\ UNCHANGED <<slotted, dirty, failed>>
    <2>1. storing' # <<>> /\ Head(storing').changed \in BOOLEAN
      BY <1>6, ToStore
    <2> QED
      BY <1>2, <1>6, <2>1 DEF TreeInv, LayoutGetsWritten, Locked, Writable
  <1> QED
    BY <1>1, <1>4, <1>5, <1>6

LEMMA UndoKeeps ==
    ASSUME TreeInv, NEW n, UndoRuns(n)
    PROVE  TreeInv'
  <1>1. PICK r : /\ UNCHANGED <<read_only, exiting, writes>>
                 /\ \/ /\ storing' = <<[layout |-> r.layout, changed |-> (r.layout # Now), push |-> <<>>]>>
                       /\ UNCHANGED <<tree, slotted, dirty, diskLayout, undos, fails, failed>>
                    \/ SaveFails
                    \/ StoreLayout(r.layout, r.layout # Now) /\ storing' = <<>>
    BY DEF UndoRuns, Holding, Locked
  <1>2. CASE storing' = <<[layout |-> r.layout, changed |-> (r.layout # Now), push |-> <<>>]>>
             /\ UNCHANGED <<slotted, dirty, failed>>
    <2>1. storing' # <<>> /\ Head(storing').changed \in BOOLEAN
      BY <1>2, ToStore
    <2> QED
      BY <1>1, <1>2, <2>1 DEF TreeInv, LayoutGetsWritten, Locked, Writable, writes
  <1>3. CASE SaveFails
    BY <1>1, <1>3, FailureKeeps
  <1>4. CASE StoreLayout(r.layout, r.layout # Now) /\ storing' = <<>>
    BY <1>1, <1>4, StoreSettles DEF writes
  <1> QED
    BY <1>1, <1>2, <1>3, <1>4

LEMMA DelayedKeeps ==
    ASSUME TreeInv, NEW g, DelayedWrite(g)
    PROVE  TreeInv'
  <1>1. CASE g # gen
    BY <1>1 DEF DelayedWrite, TreeInv, LayoutGetsWritten, Locked, Writable
  <1>2. CASE g = gen /\ slotted
    <2>1. WriteIfDirty(tree, dirty) /\ UNCHANGED <<read_only, slotted, exiting, gen, asks, storing>>
      BY <1>2 DEF DelayedWrite, Flush
    <2>2. /\ dirty' \in BOOLEAN /\ failed' \in BOOLEAN
          /\ dirty' /\ Writable' => failed'
      BY <2>1, WriteSettles DEF TreeInv
    <2> QED
      BY <2>1, <2>2 DEF TreeInv, LayoutGetsWritten
  <1>3. CASE g = gen /\ ~slotted
    BY <1>3 DEF DelayedWrite, Flush, TreeInv, LayoutGetsWritten
  <1> QED
    BY <1>1, <1>2, <1>3 DEF TreeInv

LEMMA NextTree ==
    ASSUME TreeInv, [TreeNext]_treeVars
    PROVE  TreeInv'
  <1>1. CASE \E ops \in Batch : ApplyBatch(ops)
    BY <1>1, BatchKeeps
  <1>2. CASE Stores
    <2>1. StoreLayout(Head(storing).layout, Head(storing).changed)
          /\ UNCHANGED <<read_only, exiting, gen, asks>> /\ storing' = <<>>
      BY <1>2 DEF Stores, writes
    <2>2. Head(storing).changed \in BOOLEAN
      BY <1>2 DEF Stores, Locked, TreeInv
    <2> QED
      BY <2>1, <2>2, StoreSettles
  <1>3. CASE \E n \in DOMAIN undos : TakeUndo(n)
    BY <1>3 DEF TakeUndo, TreeInv, LayoutGetsWritten, memory, writes, Locked, Writable
  <1>4. CASE \E n \in DOMAIN taken : UndoRuns(n)
    BY <1>4, UndoKeeps
  <1>5. CASE ForgetUndo
    BY <1>5 DEF ForgetUndo, TreeInv, LayoutGetsWritten, memory, writes, Locked, Writable
  <1>6. CASE \E i \in Id : OtherChange(i)
    BY <1>6 DEF OtherChange, TreeInv, LayoutGetsWritten, writes, Locked, Writable
  <1>7. CASE LayoutView
    BY <1>7, ViewAsks DEF LayoutView, TreeInv
  <1>8. CASE \E marks : SetView(marks)
    BY <1>8, ViewAsks DEF SetView, TreeInv
  <1>9. CASE \E i \in Id : RecordConnected(i)
    BY <1>9, ViewAsks DEF RecordConnected
  <1>10. CASE Schedule
    BY <1>10 DEF Schedule, TreeInv, LayoutGetsWritten, memory, Locked, Writable
  <1>11. CASE \E g \in delayed : DelayedWrite(g)
    BY <1>11, DelayedKeeps
  <1>12. CASE ExitStarts
    BY <1>12 DEF ExitStarts, TreeInv, LayoutGetsWritten, memory
  <1>13. CASE ExitFlushes
    BY <1>13, WriteSettles DEF ExitFlushes, Flush, TreeInv, LayoutGetsWritten, writes
  <1>14. CASE TreeRestart
    BY <1>14 DEF TreeRestart, TreeInv, LayoutGetsWritten
  <1>15. CASE UNCHANGED treeVars
    BY <1>15 DEF treeVars, memory, writes, TreeInv, LayoutGetsWritten, Locked, Writable
  <1> QED
    BY <1>1, <1>2, <1>3, <1>4, <1>5, <1>6, <1>7, <1>8, <1>9, <1>10, <1>11, <1>12, <1>13, <1>14, <1>15 DEF TreeNext

(* A layout that was changed in memory and may be written has a write to   *)
(* come, unless the last write failed or the program is exiting            *)
(* (schedule_layout_write, write_if_dirty).                                *)
THEOREM LayoutWritten == TreeSpec => []LayoutGetsWritten
  <1>1. TreeInv => LayoutGetsWritten
    BY DEF TreeInv
  <1> QED
    BY <1>1, InitTree, NextTree, PTL DEF TreeSpec

(* -------------------------- the plan of a sync --------------------------- *)
Action == {"none", "identical", "conflict", "upload", "download", "delete local", "delete remote"}
Stat   == [ver : Nat, size : Nat, at : Nat]
CheckSet == [file : SyncFile, left : Nat, differs : Action]
Pair(f)  == [local |-> side["local"][f], remote |-> side["remote"][f]]
NotRead(f) == f \in Nested /\ ~opts.recursive
Planning == phase \in {"check", "planned", "run"}

PlanTyped ==
    /\ phase \in {"idle", "list local", "list remote", "check", "planned", "run"}
    /\ opts \in Options /\ clock \in Nat /\ versions \in Nat
    /\ side \in [Side -> [SyncFile -> Stat]] /\ base \in [SyncFile -> Nat]
    /\ plan \in [SyncFile -> Action] /\ checks \subseteq CheckSet
    /\ listed \in [SyncFile -> [local : Stat, remote : Stat]]
    /\ settled \subseteq Direction \X SyncFile

(* A version is given out once, and no file is from the future.            *)
VersionsSound(f) ==
    /\ base[f] # 0 /\ base[f] <= versions
    /\ \A s \in Side : side[s][f].ver <= versions /\ side[s][f].at <= clock

(* The copy that left the version both had is the later one.               *)
LaterIsEdited(f) ==
    \A s \in Side : There(s, f) /\ side[Other(s)][f].ver = base[f] =>
        side[s][f].ver = base[f] \/ side[s][f].at >= side[Other(s)][f].at

(* What was brought in step is the same on both sides, the copy no older   *)
(* than what it is a copy of.                                              *)
InStepSince(f) ==
    \A d \in Direction : <<d, f>> \in settled /\ There("local", f) /\ There("remote", f) =>
        /\ side["local"][f].ver = side["remote"][f].ver /\ side["local"][f].size = side["remote"][f].size
        /\ d = "toRemote" => side["remote"][f].at >= side["local"][f].at
        /\ d = "toLocal"  => side["local"][f].at >= side["remote"][f].at
FileSound(f) == VersionsSound(f) /\ LaterIsEdited(f) /\ InStepSince(f)

(* Nothing of a comparison is there before it, and what was listed of a    *)
(* file that was not touched since is what is there.                       *)
ListedSound ==
    /\ phase = "idle" => stale = {}
    /\ phase \in {"idle", "list local"} => plan = NoPlan /\ checks = {} /\ listed = NoneListed
    /\ phase = "list remote" =>
           /\ checks = {} /\ plan = NoPlan
           /\ \A f \in SyncFile :
                  IF NotRead(f) THEN listed[f] = [local |-> Gone, remote |-> Gone]
                  ELSE f \notin stale => listed[f].local = side["local"][f]

(* What an action says of the two copies it was chosen for.                *)
BothThere(l, r) == l.ver # 0 /\ r.ver # 0
Compares(l, r) ==
    BothThere(l, r) /\ ~opts.sizeOnly /\ opts.direction = "both" /\ l.size = r.size /\ Newer(l, r) # "same"
MeansWell(a, l, r) ==
    /\ a = "upload" /\ BothThere(l, r) =>
           \/ opts.direction = "toRemote" /\ (opts.sizeOnly \/ Newer(l, r) # "remote")
           \/ opts.direction = "both" /\ Newer(l, r) = "local"
    /\ a = "download" /\ BothThere(l, r) =>
           \/ opts.direction = "toLocal" /\ (opts.sizeOnly \/ Newer(l, r) # "local")
           \/ opts.direction = "both" /\ Newer(l, r) = "remote"
    /\ a = "delete remote" => l.ver = 0
    /\ a = "delete local"  => r.ver = 0
    /\ BothThere(l, r) /\ l.size = r.size =>
           \/ a = "identical"
           \/ ~opts.sizeOnly /\ opts.direction = "toRemote" /\ Newer(l, r) = "local"
           \/ ~opts.sizeOnly /\ opts.direction = "toLocal" /\ Newer(l, r) = "remote"
           \/ Compares(l, r)

PlanSound(f) ==
    Planning /\ f \notin stale /\ plan[f] # "none" =>
        /\ listed[f] = Pair(f)
        /\ MeansWell(plan[f], listed[f].local, listed[f].remote)
        /\ Compares(listed[f].local, listed[f].remote)
              /\ listed[f].local.ver = listed[f].remote.ver =>
                 \/ plan[f] = "identical"
                 \/ f \in unread /\ plan[f] \in {"upload", "conflict"}
                 \/ \E c \in checks : c.file = f

(* A pending check is about one file, whose action is as it was planned.   *)
CheckSound(c) ==
    LET l == listed[c.file].local
        r == listed[c.file].remote
    IN  /\ Compares(l, r) /\ plan[c.file] \in {"upload", "conflict"}
        /\ MeansWell(c.differs, l, r) /\ c.differs \in {"upload", "download"}
ChecksSound ==
    /\ phase # "check" => checks = {}
    /\ \A c \in checks : CheckSound(c)
    /\ \A c, d \in checks : c.file = d.file => c = d
(* Nothing is planned against the direction of the run.                    *)
Directed(a) ==
    (a = "upload" => opts.direction # "toLocal") /\ (a = "download" => opts.direction # "toRemote")
PlanDirected == \A f \in SyncFile : Directed(plan[f])
PlanInv ==
    /\ PlanTyped /\ PlanDirected /\ ListedSound /\ ChecksSound
    /\ \A f \in SyncFile : FileSound(f) /\ PlanSound(f)

LEMMA NewerIs ==
    ASSUME NEW l \in Stat, NEW r \in Stat
    PROVE  /\ Newer(l, r) \in {"local", "remote", "same"}
           /\ Newer(l, r) = "local"  <=> l.at > r.at + Tolerance
           /\ Newer(l, r) = "remote" <=> r.at > l.at + Tolerance
  BY SyncAssumption DEF SyncAssumption, Newer, Stat

LEMMA NotCompared ==
    ASSUME NEW a
    PROVE  Is(a).do = a /\ Is(a).differs = a /\ "compare" \notin DOMAIN Is(a)
  BY DEF Is

(* plan_file: every action it chooses fits the two copies.                 *)
PlanFits(P, l, r) ==
    /\ P.do \in Action /\ P.differs \in Action /\ MeansWell(P.do, l, r) /\ Directed(P.do)
    /\ "compare" \in DOMAIN P <=> Compares(l, r)
    /\ Compares(l, r) => /\ P.do \in {"upload", "conflict"} /\ P.differs \in {"upload", "download"}
                         /\ MeansWell(P.differs, l, r)

LEMMA FitsIfIs ==
    ASSUME NEW a \in Action, NEW l, NEW r, MeansWell(a, l, r), Directed(a), ~Compares(l, r)
    PROVE  PlanFits(Is(a), l, r)
  BY NotCompared DEF PlanFits

LEMMA BySizeFits ==
    ASSUME NEW l \in Stat, NEW r \in Stat, opts \in Options, BothThere(l, r),
           opts.sizeOnly \/ (l.size # r.size /\ opts.direction = "both")
    PROVE  LET a == BySize(l, r, opts.direction) IN
           a \in Action /\ MeansWell(a, l, r) /\ Directed(a) /\ ~Compares(l, r)
  <1>1. opts.direction \in {"toRemote", "toLocal", "both"} /\ opts.sizeOnly \in BOOLEAN
    BY DEF Options, Direction
  <1>2. l.ver # 0 /\ r.ver # 0 /\ ~Compares(l, r)
    BY DEF BothThere, Compares
  <1>3. CASE l.size = r.size
    <2>1. BySize(l, r, opts.direction) = "identical"
      BY <1>3 DEF BySize
    <2>2. opts.sizeOnly
      BY <1>3
    <2> QED
      BY <1>2, <2>1, <2>2 DEF MeansWell, Directed, Action
  <1>4. CASE l.size # r.size /\ opts.direction = "toRemote"
    <2>1. BySize(l, r, opts.direction) = "upload"
      BY <1>4 DEF BySize
    <2> QED
      BY <1>2, <1>4, <2>1 DEF MeansWell, Directed, Action
  <1>5. CASE l.size # r.size /\ opts.direction = "toLocal"
    <2>1. BySize(l, r, opts.direction) = "download"
      BY <1>5 DEF BySize
    <2> QED
      BY <1>2, <1>5, <2>1 DEF MeansWell, Directed, Action
  <1>6. CASE l.size # r.size /\ opts.direction = "both"
    <2>1. \/ BySize(l, r, opts.direction) = "upload" /\ Newer(l, r) = "local"
          \/ BySize(l, r, opts.direction) = "download" /\ Newer(l, r) = "remote"
          \/ BySize(l, r, opts.direction) = "conflict"
      BY <1>6, NewerIs DEF BySize
    <2> QED
      BY <1>2, <1>6, <2>1 DEF MeansWell, Directed, Action
  <1> QED
    BY <1>1, <1>3, <1>4, <1>5, <1>6

LEMMA BothFits ==
    ASSUME NEW l \in Stat, NEW r \in Stat, opts \in Options, BothThere(l, r),
           opts.direction = "both", ~opts.sizeOnly
    PROVE  PlanFits(Both(l, r), l, r)
  <1>1. CASE l.size # r.size
    <2>1. Both(l, r) = Is(BySize(l, r, opts.direction))
      BY <1>1 DEF Both
    <2> QED
      BY <1>1, <2>1, BySizeFits, FitsIfIs
  <1>2. CASE l.size = r.size /\ Newer(l, r) = "same"
    <2>1. Both(l, r) = Is("identical")
      BY <1>2 DEF Both
    <2>2. MeansWell("identical", l, r) /\ Directed("identical") /\ ~Compares(l, r)
      BY <1>2 DEF MeansWell, Directed, Compares
    <2> QED
      BY <2>1, <2>2, FitsIfIs DEF Action
  <1>3. CASE l.size = r.size /\ Newer(l, r) = "local"
    <2> DEFINE P == [do |-> "upload", differs |-> "upload", compare |-> TRUE]
    <2>1. Both(l, r) = P
      BY <1>3 DEF Both
    <2>2. P.do = "upload" /\ P.differs = "upload" /\ "compare" \in DOMAIN P
      OBVIOUS
    <2>3. Compares(l, r)
      BY <1>3 DEF Compares
    <2>4. MeansWell("upload", l, r) /\ Directed("upload")
      BY <1>3, <2>3 DEF MeansWell, Directed
    <2> HIDE DEF P
    <2> QED
      BY <2>1, <2>2, <2>3, <2>4 DEF PlanFits, Action
  <1>4. CASE l.size = r.size /\ Newer(l, r) = "remote"
    <2> DEFINE P == [do |-> "conflict", differs |-> "download", compare |-> TRUE]
    <2>1. Both(l, r) = P
      BY <1>4 DEF Both
    <2>2. P.do = "conflict" /\ P.differs = "download" /\ "compare" \in DOMAIN P
      OBVIOUS
    <2>3. Compares(l, r)
      BY <1>4 DEF Compares
    <2>4. MeansWell("download", l, r) /\ MeansWell("conflict", l, r) /\ Directed("conflict")
      BY <1>4, <2>3 DEF MeansWell, Directed
    <2> HIDE DEF P
    <2> QED
      BY <2>1, <2>2, <2>3, <2>4 DEF PlanFits, Action
  <1> QED
    BY <1>1, <1>2, <1>3, <1>4, NewerIs

LEMMA OneWayFits ==
    ASSUME NEW l \in Stat, NEW r \in Stat, opts \in Options, BothThere(l, r), ~opts.sizeOnly
    PROVE  /\ opts.direction = "toRemote" => PlanFits(Is(OneWay(l, r, "local", "upload")), l, r)
           /\ opts.direction = "toLocal"  => PlanFits(Is(OneWay(l, r, "remote", "download")), l, r)
  <1>1. l.ver # 0 /\ r.ver # 0
    BY DEF BothThere
  <1>2. ASSUME opts.direction = "toRemote" PROVE PlanFits(Is(OneWay(l, r, "local", "upload")), l, r)
    <2>1. \/ OneWay(l, r, "local", "upload") = "identical" /\ l.size = r.size
          \/ OneWay(l, r, "local", "upload") = "upload" /\ l.size = r.size /\ Newer(l, r) = "local"
          \/ OneWay(l, r, "local", "upload") = "upload" /\ l.size # r.size /\ Newer(l, r) # "remote"
          \/ OneWay(l, r, "local", "upload") = "conflict" /\ l.size # r.size
      BY DEF OneWay, Other
    <2>2. ~Compares(l, r)
      BY <1>2 DEF Compares
    <2>3. /\ MeansWell(OneWay(l, r, "local", "upload"), l, r) /\ Directed(OneWay(l, r, "local", "upload"))
          /\ OneWay(l, r, "local", "upload") \in Action
      BY <1>1, <1>2, <2>1 DEF MeansWell, Directed, Action
    <2> QED
      BY <2>2, <2>3, FitsIfIs
  <1>3. ASSUME opts.direction = "toLocal" PROVE PlanFits(Is(OneWay(l, r, "remote", "download")), l, r)
    <2>1. \/ OneWay(l, r, "remote", "download") = "identical" /\ l.size = r.size
          \/ OneWay(l, r, "remote", "download") = "download" /\ l.size = r.size /\ Newer(l, r) = "remote"
          \/ OneWay(l, r, "remote", "download") = "download" /\ l.size # r.size /\ Newer(l, r) # "local"
          \/ OneWay(l, r, "remote", "download") = "conflict" /\ l.size # r.size
      BY DEF OneWay, Other
    <2>2. ~Compares(l, r)
      BY <1>3 DEF Compares
    <2>3. /\ MeansWell(OneWay(l, r, "remote", "download"), l, r) /\ Directed(OneWay(l, r, "remote", "download"))
          /\ OneWay(l, r, "remote", "download") \in Action
      BY <1>1, <1>3, <2>1 DEF MeansWell, Directed, Action
    <2> QED
      BY <2>2, <2>3, FitsIfIs
  <1> QED
    BY <1>2, <1>3

LEMMA FileFits ==
    ASSUME NEW l \in Stat, NEW r \in Stat, opts \in Options
    PROVE  PlanFits(PlanFile(l, r), l, r)
  <1>1. opts.direction \in {"toRemote", "toLocal", "both"} /\ opts.sizeOnly \in BOOLEAN /\ opts.mirror \in BOOLEAN
    BY DEF Options, Direction
  <1>2. CASE BothThere(l, r)
    <2>1. PlanFile(l, r) = PlanBothPresent(l, r)
      BY <1>2 DEF PlanFile, BothThere
    <2>2. CASE opts.sizeOnly
      <3>1. PlanBothPresent(l, r) = Is(BySize(l, r, opts.direction))
        BY <2>2 DEF PlanBothPresent
      <3> QED
        BY <1>2, <2>1, <2>2, <3>1, BySizeFits, FitsIfIs
    <2>3. CASE ~opts.sizeOnly
      <3>1. /\ opts.direction = "toRemote" => PlanBothPresent(l, r) = Is(OneWay(l, r, "local", "upload"))
            /\ opts.direction = "toLocal" => PlanBothPresent(l, r) = Is(OneWay(l, r, "remote", "download"))
            /\ opts.direction = "both" => PlanBothPresent(l, r) = Both(l, r)
        BY <1>1, <2>3 DEF PlanBothPresent
      <3> QED
        BY <1>1, <1>2, <2>1, <2>3, <3>1, OneWayFits, BothFits
    <2> QED
      BY <1>1, <2>2, <2>3
  <1>3. CASE ~BothThere(l, r)
    <2>1. ~Compares(l, r)
      BY <1>3 DEF Compares
    <2>2. CASE l.ver # 0
      <3>1. r.ver = 0
        BY <1>3, <2>2 DEF BothThere
      <3>2. \E a \in {"upload", "delete local", "none"} : PlanFile(l, r) = Is(a) /\ Directed(a)
        BY <1>1, <2>2, <3>1 DEF PlanFile, Directed
      <3>3. \A a \in {"upload", "delete local", "none"} : MeansWell(a, l, r) /\ a \in Action
        BY <1>3, <3>1 DEF MeansWell, Directed, Action
      <3> QED
        BY <2>1, <3>2, <3>3, FitsIfIs
    <2>3. CASE l.ver = 0
      <3>1. \E a \in {"download", "delete remote", "none"} : PlanFile(l, r) = Is(a) /\ Directed(a)
        BY <1>1, <2>3 DEF PlanFile, Directed
      <3>2. \A a \in {"download", "delete remote", "none"} : MeansWell(a, l, r) /\ a \in Action
        BY <1>3, <2>3 DEF MeansWell, Directed, Action
      <3> QED
        BY <2>1, <3>1, <3>2, FitsIfIs
    <2> QED
      BY <2>2, <2>3
  <1> QED
    BY <1>2, <1>3

(* ------------------------------- the steps ------------------------------- *)
LEMMA SideMoves ==
    ASSUME side \in [Side -> [SyncFile -> Stat]], NEW s \in Side, NEW f \in SyncFile, NEW x \in Stat,
           side' = [side EXCEPT ![s][f] = x]
    PROVE  /\ side' \in [Side -> [SyncFile -> Stat]] /\ side'[s][f] = x
           /\ \A t \in Side, g \in SyncFile : t # s \/ g # f => side'[t][g] = side[t][g]
  OBVIOUS

LEMMA Sides == "local" \in Side /\ "remote" \in Side /\ \A s \in Side : Other(s) \in Side /\ Other(s) # s
  BY DEF Side, Other

LEMMA FileKept ==
    ASSUME PlanTyped, PlanTyped', NEW f \in SyncFile, FileSound(f),
           \A s \in Side : side'[s][f] = side[s][f], base'[f] = base[f], clock' >= clock, versions' >= versions,
           \A d \in Direction : <<d, f>> \in settled' => <<d, f>> \in settled
    PROVE  FileSound(f)'
  <1>1. base[f] \in Nat /\ versions \in Nat /\ clock \in Nat /\ versions' \in Nat /\ clock' \in Nat
    BY DEF PlanTyped
  <1>5. \A s \in Side : side[s][f] \in Stat
    BY DEF PlanTyped
  <1>6. \A s \in Side : side[s][f].ver \in Nat /\ side[s][f].at \in Nat
    BY <1>5 DEF Stat
  <1>2. VersionsSound(f)'
    BY <1>1, <1>6 DEF FileSound, VersionsSound
  <1>3. LaterIsEdited(f)'
    BY <1>1, <1>6, Sides DEF FileSound, LaterIsEdited, There
  <1>4. InStepSince(f)'
    BY <1>1, Sides DEF FileSound, InStepSince, There
  <1> QED
    BY <1>2, <1>3, <1>4 DEF FileSound

LEMMA WorldKept ==
    ASSUME PlanInv, PlanTyped', UNCHANGED world, settled' = settled
    PROVE  \A f \in SyncFile : FileSound(f)'
  <1>1. PlanTyped /\ \A f \in SyncFile : FileSound(f)
    BY DEF PlanInv
  <1>2. clock' = clock /\ versions' = versions /\ side' = side /\ base' = base
    BY DEF world
  <1>4. clock \in Nat /\ versions \in Nat
    BY <1>1 DEF PlanTyped
  <1>3. clock' >= clock /\ versions' >= versions
    BY <1>2, <1>4
  <1> QED
    BY <1>1, <1>2, <1>3, FileKept

LEMMA PlanKept ==
    ASSUME NEW f \in SyncFile, PlanSound(f), Planning, Planning', opts' = opts,
           f \notin stale' => f \notin stale,
           \A s \in Side : side'[s][f] = side[s][f], listed'[f] = listed[f], plan'[f] = plan[f],
           unread \subseteq unread', (\E c \in checks : c.file = f) => \E c \in checks' : c.file = f
    PROVE  PlanSound(f)'
  <1>1. Pair(f)' = Pair(f)
    BY Sides DEF Pair
  <1>2. /\ MeansWell(plan[f], listed[f].local, listed[f].remote)' = MeansWell(plan[f], listed[f].local, listed[f].remote)
        /\ Compares(listed[f].local, listed[f].remote)' = Compares(listed[f].local, listed[f].remote)
    BY DEF MeansWell, Compares, BothThere, Newer
  <1> QED
    BY <1>1, <1>2 DEF PlanSound

LEMMA DirectedKept ==
    ASSUME PlanDirected, UNCHANGED <<plan, opts>>
    PROVE  PlanDirected'
  BY DEF PlanDirected, Directed

LEMMA NothingPlanned ==
    ASSUME plan' = NoPlan
    PROVE  PlanDirected'
  BY DEF PlanDirected, Directed, NoPlan

LEMMA NotPlanning ==
    ASSUME NEW f, ~Planning'
    PROVE  PlanSound(f)'
  BY DEF PlanSound

LEMMA OverIs ==
    ASSUME PlanInv, Over, UNCHANGED <<world, settled>>
    PROVE  PlanInv'
  <1>1. PlanTyped'
    BY DEF PlanInv, PlanTyped, Over, world, NoOptions, Options, Direction, NoPlan, NoneListed, Gone, Action, Stat
  <1>2. ListedSound' /\ ChecksSound' /\ ~Planning'
    BY DEF Over, ListedSound, ChecksSound, Planning
  <1> QED
    BY <1>1, <1>2, WorldKept, NotPlanning, NothingPlanned DEF PlanInv, Over

LEMMA CompareKeeps ==
    ASSUME PlanInv, NEW o \in Options, Compare(o)
    PROVE  PlanInv'
  <1>1. PlanTyped'
    BY DEF PlanInv, PlanTyped, Compare, world
  <1>2. ListedSound' /\ ChecksSound' /\ ~Planning'
    BY DEF PlanInv, Compare, ListedSound, ChecksSound, Planning, NoPlan, NoneListed
  <1>3. PlanDirected'
    BY NothingPlanned DEF PlanInv, Compare, ListedSound
  <1> QED
    BY <1>1, <1>2, <1>3, WorldKept, NotPlanning DEF PlanInv, Compare

LEMMA ReadTyped ==
    ASSUME PlanTyped, NEW s \in Side
    PROVE  ReadOf(s) \in [SyncFile -> [local : Stat, remote : Stat]]
  <1>1. \A t \in Side : \A g \in SyncFile : side[t][g] \in Stat
    BY DEF PlanTyped
  <1>2. \A g \in SyncFile : listed[g] \in [local : Stat, remote : Stat]
    BY DEF PlanTyped
  <1>3. \A g \in SyncFile : ReadOf(s)[g] \in [local : Stat, remote : Stat]
    BY <1>1, <1>2, Sides DEF ReadOf, Side
  <1> QED
    BY <1>3 DEF ReadOf

LEMMA ReadIs ==
    ASSUME PlanTyped, NEW s \in Side, NEW f \in SyncFile
    PROVE  /\ NotRead(f) => ReadOf(s)[f] = listed[f]
           /\ ~NotRead(f) => /\ ReadOf(s)[f].local = IF s = "local" THEN side["local"][f] ELSE listed[f].local
                             /\ ReadOf(s)[f].remote = IF s = "remote" THEN side["remote"][f] ELSE listed[f].remote
  <1>1. listed[f] \in [local : Stat, remote : Stat]
    BY DEF PlanTyped
  <1> QED
    BY <1>1 DEF ReadOf, NotRead

LEMMA ListLocalKeeps ==
    ASSUME PlanInv, ListLocal
    PROVE  PlanInv'
  <1>1. CASE Over
    BY <1>1, OverIs DEF ListLocal
  <1>2. CASE /\ listed' = ReadOf("local") /\ phase' = "list remote"
             /\ UNCHANGED <<opts, plan, checks, budget, stale, unread>>
    <2>5. PlanTyped /\ ReadOf("local") \in [SyncFile -> [local : Stat, remote : Stat]]
      BY ReadTyped, Sides DEF PlanInv
    <2>6. listed' \in [SyncFile -> [local : Stat, remote : Stat]]
      BY <1>2, <2>5
    <2>1. PlanTyped /\ PlanTyped'
      BY <1>2, <2>5, <2>6 DEF ListLocal, PlanTyped, world
    <2>2. plan = NoPlan /\ checks = {} /\ listed = NoneListed
      BY DEF ListLocal, PlanInv, ListedSound
    <2>3. ASSUME NEW f \in SyncFile
          PROVE  IF NotRead(f) THEN listed'[f] = [local |-> Gone, remote |-> Gone]
                 ELSE listed'[f].local = side["local"][f]
      BY <1>2, <2>1, <2>2, ReadIs, Sides DEF NoneListed
    <2>4. ListedSound' /\ ChecksSound' /\ ~Planning'
      BY <1>2, <2>2, <2>3 DEF ListLocal, ListedSound, ChecksSound, Planning, NoPlan, NotRead, world
    <2> QED
      BY <1>2, <2>1, <2>4, WorldKept, NotPlanning, DirectedKept DEF PlanInv, ListLocal
  <1> QED
    BY <1>1, <1>2 DEF ListLocal

LEMMA ListRemoteKeeps ==
    ASSUME PlanInv, ListRemote
    PROVE  PlanInv'
  <1>1. CASE Over
    BY <1>1, OverIs DEF ListRemote
  <1>2. CASE PlanFiles(ReadOf("remote"))
    <2> DEFINE l == ReadOf("remote")
               P(f) == PlanFile(l[f].local, l[f].remote)
    <2>10. PlanTyped
      BY DEF PlanInv
    <2>1. PlanTyped /\ l \in [SyncFile -> [local : Stat, remote : Stat]]
      BY <2>10, ReadTyped, Sides
    <2>2. ASSUME NEW f \in SyncFile
          PROVE  /\ l[f].local \in Stat /\ l[f].remote \in Stat
                 /\ l[f].local.size \in Nat
                 /\ PlanFits(P(f), l[f].local, l[f].remote)
      BY <2>1, FileFits DEF PlanTyped, Stat
    <2>3. /\ listed' = l /\ phase' = "check" /\ UNCHANGED <<opts, stale, unread, world, settled>>
          /\ plan' = [f \in SyncFile |-> P(f).do]
          /\ checks' = {[file |-> f, left |-> l[f].local.size, differs |-> P(f).differs] :
                           f \in {g \in SyncFile : "compare" \in DOMAIN P(g)}}
      BY <1>2 DEF PlanFiles, ListRemote
    <2> HIDE DEF l, P
    <2>4. ASSUME NEW c \in checks'
          PROVE  /\ c \in CheckSet /\ c.file \in SyncFile /\ c.differs = P(c.file).differs
                 /\ c.left = l[c.file].local.size
                 /\ "compare" \in DOMAIN P(c.file)
      <3>1. PICK f \in SyncFile : /\ "compare" \in DOMAIN P(f)
                                  /\ c = [file |-> f, left |-> l[f].local.size, differs |-> P(f).differs]
        BY <2>3
      <3> QED
        BY <2>2, <3>1 DEF CheckSet, PlanFits
    <2>5. PlanTyped'
      <3>1. plan' \in [SyncFile -> Action]
        BY <2>2, <2>3 DEF PlanFits
      <3>2. checks' \subseteq CheckSet
        BY <2>4
      <3> QED
        BY <2>1, <2>3, <3>1, <3>2 DEF PlanTyped, world
    <2>6. ListedSound'
      BY <2>3 DEF ListedSound
    <2>11. PlanDirected'
      BY <2>2, <2>3 DEF PlanFits, PlanDirected, Directed
    <2>7. ASSUME NEW f \in SyncFile
          PROVE  /\ MeansWell(plan[f], listed[f].local, listed[f].remote)'
                 /\ Compares(listed[f].local, listed[f].remote)' <=> Compares(l[f].local, l[f].remote)
                 /\ Compares(l[f].local, l[f].remote) => "compare" \in DOMAIN P(f)
      BY <2>2, <2>3 DEF PlanFits, MeansWell, Compares, BothThere, Newer
    <2>8. ChecksSound'
      <3>1. ASSUME NEW c \in checks' PROVE CheckSound(c)'
        <4>1. PlanFits(P(c.file), l[c.file].local, l[c.file].remote) /\ c.file \in SyncFile
          BY <2>2, <2>4
        <4>2. /\ Compares(l[c.file].local, l[c.file].remote) /\ plan'[c.file] = P(c.file).do
              /\ P(c.file).do \in {"upload", "conflict"} /\ c.differs \in {"upload", "download"}
              /\ MeansWell(c.differs, l[c.file].local, l[c.file].remote)
          BY <2>3, <2>4, <4>1 DEF PlanFits
        <4> QED
          BY <2>3, <4>2 DEF CheckSound, MeansWell, Compares, BothThere, Newer
      <3>2. ASSUME NEW c \in checks', NEW d \in checks', c.file = d.file PROVE c = d
        <4>1. c \in CheckSet /\ d \in CheckSet /\ c.left = d.left /\ c.differs = d.differs
          BY <2>4, <3>2
        <4> QED
          BY <3>2, <4>1 DEF CheckSet
      <3> QED
        BY <2>3, <3>1, <3>2 DEF ChecksSound
    <2>9. ASSUME NEW f \in SyncFile PROVE PlanSound(f)'
      <3>1. CASE NotRead(f)
        <4>1. l[f] = [local |-> Gone, remote |-> Gone]
          BY <2>1, <3>1, ReadIs, Sides DEF PlanInv, ListRemote, ListedSound, l
        <4>2. P(f) = Is("none")
          BY <4>1 DEF P, PlanFile, Gone
        <4> QED
          BY <2>3, <4>2, NotCompared DEF PlanSound
      <3>2. CASE ~NotRead(f) /\ f \notin stale
        <4>1. l[f].local = side["local"][f] /\ l[f].remote = side["remote"][f]
          BY <2>1, <3>2, ReadIs, Sides DEF PlanInv, ListRemote, ListedSound, l
        <4>2. l[f] = Pair(f)
          <5>1. l[f] \in [local : Stat, remote : Stat]
            BY <2>1
          <5>2. l[f] = [local |-> l[f].local, remote |-> l[f].remote]
            BY <5>1
          <5> QED
            BY <4>1, <5>2 DEF Pair
        <4>3. "compare" \in DOMAIN P(f) => \E c \in checks' : c.file = f
          <5> DEFINE c == [file |-> f, left |-> l[f].local.size, differs |-> P(f).differs]
          <5>1. c.file = f
            OBVIOUS
          <5>2. "compare" \in DOMAIN P(f) => c \in checks'
            BY <2>3
          <5> QED
            BY <5>1, <5>2
        <4> QED
          BY <2>3, <2>7, <4>2, <4>3 DEF PlanSound, Pair, world
      <3>3. CASE f \in stale
        BY <2>3, <3>3 DEF PlanSound
      <3> QED
        BY <3>1, <3>2, <3>3
    <2> QED
      BY <2>3, <2>5, <2>6, <2>8, <2>9, <2>11, WorldKept DEF PlanInv
  <1> QED
    BY <1>1, <1>2 DEF ListRemote, Unreadable

(* ----------------------- the check of the contents ----------------------- *)
LEMMA SmallestSize ==
    ASSUME NEW T, T \subseteq Nat, T # {}
    PROVE  \E m \in T : \A n \in T : m <= n
  <1> DEFINE Less == OpToRel(<, Nat)
  <1>1. PICK m \in T : \A n \in T : ~ (<<n, m>> \in Less)
    BY NatLessThanWellFounded, WFMin
  <1>2. ASSUME NEW n \in T PROVE m <= n
    <2>1. ~ (<<n, m>> \in Less) /\ n \in Nat /\ m \in Nat
      BY <1>1
    <2> QED
      BY <2>1 DEF OpToRel
  <1> QED
    BY <1>2

LEMMA CurrentIs ==
    ASSUME PlanTyped, checks # {}
    PROVE  Current \in checks
  <1> DEFINE size(c) == listed[c.file].local.size
             Sizes == {size(c) : c \in checks}
  <1>1. \A c \in checks : size(c) \in Nat
    <2>1. ASSUME NEW c \in checks PROVE size(c) \in Nat
      <3>1. c.file \in SyncFile
        BY DEF PlanTyped, CheckSet
      <3>2. listed[c.file] \in [local : Stat, remote : Stat]
        BY <3>1 DEF PlanTyped
      <3>3. listed[c.file].local \in Stat
        BY <3>2
      <3> QED
        BY <3>3 DEF Stat
    <2> QED
      BY <2>1
  <1>2. Sizes \subseteq Nat /\ Sizes # {}
    BY <1>1
  <1>3. \E n \in Sizes : \A m \in Sizes : n <= m
    BY <1>2, SmallestSize
  <1>5. \E c \in checks : \A d \in checks : size(c) <= size(d)
    BY <1>3
  <1> QED
    BY <1>5 DEF Current, Smallest

(* What a check that goes on or ends leaves of the others.                 *)
LEMMA CheckEnds ==
    ASSUME PlanInv, phase = "check", NEW k \in checks, NEW a \in Action, Directed(a),
           plan' = [plan EXCEPT ![k.file] = a], checks' = checks \ {k},
           UNCHANGED <<world, phase, opts, listed, stale, settled>>, unread \subseteq unread',
           k.file \notin stale =>
               /\ MeansWell(a, listed[k.file].local, listed[k.file].remote)
               /\ side["local"][k.file].ver = side["remote"][k.file].ver =>
                      a = "identical" \/ (k.file \in unread' /\ a \in {"upload", "conflict"})
    PROVE  PlanInv'
  <1>1. PlanTyped /\ ChecksSound /\ k \in CheckSet /\ k.file \in SyncFile
    BY DEF PlanInv, PlanTyped, CheckSet
  <1>2. PlanTyped'
    BY <1>1 DEF PlanTyped, world
  <1>3. ListedSound'
    BY DEF ListedSound
  <1>8. PlanDirected'
    BY <1>1 DEF PlanInv, PlanTyped, PlanDirected, Directed
  <1>4. \A c \in checks' : c \in checks /\ c.file \in SyncFile /\ c.file # k.file /\ plan'[c.file] = plan[c.file]
    BY <1>1 DEF ChecksSound, PlanTyped, CheckSet
  <1>5. ASSUME NEW c \in checks' PROVE CheckSound(c)'
    BY <1>1, <1>4 DEF ChecksSound, CheckSound, Compares, MeansWell, BothThere, Newer
  <1>6. ChecksSound'
    BY <1>1, <1>4, <1>5 DEF ChecksSound
  <1>7. ASSUME NEW f \in SyncFile PROVE PlanSound(f)'
    <2>1. CASE f # k.file
      <3>1. plan'[f] = plan[f] /\ ((\E c \in checks : c.file = f) => \E c \in checks' : c.file = f)
        BY <1>1, <2>1 DEF PlanTyped
      <3> QED
        BY <3>1, PlanKept DEF PlanInv, Planning, world
    <2>2. CASE f = k.file
      <3>1. plan[f] # "none" /\ plan'[f] = a
        BY <1>1, <2>2 DEF ChecksSound, CheckSound, PlanTyped
      <3>2. f \notin stale => listed[f] = Pair(f) /\ PlanSound(f)
        BY <3>1 DEF PlanInv, PlanSound, Planning
      <3>3. f \notin stale => listed[f].local = side["local"][f] /\ listed[f].remote = side["remote"][f]
        BY <3>2 DEF Pair
      <3>4. f \notin stale =>
                /\ MeansWell(plan[f], listed[f].local, listed[f].remote)'
                /\ listed'[f] = Pair(f)'
        BY <2>2, <3>1, <3>2 DEF MeansWell, BothThere, Compares, Newer, Pair, world
      <3> QED
        BY <2>2, <3>1, <3>3, <3>4 DEF PlanSound
    <2> QED
      BY <2>1, <2>2
  <1> QED
    BY <1>2, <1>3, <1>6, <1>7, <1>8, WorldKept DEF PlanInv

LEMMA UnverifiedKeeps ==
    ASSUME PlanInv, Unverified
    PROVE  PlanInv'
  <1> DEFINE k == Current
  <1>1. PlanTyped /\ k \in checks /\ phase = "check"
    BY CurrentIs DEF PlanInv, Unverified
  <1>2. /\ checks' = checks \ {k} /\ unread' = unread \cup {k.file}
        /\ UNCHANGED <<world, phase, opts, plan, listed, stale, settled>>
    BY DEF Unverified
  <1> HIDE DEF k
  <1>3. k.file \in SyncFile /\ plan[k.file] \in {"upload", "conflict"}
    BY <1>1 DEF PlanInv, PlanTyped, CheckSet, ChecksSound, CheckSound
  <1>4. plan' = [plan EXCEPT ![k.file] = plan[k.file]] /\ plan[k.file] \in Action /\ Directed(plan[k.file])
    BY <1>1, <1>2, <1>3 DEF PlanTyped, PlanInv, PlanDirected
  <1>5. k.file \notin stale => MeansWell(plan[k.file], listed[k.file].local, listed[k.file].remote)
    BY <1>1, <1>3 DEF PlanInv, PlanSound, Planning
  <1> QED
    BY <1>1, <1>2, <1>3, <1>4, <1>5, CheckEnds

LEMMA ChunkKeeps ==
    ASSUME PlanInv, CompareChunk
    PROVE  PlanInv'
  <1> DEFINE k    == Current
             l    == side["local"][k.file]
             r    == side["remote"][k.file]
             size == listed[k.file].local.size
             want == IF Chunk < k.left THEN Chunk ELSE k.left
  <1>1. PlanTyped /\ k \in checks /\ phase = "check"
    BY CurrentIs DEF PlanInv, CompareChunk
  <1>2. /\ size # 0 => l.ver # 0 /\ r.ver # 0
        /\ \/ /\ size = 0 \/ (l.ver = r.ver /\ k.left = want)
              /\ plan' = [plan EXCEPT ![k.file] = "identical"] /\ checks' = checks \ {k}
           \/ /\ size # 0 /\ (l.ver = r.ver \/ k.left > want) /\ k.left > want
              /\ checks' = (checks \ {k}) \cup {[k EXCEPT !.left = @ - want]}
              /\ UNCHANGED plan
           \/ /\ size # 0 /\ l.ver # r.ver
              /\ plan' = [plan EXCEPT ![k.file] = k.differs] /\ checks' = checks \ {k}
        /\ UNCHANGED <<world, phase, opts, listed, stale, unread, settled>>
    BY DEF CompareChunk
  <1> HIDE DEF k
  <1>3. k \in CheckSet /\ k.file \in SyncFile /\ k.left \in Nat /\ CheckSound(k)
    BY <1>1 DEF PlanInv, PlanTyped, CheckSet, ChecksSound
  <1>4. CASE plan' = [plan EXCEPT ![k.file] = "identical"] /\ checks' = checks \ {k}
    <2>1. MeansWell("identical", listed[k.file].local, listed[k.file].remote) /\ "identical" \in Action /\ Directed("identical")
      BY DEF MeansWell, Action, Directed
    <2>2. UNCHANGED <<world, phase, opts, listed, stale, settled>> /\ unread \subseteq unread'
      BY <1>2
    <2> DEFINE a == "identical"
    <2>3. /\ a \in Action /\ Directed(a) /\ plan' = [plan EXCEPT ![k.file] = a] /\ a = "identical"
          /\ MeansWell(a, listed[k.file].local, listed[k.file].remote)
      BY <1>4, <2>1
    <2>4. /\ PlanInv /\ phase = "check" /\ k \in checks /\ checks' = checks \ {k}
          /\ k.file \notin stale =>
               /\ MeansWell(a, listed[k.file].local, listed[k.file].remote)
               /\ side["local"][k.file].ver = side["remote"][k.file].ver =>
                      a = "identical" \/ (k.file \in unread' /\ a \in {"upload", "conflict"})
      BY <1>1, <1>4, <2>3
    <2> HIDE DEF a
    <2> QED
      BY <2>2, <2>3, <2>4, CheckEnds
  <1>5. CASE plan' = [plan EXCEPT ![k.file] = k.differs] /\ checks' = checks \ {k} /\ l.ver # r.ver
    <2>1. MeansWell(k.differs, listed[k.file].local, listed[k.file].remote) /\ k.differs \in Action /\ Directed(k.differs)
      BY <1>3 DEF CheckSound, Action, Directed, Compares
    <2> QED
      BY <1>1, <1>2, <1>5, <2>1, CheckEnds
  <1>6. CASE k.left > want /\ UNCHANGED plan
             /\ checks' = (checks \ {k}) \cup {[k EXCEPT !.left = @ - want]}
    <2> DEFINE n == [k EXCEPT !.left = @ - want]
    <2>1. want \in Nat /\ want <= k.left
      BY <1>3, SyncAssumption DEF SyncAssumption
    <2>2. k.left - want \in Nat
      BY <1>3, <2>1
    <2>3. n \in CheckSet /\ n.file = k.file /\ n.differs = k.differs
      BY <1>3, <2>2 DEF CheckSet
    <2>4. checks' = (checks \ {k}) \cup {n}
      BY <1>6
    <2> HIDE DEF n
    <2>5. PlanTyped'
      BY <1>1, <1>2, <1>6, <2>3, <2>4 DEF PlanTyped, world
    <2>6. ListedSound'
      BY <1>1, <1>2 DEF ListedSound
    <2>7. \A c \in checks : CheckSound(c)
      BY DEF PlanInv, ChecksSound
    <2>8. \A c, d \in checks : c.file = d.file => c = d
      BY DEF PlanInv, ChecksSound
    <2>9. ChecksSound'
      <3>1. \A c \in checks' : CheckSound(c)'
        <4>1. ASSUME NEW c, CheckSound(c) PROVE CheckSound(c)'
          BY <1>2, <1>6, <4>1 DEF CheckSound, Compares, MeansWell, BothThere, Newer
        <4>2. CheckSound(n)
          BY <1>3, <2>3 DEF CheckSound
        <4> QED
          BY <2>4, <2>7, <4>1, <4>2
      <3>2. \A c, d \in checks' : c.file = d.file => c = d
        BY <1>1, <2>3, <2>4, <2>8
      <3> QED
        BY <1>1, <1>2, <3>1, <3>2 DEF ChecksSound
    <2>10. ASSUME NEW f \in SyncFile PROVE PlanSound(f)'
      <3>1. (\E c \in checks : c.file = f) => \E c \in checks' : c.file = f
        BY <2>3, <2>4
      <3> QED
        BY <1>1, <1>2, <1>6, <3>1, PlanKept DEF PlanInv, Planning, world
    <2> QED
      BY <1>2, <1>6, <2>5, <2>6, <2>9, <2>10, WorldKept, DirectedKept DEF PlanInv
  <1> QED
    BY <1>2, <1>4, <1>5, <1>6

(* ------------------------- the run and the world ------------------------- *)
LEMMA PlannedKeeps ==
    ASSUME PlanInv, PlanTyped', phase \in {"check", "planned"}, phase' \in {"planned", "run"}, checks = {},
           UNCHANGED <<world, opts, plan, checks, listed, stale, unread, settled>>
    PROVE  PlanInv'
  <1>1. ListedSound' /\ ChecksSound'
    BY DEF ListedSound, ChecksSound
  <1>2. ASSUME NEW f \in SyncFile PROVE PlanSound(f)'
    BY PlanKept DEF PlanInv, Planning, world
  <1> QED
    BY <1>1, <1>2, WorldKept, DirectedKept DEF PlanInv

LEMMA RunKeeps ==
    ASSUME PlanInv, Planned \/ RunPlan \/ PlanEnds
    PROVE  PlanInv'
  <1>1. CASE Over /\ UNCHANGED <<world, settled>>
    BY <1>1, OverIs
  <1>2. CASE ~ Over
    <2>1. /\ phase \in {"check", "planned"} /\ phase' \in {"planned", "run"} /\ checks = {}
          /\ UNCHANGED <<world, opts, plan, checks, listed, stale, unread, settled>>
      BY <1>2 DEF Planned, RunPlan, PlanEnds, PlanInv, ChecksSound
    <2>2. PlanTyped'
      BY <2>1 DEF PlanInv, PlanTyped, world
    <2> QED
      BY <2>1, <2>2, PlannedKeeps
  <1>3. CASE Over /\ ~ UNCHANGED <<world, settled>>
    BY <1>3 DEF Planned, RunPlan, PlanEnds
  <1> QED
    BY <1>1, <1>2, <1>3

(* A step of the run changes one file, which is then done.                 *)
LEMMA DoneKeeps ==
    ASSUME PlanInv, PlanTyped', phase = "run", NEW f \in SyncFile, Did(f),
           \A s \in Side, g \in SyncFile : g # f => side'[s][g] = side[s][g] /\ base'[g] = base[g],
           \A d \in Direction, g \in SyncFile : g # f /\ <<d, g>> \in settled' => <<d, g>> \in settled,
           FileSound(f)',
           UNCHANGED <<clock, versions, phase, opts, checks, listed, stale, unread>>
    PROVE  PlanInv'
  <1>1. PlanTyped
    BY DEF PlanInv
  <1>2. plan'[f] = "none" /\ \A g \in SyncFile : g # f => plan'[g] = plan[g]
    BY <1>1 DEF Did, PlanTyped
  <1>3. ListedSound' /\ ChecksSound'
    BY DEF PlanInv, ListedSound, ChecksSound
  <1>7. PlanDirected'
    BY <1>2 DEF PlanInv, PlanDirected, Directed
  <1>4. clock \in Nat /\ versions \in Nat
    BY <1>1 DEF PlanTyped
  <1>5. clock' >= clock /\ versions' >= versions
    BY <1>4
  <1>6. ASSUME NEW g \in SyncFile PROVE FileSound(g)' /\ PlanSound(g)'
    <2>1. CASE g = f
      BY <1>2, <2>1 DEF PlanSound
    <2>2. CASE g # f
      <3>1. FileSound(g)'
        <4>1. /\ \A s \in Side : side'[s][g] = side[s][g]
              /\ base'[g] = base[g] /\ \A d \in Direction : <<d, g>> \in settled' => <<d, g>> \in settled
          BY <2>2, Sides
        <4>2. FileSound(g)
          BY DEF PlanInv
        <4> QED
          BY <1>1, <1>5, <4>1, <4>2, FileKept
      <3>2. PlanSound(g)'
        BY <1>2, <2>2, PlanKept DEF PlanInv, Planning
      <3> QED
        BY <3>1, <3>2
    <2> QED
      BY <2>1, <2>2
  <1> QED
    BY <1>3, <1>6, <1>7 DEF PlanInv

LEMMA TransferKeeps ==
    ASSUME PlanInv, NEW f \in SyncFile, NEW from \in Side, Transfer(f, from)
    PROVE  PlanInv'
  <1> DEFINE to  == Other(from)
             old == side[from][f]
             new == [old EXCEPT !.at = clock]
  <1>1. PlanTyped /\ FileSound(f) /\ to \in Side /\ to # from
    BY Sides DEF PlanInv
  <1>2. old \in Stat /\ clock \in Nat /\ opts.direction \in Direction
    BY <1>1 DEF PlanTyped, Options
  <1>3. /\ new \in Stat /\ new.ver = old.ver /\ new.size = old.size /\ new.at = clock
        /\ old.ver \in Nat /\ old.at \in Nat
    BY <1>2 DEF Stat
  <1>4. /\ phase = "run" /\ Did(f)
        /\ UNCHANGED <<clock, versions, phase, opts, checks, listed, stale, unread>>
    BY DEF Transfer
  <1>5. plan' \in [SyncFile -> Action]
    BY <1>1, <1>4 DEF Did, PlanTyped, Action
  <1>6. CASE UNCHANGED <<side, base, settled>>
    <2>1. PlanTyped'
      BY <1>1, <1>4, <1>5, <1>6 DEF PlanTyped
    <2>2. FileSound(f)'
      BY <1>4, <1>6, <2>1, WorldKept DEF world
    <2> QED
      BY <1>4, <1>6, <2>1, <2>2, DoneKeeps
  <1>7. CASE /\ There(from, f) /\ side' = [side EXCEPT ![to][f] = new]
             /\ base' = [base EXCEPT ![f] = old.ver]
             /\ settled' = (settled \ (Direction \X {f})) \cup {<<opts.direction, f>>}
    <2> HIDE DEF new, to
    <2>1. side \in [Side -> [SyncFile -> Stat]]
      BY <1>1 DEF PlanTyped
    <2>2. /\ side' \in [Side -> [SyncFile -> Stat]] /\ side'[to][f] = new
          /\ \A t \in Side, g \in SyncFile : t # to \/ g # f => side'[t][g] = side[t][g]
      BY <1>1, <1>3, <1>7, <2>1, SideMoves
    <2>3. side'[from][f] = old
      BY <1>1, <2>2
    <2>4. /\ base' \in [SyncFile -> Nat] /\ base'[f] = old.ver
          /\ \A g \in SyncFile : g # f => base'[g] = base[g]
      BY <1>1, <1>3, <1>7 DEF PlanTyped
    <2>5. /\ settled' \subseteq Direction \X SyncFile
          /\ \A d \in Direction, g \in SyncFile : g # f /\ <<d, g>> \in settled' => <<d, g>> \in settled
          /\ \A d \in Direction : <<d, f>> \in settled' => d = opts.direction
      <3>1. settled \subseteq Direction \X SyncFile
        BY <1>1 DEF PlanTyped
      <3>2. \A p \in settled' : (p \in settled /\ p \notin Direction \X {f}) \/ p = <<opts.direction, f>>
        BY <1>7
      <3>3. settled' \subseteq Direction \X SyncFile
        BY <1>2, <3>1, <3>2
      <3>4. \A d \in Direction, g \in SyncFile : g # f /\ <<d, g>> \in settled' => <<d, g>> \in settled
        BY <3>2
      <3>5. \A d \in Direction : <<d, f>> \in settled' => d = opts.direction
        BY <3>2
      <3> QED
        BY <3>3, <3>4, <3>5
    <2>6. PlanTyped'
      BY <1>1, <1>4, <1>5, <2>2, <2>4, <2>5 DEF PlanTyped
    <2>7. \A s \in Side : s = from \/ s = to
      BY DEF Side, to, Other
    <2>8. old.ver # 0 /\ old.ver <= versions /\ old.at <= clock
      BY <1>7 DEF FileSound, VersionsSound, There, PlanInv
    <2>9. VersionsSound(f)'
      BY <1>2, <1>3, <1>4, <2>2, <2>3, <2>4, <2>7, <2>8 DEF VersionsSound
    <2>10. \A s \in Side : side'[s][f].ver = base'[f]
      BY <1>3, <2>2, <2>3, <2>4, <2>7
    <2>11. LaterIsEdited(f)'
      BY <2>10 DEF LaterIsEdited
    <2>12. from = IF opts.direction = "toLocal" THEN "remote" ELSE IF opts.direction = "toRemote" THEN "local" ELSE from
      <3>1. plan[f] = (IF from = "local" THEN "upload" ELSE "download")
        BY DEF Transfer
      <3> QED
        BY <1>2, <3>1 DEF PlanInv, PlanDirected, Directed, Side
    <2>13. InStepSince(f)'
      <3>1. /\ side'["local"][f].ver = side'["remote"][f].ver /\ side'["local"][f].size = side'["remote"][f].size
        BY <1>3, <2>2, <2>3, <2>7, Sides
      <3>2. opts.direction = "toRemote" => side'["remote"][f].at >= side'["local"][f].at
        <4>1. opts.direction = "toRemote" => from = "local" /\ to = "remote"
          BY <2>12 DEF to, Other
        <4> QED
          BY <1>2, <1>3, <2>2, <2>3, <2>8, <4>1
      <3>3. opts.direction = "toLocal" => side'["local"][f].at >= side'["remote"][f].at
        <4>1. opts.direction = "toLocal" => from = "remote" /\ to = "local"
          BY <2>12 DEF to, Other
        <4> QED
          BY <1>2, <1>3, <2>2, <2>3, <2>8, <4>1
      <3> QED
        BY <2>5, <3>1, <3>2, <3>3 DEF InStepSince
    <2> QED
      BY <1>4, <2>2, <2>4, <2>5, <2>6, <2>9, <2>11, <2>13, DoneKeeps DEF FileSound
  <1> QED
    BY <1>6, <1>7 DEF Transfer

LEMMA DeleteKeeps ==
    ASSUME PlanInv, NEW f \in SyncFile, NEW on \in Side, Delete(f, on)
    PROVE  PlanInv'
  <1>1. PlanTyped /\ FileSound(f) /\ Gone \in Stat /\ Gone.ver = 0 /\ Gone.at = 0
    BY DEF PlanInv, Gone, Stat
  <1>2. /\ phase = "run" /\ Did(f)
        /\ UNCHANGED <<clock, versions, base, phase, opts, checks, listed, stale, unread, settled>>
    BY DEF Delete
  <1>3. plan' \in [SyncFile -> Action]
    BY <1>1, <1>2 DEF Did, PlanTyped, Action
  <1>4. side \in [Side -> [SyncFile -> Stat]] /\ clock \in Nat /\ versions \in Nat
    BY <1>1 DEF PlanTyped
  <1>5. CASE UNCHANGED side
    <2>1. PlanTyped'
      BY <1>1, <1>2, <1>3, <1>5 DEF PlanTyped
    <2>2. FileSound(f)'
      BY <1>2, <1>5, <2>1, WorldKept DEF world
    <2> QED
      BY <1>2, <1>5, <2>1, <2>2, DoneKeeps
  <1>6. CASE side' = [side EXCEPT ![on][f] = Gone]
    <2>1. /\ side' \in [Side -> [SyncFile -> Stat]] /\ side'[on][f] = Gone
          /\ \A t \in Side, g \in SyncFile : t # on \/ g # f => side'[t][g] = side[t][g]
      BY <1>1, <1>4, <1>6, SideMoves
    <2>2. PlanTyped'
      BY <1>1, <1>2, <1>3, <2>1 DEF PlanTyped
    <2>3. \A s \in Side : s # on => Other(s) = on /\ Other(on) = s
      BY DEF Side, Other
    <2>4. VersionsSound(f)'
      BY <1>1, <1>2, <1>4, <2>1 DEF FileSound, VersionsSound
    <2>5. LaterIsEdited(f)'
      BY <1>1, <1>2, <2>1, <2>3 DEF FileSound, VersionsSound, LaterIsEdited, There
    <2>6. InStepSince(f)'
      BY <1>1, <2>1 DEF InStepSince, There, Side
    <2> QED
      BY <1>2, <2>1, <2>2, <2>4, <2>5, <2>6, DoneKeeps DEF FileSound
  <1> QED
    BY <1>5, <1>6 DEF Delete

LEMMA ChecksKept ==
    ASSUME ChecksSound, UNCHANGED <<phase, opts, plan, checks, listed>>
    PROVE  ChecksSound'
  <1>1. /\ phase' = phase /\ opts' = opts /\ plan' = plan /\ checks' = checks /\ listed' = listed
        /\ phase # "check" => checks = {}
        /\ \A c \in checks : CheckSound(c)
        /\ \A c, d \in checks : c.file = d.file => c = d
    BY DEF ChecksSound
  <1>2. ASSUME NEW c, CheckSound(c) PROVE CheckSound(c)'
    <2> DEFINE l == listed[c.file].local
               r == listed[c.file].remote
    <2>1. Compares(l, r)' = Compares(l, r) /\ MeansWell(c.differs, l, r)' = MeansWell(c.differs, l, r)
      BY <1>1 DEF Compares, MeansWell, BothThere, Newer
    <2> QED
      BY <1>1, <1>2, <2>1 DEF CheckSound
  <1> QED
    BY <1>1, <1>2 DEF ChecksSound

(* What someone else does to one file while a plan stands.                 *)
LEMMA TouchKeeps ==
    ASSUME PlanInv, NEW s \in Side, NEW f \in SyncFile, NEW x \in Stat,
           side' = [side EXCEPT ![s][f] = x], Touched(f), versions' = versions + 1,
           UNCHANGED <<clock, base, phase, opts, plan, checks, listed, unread>>,
           x.ver = 0 \/ x.ver = versions + 1, x.at = clock \/ x.at = 0,
           x.ver = versions + 1 => x.at = clock
    PROVE  PlanInv'
  <1>1. PlanTyped /\ FileSound(f)
    BY DEF PlanInv
  <1>2. side \in [Side -> [SyncFile -> Stat]] /\ clock \in Nat /\ versions \in Nat /\ base[f] \in Nat
    BY <1>1 DEF PlanTyped
  <1>3. /\ side' \in [Side -> [SyncFile -> Stat]] /\ side'[s][f] = x
        /\ \A t \in Side, g \in SyncFile : t # s \/ g # f => side'[t][g] = side[t][g]
    BY <1>2, SideMoves
  <1>4. /\ settled' \subseteq settled /\ \A d \in Direction : <<d, f>> \notin settled'
        /\ \A g : g \notin stale' => phase = "idle" \/ (g \notin stale /\ g # f)
        /\ phase = "idle" => stale' = {}
    BY DEF Touched
  <1>5. PlanTyped'
    <2>1. versions' \in Nat
      BY <1>2
    <2>2. settled' \subseteq Direction \X SyncFile
      BY <1>1, <1>4 DEF PlanTyped
    <2> QED
      BY <1>1, <1>3, <2>1, <2>2 DEF PlanTyped
  <1>6. clock' >= clock /\ versions' >= versions
    BY <1>2
  <1>7. \A t \in Side : t # s => Other(t) = s /\ Other(s) = t
    BY DEF Side, Other
  <1>8. \A t \in Side : side[t][f] \in Stat /\ side[t][f].ver \in Nat /\ side[t][f].at \in Nat
    BY <1>2 DEF Stat
  <1>9. VersionsSound(f)'
    BY <1>1, <1>2, <1>3, <1>8 DEF FileSound, VersionsSound
  <1>10. LaterIsEdited(f)'
    <2>1. base[f] # 0 /\ base[f] # versions + 1 /\ \A t \in Side : side[t][f].at <= clock
      BY <1>1, <1>2 DEF FileSound, VersionsSound
    <2>2. ASSUME NEW t \in Side, side'[t][f].ver # 0, side'[Other(t)][f].ver = base[f]
          PROVE  side'[t][f].at >= side'[Other(t)][f].at
      <3>1. t = s
        BY <1>3, <1>7, <2>1, <2>2
      <3>2. x.at = clock /\ Other(t) # s /\ Other(t) \in Side
        BY <1>3, <2>2, <3>1, Sides
      <3> QED
        BY <1>2, <1>3, <1>8, <2>1, <3>1, <3>2
    <2> QED
      BY <2>2 DEF LaterIsEdited, There
  <1>11. InStepSince(f)'
    BY <1>4 DEF InStepSince
  <1>12. ListedSound'
    BY <1>3, <1>4, Sides DEF PlanInv, ListedSound, NotRead
  <1>13. ChecksSound'
    BY ChecksKept DEF PlanInv
  <1>14. ASSUME NEW g \in SyncFile PROVE FileSound(g)' /\ PlanSound(g)'
    <2>1. FileSound(g)'
      <3>1. CASE g = f
        BY <1>9, <1>10, <1>11, <3>1 DEF FileSound
      <3>2. CASE g # f
        <4>1. /\ \A t \in Side : side'[t][g] = side[t][g]
              /\ base'[g] = base[g] /\ \A d \in Direction : <<d, g>> \in settled' => <<d, g>> \in settled
          BY <1>3, <1>4, <3>2
        <4>2. FileSound(g)
          BY DEF PlanInv
        <4> QED
          BY <1>1, <1>5, <1>6, <4>1, <4>2, FileKept
      <3> QED
        BY <3>1, <3>2
    <2>2. CASE ~Planning
      BY <2>1, <2>2, NotPlanning DEF Planning
    <2>3. CASE Planning /\ g \in stale'
      BY <2>1, <2>3 DEF PlanSound
    <2>4. CASE Planning /\ g \notin stale'
      <3>1. g \notin stale /\ g # f
        BY <1>4, <2>4 DEF Planning
      <3>2. \A t \in Side : side'[t][g] = side[t][g]
        BY <1>3, <3>1
      <3> QED
        BY <2>1, <2>4, <3>1, <3>2, PlanKept DEF PlanInv, Planning
    <2> QED
      BY <2>2, <2>3, <2>4
  <1> QED
    BY <1>5, <1>12, <1>13, <1>14, DirectedKept DEF PlanInv

LEMMA WorldKeeps ==
    ASSUME PlanInv, NEW f \in SyncFile, NEW s \in Side, Edit(s, f) \/ Unlink(s, f)
    PROVE  PlanInv'
  <1>1. clock \in Nat /\ versions \in Nat
    BY DEF PlanInv, PlanTyped
  <1>2. CASE Edit(s, f)
    <2>1. PICK size \in Size : side' = [side EXCEPT ![s][f] = [ver |-> versions + 1, size |-> size, at |-> clock]]
      BY <1>2 DEF Edit
    <2> DEFINE x == [ver |-> versions + 1, size |-> size, at |-> clock]
    <2>2. x \in Stat /\ x.ver = versions + 1 /\ x.at = clock /\ side' = [side EXCEPT ![s][f] = x]
      BY <1>1, <2>1, SyncAssumption DEF SyncAssumption, Stat
    <2> HIDE DEF x
    <2> QED
      BY <1>2, <2>2, TouchKeeps DEF Edit
  <1>3. CASE Unlink(s, f)
    <2>1. Gone \in Stat /\ Gone.ver = 0 /\ Gone.at = 0
      BY DEF Gone, Stat
    <2>2. Gone.ver # versions + 1
      BY <1>1, <2>1
    <2> QED
      BY <1>3, <2>1, <2>2, TouchKeeps DEF Unlink
  <1> QED
    BY <1>2, <1>3

LEMMA TickKeeps ==
    ASSUME PlanInv, Tick
    PROVE  PlanInv'
  <1>1. PlanTyped /\ clock \in Nat /\ versions \in Nat
    BY DEF PlanInv, PlanTyped
  <1>2. /\ clock' = clock + 1 /\ clock' >= clock /\ versions' >= versions
        /\ UNCHANGED <<side, versions, base, phase, opts, plan, checks, listed, stale, unread, settled>>
    BY <1>1 DEF Tick
  <1>3. PlanTyped'
    <2>1. clock' \in Nat /\ UNCHANGED <<side, versions, base, phase, opts, plan, checks, listed, settled>>
      BY <1>1, <1>2
    <2> QED
      BY <1>1, <2>1 DEF PlanTyped
  <1>4. ListedSound' /\ ChecksSound'
    <2>1. UNCHANGED <<side, phase, opts, plan, checks, listed, stale>>
      BY <1>2
    <2>2. ListedSound'
      BY <2>1 DEF PlanInv, ListedSound, NotRead
    <2>3. ChecksSound'
      BY <2>1, ChecksKept DEF PlanInv
    <2> QED
      BY <2>2, <2>3
  <1>5. ASSUME NEW f \in SyncFile PROVE FileSound(f)' /\ PlanSound(f)'
    <2>1. FileSound(f) /\ PlanSound(f)
      BY DEF PlanInv
    <2>2. FileSound(f)'
      BY <1>1, <1>2, <1>3, <2>1, FileKept
    <2>3. PlanSound(f)'
      BY <1>2, <2>1, PlanKept, NotPlanning DEF Planning
    <2> QED
      BY <2>2, <2>3
  <1> QED
    BY <1>2, <1>3, <1>4, <1>5, DirectedKept DEF PlanInv

LEMMA PlanBegins ==
    ASSUME PlanInit
    PROVE  PlanInv
  <1>1. PICK size \in Size, at \in [Side -> {0, 1}] :
            side = [s \in Side |-> [f \in SyncFile |-> [ver |-> 1, size |-> size, at |-> at[s]]]]
    BY DEF PlanInit
  <1>2. /\ \A s \in Side, f \in SyncFile : side[s][f] = [ver |-> 1, size |-> size, at |-> at[s]]
        /\ \A s \in Side : at[s] \in {0, 1}
        /\ base = [f \in SyncFile |-> 1] /\ clock = 1 /\ versions = 1 /\ settled = {}
    BY <1>1 DEF PlanInit
  <1>3. \A s \in Side, f \in SyncFile :
            side[s][f] \in Stat /\ side[s][f].ver = 1 /\ side[s][f].at \in {0, 1}
    <2>1. size \in Nat
      BY SyncAssumption DEF SyncAssumption
    <2>2. ASSUME NEW s \in Side, NEW f \in SyncFile
          PROVE  side[s][f] \in Stat /\ side[s][f].ver = 1 /\ side[s][f].at \in {0, 1}
      <3>1. side[s][f] = [ver |-> 1, size |-> size, at |-> at[s]] /\ at[s] \in {0, 1}
        BY <1>2
      <3> QED
        BY <2>1, <3>1 DEF Stat
    <2> QED
      BY <2>2
  <1>4. side \in [Side -> [SyncFile -> Stat]]
    BY <1>1, <1>3
  <1>5. PlanTyped
    BY <1>2, <1>4 DEF PlanInit, PlanTyped, NoOptions, Options, Direction, NoPlan, NoneListed, Gone, Action, Stat
  <1>6. ListedSound /\ ChecksSound /\ PlanDirected
    BY DEF PlanInit, ListedSound, ChecksSound, PlanDirected, Directed, NoPlan
  <1>7. ASSUME NEW f \in SyncFile PROVE FileSound(f) /\ PlanSound(f)
    <2>1. VersionsSound(f) /\ LaterIsEdited(f) /\ InStepSince(f)
      BY <1>2, <1>3, Sides DEF VersionsSound, LaterIsEdited, InStepSince
    <2>2. PlanSound(f)
      BY DEF PlanInit, PlanSound, Planning
    <2> QED
      BY <2>1, <2>2 DEF FileSound
  <1> QED
    BY <1>5, <1>6, <1>7 DEF PlanInv

LEMMA PlanStutters ==
    ASSUME PlanInv, UNCHANGED planVars
    PROVE  PlanInv'
  <1>1. PlanTyped' /\ ListedSound' /\ ChecksSound' /\ PlanDirected'
    <2>1. UNCHANGED <<side, clock, versions, base, phase, opts, plan, checks, listed, stale, settled>>
      BY DEF planVars, world
    <2>2. PlanTyped'
      BY <2>1 DEF PlanInv, PlanTyped
    <2>3. ListedSound'
      BY <2>1 DEF PlanInv, ListedSound, NotRead
    <2>4. ChecksSound'
      BY <2>1, ChecksKept DEF PlanInv
    <2>5. PlanDirected'
      BY <2>1, DirectedKept DEF PlanInv
    <2> QED
      BY <2>2, <2>3, <2>4, <2>5
  <1>2. \A f \in SyncFile : FileSound(f)'
    BY <1>1, WorldKept DEF planVars
  <1>3. \A f \in SyncFile : PlanSound(f)'
    BY PlanKept, NotPlanning DEF planVars, world, PlanInv, Planning
  <1> QED
    BY <1>1, <1>2, <1>3 DEF PlanInv

(* Every state of a synchronization satisfies its inductive invariant.     *)
THEOREM PlanInductive == PlanSpec => []PlanInv
  <1>1. PlanInit => PlanInv
    BY PlanBegins
  <1>2. ASSUME PlanInv, [PlanNext]_planVars PROVE PlanInv'
    <2>1. ASSUME NEW o \in Options, Compare(o) PROVE PlanInv'
      BY <1>2, <2>1, CompareKeeps
    <2>2. CASE ListLocal
      BY <1>2, <2>2, ListLocalKeeps
    <2>3. CASE ListRemote
      BY <1>2, <2>3, ListRemoteKeeps
    <2>4. CASE Unverified
      BY <1>2, <2>4, UnverifiedKeeps
    <2>5. CASE CompareChunk
      BY <1>2, <2>5, ChunkKeeps
    <2>6. CASE Planned \/ RunPlan \/ PlanEnds
      BY <1>2, <2>6, RunKeeps
    <2>7. CASE Tick
      BY <1>2, <2>7, TickKeeps
    <2>8. ASSUME NEW f \in SyncFile, NEW s \in Side, Transfer(f, s) PROVE PlanInv'
      BY <1>2, <2>8, TransferKeeps
    <2>9. ASSUME NEW f \in SyncFile, NEW s \in Side, Delete(f, s) PROVE PlanInv'
      BY <1>2, <2>9, DeleteKeeps
    <2>10. ASSUME NEW f \in SyncFile, NEW s \in Side, Edit(s, f) \/ Unlink(s, f) PROVE PlanInv'
      BY <1>2, <2>10, WorldKeeps
    <2>11. CASE UNCHANGED planVars
      BY <1>2, <2>11, PlanStutters
    <2> QED
      BY <1>2, <2>1, <2>2, <2>3, <2>4, <2>5, <2>6, <2>7, <2>8, <2>9, <2>10, <2>11 DEF PlanNext
  <1> QED
    BY <1>1, <1>2, PTL DEF PlanSpec

(* What the invariant says of a plan that is shown or being run.           *)
LEMMA FreshIs ==
    ASSUME PlanInv, NEW f \in SyncFile, Fresh(f), plan[f] # "none"
    PROVE  /\ MeansWell(plan[f], side["local"][f], side["remote"][f])
           /\ Compares(side["local"][f], side["remote"][f]) /\ side["local"][f].ver = side["remote"][f].ver =>
                  plan[f] = "identical" \/ (f \in unread /\ plan[f] \in {"upload", "conflict"})
  <1>1. Planning /\ f \notin stale /\ checks = {}
    BY DEF Fresh, Planning, PlanInv, ChecksSound
  <1>2. listed[f].local = side["local"][f] /\ listed[f].remote = side["remote"][f]
    <2>1. PlanSound(f)
      BY DEF PlanInv
    <2>2. listed[f] = Pair(f)
      BY <1>1, <2>1 DEF PlanSound
    <2> QED
      BY <2>2 DEF Pair
  <1>3. PlanSound(f)
    BY DEF PlanInv
  <1> QED
    BY <1>1, <1>2, <1>3 DEF PlanSound

LEMMA EditsWin ==
    ASSUME PlanInv
    PROVE  EditedCopyWins
  <1> SUFFICES ASSUME NEW f \in SyncFile, Fresh(f)
               PROVE  /\ plan[f] = "upload" /\ EditedOnly("remote", f) =>
                             opts.direction # "both" /\ (opts.sizeOnly \/ Newer(side["local"][f], side["remote"][f]) # "remote")
                      /\ plan[f] = "download" /\ EditedOnly("local", f) =>
                             opts.direction # "both" /\ (opts.sizeOnly \/ Newer(side["local"][f], side["remote"][f]) # "local")
    BY DEF EditedCopyWins
  <1>1. FileSound(f) /\ base[f] # 0 /\ Tolerance \in Nat
    BY SyncAssumption DEF PlanInv, FileSound, VersionsSound, SyncAssumption
  <1>2. side["local"][f] \in Stat /\ side["remote"][f] \in Stat
    BY Sides DEF PlanInv, PlanTyped
  <1>3. side["local"][f].at \in Nat /\ side["remote"][f].at \in Nat
    BY <1>2 DEF Stat
  <1>4. ASSUME plan[f] = "upload", EditedOnly("remote", f)
        PROVE  opts.direction # "both" /\ (opts.sizeOnly \/ Newer(side["local"][f], side["remote"][f]) # "remote")
    <2>1. BothThere(side["local"][f], side["remote"][f]) /\ side["remote"][f].at >= side["local"][f].at
      BY <1>1, <1>4, Sides DEF EditedOnly, BothThere, Other, There, FileSound, LaterIsEdited
    <2>2. Newer(side["local"][f], side["remote"][f]) # "local"
      BY <1>1, <1>2, <1>3, <2>1, NewerIs
    <2> QED
      BY <1>4, <2>1, <2>2, FreshIs DEF MeansWell
  <1>5. ASSUME plan[f] = "download", EditedOnly("local", f)
        PROVE  opts.direction # "both" /\ (opts.sizeOnly \/ Newer(side["local"][f], side["remote"][f]) # "local")
    <2>1. BothThere(side["local"][f], side["remote"][f]) /\ side["local"][f].at >= side["remote"][f].at
      BY <1>1, <1>5, Sides DEF EditedOnly, BothThere, Other, There, FileSound, LaterIsEdited
    <2>2. Newer(side["local"][f], side["remote"][f]) # "remote"
      BY <1>1, <1>2, <1>3, <2>1, NewerIs
    <2> QED
      BY <1>5, <2>1, <2>2, FreshIs DEF MeansWell
  <1> QED
    BY <1>4, <1>5

LEMMA SettledIsLeft ==
    ASSUME PlanInv
    PROVE  SettledStays
  <1> SUFFICES ASSUME NEW f \in SyncFile, Fresh(f), <<opts.direction, f>> \in settled,
                      There("local", f), There("remote", f), plan[f] # "none"
               PROVE  \/ plan[f] = "identical"
                      \/ opts.direction = "both" /\ f \in unread /\ plan[f] \in {"upload", "conflict"}
    BY DEF SettledStays
  <1> DEFINE l == side["local"][f]
             r == side["remote"][f]
  <1>1. l \in Stat /\ r \in Stat /\ opts.direction \in Direction /\ Tolerance \in Nat
    BY Sides, SyncAssumption DEF PlanInv, PlanTyped, Options, SyncAssumption
  <1>2. l.at \in Nat /\ r.at \in Nat
    BY <1>1 DEF Stat
  <1>3. /\ BothThere(l, r) /\ l.ver = r.ver /\ l.size = r.size
        /\ opts.direction = "toRemote" => r.at >= l.at
        /\ opts.direction = "toLocal" => l.at >= r.at
    BY <1>1 DEF PlanInv, FileSound, InStepSince, BothThere, There
  <1>4. /\ opts.direction = "toRemote" => Newer(l, r) # "local"
        /\ opts.direction = "toLocal" => Newer(l, r) # "remote"
    BY <1>1, <1>2, <1>3, NewerIs
  <1>5. plan[f] = "identical" \/ Compares(l, r)
    BY <1>3, <1>4, FreshIs DEF MeansWell
  <1> QED
    BY <1>3, <1>5, FreshIs DEF Compares

LEMMA DeletesAreMissing ==
    ASSUME PlanInv
    PROVE  MirrorsDelete
  BY FreshIs DEF MirrorsDelete, MeansWell, There

(* A plan that is shown or run never overwrites the edited copy with the   *)
(* unchanged one where the times tell, leaves alone what an earlier run in *)
(* that direction brought in step, and deletes only what is missing at its *)
(* source (plan_files, plan_both_present, compare_directories, and the run *)
(* of the plan by the window).                                             *)
THEOREM SyncsAreSound == PlanSpec => []SyncIsSound
  <1>1. PlanInv => SyncIsSound
    BY EditsWin, SettledIsLeft, DeletesAreMissing DEF SyncIsSound
  <1> QED
    BY <1>1, PlanInductive, PTL

(* ----------------------- commands on files of one server ----------------- *)
Datum == {"archived", "o", "t"} \cup UNION {p[s].of : p \in Contents, s \in Spot}
Maker == FileTask \cup {"start", "other", "none"} \cup {p[s].by : p \in Contents, s \in Spot}
FileContent == [of : SUBSET Datum, by : Maker, whole : BOOLEAN]
Trashed  == [file : FileContent, path : Spot, info : BOOLEAN, by : FileTask \cup {"start"}]
StageOf  == {"start", "recheck", "rename", "quick", "look", "slow", "trash", "info", "back", "forget", "rm",
             "write", "fill", "check", "pack", "packing", "swap", "unpack", "next", "done"}
TaskSet  ==
    [do : Command \cup {"none"}, items : Seq(FileName), over : BOOLEAN, at : StageOf, i : Nat, k : Nat,
     id : Nat, left : SUBSET FileName, saw : SUBSET Spot, told : SUBSET (Spot \X FileContent),
     ids : SUBSET Nat, infos : SUBSET Nat, new : Spot, partial : FileContent, cut : BOOLEAN,
     answer : {"none", "ok", "failed", "conflict"}]

FileTyped ==
    /\ place \in [Spot -> FileContent] /\ trash \in Seq(Trashed)
    /\ fileTask \in [FileTask -> TaskSet] /\ owed \subseteq FileContent

(* What a command knows when it acts: the name it will write to was seen   *)
(* free unless the person agreed, its entry of the trash is the one it     *)
(* found, and a partial archive is whole once the pipe has ended.          *)
Walks(do) == do \notin {"none", "restore", "empty"}
TaskSound(r) ==
    LET t == fileTask[r] IN
    /\ Walks(t.do) /\ t.at # "done" => t.i \in 1..Len(t.items)
    /\ t.do = "duplicate" /\ t.at = "start" => t.k \in 1..Len(Copies[t.items[t.i]])
    /\ t.at = "rename" => t.saw = {Dest(t.items[t.i])}
    /\ t.at = "unpack" => t.over \/ Home(t.items[t.i]) \in t.saw
    /\ t.at = "write" => t.do = "copy" \/ (t.do = "duplicate" /\ t.new \in t.saw)
    /\ t.at = "fill" => t.do \in {"copy", "duplicate"}
    /\ t.at = "back" => t.new \in t.saw /\ t.id \in 1..Len(trash)
    /\ t.at = "info" => t.do = "trash" /\ t.id \in 1..Len(trash)
    /\ t.at = "forget" => t.id \in 1..Len(trash) /\ trash[t.id].file = NoFile
    /\ t.at = "rm" => /\ t.ids \subseteq 1..Len(trash) /\ t.infos \subseteq 1..Len(trash)
                      /\ \A id \in t.infos \ t.ids : trash[id].file = NoFile
    /\ t.at # "done" /\ t.do # "compress" => t.answer = "none"
    /\ t.do = "none" => t.at = "start" /\ t.i = 1 /\ t.k = 1

(* An archive under way, which may lose its answer at any time.            *)
PackSound(r) ==
    LET t == fileTask[r] IN
    t.do \in {"compress", "none"} =>
        /\ t.at \in {"start", "check", "pack", "packing", "swap", "done"}
        /\ t.at \in {"start", "check", "pack"} => t.partial = NoFile
        /\ t.at \in {"pack", "packing", "swap"} => t.over \/ Home(Archive) \in t.saw
        /\ t.at = "swap" => t.partial = NoFile \/ t.partial.whole
        /\ t.at = "done" /\ t.partial # NoFile => t.cut

(* What is not whole is being written by a copy.                           *)
Fine(x) ==
    x = NoFile \/ x.whole \/ \E q \in FileTask : x = Torn(q) /\ fileTask[q].do \in {"copy", "duplicate"}
EntrySound(i) ==
    /\ Fine(trash[i].file)
    /\ trash[i].by \in FileTask /\ trash[i].file # NoFile =>
           LET q == fileTask[trash[i].by] IN
           /\ q.do = "trash"
           /\ trash[i].info \/ (q.at = "info" /\ q.id = i) \/ (q.at = "done" /\ q.answer = "failed")
AllSound ==
    /\ \A s \in Spot : Fine(place[s])
    /\ \A i \in 1..Len(trash) : EntrySound(i)
    /\ \A c \in owed : c.whole /\ ~Lost(c)
TasksSound == \A r \in FileTask : TaskSound(r) /\ PackSound(r)
FileInv == FileTyped /\ TasksSound /\ AllSound

(* ------------------------------- the data -------------------------------- *)
LEMMA Spots == \A n \in FileName : Home(n) \in Spot /\ Dest(n) \in Spot /\ \A m \in FileName : Home(m) # Dest(n)
  BY FileAssumption DEF FileAssumption, Home, Dest, Spot

LEMMA NoFileIs == NoFile \in FileContent /\ NoFile.whole = FALSE /\ NoFile.by = "none"
  BY DEF NoFile, FileContent, Maker

LEMMA TornIs ==
    ASSUME NEW r \in FileTask
    PROVE  Torn(r) \in FileContent /\ Torn(r).whole = FALSE /\ Torn(r).by = r /\ Torn(r) # NoFile
  BY FileAssumption DEF FileAssumption, Torn, NoFile, FileContent, Maker

LEMMA ContentIs ==
    ASSUME NEW of \in SUBSET Datum, NEW by \in Maker
    PROVE  Content(of, by) \in FileContent /\ Content(of, by).whole /\ Content(of, by) # NoFile
  BY NoFileIs DEF Content, FileContent

LEMMA WithIs ==
    ASSUME NEW t, NEW e
    PROVE  DOMAIN With(e, t) = DOMAIN t /\ \A x \in DOMAIN t : With(e, t)[x] = IF x \in DOMAIN e THEN e[x] ELSE t[x]
  BY DEF With

LEMMA TaskMoves ==
    ASSUME FileTyped, NEW r \in FileTask, NEW t \in TaskSet, fileTask' = [fileTask EXCEPT ![r] = t]
    PROVE  /\ fileTask' \in [FileTask -> TaskSet] /\ fileTask'[r] = t
           /\ \A q \in FileTask : q # r => fileTask'[q] = fileTask[q]
  BY DEF FileTyped

LEMMA NoTaskIs ==
    /\ NoTask \in TaskSet /\ NoTask.do = "none" /\ NoTask.at = "start" /\ NoTask.i = 1 /\ NoTask.k = 1
    /\ NoTask.partial = NoFile /\ NoTask.answer = "none" /\ ~NoTask.cut
  BY FileAssumption, NoFileIs DEF FileAssumption, NoTask, TaskSet, StageOf, Home, Spot

LEMMA EndedIs ==
    ASSUME FileTyped, NEW r \in FileTask, NEW a \in {"ok", "failed", "conflict"}
    PROVE  /\ Ended(r, a) \in TaskSet /\ Ended(r, a).do = fileTask[r].do /\ Ended(r, a).at = "done"
           /\ Ended(r, a).partial = fileTask[r].partial /\ Ended(r, a).cut = fileTask[r].cut
           /\ Ended(r, a).answer = IF fileTask[r].cut THEN "failed" ELSE a
  <1>1. fileTask[r] \in TaskSet
    BY DEF FileTyped
  <1> DEFINE f == fileTask[r]
             b == IF f.cut THEN "failed" ELSE a
             stage == "done"
             t == [NoTask EXCEPT !.do = f.do, !.at = stage, !.told = f.told, !.cut = f.cut,
                                 !.partial = f.partial, !.answer = b]
  <1>2. b \in {"none", "ok", "failed", "conflict"} /\ stage \in StageOf /\ stage = "done"
    BY DEF StageOf
  <1>3. /\ f.do \in Command \cup {"none"} /\ f.told \in SUBSET (Spot \X FileContent)
        /\ f.cut \in BOOLEAN /\ f.partial \in FileContent
    BY <1>1 DEF TaskSet
  <1>4. Ended(r, a) = t
    BY DEF Ended
  <1> HIDE DEF f, b, stage
  <1>5. t \in TaskSet
    BY <1>2, <1>3, NoTaskIs DEF TaskSet
  <1>6. t.do = f.do /\ t.at = stage /\ t.partial = f.partial /\ t.cut = f.cut /\ t.answer = b
    BY NoTaskIs DEF TaskSet
  <1> HIDE DEF t
  <1> QED
    BY <1>2, <1>4, <1>5, <1>6 DEF f, b

(* --------------------- what a step leaves of the others ------------------ *)
TrashGrows ==
    /\ Len(trash') >= Len(trash)
    /\ \A i \in 1..Len(trash) : trash[i].file = NoFile => trash'[i].file = NoFile
DoKept(r, t) == t.do = fileTask[r].do \/ fileTask[r].do = "none"

LEMMA OthersKept ==
    ASSUME FileTyped, trash' \in Seq(Trashed), TrashGrows, machine' = machine, NEW q \in FileTask,
           TaskSound(q), PackSound(q), fileTask'[q] = fileTask[q]
    PROVE  TaskSound(q)' /\ PackSound(q)'
  <1>1. Len(trash) \in Nat /\ Len(trash') \in Nat /\ Len(trash') >= Len(trash)
    BY DEF FileTyped, TrashGrows
  <1>2. 1..Len(trash) \subseteq 1..Len(trash')
    BY <1>1
  <1>3. PackSound(q)'
    BY DEF PackSound
  <1>4. TaskSound(q)'
    BY <1>2 DEF TaskSound, TrashGrows, Dest
  <1> QED
    BY <1>3, <1>4

LEMMA FineKept ==
    ASSUME FileTyped, NEW r \in FileTask, NEW t, fileTask'[r] = t, DoKept(r, t),
           \A q \in FileTask : q # r => fileTask'[q] = fileTask[q], NEW x, Fine(x)
    PROVE  Fine(x)'
  BY DEF Fine, DoKept

(* One command takes a step: what is to be shown of it.                    *)
LEMMA CommandKeeps ==
    ASSUME FileInv, NEW r \in FileTask, NEW t \in TaskSet, fileTask' = [fileTask EXCEPT ![r] = t], DoKept(r, t),
           machine' = machine, place' \in [Spot -> FileContent], trash' \in Seq(Trashed), owed' \subseteq FileContent,
           TrashGrows, TaskSound(r)', PackSound(r)', AllSound'
    PROVE  FileInv'
  <1>1. FileTyped /\ \A q \in FileTask : TaskSound(q) /\ PackSound(q)
    BY DEF FileInv, TasksSound
  <1>2. /\ fileTask' \in [FileTask -> TaskSet]
        /\ \A q \in FileTask : q # r => fileTask'[q] = fileTask[q]
    BY <1>1, TaskMoves
  <1>3. \A q \in FileTask : TaskSound(q)' /\ PackSound(q)'
    BY <1>1, <1>2, OthersKept
  <1> QED
    BY <1>2, <1>3 DEF FileInv, FileTyped, TasksSound

(* A step that changes nothing but what the command knows.                 *)
LEMMA QuietKeeps ==
    ASSUME FileInv, NEW r \in FileTask, NEW t \in TaskSet, fileTask' = [fileTask EXCEPT ![r] = t], DoKept(r, t),
           UNCHANGED <<machine, fileParts>>, TaskSound(r)', PackSound(r)',
           fileTask[r].do = "trash" => fileTask[r].at # "info" /\ fileTask[r].at # "done"
    PROVE  FileInv'
  <1>1. FileTyped /\ place' = place /\ trash' = trash /\ owed' = owed /\ machine' = machine
    BY DEF FileInv, fileParts
  <1>2. fileTask'[r] = t /\ \A q \in FileTask : q # r => fileTask'[q] = fileTask[q]
    BY <1>1, TaskMoves
  <1>3. TrashGrows
    BY <1>1 DEF TrashGrows, FileTyped
  <1>4. ASSUME NEW i \in 1..Len(trash) PROVE EntrySound(i)'
    <2>1. EntrySound(i)
      BY DEF FileInv, AllSound
    <2>2. Fine(trash[i].file)'
      BY <1>1, <1>2, <2>1, FineKept DEF EntrySound
    <2>3. CASE trash[i].by = r
      BY <1>1, <1>2, <2>1, <2>2, <2>3 DEF EntrySound, DoKept
    <2>4. CASE trash[i].by # r
      BY <1>1, <1>2, <2>1, <2>2, <2>4 DEF EntrySound
    <2> QED
      BY <2>3, <2>4
  <1>5. \A s \in Spot : Fine(place[s])'
    BY <1>1, <1>2, FineKept DEF FileInv, AllSound
  <1>6. \A c \in owed' : c.whole /\ ~Lost(c)'
    BY <1>1 DEF FileInv, AllSound, Lost
  <1>7. AllSound'
    BY <1>1, <1>4, <1>5, <1>6 DEF AllSound
  <1> QED
    BY <1>1, <1>3, <1>7, CommandKeeps DEF FileTyped

(* ------------------------ steps that only look --------------------------- *)
LEMMA TaskIs ==
    ASSUME FileInv, NEW r \in FileTask
    PROVE  FileTyped /\ fileTask[r] \in TaskSet /\ TaskSound(r) /\ PackSound(r)
  BY DEF FileInv, FileTyped, TasksSound

LEMMA ItemIs ==
    ASSUME FileInv, NEW r \in FileTask, Walks(fileTask[r].do), fileTask[r].at # "done"
    PROVE  /\ fileTask[r].i \in 1..Len(fileTask[r].items) /\ Item(r) \in FileName
           /\ Names(r) \subseteq FileName /\ Item(r) = fileTask[r].items[fileTask[r].i]
  <1>1. fileTask[r] \in TaskSet /\ TaskSound(r)
    BY TaskIs
  <1>2. fileTask[r].items \in Seq(FileName)
    BY <1>1 DEF TaskSet
  <1>3. fileTask[r].i \in 1..Len(fileTask[r].items)
    BY <1>1 DEF TaskSound
  <1> QED
    BY <1>2, <1>3 DEF Item, Names

LEMMA AnswerSound ==
    ASSUME FileInv, NEW r \in FileTask, NEW a \in {"ok", "failed", "conflict"},
           fileTask' = [fileTask EXCEPT ![r] = Ended(r, a)], fileTask[r].do # "none",
           fileTask[r].do = "compress" => fileTask[r].partial = NoFile \/ fileTask[r].cut
    PROVE  /\ TaskSound(r)' /\ PackSound(r)' /\ Ended(r, a) \in TaskSet /\ DoKept(r, Ended(r, a))
           /\ fileTask'[r] = Ended(r, a)
  <1> DEFINE t == Ended(r, a)
  <1>1. /\ t \in TaskSet /\ t.do = fileTask[r].do /\ t.at = "done"
        /\ t.partial = fileTask[r].partial /\ t.cut = fileTask[r].cut
    BY TaskIs, EndedIs
  <1> HIDE DEF t
  <1>2. fileTask' = [fileTask EXCEPT ![r] = t]
    BY DEF t
  <1>3. fileTask'[r] = t
    BY <1>1, <1>2, TaskIs, TaskMoves
  <1>4. TaskSound(r)'
    BY <1>1, <1>3 DEF TaskSound
  <1>5. PackSound(r)'
    BY <1>1, <1>3 DEF PackSound
  <1> QED
    BY <1>1, <1>3, <1>4, <1>5 DEF t, DoKept

LEMMA AnswerKeeps ==
    ASSUME FileInv, NEW r \in FileTask, NEW a \in {"ok", "failed", "conflict"}, AnswerWith(r, a),
           fileTask[r].do # "none", UNCHANGED <<machine, fileParts>>,
           fileTask[r].do = "compress" => fileTask[r].partial = NoFile \/ fileTask[r].cut,
           fileTask[r].do = "trash" => fileTask[r].at # "info" /\ fileTask[r].at # "done"
    PROVE  FileInv'
  <1>1. fileTask' = [fileTask EXCEPT ![r] = Ended(r, a)]
    BY DEF AnswerWith
  <1> QED
    BY <1>1, AnswerSound, QuietKeeps

LEMMA FailsKeeps ==
    ASSUME FileInv, NEW r \in FileTask, Fails(r)
    PROVE  FileInv'
  <1>1. PackSound(r)
    BY TaskIs
  <1> QED
    BY <1>1, AnswerKeeps DEF Fails, PackSound

LEMMA AskKeeps ==
    ASSUME FileInv, NEW r \in FileTask, Ask(r)
    PROVE  FileInv'
  <1> DEFINE f == fileTask[r]
  <1>1. FileTyped /\ f \in TaskSet /\ TaskSound(r) /\ PackSound(r) /\ f.do = "none" /\ place \in [Spot -> FileContent]
    BY TaskIs DEF Ask, FileTyped
  <1>2. PICK a \in Asked :
            Step(r, [do |-> a.do, items |-> a.items, over |-> a.over, at |-> "start",
                     told |-> IF a.do # "delete" THEN {}
                             ELSE {<<Home(n), place[Home(n)]>> : n \in {a.items[i] : i \in 1..Len(a.items)}}])
    BY DEF Ask
  <1> DEFINE told == IF a.do # "delete" THEN {}
                     ELSE {<<Home(n), place[Home(n)]>> : n \in {a.items[i] : i \in 1..Len(a.items)}}
             t == With([do |-> a.do, items |-> a.items, over |-> a.over, at |-> "start", told |-> told], f)
  <1>3. a.do \in Command /\ a.items \in Seq(FileName) /\ a.over \in BOOLEAN
    BY FileAssumption DEF FileAssumption
  <1>4. told \in SUBSET (Spot \X FileContent)
    <2>1. \A n \in {a.items[i] : i \in 1..Len(a.items)} : n \in FileName
      BY <1>3
    <2> QED
      BY <1>1, <2>1, Spots
  <1>5. fileTask' = [fileTask EXCEPT ![r] = t] /\ UNCHANGED <<machine, fileParts>>
    BY <1>2 DEF Step, Ask
  <1> HIDE DEF told
  <1>6. /\ t \in TaskSet /\ t.do = a.do /\ t.items = a.items /\ t.at = "start" /\ t.i = f.i /\ t.k = f.k
        /\ t.partial = f.partial /\ t.answer = f.answer
    BY <1>1, <1>3, <1>4 DEF With, TaskSet, StageOf
  <1> HIDE DEF t
  <1>7. fileTask'[r] = t
    BY <1>1, <1>5, <1>6, TaskMoves
  <1>8. a.do \notin {"restore", "empty"} => a.items # <<>>
    BY FileAssumption DEF FileAssumption
  <1>9. Walks(a.do) => 1 \in 1..Len(a.items)
    <2>1. Len(a.items) \in Nat /\ (a.items # <<>> => Len(a.items) # 0)
      BY <1>3
    <2> QED
      BY <1>8, <2>1 DEF Walks
  <1>10. a.do = "duplicate" => 1 \in 1..Len(Copies[a.items[1]])
    <2>1. ASSUME a.do = "duplicate" PROVE Len(Copies[a.items[1]]) \in Nat \ {0}
      <3>1. 1 \in DOMAIN a.items /\ a.items[1] \in FileName
        BY <1>3, <1>9, <2>1 DEF Walks
      <3>2. Copies[a.items[1]] \in Seq(FileName) /\ Copies[a.items[1]] # <<>>
        BY <2>1, <3>1, FileAssumption DEF FileAssumption
      <3> QED
        BY <3>2
    <2> QED
      BY <2>1
  <1>11. f.i = 1 /\ f.k = 1 /\ f.answer = "none" /\ f.partial = NoFile
    BY <1>1 DEF TaskSound, PackSound
  <1>12. TaskSound(r)'
    BY <1>6, <1>7, <1>9, <1>10, <1>11 DEF TaskSound
  <1>13. PackSound(r)'
    BY <1>6, <1>7, <1>11 DEF PackSound
  <1> QED
    BY <1>1, <1>5, <1>6, <1>12, <1>13, QuietKeeps DEF DoKept

(* A step to a stage of which nothing has to be known but what is given.   *)
LEMMA StepKeeps ==
    ASSUME FileInv, NEW r \in FileTask, NEW t \in TaskSet, fileTask' = [fileTask EXCEPT ![r] = t],
           UNCHANGED <<machine, fileParts>>, fileTask[r].do # "none", fileTask[r].at # "done",
           fileTask[r].do = "trash" => fileTask[r].at # "info",
           t.do = fileTask[r].do, t.items = fileTask[r].items, t.answer = fileTask[r].answer, t.at # "done",
           Walks(t.do) => t.i \in 1..Len(t.items),
           t.do = "duplicate" /\ t.at = "start" => t.k \in 1..Len(Copies[t.items[t.i]]),
           t.at = "rename" => t.saw = {Dest(t.items[t.i])},
           t.at = "unpack" => t.over \/ Home(t.items[t.i]) \in t.saw,
           t.at = "write" => t.do = "copy" \/ (t.do = "duplicate" /\ t.new \in t.saw),
           t.at = "back" => t.new \in t.saw /\ t.id \in 1..Len(trash),
           t.at = "rm" => /\ t.ids \subseteq 1..Len(trash) /\ t.infos \subseteq 1..Len(trash)
                          /\ \A id \in t.infos \ t.ids : trash[id].file = NoFile,
           t.at \notin {"fill", "info", "forget"},
           t.do = "compress" =>
               /\ t.at \in {"start", "check", "pack", "packing", "swap"}
               /\ t.at \in {"start", "check", "pack"} => t.partial = NoFile
               /\ t.at \in {"pack", "packing", "swap"} => t.over \/ Home(Archive) \in t.saw
               /\ t.at = "swap" => t.partial = NoFile \/ t.partial.whole
    PROVE  FileInv'
  <1>1. FileTyped /\ TaskSound(r) /\ trash' = trash /\ machine' = machine
    BY TaskIs DEF fileParts
  <1>2. fileTask'[r] = t
    BY <1>1, TaskMoves
  <1>3. \A n : Dest(n)' = Dest(n)
    BY <1>1 DEF Dest
  <1>4. TaskSound(r)'
    BY <1>1, <1>2, <1>3 DEF TaskSound
  <1>5. PackSound(r)'
    BY <1>2 DEF PackSound
  <1> QED
    BY <1>4, <1>5, QuietKeeps DEF DoKept

LEMMA CheckAllKeeps ==
    ASSUME FileInv, NEW r \in FileTask, CheckAll(r)
    PROVE  FileInv'
  <1> DEFINE f == fileTask[r]
             saw == {Dest(n) : n \in Names(r)}
             t == With([at |-> "recheck", saw |-> saw], f)
  <1>1. f \in TaskSet /\ f.do = "move" /\ f.at = "start" /\ UNCHANGED <<machine, fileParts>>
    BY TaskIs DEF CheckAll, Does
  <1>2. CASE AnswerWith(r, "conflict")
    BY <1>1, <1>2, AnswerKeeps
  <1>3. CASE Step(r, [at |-> "recheck", saw |-> saw])
    <2>1. f.i \in 1..Len(f.items) /\ saw \in SUBSET Spot
      BY <1>1, ItemIs, Spots DEF Walks
    <2>2. fileTask' = [fileTask EXCEPT ![r] = t]
      BY <1>3 DEF Step
    <2> HIDE DEF saw
    <2>3. /\ t \in TaskSet /\ t.do = f.do /\ t.items = f.items /\ t.answer = f.answer /\ t.at = "recheck"
          /\ t.i = f.i
      BY <1>1, <2>1 DEF With, TaskSet, StageOf
    <2> HIDE DEF t
    <2> QED
      BY <1>1, <2>1, <2>2, <2>3, StepKeeps
  <1> QED
    BY <1>2, <1>3 DEF CheckAll

LEMMA RecheckKeeps ==
    ASSUME FileInv, NEW r \in FileTask, Recheck(r)
    PROVE  FileInv'
  <1> DEFINE f == fileTask[r]
             saw == {Dest(Item(r))}
             t == With([at |-> "rename", saw |-> saw], f)
  <1>1. f \in TaskSet /\ f.do = "move" /\ f.at = "recheck" /\ UNCHANGED <<machine, fileParts>>
    BY TaskIs DEF Recheck, Does
  <1>2. CASE AnswerWith(r, "conflict")
    BY <1>1, <1>2, AnswerKeeps
  <1>3. CASE Step(r, [at |-> "rename", saw |-> saw])
    <2>1. f.i \in 1..Len(f.items) /\ saw \in SUBSET Spot /\ saw = {Dest(f.items[f.i])}
      BY <1>1, ItemIs, Spots DEF Walks
    <2>2. fileTask' = [fileTask EXCEPT ![r] = t]
      BY <1>3 DEF Step
    <2> HIDE DEF saw
    <2>3. /\ t \in TaskSet /\ t.do = f.do /\ t.items = f.items /\ t.answer = f.answer /\ t.at = "rename"
          /\ t.i = f.i /\ t.saw = saw
      BY <1>1, <2>1 DEF With, TaskSet, StageOf
    <2> HIDE DEF t
    <2> QED
      BY <1>1, <2>1, <2>2, <2>3, StepKeeps
  <1> QED
    BY <1>2, <1>3 DEF Recheck

LEMMA LooksKeep ==
    ASSUME FileInv, NEW r \in FileTask, Probe(r) \/ LookLeft(r)
    PROVE  FileInv'
  <1> DEFINE f == fileTask[r]
  <1>1. f \in TaskSet /\ f.do = "delete" /\ f.at \in {"start", "look"} /\ UNCHANGED <<machine, fileParts>>
    BY TaskIs DEF Probe, LookLeft, Does
  <1>2. Names(r) \subseteq FileName /\ f.i \in 1..Len(f.items)
    BY <1>1, ItemIs DEF Walks
  <1>3. \E at \in {"quick", "slow"}, left \in SUBSET FileName : Step(r, [at |-> at, left |-> left])
    BY <1>2 DEF Probe, LookLeft
  <1>4. PICK at \in {"quick", "slow"}, left \in SUBSET FileName : Step(r, [at |-> at, left |-> left])
    BY <1>3
  <1> DEFINE t == With([at |-> at, left |-> left], f)
  <1>5. fileTask' = [fileTask EXCEPT ![r] = t]
    BY <1>4 DEF Step
  <1>6. /\ t \in TaskSet /\ t.do = f.do /\ t.items = f.items /\ t.answer = f.answer /\ t.at = at
        /\ t.i = f.i
    BY <1>1 DEF With, TaskSet, StageOf
  <1> HIDE DEF t
  <1> QED
    BY <1>1, <1>2, <1>5, <1>6, StepKeeps

LEMMA LeastIndex ==
    ASSUME NEW T, T \subseteq Nat, T # {}
    PROVE  \E m \in T : \A n \in T : m <= n
  <1> DEFINE Less == OpToRel(<, Nat)
  <1>1. PICK m \in T : \A n \in T : ~ (<<n, m>> \in Less)
    BY NatLessThanWellFounded, WFMin
  <1>2. ASSUME NEW n \in T PROVE m <= n
    <2>1. ~ (<<n, m>> \in Less) /\ n \in Nat /\ m \in Nat
      BY <1>1
    <2> QED
      BY <2>1 DEF OpToRel
  <1> QED
    BY <1>2

LEMMA FreeIsFree ==
    ASSUME NEW seq \in Seq(Spot), NEW s \in FirstFree(seq)
    PROVE  s \in Spot /\ ~Taken(s)
  <1> DEFINE free == {i \in 1..Len(seq) : ~Taken(seq[i])}
  <1>1. free # {} /\ s = seq[CHOOSE i \in free : \A j \in free : i <= j]
    BY DEF FirstFree
  <1>2. free \subseteq Nat
    OBVIOUS
  <1>3. \E i \in free : \A j \in free : i <= j
    BY <1>1, <1>2, LeastIndex
  <1>4. PICK k \in free : s = seq[k]
    BY <1>1, <1>3
  <1> QED
    BY <1>4

LEMMA FindKeeps ==
    ASSUME FileInv, NEW r \in FileTask, FindInTrash(r)
    PROVE  FileInv'
  <1> DEFINE f == fileTask[r]
  <1>1. /\ f \in TaskSet /\ f.do = "restore" /\ f.at = "start" /\ UNCHANGED <<machine, fileParts>>
        /\ trash \in Seq(Trashed)
    BY TaskIs DEF FindInTrash, Does, FileTyped
  <1>2. PICK id \in 1..Len(trash) : \E s \in RestoredAs(trash[id].path) :
            Step(r, [at |-> "back", id |-> id, new |-> s, saw |-> IF Taken(s) THEN {} ELSE {s}])
    BY DEF FindInTrash
  <1>3. PICK s \in RestoredAs(trash[id].path) :
            Step(r, [at |-> "back", id |-> id, new |-> s, saw |-> IF Taken(s) THEN {} ELSE {s}])
    BY <1>2
  <1>4. s \in Spot /\ ~Taken(s)
    <2> DEFINE path == trash[id].path
               tried == [i \in 1..Len(Copies[path[2]]) |-> <<path[1], Copies[path[2]][i]>>]
    <2>1. path \in Spot
      <3>1. trash[id] \in Trashed
        BY <1>1
      <3> QED
        BY <3>1 DEF Trashed
    <2>2. path[1] \in {"home", "dest"} /\ path[2] \in FileName
      BY <2>1 DEF Spot
    <2>3. Copies[path[2]] \in Seq(FileName)
      BY <2>2, FileAssumption DEF FileAssumption
    <2>4. \A i \in 1..Len(Copies[path[2]]) : <<path[1], Copies[path[2]][i]>> \in Spot
      BY <2>2, <2>3 DEF Spot
    <2>5. Len(Copies[path[2]]) \in Nat
      BY <2>3
    <2>6. tried \in Seq(Spot)
      BY <2>4, <2>5
    <2>7. <<path>> \o tried \in Seq(Spot)
      BY <2>1, <2>6
    <2>8. s \in FirstFree(<<path>> \o tried)
      BY <1>3 DEF RestoredAs
    <2> HIDE DEF path, tried
    <2> QED
      BY <2>7, <2>8, FreeIsFree
  <1> DEFINE t == With([at |-> "back", id |-> id, new |-> s, saw |-> {s}], f)
  <1>5. fileTask' = [fileTask EXCEPT ![r] = t]
    BY <1>3, <1>4 DEF Step
  <1>6. id \in Nat
    OBVIOUS
  <1>7. /\ t \in TaskSet /\ t.do = f.do /\ t.items = f.items /\ t.answer = f.answer /\ t.at = "back"
        /\ t.new = s /\ t.saw = {s} /\ t.id = id
    BY <1>1, <1>4, <1>6 DEF With, TaskSet, StageOf
  <1> HIDE DEF t
  <1> QED
    BY <1>1, <1>5, <1>7, StepKeeps DEF Walks

LEMMA EmptyKeeps ==
    ASSUME FileInv, NEW r \in FileTask, EmptyTrash(r)
    PROVE  FileInv'
  <1> DEFINE f     == fileTask[r]
             ids   == {id \in 1..Len(trash) : trash[id].file # NoFile}
             infos == {id \in 1..Len(trash) : trash[id].info}
             t     == With([at |-> "rm", ids |-> ids, infos |-> infos], f)
  <1>1. f \in TaskSet /\ f.do = "empty" /\ f.at = "start" /\ UNCHANGED <<machine, fileParts>>
    BY TaskIs DEF EmptyTrash, Does
  <1>2. fileTask' = [fileTask EXCEPT ![r] = t]
    BY DEF EmptyTrash, Step
  <1>3. /\ ids \subseteq 1..Len(trash) /\ infos \subseteq 1..Len(trash) /\ ids \in SUBSET Nat /\ infos \in SUBSET Nat
        /\ \A id \in infos \ ids : trash[id].file = NoFile
    OBVIOUS
  <1> HIDE DEF ids, infos
  <1>4. /\ t \in TaskSet /\ t.do = f.do /\ t.items = f.items /\ t.answer = f.answer /\ t.at = "rm"
        /\ t.ids = ids /\ t.infos = infos
    BY <1>1, <1>3 DEF With, TaskSet, StageOf
  <1> HIDE DEF t
  <1> QED
    BY <1>1, <1>2, <1>3, <1>4, StepKeeps DEF Walks

LEMMA TryNameKeeps ==
    ASSUME FileInv, NEW r \in FileTask, TryName(r) \/ CopyTo(r)
    PROVE  FileInv'
  <1> DEFINE f == fileTask[r]
  <1>1. /\ f \in TaskSet /\ f.do \in {"duplicate", "copy"} /\ f.at = "start" /\ UNCHANGED <<machine, fileParts>>
        /\ TaskSound(r)
    BY TaskIs DEF TryName, CopyTo, Does
  <1>2. f.i \in 1..Len(f.items) /\ Item(r) = f.items[f.i] /\ Item(r) \in FileName
    BY <1>1, ItemIs DEF Walks
  <1>3. CASE CopyTo(r)
    <2> DEFINE t == With([at |-> "write", new |-> Dest(Item(r))], f)
    <2>1. fileTask' = [fileTask EXCEPT ![r] = t] /\ f.do = "copy"
      BY <1>3 DEF CopyTo, Step, Does
    <2>2. Dest(Item(r)) \in Spot
      BY <1>2, Spots
    <2>3. /\ t \in TaskSet /\ t.do = f.do /\ t.items = f.items /\ t.answer = f.answer /\ t.at = "write" /\ t.i = f.i
      BY <1>1, <2>2 DEF With, TaskSet, StageOf
    <2> HIDE DEF t
    <2> QED
      BY <1>1, <1>2, <2>1, <2>3, StepKeeps
  <1>4. CASE TryName(r)
    <2>1. f.do = "duplicate" /\ f.k \in 1..Len(Copies[Item(r)]) /\ Copies[Item(r)] \in Seq(FileName)
      BY <1>1, <1>2, <1>4, FileAssumption DEF FileAssumption, TryName, Does, TaskSound
    <2>2. Candidate(r) \in Spot
      BY <2>1, Spots DEF Candidate
    <2>3. CASE AnswerWith(r, "failed")
      BY <1>1, <2>1, <2>3, AnswerKeeps
    <2>4. CASE f.k # Len(Copies[Item(r)]) /\ Step(r, [k |-> fileTask[r].k + 1])
      <3> DEFINE t == With([k |-> f.k + 1], f)
      <3>1. fileTask' = [fileTask EXCEPT ![r] = t]
        BY <2>4 DEF Step
      <3>2. f.k + 1 \in 1..Len(Copies[Item(r)]) /\ f.k + 1 \in Nat
        BY <2>1, <2>4
      <3>3. /\ t \in TaskSet /\ t.do = f.do /\ t.items = f.items /\ t.answer = f.answer /\ t.at = f.at /\ t.i = f.i
            /\ t.k = f.k + 1
        BY <1>1, <3>2 DEF With, TaskSet
      <3> HIDE DEF t
      <3> QED
        BY <1>1, <1>2, <3>1, <3>2, <3>3, StepKeeps
    <2>5. CASE Step(r, [at |-> "write", new |-> Candidate(r), saw |-> {Candidate(r)}])
      <3> DEFINE t == With([at |-> "write", new |-> Candidate(r), saw |-> {Candidate(r)}], f)
      <3>1. fileTask' = [fileTask EXCEPT ![r] = t]
        BY <2>5 DEF Step
      <3>2. /\ t \in TaskSet /\ t.do = f.do /\ t.items = f.items /\ t.answer = f.answer /\ t.at = "write" /\ t.i = f.i
            /\ t.new = Candidate(r) /\ t.saw = {Candidate(r)}
        BY <1>1, <2>2 DEF With, TaskSet, StageOf
      <3> HIDE DEF t
      <3> QED
        BY <1>1, <1>2, <2>1, <3>1, <3>2, StepKeeps
    <2> QED
      BY <1>4, <2>3, <2>4, <2>5 DEF TryName
  <1> QED
    BY <1>3, <1>4

LEMMA CheckArchiveKeeps ==
    ASSUME FileInv, NEW r \in FileTask, CheckArchive(r)
    PROVE  FileInv'
  <1> DEFINE f == fileTask[r]
             saw == {Home(Archive)} \ {s \in Spot : Taken(s)}
  <1>1. /\ f \in TaskSet /\ f.do = "compress" /\ f.at \in {"start", "check"} /\ UNCHANGED <<machine, fileParts>>
        /\ f.partial = NoFile /\ f.i \in 1..Len(f.items)
    BY TaskIs, ItemIs DEF CheckArchive, PackSound, Walks
  <1>2. CASE AnswerWith(r, "conflict")
    BY <1>1, <1>2, AnswerKeeps
  <1>3. CASE ~ AnswerWith(r, "conflict")
    <2>1. /\ Step(r, IF f.at = "start" THEN [at |-> "check"] ELSE [at |-> "pack", saw |-> saw])
          /\ ~Taken(Home(Archive)) \/ f.over
      BY <1>3 DEF CheckArchive
    <2>2. saw \in SUBSET Spot /\ (f.over \/ Home(Archive) \in saw)
      BY <2>1, Spots, FileAssumption DEF FileAssumption
    <2> HIDE DEF saw
    <2>3. CASE f.at = "start"
      <3> DEFINE t == With([at |-> "check"], f)
      <3>1. fileTask' = [fileTask EXCEPT ![r] = t]
        BY <2>1, <2>3 DEF Step
      <3>2. /\ t \in TaskSet /\ t.do = f.do /\ t.items = f.items /\ t.answer = f.answer /\ t.at = "check" /\ t.i = f.i
            /\ t.partial = f.partial
        BY <1>1 DEF With, TaskSet, StageOf
      <3> HIDE DEF t
      <3> QED
        BY <1>1, <3>1, <3>2, StepKeeps
    <2>4. CASE f.at # "start"
      <3> DEFINE t == With([at |-> "pack", saw |-> saw], f)
      <3>1. fileTask' = [fileTask EXCEPT ![r] = t]
        BY <2>1, <2>4 DEF Step
      <3>2. /\ t \in TaskSet /\ t.do = f.do /\ t.items = f.items /\ t.answer = f.answer /\ t.at = "pack" /\ t.i = f.i
            /\ t.partial = f.partial /\ t.saw = saw /\ t.over = f.over
        BY <1>1, <2>2 DEF With, TaskSet, StageOf
      <3> HIDE DEF t
      <3> QED
        BY <1>1, <2>2, <3>1, <3>2, StepKeeps
    <2> QED
      BY <2>3, <2>4
  <1> QED
    BY <1>2, <1>3

LEMMA EndWithoutIs ==
    ASSUME FileInv, NEW r \in FileTask, NEW a \in {"ok", "failed", "conflict"}, fileTask[r].do = "compress",
           EndWithout(r, a)
    PROVE  \E t \in TaskSet : /\ fileTask' = [fileTask EXCEPT ![r] = t] /\ DoKept(r, t)
                              /\ TaskSound(r)' /\ PackSound(r)'
  <1> DEFINE t == [Ended(r, a) EXCEPT !.partial = NoFile]
  <1>1. FileTyped /\ Ended(r, a) \in TaskSet /\ Ended(r, a).do = fileTask[r].do /\ Ended(r, a).at = "done"
    BY TaskIs, EndedIs
  <1>2. t \in TaskSet /\ t.do = fileTask[r].do /\ t.at = "done" /\ t.partial = NoFile
    BY <1>1, NoFileIs DEF TaskSet
  <1>3. fileTask' = [fileTask EXCEPT ![r] = t]
    BY DEF EndWithout
  <1> HIDE DEF t
  <1>4. fileTask'[r] = t
    BY <1>1, <1>2, <1>3, TaskMoves
  <1>5. TaskSound(r)' /\ PackSound(r)'
    BY <1>2, <1>4 DEF TaskSound, PackSound
  <1> QED
    BY <1>2, <1>3, <1>5 DEF DoKept

LEMMA PacksKeep ==
    ASSUME FileInv, NEW r \in FileTask, Packs(r) \/ Packed(r)
    PROVE  FileInv'
  <1> DEFINE f == fileTask[r]
  <1>1. /\ f \in TaskSet /\ f.do = "compress" /\ f.at \in {"pack", "packing"} /\ UNCHANGED <<machine, fileParts>>
        /\ f.i \in 1..Len(f.items) /\ Names(r) \subseteq FileName /\ (f.over \/ Home(Archive) \in f.saw)
        /\ place \in [Spot -> FileContent]
    BY TaskIs, ItemIs DEF Packs, Packed, Does, PackSound, Walks, FileTyped
  <1>2. CASE EndWithout(r, "failed")
    BY <1>1, <1>2, EndWithoutIs, QuietKeeps
  <1>3. CASE Packs(r)
    <2> DEFINE t == With([at |-> "packing", partial |-> Torn(r)], f)
    <2>1. fileTask' = [fileTask EXCEPT ![r] = t]
      BY <1>3 DEF Packs, Step
    <2>2. /\ t \in TaskSet /\ t.do = f.do /\ t.items = f.items /\ t.answer = f.answer /\ t.at = "packing" /\ t.i = f.i
          /\ t.saw = f.saw /\ t.over = f.over
      BY <1>1, TornIs DEF With, TaskSet, StageOf
    <2> HIDE DEF t
    <2> QED
      BY <1>1, <2>1, <2>2, StepKeeps
  <1>4. CASE Packed(r) /\ ~ EndWithout(r, "failed")
    <2> DEFINE of == UNION {place[Home(n)].of : n \in Names(r)}
               p  == IF f.partial = NoFile THEN NoFile ELSE Content(of, r)
               t  == With([at |-> "swap", partial |-> p], f)
    <2>1. fileTask' = [fileTask EXCEPT ![r] = t]
      BY <1>4 DEF Packed, Step
    <2>2. of \in SUBSET Datum /\ r \in Maker
      <3>1. ASSUME NEW n \in Names(r) PROVE place[Home(n)].of \subseteq Datum
        <4>1. place[Home(n)] \in FileContent
          BY <1>1, Spots
        <4> QED
          BY <4>1 DEF FileContent
      <3> QED
        BY <3>1 DEF Maker
    <2> HIDE DEF of
    <2>3. p \in FileContent /\ (p = NoFile \/ p.whole)
      BY <2>2, ContentIs, NoFileIs
    <2> HIDE DEF p
    <2>4. /\ t \in TaskSet /\ t.do = f.do /\ t.items = f.items /\ t.answer = f.answer /\ t.at = "swap" /\ t.i = f.i
          /\ t.saw = f.saw /\ t.over = f.over /\ t.partial = p
      BY <1>1, <2>3 DEF With, TaskSet, StageOf
    <2> HIDE DEF t
    <2> QED
      BY <1>1, <2>1, <2>3, <2>4, StepKeeps
  <1> QED
    BY <1>2, <1>3, <1>4

LEMMA CutKeeps ==
    ASSUME FileInv, NEW r \in FileTask, Cut(r)
    PROVE  FileInv'
  <1> DEFINE f == fileTask[r]
  <1>1. /\ FileTyped /\ f \in TaskSet /\ f.do = "compress" /\ f.at \in {"pack", "packing", "swap"}
        /\ UNCHANGED <<machine, fileParts>> /\ TaskSound(r) /\ PackSound(r)
    BY TaskIs DEF Cut
  <1>2. PICK p \in {f.partial, NoFile} :
            fileTask' \in {[fileTask EXCEPT ![r] = [f EXCEPT !.cut = TRUE, !.answer = "failed", !.partial = p]],
                           [fileTask EXCEPT ![r] = [Ended(r, "failed") EXCEPT !.cut = TRUE, !.partial = p]]}
    BY DEF Cut
  <1>3. p \in FileContent
    BY <1>1, NoFileIs DEF TaskSet
  <1>4. CASE fileTask' = [fileTask EXCEPT ![r] = [f EXCEPT !.cut = TRUE, !.answer = "failed", !.partial = p]]
    <2> DEFINE t == [f EXCEPT !.cut = TRUE, !.answer = "failed", !.partial = p]
    <2>1. /\ t \in TaskSet /\ t.do = f.do /\ t.items = f.items /\ t.at = f.at /\ t.i = f.i
          /\ t.saw = f.saw /\ t.over = f.over /\ t.partial = p /\ t.cut
      BY <1>1, <1>3 DEF TaskSet
    <2>2. fileTask' = [fileTask EXCEPT ![r] = t]
      BY <1>4
    <2> HIDE DEF t
    <2>3. fileTask'[r] = t
      BY <1>1, <2>1, <2>2, TaskMoves
    <2>4. TaskSound(r)'
      BY <1>1, <2>1, <2>3 DEF TaskSound
    <2>5. PackSound(r)'
      BY <1>1, <1>2, <2>1, <2>3 DEF PackSound
    <2> QED
      BY <1>1, <2>1, <2>2, <2>4, <2>5, QuietKeeps DEF DoKept
  <1>5. CASE fileTask' = [fileTask EXCEPT ![r] = [Ended(r, "failed") EXCEPT !.cut = TRUE, !.partial = p]]
    <2> DEFINE t == [Ended(r, "failed") EXCEPT !.cut = TRUE, !.partial = p]
    <2>1. Ended(r, "failed") \in TaskSet /\ Ended(r, "failed").do = f.do /\ Ended(r, "failed").at = "done"
      BY <1>1, EndedIs
    <2>2. t \in TaskSet /\ t.do = f.do /\ t.at = "done" /\ t.partial = p /\ t.cut
      BY <1>3, <2>1 DEF TaskSet
    <2>3. fileTask' = [fileTask EXCEPT ![r] = t]
      BY <1>5
    <2> HIDE DEF t
    <2>4. fileTask'[r] = t
      BY <1>1, <2>2, <2>3, TaskMoves
    <2>5. TaskSound(r)' /\ PackSound(r)'
      BY <1>1, <2>2, <2>4 DEF TaskSound, PackSound
    <2> QED
      BY <1>1, <2>2, <2>3, <2>5, QuietKeeps DEF DoKept
  <1> QED
    BY <1>2, <1>4, <1>5

(* The loops: the next item, or the answer after the last.                 *)
LEMMA NextIs ==
    ASSUME FileInv, NEW r \in FileTask, fileTask[r].do \in {"move", "trash", "extract"}, fileTask[r].at # "done",
           NEW at \in {"recheck", "trash", "next"}, NextItem(r, at)
    PROVE  \E t \in TaskSet : /\ fileTask' = [fileTask EXCEPT ![r] = t] /\ t.do = fileTask[r].do
                              /\ t.at \in {at, "done"} /\ TaskSound(r)' /\ PackSound(r)'
  <1> DEFINE f == fileTask[r]
  <1>1. FileTyped /\ f \in TaskSet /\ TaskSound(r) /\ f.i \in 1..Len(f.items) /\ Len(f.items) \in Nat
    BY TaskIs, ItemIs DEF Walks, TaskSet
  <1>2. CASE f.i = Len(f.items)
    <2>1. fileTask' = [fileTask EXCEPT ![r] = Ended(r, "ok")] /\ "ok" \in {"ok", "failed", "conflict"}
      BY <1>2 DEF NextItem, AnswerWith
    <2>2. Ended(r, "ok").do = f.do /\ Ended(r, "ok").at = "done"
      BY <1>1, EndedIs
    <2> QED
      BY <2>1, <2>2, AnswerSound
  <1>3. CASE f.i # Len(f.items)
    <2> DEFINE t == With([at |-> at, i |-> f.i + 1, saw |-> {}], f)
    <2>1. fileTask' = [fileTask EXCEPT ![r] = t]
      BY <1>3 DEF NextItem, Step
    <2>2. f.i + 1 \in 1..Len(f.items) /\ f.i + 1 \in Nat
      BY <1>1, <1>3
    <2>3. /\ t \in TaskSet /\ t.do = f.do /\ t.items = f.items /\ t.answer = f.answer /\ t.at = at /\ t.i = f.i + 1
      BY <1>1, <2>2 DEF With, TaskSet, StageOf
    <2> HIDE DEF t
    <2>4. fileTask'[r] = t
      BY <1>1, <2>1, <2>3, TaskMoves
    <2>5. TaskSound(r)' /\ PackSound(r)'
      BY <1>1, <2>2, <2>3, <2>4 DEF TaskSound, PackSound
    <2> QED
      BY <2>1, <2>3, <2>5
  <1> QED
    BY <1>2, <1>3

LEMMA PeekKeeps ==
    ASSUME FileInv, NEW r \in FileTask, Peek(r)
    PROVE  FileInv'
  <1> DEFINE f == fileTask[r]
             t == With([at |-> "unpack", saw |-> {Home(Item(r))}], f)
  <1>1. /\ f \in TaskSet /\ f.do = "extract" /\ f.at \in {"start", "next"} /\ UNCHANGED <<machine, fileParts>>
        /\ f.i \in 1..Len(f.items) /\ Item(r) = f.items[f.i] /\ Home(Item(r)) \in Spot
    BY TaskIs, ItemIs, Spots DEF Peek, Walks
  <1>2. CASE NextItem(r, "next")
    BY <1>1, <1>2, NextIs, QuietKeeps DEF DoKept
  <1>3. CASE Step(r, [at |-> "unpack", saw |-> {Home(Item(r))}])
    <2>1. fileTask' = [fileTask EXCEPT ![r] = t]
      BY <1>3 DEF Step
    <2>2. /\ t \in TaskSet /\ t.do = f.do /\ t.items = f.items /\ t.answer = f.answer /\ t.at = "unpack" /\ t.i = f.i
          /\ t.saw = {Home(Item(r))}
      BY <1>1 DEF With, TaskSet, StageOf
    <2> HIDE DEF t
    <2> QED
      BY <1>1, <2>1, <2>2, StepKeeps
  <1> QED
    BY <1>2, <1>3 DEF Peek

(* ---------------------- steps that change the files ---------------------- *)
LEMMA SoundStep ==
    ASSUME FileInv, NEW r \in FileTask, NEW t \in TaskSet, fileTask' = [fileTask EXCEPT ![r] = t],
           fileTask[r].do # "none", t.do = fileTask[r].do, t.items = fileTask[r].items,
           t.answer = "none", t.do # "compress", Walks(t.do) => t.i \in 1..Len(t.items),
           t.at \in {"quick", "look", "slow", "fill"}, t.at = "fill" => t.do \in {"copy", "duplicate"}
    PROVE  TaskSound(r)' /\ PackSound(r)' /\ DoKept(r, t)
  <1>1. fileTask'[r] = t
    BY TaskIs, TaskMoves
  <1> QED
    BY <1>1 DEF TaskSound, PackSound, DoKept

LEMMA EntryKept ==
    ASSUME FileInv, NEW r \in FileTask, NEW t \in TaskSet, fileTask' = [fileTask EXCEPT ![r] = t], DoKept(r, t),
           NEW i \in 1..Len(trash), trash'[i].by = trash[i].by,
           trash'[i].file = trash[i].file \/ trash'[i].file = NoFile,
           trash'[i].file # NoFile /\ trash[i].info => trash'[i].info,
           trash[i].by = r /\ trash'[i].file # NoFile =>
               t.do = "trash" /\ (trash'[i].info \/ (t.at = "info" /\ t.id = i) \/ (t.at = "done" /\ t.answer = "failed"))
    PROVE  EntrySound(i)'
  <1>1. FileTyped /\ fileTask'[r] = t /\ \A q \in FileTask : q # r => fileTask'[q] = fileTask[q]
    BY TaskIs, TaskMoves
  <1>2. EntrySound(i)
    BY DEF FileInv, AllSound
  <1>3. Fine(trash[i].file)'
    <2>1. \A y : Fine(y) \/ y = NoFile => Fine(y)'
      <3>1. Fine(NoFile)'
        BY DEF Fine
      <3>2. ASSUME NEW y, Fine(y) PROVE Fine(y)'
        BY <1>1, <3>2, FineKept
      <3> QED
        BY <3>1, <3>2
    <2> QED
      BY <1>2, <2>1 DEF EntrySound
  <1>4. CASE trash[i].by = r
    BY <1>1, <1>3, <1>4 DEF EntrySound
  <1>5. CASE trash[i].by # r
    BY <1>1, <1>2, <1>3, <1>5 DEF EntrySound
  <1> QED
    BY <1>4, <1>5

LEMMA EntriesKept ==
    ASSUME FileInv, NEW r \in FileTask, NEW t \in TaskSet, fileTask' = [fileTask EXCEPT ![r] = t], DoKept(r, t),
           trash' = trash, fileTask[r].do = "trash" => fileTask[r].at # "info" /\ fileTask[r].at # "done"
    PROVE  TrashGrows /\ trash' \in Seq(Trashed) /\ \A i \in 1..Len(trash') : EntrySound(i)'
  <1>1. ASSUME NEW i \in 1..Len(trash) PROVE EntrySound(i)'
    <2>1. EntrySound(i)
      BY DEF FileInv, AllSound
    <2>2. trash[i].by = r /\ trash[i].file # NoFile => t.do = "trash" /\ trash[i].info
      BY <2>1 DEF EntrySound, DoKept
    <2> QED
      BY <2>2, EntryKept
  <1>2. trash \in Seq(Trashed) /\ Len(trash) \in Nat
    BY TaskIs DEF FileTyped
  <1> QED
    BY <1>1, <1>2 DEF TrashGrows

(* A command puts x at s; what was there is x, or nobody's any more.       *)
LEMMA PutKeeps ==
    ASSUME FileInv, NEW r \in FileTask, NEW t \in TaskSet, fileTask' = [fileTask EXCEPT ![r] = t], DoKept(r, t),
           TaskSound(r)', PackSound(r)', UNCHANGED <<machine, trash>>,
           fileTask[r].do = "trash" => fileTask[r].at # "info" /\ fileTask[r].at # "done",
           NEW s \in Spot, NEW x \in FileContent, place' = [place EXCEPT ![s] = x], Fine(x)',
           \A c \in owed' : (c \in owed \/ (c = x /\ x.whole)) /\ (c = x \/ c # place[s])
    PROVE  FileInv'
  <1>1. /\ FileTyped /\ fileTask'[r] = t /\ \A q \in FileTask : q # r => fileTask'[q] = fileTask[q]
        /\ place \in [Spot -> FileContent] /\ owed \subseteq FileContent
    BY TaskIs, TaskMoves DEF FileTyped
  <1>2. place' \in [Spot -> FileContent] /\ place'[s] = x /\ \A u \in Spot : u # s => place'[u] = place[u]
    BY <1>1
  <1>3. TrashGrows /\ trash' \in Seq(Trashed) /\ \A i \in 1..Len(trash') : EntrySound(i)'
    BY EntriesKept
  <1>4. ASSUME NEW u \in Spot PROVE Fine(place[u])'
    <2>1. Fine(place[u])
      BY DEF FileInv, AllSound
    <2>2. Fine(place[u])' \/ u = s
      BY <1>1, <1>2, <2>1, FineKept
    <2> QED
      BY <1>2, <2>2
  <1>5. ASSUME NEW c \in owed' PROVE c.whole /\ ~Lost(c)'
    <2>1. CASE c = x
      BY <1>2, <1>5, <2>1 DEF FileInv, AllSound, Lost
    <2>2. CASE c # x
      <3>1. c \in owed /\ c # place[s]
        BY <2>2
      <3>2. c.whole /\ ~Lost(c)
        BY <3>1 DEF FileInv, AllSound
      <3> QED
        BY <1>2, <3>1, <3>2 DEF Lost
    <2> QED
      BY <2>1, <2>2
  <1>6. owed' \subseteq FileContent
    BY <1>1
  <1>7. AllSound'
    BY <1>3, <1>4, <1>5 DEF AllSound
  <1> QED
    BY <1>2, <1>3, <1>6, <1>7, CommandKeeps

(* What nobody gave up was not there: nothing is owed of a free name.      *)
LEMMA FreeOwesNothing ==
    ASSUME FileInv
    PROVE  NoFile \notin owed /\ \A c \in owed : c.whole
  BY NoFileIs DEF FileInv, AllSound

LEMMA GivenUpIs ==
    ASSUME FileInv, NEW r \in FileTask, NEW s \in Spot, NEW agreed \in BOOLEAN, agreed \/ s \in fileTask[r].saw
    PROVE  place[s] \notin owed \ GivenUp(r, s, agreed)
  BY FreeOwesNothing DEF GivenUp, Taken

LEMMA RenameKeeps ==
    ASSUME FileInv, NEW r \in FileTask, Rename(r)
    PROVE  FileInv'
  <1> DEFINE f == fileTask[r]
             s == Home(Item(r))
             d == Dest(Item(r))
  <1>1. /\ FileTyped /\ f \in TaskSet /\ f.do = "move" /\ f.at = "rename" /\ Item(r) = f.items[f.i]
        /\ Item(r) \in FileName /\ d \in f.saw
    BY TaskIs, ItemIs DEF Rename, Does, Walks, TaskSound
  <1>2. s \in Spot /\ d \in Spot /\ s # d
    BY <1>1, Spots
  <1>3. /\ owed' = owed \ GivenUp(r, d, FALSE) /\ UNCHANGED <<machine, trash>>
        /\ \/ place' = [place EXCEPT ![s] = NoFile, ![d] = place[s]] /\ NextItem(r, "recheck")
           \/ place' = [place EXCEPT ![d] = place[s]] /\ AnswerWith(r, "failed")
    BY DEF Rename
  <1> HIDE DEF s, d
  <1>4. owed' \subseteq owed /\ place[d] \notin owed' /\ NoFile \notin owed
    BY <1>1, <1>2, <1>3, GivenUpIs, FreeOwesNothing
  <1>5. /\ place \in [Spot -> FileContent] /\ place[s] \in FileContent /\ Fine(place[s]) /\ owed \subseteq FileContent
        /\ \A u \in Spot : Fine(place[u])
    BY <1>1, <1>2 DEF FileTyped, FileInv, AllSound
  <1>6. CASE place' = [place EXCEPT ![d] = place[s]] /\ AnswerWith(r, "failed")
    <2> DEFINE t == Ended(r, "failed")
    <2>1. fileTask' = [fileTask EXCEPT ![r] = t] /\ "failed" \in {"ok", "failed", "conflict"}
      BY <1>6 DEF AnswerWith
    <2>2. TaskSound(r)' /\ PackSound(r)' /\ t \in TaskSet /\ DoKept(r, t) /\ fileTask'[r] = t
      BY <1>1, <2>1, AnswerSound
    <2> HIDE DEF t
    <2>3. PICK x \in FileContent : x = place[s] /\ place' = [place EXCEPT ![d] = x] /\ Fine(x)
      BY <1>5, <1>6
    <2>4. \A q \in FileTask : q # r => fileTask'[q] = fileTask[q]
      BY <1>1, <2>1, <2>2, TaskMoves
    <2>5. Fine(x)'
      BY <1>1, <2>2, <2>3, <2>4, FineKept
    <2>6. \A c \in owed' : (c \in owed \/ (c = x /\ x.whole)) /\ (c = x \/ c # place[d])
      BY <1>4
    <2>7. fileTask' = [fileTask EXCEPT ![r] = t]
      BY <2>1 DEF t
    <2> QED
      BY <1>1, <1>2, <1>3, <2>2, <2>3, <2>5, <2>6, <2>7, PutKeeps
  <1>7. CASE place' = [place EXCEPT ![s] = NoFile, ![d] = place[s]] /\ NextItem(r, "recheck")
    <2>1. PICK t \in TaskSet : /\ fileTask' = [fileTask EXCEPT ![r] = t] /\ t.do = f.do
                               /\ TaskSound(r)' /\ PackSound(r)'
      BY <1>1, <1>7, NextIs
    <2>2. /\ place' \in [Spot -> FileContent] /\ place'[s] = NoFile /\ place'[d] = place[s]
          /\ \A u \in Spot : u # s /\ u # d => place'[u] = place[u]
      BY <1>2, <1>5, <1>7, NoFileIs
    <2>3. fileTask'[r] = t /\ \A q \in FileTask : q # r => fileTask'[q] = fileTask[q]
      BY <1>1, <2>1, TaskMoves
    <2>4. \A u \in Spot : Fine(place[u])'
      <3>1. ASSUME NEW y, Fine(y) PROVE Fine(y)'
        BY <1>1, <2>1, <2>3, <3>1, FineKept DEF DoKept
      <3>2. \A u \in Spot : place'[u] = NoFile \/ \E v \in Spot : place'[u] = place[v]
        BY <1>2, <2>2
      <3>3. Fine(NoFile)'
        BY DEF Fine
      <3> QED
        BY <1>5, <3>1, <3>2, <3>3
    <2>5. TrashGrows /\ trash' \in Seq(Trashed) /\ \A i \in 1..Len(trash') : EntrySound(i)'
      BY <1>1, <1>3, <2>1, EntriesKept DEF DoKept
    <2>6. ASSUME NEW c \in owed' PROVE c.whole /\ ~Lost(c)'
      <3>1. c \in owed /\ c # place[d] /\ c.whole /\ ~Lost(c)
        BY <1>4 DEF FileInv, AllSound
      <3> QED
        BY <1>2, <1>3, <2>2, <3>1 DEF Lost
    <2>7. AllSound'
      BY <2>4, <2>5, <2>6 DEF AllSound
    <2> QED
      BY <1>3, <1>4, <1>5, <2>1, <2>2, <2>5, <2>7, CommandKeeps DEF DoKept
  <1> QED
    BY <1>3, <1>6, <1>7

LEMMA DeletedKeeps ==
    ASSUME FileInv, NEW r \in FileTask, NEW t \in TaskSet, fileTask' = [fileTask EXCEPT ![r] = t], DoKept(r, t),
           TaskSound(r)', PackSound(r)', fileTask[r].do = "delete", UNCHANGED <<machine, trash, other>>,
           NEW s \in Spot, Deleted(s) \/ UNCHANGED <<place, owed>>
    PROVE  FileInv'
  <1>1. CASE UNCHANGED <<place, owed>>
    BY <1>1, QuietKeeps DEF fileParts
  <1>2. CASE Deleted(s)
    <2>1. NoFile \in FileContent /\ Fine(NoFile)'
      BY NoFileIs DEF Fine
    <2>2. place' = [place EXCEPT ![s] = NoFile] /\ \A c \in owed' : c \in owed /\ c # place[s]
      BY <1>2 DEF Deleted, Clear
    <2> QED
      BY <2>1, <2>2, PutKeeps
  <1> QED
    BY <1>1, <1>2

LEMMA QuickKeeps ==
    ASSUME FileInv, NEW r \in FileTask, Quick(r)
    PROVE  FileInv'
  <1> DEFINE f == fileTask[r]
             s == Home(Item(r))
  <1>1. /\ FileTyped /\ f \in TaskSet /\ f.do = "delete" /\ f.at = "quick" /\ f.i \in 1..Len(f.items) /\ s \in Spot
        /\ Len(f.items) \in Nat /\ f.answer = "none"
    BY TaskIs, ItemIs, Spots DEF Quick, Does, Walks, TaskSet, TaskSound
  <1>2. UNCHANGED <<machine, trash, other>> /\ (Deleted(s) \/ UNCHANGED <<place, owed>>)
    BY DEF Quick
  <1>3. \/ f.i < Len(f.items) /\ Step(r, [i |-> f.i + 1])
        \/ \E at \in {"look", "slow"} : Step(r, [at |-> at])
    BY DEF Quick
  <1> HIDE DEF s
  <1>4. CASE f.i < Len(f.items) /\ Step(r, [i |-> f.i + 1])
    <2> DEFINE t == With([i |-> f.i + 1], f)
    <2>1. fileTask' = [fileTask EXCEPT ![r] = t]
      BY <1>4 DEF Step
    <2>2. f.i + 1 \in 1..Len(f.items) /\ f.i + 1 \in Nat
      BY <1>1, <1>4
    <2>3. t \in TaskSet /\ t.do = f.do /\ t.items = f.items /\ t.answer = f.answer /\ t.at = f.at /\ t.i = f.i + 1
      BY <1>1, <2>2 DEF With, TaskSet
    <2> HIDE DEF t
    <2>4. TaskSound(r)' /\ PackSound(r)' /\ DoKept(r, t)
      BY <1>1, <2>1, <2>2, <2>3, SoundStep
    <2> QED
      BY <1>1, <1>2, <2>1, <2>3, <2>4, DeletedKeeps
  <1>5. CASE \E at \in {"look", "slow"} : Step(r, [at |-> at])
    <2>1. PICK at \in {"look", "slow"} : Step(r, [at |-> at])
      BY <1>5
    <2> DEFINE t == With([at |-> at], f)
    <2>2. fileTask' = [fileTask EXCEPT ![r] = t]
      BY <2>1 DEF Step
    <2>3. t \in TaskSet /\ t.do = f.do /\ t.items = f.items /\ t.answer = f.answer /\ t.at = at /\ t.i = f.i
      BY <1>1 DEF With, TaskSet, StageOf
    <2> HIDE DEF t
    <2>4. TaskSound(r)' /\ PackSound(r)' /\ DoKept(r, t)
      BY <1>1, <2>2, <2>3, SoundStep
    <2> QED
      BY <1>1, <1>2, <2>2, <2>3, <2>4, DeletedKeeps
  <1> QED
    BY <1>3, <1>4, <1>5

LEMMA SlowKeeps ==
    ASSUME FileInv, NEW r \in FileTask, Slow(r)
    PROVE  FileInv'
  <1> DEFINE f == fileTask[r]
  <1>1. /\ FileTyped /\ f \in TaskSet /\ f.do = "delete" /\ f.at = "slow" /\ f.i \in 1..Len(f.items)
        /\ f.answer = "none" /\ f.left \in SUBSET FileName
    BY TaskIs, ItemIs DEF Slow, Does, Walks, TaskSet, TaskSound
  <1>2. UNCHANGED <<machine, trash, other>>
    BY DEF Slow
  <1>3. CASE \E a \in {"ok", "failed"} : AnswerWith(r, a) /\ UNCHANGED <<place, owed>>
    BY <1>1, <1>2, <1>3, AnswerKeeps DEF fileParts
  <1>4. CASE \E n \in f.left : Deleted(Home(n)) /\ Step(r, [left |-> f.left \ {n}])
    <2>1. PICK n \in f.left : Deleted(Home(n)) /\ Step(r, [left |-> f.left \ {n}])
      BY <1>4
    <2> DEFINE t == With([left |-> f.left \ {n}], f)
    <2>2. fileTask' = [fileTask EXCEPT ![r] = t]
      BY <2>1 DEF Step
    <2>3. t \in TaskSet /\ t.do = f.do /\ t.items = f.items /\ t.answer = f.answer /\ t.at = f.at /\ t.i = f.i
      BY <1>1 DEF With, TaskSet
    <2> HIDE DEF t
    <2>4. TaskSound(r)' /\ PackSound(r)' /\ DoKept(r, t)
      BY <1>1, <2>2, <2>3, SoundStep
    <2>5. Home(n) \in Spot
      BY <1>1, Spots
    <2> QED
      BY <1>1, <1>2, <2>1, <2>2, <2>3, <2>4, <2>5, DeletedKeeps
  <1>5. f.left # {} => (CHOOSE m \in f.left : TRUE) \in f.left
    OBVIOUS
  <1> QED
    BY <1>3, <1>4, <1>5 DEF Slow

LEMMA TrashFileKeeps ==
    ASSUME FileInv, NEW r \in FileTask, TrashFile(r)
    PROVE  FileInv'
  <1> DEFINE f == fileTask[r]
             s == Home(Item(r))
             new == [file |-> place[s], path |-> s, info |-> FALSE, by |-> r]
  <1>1. /\ FileTyped /\ f \in TaskSet /\ f.do = "trash" /\ f.at \in {"start", "trash"} /\ f.i \in 1..Len(f.items)
        /\ s \in Spot /\ f.answer = "none"
    BY TaskIs, ItemIs, Spots DEF TrashFile, Walks, TaskSound
  <1>2. /\ place' = [place EXCEPT ![s] = NoFile] /\ trash' = Append(trash, new) /\ UNCHANGED <<machine, other, owed>>
        /\ Step(r, [at |-> "info", id |-> Len(trash) + 1]) \/ AnswerWith(r, "failed")
    BY DEF TrashFile, Clear
  <1> HIDE DEF s
  <1>3. /\ place \in [Spot -> FileContent] /\ place[s] \in FileContent /\ trash \in Seq(Trashed)
        /\ Len(trash) \in Nat /\ owed \subseteq FileContent
    BY <1>1 DEF FileTyped
  <1>4. new \in Trashed /\ new.file = place[s] /\ new.by = r
    BY <1>1, <1>3 DEF Trashed
  <1> HIDE DEF new
  <1>5. /\ trash' \in Seq(Trashed) /\ Len(trash') = Len(trash) + 1 /\ trash'[Len(trash) + 1] = new
        /\ \A i \in 1..Len(trash) : trash'[i] = trash[i]
    BY <1>2, <1>3, <1>4
  <1>6. TrashGrows
    BY <1>3, <1>5 DEF TrashGrows
  <1>7. \E t \in TaskSet : /\ fileTask' = [fileTask EXCEPT ![r] = t] /\ t.do = "trash" /\ TaskSound(r)' /\ PackSound(r)'
                           /\ (t.at = "info" /\ t.id = Len(trash) + 1) \/ (t.at = "done" /\ t.answer = "failed")
    <2>1. CASE AnswerWith(r, "failed")
      <3> DEFINE t == Ended(r, "failed")
      <3>1. fileTask' = [fileTask EXCEPT ![r] = t] /\ "failed" \in {"ok", "failed", "conflict"}
        BY <2>1 DEF AnswerWith
      <3>2. t \in TaskSet /\ t.do = f.do /\ t.at = "done" /\ t.answer = "failed"
        BY <1>1, <3>1, EndedIs
      <3>3. TaskSound(r)' /\ PackSound(r)'
        BY <1>1, <3>1, AnswerSound
      <3> HIDE DEF t
      <3> QED
        BY <1>1, <3>1, <3>2, <3>3
    <2>2. CASE Step(r, [at |-> "info", id |-> Len(trash) + 1])
      <3> DEFINE t == With([at |-> "info", id |-> Len(trash) + 1], f)
      <3>1. fileTask' = [fileTask EXCEPT ![r] = t]
        BY <2>2 DEF Step
      <3>0. Len(trash) + 1 \in Nat
        BY <1>3
      <3>2. /\ t \in TaskSet /\ t.do = f.do /\ t.items = f.items /\ t.answer = f.answer /\ t.at = "info" /\ t.i = f.i
            /\ t.id = Len(trash) + 1
        BY <1>1, <3>0 DEF With, TaskSet, StageOf
      <3> HIDE DEF t
      <3>3. fileTask'[r] = t
        BY <1>1, <3>1, <3>2, TaskMoves
      <3>4. t.id \in 1..Len(trash')
        BY <1>3, <1>5, <3>2
      <3>5. TaskSound(r)' /\ PackSound(r)'
        BY <1>1, <3>2, <3>3, <3>4 DEF TaskSound, PackSound
      <3> QED
        BY <1>1, <3>1, <3>2, <3>5
    <2> QED
      BY <1>2, <2>1, <2>2
  <1>8. PICK t \in TaskSet : /\ fileTask' = [fileTask EXCEPT ![r] = t] /\ t.do = "trash" /\ TaskSound(r)' /\ PackSound(r)'
                             /\ (t.at = "info" /\ t.id = Len(trash) + 1) \/ (t.at = "done" /\ t.answer = "failed")
    BY <1>7
  <1>9. fileTask'[r] = t /\ (\A q \in FileTask : q # r => fileTask'[q] = fileTask[q]) /\ DoKept(r, t)
    BY <1>1, <1>8, TaskMoves DEF DoKept
  <1>10. ASSUME NEW y, Fine(y) PROVE Fine(y)'
    BY <1>1, <1>9, <1>10, FineKept
  <1>11. Fine(NoFile)' /\ place' \in [Spot -> FileContent] /\ place'[s] = NoFile /\ \A u \in Spot : u # s => place'[u] = place[u]
    BY <1>1, <1>2, <1>3, NoFileIs DEF Fine
  <1>12. \A u \in Spot : Fine(place[u])'
    <2>1. \A u \in Spot : Fine(place[u])
      BY DEF FileInv, AllSound
    <2>2. \A u \in Spot : place'[u] = NoFile \/ place'[u] = place[u]
      BY <1>11
    <2> QED
      BY <1>10, <1>11, <2>1, <2>2
  <1>13. ASSUME NEW i \in 1..Len(trash) PROVE EntrySound(i)'
    <2>1. trash[i].by = r /\ trash[i].file # NoFile => trash[i].info
      BY <1>1 DEF FileInv, AllSound, EntrySound
    <2> QED
      BY <1>5, <1>8, <1>9, <2>1, EntryKept
  <1>14. ASSUME NEW j \in 1..Len(trash'), j = Len(trash) + 1 PROVE EntrySound(j)'
    <2>1. Fine(place[s])
      BY <1>1 DEF FileInv, AllSound
    <2>2. Fine(trash[j].file)'
      <3>1. PICK y : y = place[s]
        OBVIOUS
      <3>2. Fine(y)'
        BY <1>10, <2>1, <3>1
      <3> QED
        BY <1>4, <1>5, <1>14, <3>1, <3>2
    <2>3. trash'[j] = new
      BY <1>5, <1>14
    <2> QED
      BY <1>4, <1>8, <1>9, <1>14, <2>2, <2>3 DEF EntrySound
  <1>15. ASSUME NEW c \in owed' PROVE c.whole /\ ~Lost(c)'
    <2>1. c.whole /\ ~Lost(c)
      BY <1>2 DEF FileInv, AllSound
    <2>2. Len(trash) + 1 \in 1..Len(trash') /\ 1..Len(trash) \subseteq 1..Len(trash')
      BY <1>3, <1>5
    <2> QED
      BY <1>1, <1>4, <1>5, <1>11, <2>1, <2>2 DEF Lost
  <1>16. AllSound'
    <2>1. \A i \in 1..Len(trash') : i \in 1..Len(trash) \/ i = Len(trash) + 1
      BY <1>3, <1>5
    <2> QED
      BY <1>12, <1>13, <1>14, <1>15, <2>1 DEF AllSound
  <1>17. owed' \subseteq FileContent /\ machine' = machine
    BY <1>2, <1>3
  <1> QED
    BY <1>5, <1>6, <1>8, <1>9, <1>11, <1>16, <1>17, CommandKeeps

LEMMA EntryPut ==
    ASSUME NEW q \in Seq(Trashed), NEW id \in 1..Len(q), NEW e \in Trashed
    PROVE  /\ [q EXCEPT ![id] = e] \in Seq(Trashed) /\ Len([q EXCEPT ![id] = e]) = Len(q)
           /\ [q EXCEPT ![id] = e][id] = e /\ \A i \in 1..Len(q) : i # id => [q EXCEPT ![id] = e][i] = q[i]
  OBVIOUS

LEMMA EntriesChange ==
    ASSUME FileInv, NEW r \in FileTask, NEW t \in TaskSet, fileTask' = [fileTask EXCEPT ![r] = t], DoKept(r, t),
           trash' \in Seq(Trashed), Len(trash') = Len(trash),
           \A i \in 1..Len(trash) :
               /\ trash'[i].by = trash[i].by /\ (trash'[i].file = trash[i].file \/ trash'[i].file = NoFile)
               /\ trash'[i].file # NoFile /\ trash[i].info => trash'[i].info
               /\ trash[i].by = r /\ trash'[i].file # NoFile =>
                      t.do = "trash" /\ (trash'[i].info \/ (t.at = "done" /\ t.answer = "failed"))
    PROVE  TrashGrows /\ \A i \in 1..Len(trash') : EntrySound(i)'
  <1>1. ASSUME NEW i \in 1..Len(trash) PROVE EntrySound(i)'
    BY EntryKept
  <1>2. Len(trash) \in Nat
    BY TaskIs DEF FileTyped
  <1> QED
    BY <1>1, <1>2 DEF TrashGrows

LEMMA TrashInfoKeeps ==
    ASSUME FileInv, NEW r \in FileTask, TrashInfo(r)
    PROVE  FileInv'
  <1> DEFINE f == fileTask[r]
             id == f.id
  <1>1. /\ FileTyped /\ f \in TaskSet /\ f.do = "trash" /\ f.at = "info" /\ id \in 1..Len(trash) /\ f.answer = "none"
        /\ trash \in Seq(Trashed) /\ place \in [Spot -> FileContent] /\ owed \subseteq FileContent
    BY TaskIs DEF TrashInfo, Does, TaskSound, FileTyped
  <1>2. UNCHANGED <<machine, place, other, owed>>
    BY DEF TrashInfo
  <1>3. ASSUME NEW i \in 1..Len(trash), trash[i].by = r, trash[i].file # NoFile
        PROVE  trash[i].info \/ i = id
    BY <1>1, <1>3 DEF FileInv, AllSound, EntrySound
  <1>4. \E t \in TaskSet : /\ fileTask' = [fileTask EXCEPT ![r] = t] /\ t.do = "trash" /\ TaskSound(r)' /\ PackSound(r)'
                           /\ trash' = [trash EXCEPT ![id].info = TRUE]
                              \/ (trash' = trash /\ t.at = "done" /\ t.answer = "failed")
    <2>1. CASE NextItem(r, "trash")
      <3>1. trash' = [trash EXCEPT ![id].info = TRUE] \/ AnswerWith(r, "failed")
        BY DEF TrashInfo
      <3>2. CASE trash' = [trash EXCEPT ![id].info = TRUE]
        BY <1>1, <2>1, <3>2, NextIs
      <3>3. CASE AnswerWith(r, "failed")
        <4> DEFINE t == Ended(r, "failed")
        <4>1. fileTask' = [fileTask EXCEPT ![r] = t] /\ "failed" \in {"ok", "failed", "conflict"}
          BY <3>3 DEF AnswerWith
        <4>2. t \in TaskSet /\ t.do = f.do /\ t.at = "done" /\ t.answer = "failed"
          BY <1>1, <4>1, EndedIs
        <4>3. TaskSound(r)' /\ PackSound(r)'
          BY <1>1, <4>1, AnswerSound
        <4>4. trash' = [trash EXCEPT ![id].info = TRUE] \/ trash' = trash
          BY DEF TrashInfo
        <4> HIDE DEF t
        <4> QED
          BY <1>1, <4>1, <4>2, <4>3, <4>4
      <3> QED
        BY <3>1, <3>2, <3>3
    <2>2. CASE AnswerWith(r, "failed")
      <3> DEFINE t == Ended(r, "failed")
      <3>1. fileTask' = [fileTask EXCEPT ![r] = t] /\ "failed" \in {"ok", "failed", "conflict"}
        BY <2>2 DEF AnswerWith
      <3>2. t \in TaskSet /\ t.do = f.do /\ t.at = "done" /\ t.answer = "failed"
        BY <1>1, <3>1, EndedIs
      <3>3. TaskSound(r)' /\ PackSound(r)'
        BY <1>1, <3>1, AnswerSound
      <3>4. trash' = [trash EXCEPT ![id].info = TRUE] \/ trash' = trash
        BY DEF TrashInfo
      <3> HIDE DEF t
      <3> QED
        BY <1>1, <3>1, <3>2, <3>3, <3>4
    <2> QED
      BY <2>1, <2>2 DEF TrashInfo
  <1>5. PICK t \in TaskSet : /\ fileTask' = [fileTask EXCEPT ![r] = t] /\ t.do = "trash" /\ TaskSound(r)' /\ PackSound(r)'
                             /\ trash' = [trash EXCEPT ![id].info = TRUE]
                                \/ (trash' = trash /\ t.at = "done" /\ t.answer = "failed")
    BY <1>4
  <1> DEFINE e == [trash[id] EXCEPT !.info = TRUE]
  <1>6. /\ e \in Trashed /\ e.file = trash[id].file /\ e.info /\ e.by = trash[id].by
        /\ [trash EXCEPT ![id].info = TRUE] = [trash EXCEPT ![id] = e]
    <2>1. trash[id] \in Trashed
      BY <1>1
    <2> QED
      BY <1>1, <2>1 DEF Trashed
  <1> HIDE DEF e
  <1>7. /\ trash' \in Seq(Trashed) /\ Len(trash') = Len(trash)
        /\ \A i \in 1..Len(trash) : /\ trash'[i].by = trash[i].by /\ trash'[i].file = trash[i].file
                                    /\ trash[i].info => trash'[i].info
                                    /\ trash[i].by = r /\ trash[i].file # NoFile =>
                                          trash'[i].info \/ (t.at = "done" /\ t.answer = "failed")
    <2>1. CASE trash' = trash /\ t.at = "done" /\ t.answer = "failed"
      BY <1>1, <2>1
    <2>2. CASE trash' = [trash EXCEPT ![id].info = TRUE]
      <3>1. /\ trash' \in Seq(Trashed) /\ Len(trash') = Len(trash) /\ trash'[id] = e
            /\ \A i \in 1..Len(trash) : i # id => trash'[i] = trash[i]
        <4>1. trash' = [trash EXCEPT ![id] = e]
          BY <1>6, <2>2, Zenon
        <4>2. e \in Trashed
          BY <1>6
        <4> QED
          BY <1>1, <4>1, <4>2, EntryPut
      <3> QED
        BY <1>3, <1>6, <3>1
    <2> QED
      BY <1>5, <2>1, <2>2
  <1>8. DoKept(r, t)
    BY <1>1, <1>5 DEF DoKept
  <1>9. TrashGrows /\ \A i \in 1..Len(trash') : EntrySound(i)'
    BY <1>5, <1>7, <1>8, EntriesChange
  <1>10. fileTask'[r] = t /\ \A q \in FileTask : q # r => fileTask'[q] = fileTask[q]
    BY <1>1, <1>5, TaskMoves
  <1>11. \A u \in Spot : Fine(place[u])'
    BY <1>1, <1>2, <1>8, <1>10, FineKept DEF FileInv, AllSound
  <1>12. \A c \in owed' : c.whole /\ ~Lost(c)'
    BY <1>2, <1>7 DEF FileInv, AllSound, Lost
  <1>13. AllSound'
    BY <1>9, <1>11, <1>12 DEF AllSound
  <1> QED
    BY <1>1, <1>2, <1>5, <1>7, <1>8, <1>9, <1>13, CommandKeeps

LEMMA ForgetInfoKeeps ==
    ASSUME FileInv, NEW r \in FileTask, ForgetInfo(r)
    PROVE  FileInv'
  <1> DEFINE f == fileTask[r]
             id == f.id
             t == Ended(r, "ok")
             e == [trash[id] EXCEPT !.info = FALSE]
  <1>1. /\ FileTyped /\ f \in TaskSet /\ f.do = "restore" /\ f.at = "forget" /\ id \in 1..Len(trash)
        /\ trash[id].file = NoFile
        /\ trash \in Seq(Trashed) /\ place \in [Spot -> FileContent] /\ owed \subseteq FileContent
    BY TaskIs DEF ForgetInfo, Does, TaskSound, FileTyped
  <1>2. UNCHANGED <<machine, place, other, owed>> /\ trash' = [trash EXCEPT ![id].info = FALSE]
    BY DEF ForgetInfo
  <1>3. fileTask' = [fileTask EXCEPT ![r] = t] /\ "ok" \in {"ok", "failed", "conflict"}
    BY DEF ForgetInfo, AnswerWith
  <1>4. t \in TaskSet /\ TaskSound(r)' /\ PackSound(r)' /\ DoKept(r, t)
    BY <1>1, <1>3, AnswerSound
  <1>5. /\ e \in Trashed /\ e.file = NoFile /\ e.by = trash[id].by
        /\ [trash EXCEPT ![id].info = FALSE] = [trash EXCEPT ![id] = e]
    <2>1. trash[id] \in Trashed
      BY <1>1
    <2> QED
      BY <1>1, <2>1 DEF Trashed
  <1> HIDE DEF t, e
  <1>6. /\ trash' \in Seq(Trashed) /\ Len(trash') = Len(trash) /\ trash'[id] = e
        /\ \A i \in 1..Len(trash) : i # id => trash'[i] = trash[i]
    <2>1. trash' = [trash EXCEPT ![id] = e]
      BY <1>2, <1>5, Zenon
    <2>2. e \in Trashed
      BY <1>5
    <2> QED
      BY <1>1, <2>1, <2>2, EntryPut
  <1>7. \A i \in 1..Len(trash) : trash[i].by = r => trash[i].file = NoFile
    BY <1>1 DEF FileInv, AllSound, EntrySound
  <1>8. TrashGrows /\ \A i \in 1..Len(trash') : EntrySound(i)'
    BY <1>1, <1>3, <1>4, <1>5, <1>6, <1>7, EntriesChange
  <1>9. fileTask'[r] = t /\ \A q \in FileTask : q # r => fileTask'[q] = fileTask[q]
    BY <1>1, <1>3, <1>4, TaskMoves
  <1>10. \A u \in Spot : Fine(place[u])'
    BY <1>1, <1>2, <1>4, <1>9, FineKept DEF FileInv, AllSound
  <1>11. \A c \in owed' : c.whole /\ ~Lost(c)'
    BY <1>1, <1>2, <1>5, <1>6 DEF FileInv, AllSound, Lost
  <1>12. AllSound'
    BY <1>8, <1>10, <1>11 DEF AllSound
  <1> QED
    BY <1>1, <1>2, <1>3, <1>4, <1>6, <1>8, <1>12, CommandKeeps

LEMMA RemoveTrashKeeps ==
    ASSUME FileInv, NEW r \in FileTask, RemoveTrash(r)
    PROVE  FileInv'
  <1> DEFINE f == fileTask[r]
             t == Ended(r, "ok")
             left(id) == [trash[id] EXCEPT !.file = IF id \in f.ids THEN NoFile ELSE @,
                                           !.info = @ /\ id \notin f.infos]
  <1>1. /\ FileTyped /\ f \in TaskSet /\ f.do = "empty" /\ f.at = "rm" /\ f.ids \subseteq 1..Len(trash)
        /\ (\A id \in f.infos \ f.ids : trash[id].file = NoFile)
        /\ trash \in Seq(Trashed) /\ place \in [Spot -> FileContent] /\ owed \subseteq FileContent
    BY TaskIs DEF RemoveTrash, Does, TaskSound, FileTyped
  <1>2. /\ UNCHANGED <<machine, place, other>> /\ trash' = [id \in 1..Len(trash) |-> left(id)]
        /\ owed' = owed \ {trash[id].file : id \in f.ids}
    BY DEF RemoveTrash
  <1>3. fileTask' = [fileTask EXCEPT ![r] = t] /\ "ok" \in {"ok", "failed", "conflict"}
    BY DEF RemoveTrash, AnswerWith
  <1>4. t \in TaskSet /\ TaskSound(r)' /\ PackSound(r)' /\ DoKept(r, t)
    BY <1>1, <1>3, AnswerSound
  <1>5. ASSUME NEW i \in 1..Len(trash)
        PROVE  /\ left(i) \in Trashed /\ left(i).by = trash[i].by
               /\ left(i).file = (IF i \in f.ids THEN NoFile ELSE trash[i].file)
               /\ left(i).info = (trash[i].info /\ i \notin f.infos)
    <2>1. trash[i] \in Trashed
      BY <1>1
    <2> QED
      BY <2>1, NoFileIs DEF Trashed
  <1> HIDE DEF left, t
  <1>6. Len(trash) \in Nat
    BY <1>1
  <1>7. /\ trash' \in Seq(Trashed) /\ Len(trash') = Len(trash) /\ \A i \in 1..Len(trash) : trash'[i] = left(i)
    BY <1>2, <1>5, <1>6
  <1>8. \A i \in 1..Len(trash) : trash[i].by = r => trash[i].file = NoFile
    BY <1>1 DEF FileInv, AllSound, EntrySound
  <1>9. TrashGrows /\ \A i \in 1..Len(trash') : EntrySound(i)'
    <2>1. \A i \in 1..Len(trash) :
               /\ trash'[i].by = trash[i].by /\ (trash'[i].file = trash[i].file \/ trash'[i].file = NoFile)
               /\ trash'[i].file # NoFile /\ trash[i].info => trash'[i].info
               /\ trash[i].by = r => trash'[i].file = NoFile
      BY <1>1, <1>5, <1>7, <1>8
    <2> QED
      BY <1>3, <1>4, <1>7, <2>1, EntriesChange
  <1>10. fileTask'[r] = t /\ \A q \in FileTask : q # r => fileTask'[q] = fileTask[q]
    BY <1>1, <1>3, <1>4, TaskMoves
  <1>11. \A u \in Spot : Fine(place[u])'
    BY <1>1, <1>2, <1>4, <1>10, FineKept DEF FileInv, AllSound
  <1>12. ASSUME NEW c \in owed' PROVE c.whole /\ ~Lost(c)'
    <2>1. c \in owed /\ \A i \in f.ids : trash[i].file # c
      BY <1>2
    <2>2. c.whole /\ ~Lost(c)
      BY <2>1 DEF FileInv, AllSound
    <2>3. \A i \in 1..Len(trash) : trash[i].file = c => trash'[i].file = c
      BY <1>5, <1>7, <2>1
    <2> QED
      BY <1>2, <1>7, <2>2, <2>3 DEF Lost
  <1>13. AllSound'
    BY <1>9, <1>11, <1>12 DEF AllSound
  <1>14. owed' \subseteq FileContent /\ place' \in [Spot -> FileContent]
    BY <1>1, <1>2
  <1> QED
    BY <1>2, <1>3, <1>4, <1>7, <1>9, <1>13, <1>14, CommandKeeps

LEMMA PutBackKeeps ==
    ASSUME FileInv, NEW r \in FileTask, PutBack(r)
    PROVE  FileInv'
  <1> DEFINE f == fileTask[r]
             id == f.id
             s == f.new
             e == [trash[id] EXCEPT !.file = NoFile]
  <1>1. /\ FileTyped /\ f \in TaskSet /\ f.do = "restore" /\ f.at = "back" /\ id \in 1..Len(trash) /\ s \in f.saw
        /\ s \in Spot /\ f.answer = "none"
        /\ trash \in Seq(Trashed) /\ place \in [Spot -> FileContent] /\ owed \subseteq FileContent
    BY TaskIs DEF PutBack, Does, TaskSound, FileTyped, TaskSet
  <1>2. /\ UNCHANGED <<machine, other>> /\ trash' = [trash EXCEPT ![id].file = NoFile]
        /\ place' = [place EXCEPT ![s] = trash[id].file] /\ owed' = owed \ GivenUp(r, s, FALSE)
    BY DEF PutBack
  <1>3. /\ e \in Trashed /\ e.file = NoFile /\ e.by = trash[id].by
        /\ [trash EXCEPT ![id].file = NoFile] = [trash EXCEPT ![id] = e] /\ trash[id].file \in FileContent
    <2>1. trash[id] \in Trashed
      BY <1>1
    <2> QED
      BY <1>1, <2>1, NoFileIs DEF Trashed
  <1>4. owed' \subseteq owed /\ place[s] \notin owed' /\ NoFile \notin owed
    BY <1>1, <1>2, GivenUpIs, FreeOwesNothing
  <1> HIDE DEF e
  <1>5. /\ trash' \in Seq(Trashed) /\ Len(trash') = Len(trash) /\ trash'[id] = e
        /\ \A i \in 1..Len(trash) : i # id => trash'[i] = trash[i]
    BY <1>1, <1>2, <1>3, EntryPut
  <1>6. \E t \in TaskSet : /\ fileTask' = [fileTask EXCEPT ![r] = t] /\ DoKept(r, t) /\ TaskSound(r)' /\ PackSound(r)'
    <2>1. CASE AnswerWith(r, "failed")
      <3>1. fileTask' = [fileTask EXCEPT ![r] = Ended(r, "failed")] /\ "failed" \in {"ok", "failed", "conflict"}
        BY <2>1 DEF AnswerWith
      <3> QED
        BY <1>1, <3>1, AnswerSound
    <2>2. CASE Step(r, [at |-> "forget"])
      <3> DEFINE t == With([at |-> "forget"], f)
      <3>1. fileTask' = [fileTask EXCEPT ![r] = t]
        BY <2>2 DEF Step
      <3>2. /\ t \in TaskSet /\ t.do = f.do /\ t.items = f.items /\ t.answer = f.answer /\ t.at = "forget" /\ t.id = f.id
        BY <1>1 DEF With, TaskSet, StageOf
      <3> HIDE DEF t
      <3>3. fileTask'[r] = t
        BY <1>1, <3>1, <3>2, TaskMoves
      <3>4. TaskSound(r)' /\ PackSound(r)'
        BY <1>1, <1>3, <1>5, <3>2, <3>3 DEF TaskSound, PackSound, Walks
      <3> QED
        BY <3>1, <3>2, <3>4 DEF DoKept
    <2> QED
      BY <2>1, <2>2 DEF PutBack
  <1> HIDE DEF s, id
  <1>7. PICK t \in TaskSet : /\ fileTask' = [fileTask EXCEPT ![r] = t] /\ DoKept(r, t) /\ TaskSound(r)' /\ PackSound(r)'
    BY <1>6
  <1>8. \A i \in 1..Len(trash) : trash[i].by = r => trash[i].file = NoFile
    BY <1>1 DEF FileInv, AllSound, EntrySound
  <1>9. TrashGrows /\ \A i \in 1..Len(trash') : EntrySound(i)'
    BY <1>1, <1>3, <1>5, <1>7, <1>8, EntriesChange
  <1>10. fileTask'[r] = t /\ \A q \in FileTask : q # r => fileTask'[q] = fileTask[q]
    BY <1>1, <1>7, TaskMoves
  <1>11. ASSUME NEW y, Fine(y) PROVE Fine(y)'
    BY <1>1, <1>7, <1>10, <1>11, FineKept
  <1>12. /\ place' \in [Spot -> FileContent] /\ place'[s] = trash[id].file
         /\ \A u \in Spot : u # s => place'[u] = place[u]
    BY <1>1, <1>2, <1>3
  <1>13. \A u \in Spot : Fine(place[u])'
    <2>1. Fine(trash[id].file) /\ \A u \in Spot : Fine(place[u])
      BY <1>1 DEF FileInv, AllSound, EntrySound
    <2>2. \A u \in Spot : \E y : Fine(y) /\ place'[u] = y
      BY <1>12, <2>1
    <2> QED
      BY <1>11, <2>2
  <1>14. ASSUME NEW c \in owed' PROVE c.whole /\ ~Lost(c)'
    <2>1. c \in owed /\ c # place[s] /\ c.whole /\ ~Lost(c)
      BY <1>4 DEF FileInv, AllSound
    <2> QED
      BY <1>1, <1>5, <1>12, <2>1 DEF Lost
  <1>15. AllSound'
    BY <1>9, <1>13, <1>14 DEF AllSound
  <1>16. owed' \subseteq FileContent
    BY <1>1, <1>4
  <1> QED
    BY <1>2, <1>5, <1>7, <1>9, <1>12, <1>15, <1>16, CommandKeeps

(* ------------------------ copies and archives ---------------------------- *)
LEMMA StartsCopyKeeps ==
    ASSUME FileInv, NEW r \in FileTask, StartsCopy(r)
    PROVE  FileInv'
  <1> DEFINE f == fileTask[r]
             s == f.new
             t == With([at |-> "fill"], f)
  <1>1. /\ FileTyped /\ f \in TaskSet /\ f.at = "write" /\ f.do \in {"copy", "duplicate"}
        /\ f.do = "copy" \/ s \in f.saw
        /\ s \in Spot /\ f.answer = "none" /\ f.i \in 1..Len(f.items)
    BY TaskIs, ItemIs DEF StartsCopy, TaskSound, TaskSet, Walks
  <1>2. /\ UNCHANGED <<machine, trash, other>> /\ place' = [place EXCEPT ![s] = Torn(r)]
        /\ owed' = owed \ GivenUp(r, s, f.do = "copy") /\ fileTask' = [fileTask EXCEPT ![r] = t]
    BY DEF StartsCopy, Step
  <1>3. t \in TaskSet /\ t.do = f.do /\ t.items = f.items /\ t.answer = f.answer /\ t.at = "fill" /\ t.i = f.i
    BY <1>1 DEF With, TaskSet, StageOf
  <1> HIDE DEF t, s
  <1>4. TaskSound(r)' /\ PackSound(r)' /\ DoKept(r, t)
    BY <1>1, <1>2, <1>3, SoundStep
  <1>5. fileTask'[r] = t
    BY <1>1, <1>2, <1>3, TaskMoves
  <1>6. PICK agreed \in BOOLEAN : agreed = (f.do = "copy")
    OBVIOUS
  <1>7. owed' = owed \ GivenUp(r, s, agreed) /\ (agreed \/ s \in f.saw)
    BY <1>1, <1>2, <1>6
  <1>8. owed' \subseteq owed /\ place[s] \notin owed'
    BY <1>1, <1>7, GivenUpIs
  <1>9. PICK x \in FileContent : x = Torn(r)
    BY TornIs
  <1>10. Fine(x)'
    BY <1>1, <1>3, <1>5, <1>9 DEF Fine, Torn
  <1>11. place' = [place EXCEPT ![s] = x] /\ \A c \in owed' : (c \in owed \/ (c = x /\ x.whole)) /\ (c = x \/ c # place[s])
    BY <1>2, <1>8, <1>9
  <1> QED
    BY <1>1, <1>2, <1>3, <1>4, <1>10, <1>11, PutKeeps

LEMMA CopiedKeeps ==
    ASSUME FileInv, NEW r \in FileTask, Copied(r)
    PROVE  FileInv'
  <1> DEFINE f == fileTask[r]
             h == Home(Item(r))
             x == Content(place[h].of, r)
  <1>1. /\ FileTyped /\ f \in TaskSet /\ f.at = "fill" /\ f.do \in {"copy", "duplicate"} /\ h \in Spot
        /\ place \in [Spot -> FileContent] /\ owed \subseteq FileContent
    BY TaskIs, ItemIs, Spots DEF Copied, TaskSound, Walks, FileTyped
  <1>2. UNCHANGED <<machine, trash, other>>
    BY DEF Copied
  <1>3. CASE UNCHANGED <<place, owed>> /\ AnswerWith(r, "failed")
    BY <1>1, <1>2, <1>3, AnswerKeeps DEF fileParts
  <1>4. CASE /\ place' = [u \in Spot |-> IF place[u] = Torn(r) THEN x ELSE place[u]]
             /\ owed' = (IF \E u \in Spot : place[u] = Torn(r) THEN owed \cup {x} ELSE owed)
             /\ AnswerWith(r, "ok")
    <2> DEFINE t == Ended(r, "ok")
    <2>1. fileTask' = [fileTask EXCEPT ![r] = t] /\ "ok" \in {"ok", "failed", "conflict"}
      BY <1>4 DEF AnswerWith
    <2>2. t \in TaskSet /\ TaskSound(r)' /\ PackSound(r)' /\ DoKept(r, t) /\ fileTask'[r] = t
      BY <1>1, <2>1, AnswerSound
    <2> HIDE DEF t
    <2>3. \A q \in FileTask : q # r => fileTask'[q] = fileTask[q]
      BY <1>1, <2>1, <2>2, TaskMoves
    <2>4. x \in FileContent /\ x.whole
      <3>1. place[h] \in FileContent
        BY <1>1
      <3>2. place[h].of \in SUBSET Datum /\ r \in Maker
        BY <3>1 DEF FileContent, Maker
      <3> QED
        BY <3>2, ContentIs
    <2> HIDE DEF x
    <2>5. place' \in [Spot -> FileContent] /\ owed' \subseteq FileContent
      BY <1>1, <1>4, <2>4
    <2>6. \A u \in Spot : Fine(place[u])'
      <3>1. ASSUME NEW y, Fine(y) PROVE Fine(y)'
        BY <1>1, <2>2, <2>3, <3>1, FineKept
      <3>2. PICK z : z = x
        OBVIOUS
      <3>3. Fine(z)'
        BY <2>4, <3>2 DEF Fine
      <3>4. \A u \in Spot : Fine(place[u]) /\ (place'[u] = z \/ place'[u] = place[u])
        BY <1>4, <3>2 DEF FileInv, AllSound
      <3> QED
        BY <3>1, <3>3, <3>4
    <2>7. TrashGrows /\ trash' \in Seq(Trashed) /\ \A i \in 1..Len(trash') : EntrySound(i)'
      BY <1>1, <1>2, <2>1, <2>2, EntriesKept
    <2>8. ASSUME NEW c \in owed' PROVE c.whole /\ ~Lost(c)'
      <3>1. CASE c \in owed
        <4>1. c.whole /\ ~Lost(c) /\ c # Torn(r)
          BY <3>1, TornIs DEF FileInv, AllSound
        <4> QED
          BY <1>2, <1>4, <4>1 DEF Lost
      <3>2. CASE c \notin owed
        <4>1. c = x /\ \E u \in Spot : place[u] = Torn(r)
          BY <1>4, <3>2
        <4> QED
          BY <1>4, <2>4, <4>1 DEF Lost
      <3> QED
        BY <3>1, <3>2
    <2>9. AllSound'
      BY <2>6, <2>7, <2>8 DEF AllSound
    <2> QED
      BY <1>2, <2>1, <2>2, <2>5, <2>7, <2>9, CommandKeeps
  <1> QED
    BY <1>3, <1>4 DEF Copied

(* A complete file takes the place of what a person gave up.               *)
LEMMA ReplaceKeeps ==
    ASSUME FileInv, NEW r \in FileTask, NEW t \in TaskSet, fileTask' = [fileTask EXCEPT ![r] = t], DoKept(r, t),
           TaskSound(r)', PackSound(r)', UNCHANGED <<machine, trash, other>>, fileTask[r].do # "trash",
           NEW s \in Spot, NEW x \in FileContent, x.whole, fileTask[r].over \/ s \in fileTask[r].saw,
           place' = [place EXCEPT ![s] = x], owed' = (owed \ GivenUp(r, s, fileTask[r].over)) \cup {x}
    PROVE  FileInv'
  <1>1. fileTask[r].over \in BOOLEAN
    BY TaskIs DEF TaskSet
  <1>2. place[s] \notin owed \ GivenUp(r, s, fileTask[r].over)
    BY <1>1, GivenUpIs
  <1>3. Fine(x)'
    BY DEF Fine
  <1>4. \A c \in owed' : (c \in owed \/ (c = x /\ x.whole)) /\ (c = x \/ c # place[s])
    BY <1>2
  <1> QED
    BY <1>3, <1>4, PutKeeps

LEMMA SwapKeeps ==
    ASSUME FileInv, NEW r \in FileTask, Swap(r)
    PROVE  FileInv'
  <1> DEFINE f == fileTask[r]
             s == Home(Archive)
             x == f.partial
  <1>1. /\ f \in TaskSet /\ f.do = "compress" /\ f.at = "swap" /\ s \in Spot /\ x \in FileContent
        /\ (x = NoFile \/ x.whole) /\ (f.over \/ s \in f.saw)
    BY TaskIs, Spots, FileAssumption DEF Swap, Does, PackSound, TaskSet, FileAssumption
  <1>2. UNCHANGED <<machine, trash, other>>
    BY DEF Swap
  <1>3. CASE x = NoFile
    BY <1>1, <1>2, <1>3, AnswerKeeps DEF Swap, fileParts
  <1>4. CASE x # NoFile
    <2>1. /\ owed' = (owed \ GivenUp(r, s, f.over)) \cup {x} /\ place' = [place EXCEPT ![s] = x]
          /\ EndWithout(r, "ok")
      BY <1>4 DEF Swap
    <2>2. x.whole /\ (f.over \/ s \in f.saw)
      BY <1>1, <1>4, TaskIs DEF PackSound
    <2>3. PICK t \in TaskSet : /\ fileTask' = [fileTask EXCEPT ![r] = t] /\ DoKept(r, t)
                               /\ TaskSound(r)' /\ PackSound(r)'
      BY <1>1, <2>1, EndWithoutIs
    <2> QED
      BY <1>1, <1>2, <2>1, <2>2, <2>3, ReplaceKeeps
  <1> QED
    BY <1>3, <1>4

LEMMA UnpackKeeps ==
    ASSUME FileInv, NEW r \in FileTask, Unpack(r)
    PROVE  FileInv'
  <1> DEFINE f == fileTask[r]
             s == Home(Item(r))
             x == Content({"archived"}, r)
  <1>1. /\ f \in TaskSet /\ f.do = "extract" /\ f.at = "unpack" /\ s \in Spot /\ (f.over \/ s \in f.saw)
    BY TaskIs, ItemIs, Spots DEF Unpack, Does, TaskSound, Walks
  <1>2. /\ UNCHANGED <<machine, trash, other>> /\ NextItem(r, "next")
        /\ owed' = (owed \ GivenUp(r, s, f.over)) \cup {x} /\ place' = [place EXCEPT ![s] = x]
    BY DEF Unpack
  <1>3. x \in FileContent /\ x.whole
    <2>1. {"archived"} \in SUBSET Datum /\ r \in Maker
      BY DEF Datum, Maker
    <2> QED
      BY <2>1, ContentIs
  <1> HIDE DEF x, s
  <1>4. PICK t \in TaskSet : /\ fileTask' = [fileTask EXCEPT ![r] = t] /\ t.do = f.do /\ TaskSound(r)' /\ PackSound(r)'
    BY <1>1, <1>2, NextIs
  <1>5. DoKept(r, t)
    BY <1>4 DEF DoKept
  <1> QED
    BY <1>1, <1>2, <1>3, <1>4, <1>5, ReplaceKeeps

LEMMA OtherKeeps == FileInv /\ OtherPuts => FileInv'
  <1> SUFFICES ASSUME FileInv, OtherPuts PROVE FileInv'
    OBVIOUS
  <1> DEFINE x == Content({"o"}, "other")
  <1>1. /\ FileTyped /\ UNCHANGED <<machine, trash, fileTask>> /\ owed' = owed \cup {x}
        /\ place \in [Spot -> FileContent] /\ owed \subseteq FileContent /\ trash \in Seq(Trashed)
    BY DEF FileInv, FileTyped, OtherPuts
  <1>2. PICK s \in Spot : ~Taken(s) /\ place' = [place EXCEPT ![s] = x]
    BY DEF OtherPuts
  <1>3. x \in FileContent /\ x.whole
    <2>1. {"o"} \in SUBSET Datum /\ "other" \in Maker
      BY DEF Datum, Maker
    <2> QED
      BY <2>1, ContentIs
  <1> HIDE DEF x
  <1>4. FileTyped'
    BY <1>1, <1>2, <1>3 DEF FileInv, FileTyped
  <1>5. TasksSound'
    <2>1. TrashGrows
      BY <1>1 DEF TrashGrows
    <2> QED
      BY <1>1, <2>1, OthersKept DEF FileInv, TasksSound
  <1>6. ASSUME NEW u \in Spot PROVE Fine(place[u])'
    BY <1>1, <1>2, <1>3 DEF FileInv, AllSound, Fine
  <1>7. ASSUME NEW i \in 1..Len(trash) PROVE EntrySound(i)'
    BY <1>1 DEF FileInv, AllSound, EntrySound, Fine
  <1>8. ASSUME NEW c \in owed' PROVE c.whole /\ ~Lost(c)'
    <2>1. CASE c = x
      BY <1>1, <1>2, <1>3, <2>1 DEF Lost
    <2>2. CASE c # x
      BY <1>1, <1>2, <2>2, FreeOwesNothing DEF FileInv, AllSound, Lost, Taken
    <2> QED
      BY <2>1, <2>2
  <1> QED
    BY <1>1, <1>4, <1>5, <1>6, <1>7, <1>8 DEF FileInv, AllSound

LEMMA FileStart == FileInit => FileInv
  <1> SUFFICES ASSUME FileInit PROVE FileInv
    OBVIOUS
  <1>1. place \in Contents /\ place \in [Spot -> {NoFile} \cup {Content(place[s].of, place[s].by) : s \in Spot}]
    BY FileAssumption DEF FileInit, FileAssumption
  <1>2. ASSUME NEW u \in Spot PROVE place[u] \in FileContent /\ (place[u] = NoFile \/ place[u].whole)
    <2>1. CASE place[u] = NoFile
      BY <2>1, NoFileIs
    <2>2. CASE place[u] # NoFile
      <3>1. PICK v \in Spot : place[u] = Content(place[v].of, place[v].by)
        BY <1>1, <2>2
      <3>2. place[v].of \in SUBSET Datum /\ place[v].by \in Maker
        BY <1>1 DEF Datum, Maker
      <3> QED
        BY <3>1, <3>2, ContentIs
    <2> QED
      BY <2>1, <2>2
  <1>3. place \in [Spot -> FileContent]
    BY <1>1, <1>2
  <1> DEFINE n == CHOOSE m \in FileName : Copies[m] # <<>>
             e == [file |-> Content({"t"}, "start"), path |-> Home(n), info |-> TRUE, by |-> "start"]
  <1>4. trash = <<>> \/ trash = <<e>>
    BY DEF FileInit
  <1>5. e \in Trashed /\ e.file.whole /\ e.by = "start" /\ e.file \in FileContent
    <2>1. n \in FileName
      BY FileAssumption DEF FileAssumption
    <2>2. {"t"} \in SUBSET Datum /\ "start" \in Maker
      BY DEF Datum, Maker
    <2>3. Content({"t"}, "start") \in FileContent /\ Content({"t"}, "start").whole
      BY <2>2, ContentIs
    <2> QED
      BY <2>1, <2>3, Spots DEF Trashed
  <1> HIDE DEF e
  <1>6. /\ trash \in Seq(Trashed)
        /\ \A i \in 1..Len(trash) : trash[i].file \in FileContent /\ trash[i].file.whole /\ trash[i].by = "start"
    <2>1. CASE trash = <<>>
      BY <2>1
    <2>2. CASE trash = <<e>>
      <3>1. trash \in Seq(Trashed) /\ Len(trash) = 1 /\ trash[1] = e
        BY <1>5, <2>2
      <3> QED
        BY <1>5, <3>1
    <2> QED
      BY <1>4, <2>1, <2>2
  <1>7. \A c \in owed : /\ c \in FileContent /\ c.whole
                        /\ (\E u \in Spot : place[u] = c) \/ (\E i \in 1..Len(trash) : trash[i].file = c)
    BY <1>2, <1>6 DEF FileInit
  <1>8. FileTyped
    BY <1>3, <1>6, <1>7, NoTaskIs DEF FileInit, FileTyped
  <1>9. TasksSound
    BY NoTaskIs DEF FileInit, TasksSound, TaskSound, PackSound, Walks
  <1>10. AllSound
    BY <1>2, <1>6, <1>7, FileAssumption DEF AllSound, EntrySound, Fine, Lost, FileAssumption
  <1> QED
    BY <1>8, <1>9, <1>10 DEF FileInv

LEMMA FileStep == FileInv /\ [FileNext]_fileVars => FileInv'
  <1> SUFFICES ASSUME FileInv, [FileNext]_fileVars PROVE FileInv'
    OBVIOUS
  <1>1. CASE UNCHANGED fileVars
    BY <1>1 DEF fileVars, FileInv, FileTyped, TasksSound, TaskSound, PackSound, AllSound, EntrySound, Fine, Lost, Dest
  <1>2. CASE OtherPuts
    BY <1>2, OtherKeeps
  <1>3. ASSUME NEW r \in FileTask,
               \/ Ask(r) \/ Fails(r) \/ CheckAll(r) \/ Recheck(r) \/ Rename(r)
               \/ Probe(r) \/ Quick(r) \/ LookLeft(r) \/ Slow(r)
        PROVE  FileInv'
    BY <1>3, AskKeeps, FailsKeeps, CheckAllKeeps, RecheckKeeps, RenameKeeps, LooksKeep, QuickKeeps, SlowKeeps
  <1>4. ASSUME NEW r \in FileTask,
               \/ TrashFile(r) \/ TrashInfo(r) \/ FindInTrash(r) \/ PutBack(r) \/ ForgetInfo(r)
               \/ EmptyTrash(r) \/ RemoveTrash(r)
        PROVE  FileInv'
    BY <1>4, TrashFileKeeps, TrashInfoKeeps, FindKeeps, PutBackKeeps, ForgetInfoKeeps, EmptyKeeps, RemoveTrashKeeps
  <1>5. ASSUME NEW r \in FileTask,
               \/ TryName(r) \/ CopyTo(r) \/ StartsCopy(r) \/ Copied(r)
               \/ CheckArchive(r) \/ Packs(r) \/ Packed(r) \/ Swap(r) \/ Cut(r) \/ Peek(r) \/ Unpack(r)
        PROVE  FileInv'
    BY <1>5, TryNameKeeps, StartsCopyKeeps, CopiedKeeps, CheckArchiveKeeps, PacksKeep, SwapKeeps, CutKeeps,
       PeekKeeps, UnpackKeeps
  <1> QED
    BY <1>1, <1>2, <1>3, <1>4, <1>5 DEF FileNext

LEMMA FileInvHolds == FileInv => FilesAreKept
  <1> SUFFICES ASSUME FileInv PROVE FilesAreKept
    OBVIOUS
  <1>1. NothingIsLost
    BY DEF FileInv, AllSound, NothingIsLost
  <1>2. ASSUME NEW r \in FileTask, fileTask[r].do = "compress"
        PROVE  /\ \A s \in Spot : place[s].by = r => place[s].whole
               /\ fileTask[r].at = "done" /\ fileTask[r].partial # NoFile => fileTask[r].cut
    <2>1. ASSUME NEW s \in Spot, place[s].by = r PROVE place[s].whole
      <3>1. Fine(place[s])
        BY DEF FileInv, AllSound
      <3>2. place[s] # NoFile
        BY <2>1, NoFileIs, FileAssumption DEF FileAssumption
      <3>3. \A q \in FileTask : place[s] = Torn(q) => q = r
        BY <2>1, TornIs
      <3> QED
        BY <1>2, <3>1, <3>2, <3>3 DEF Fine
    <2>2. PackSound(r)
      BY TaskIs
    <2> QED
      BY <1>2, <2>1, <2>2 DEF PackSound
  <1>3. TrashIsListed
    <2>1. ASSUME NEW i \in 1..Len(trash), trash[i].file # NoFile, trash[i].by \in FileTask,
                 fileTask[trash[i].by].answer = "ok"
          PROVE  trash[i].info
      <3> DEFINE q == fileTask[trash[i].by]
      <3>1. EntrySound(i) /\ TaskSound(trash[i].by)
        BY <2>1, TaskIs DEF FileInv, AllSound
      <3>2. q.do = "trash" /\ q.answer = "ok" /\ (trash[i].info \/ q.at = "info" \/ q.answer = "failed")
        BY <2>1, <3>1 DEF EntrySound
      <3>3. q.at # "done" /\ q.do # "compress" => q.answer = "none"
        BY <3>1 DEF TaskSound
      <3> QED
        BY <3>2, <3>3
    <2> QED
      BY <2>1 DEF TrashIsListed
  <1> QED
    BY <1>1, <1>2, <1>3 DEF FilesAreKept, ArchivesAreWhole

(* Every state of the commands, of the files they work on and of the trash *)
(* satisfies the inductive invariant.                                      *)
THEOREM FilesInductive == FileSpec => []FileInv
  <1>1. FileInit => FileInv
    BY FileStart
  <1>2. FileInv /\ [FileNext]_fileVars => FileInv'
    BY FileStep
  <1> QED
    BY <1>1, <1>2, PTL DEF FileSpec

(* Any number of commands and another program on the same names lose no    *)
(* complete file that nobody gave up, an archive in place is whole, and    *)
(* what was moved to the trash with success can be found there             *)
(* (move_items, delete_items, manage_remote_trash, duplicate_item,         *)
(* transfer_file, compress_items, extract_archive).                        *)
THEOREM FilesStay == FileSpec => []FilesAreKept
  BY FilesInductive, FileInvHolds, PTL
=============================================================================
