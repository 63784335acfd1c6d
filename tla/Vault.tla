------------------------------- MODULE Vault -------------------------------
(***************************************************************************)
(* The files sealed with the device key (vault.rs) and the start of the    *)
(* application on them (commands.rs): where the key is found, how one is   *)
(* made or moved into the Keychain, and the saves that never overwrite a   *)
(* vault they cannot open.  Every file operation is a step; a process may  *)
(* die between any two, and the Keychain may be locked at any of them.     *)
(* VAULT_KEY_LOCK and the lock on the saved sites leave each process one   *)
(* operation at a time.                                                    *)
(***************************************************************************)
EXTENDS Naturals, FiniteSets

CONSTANTS
    Proc,      \* processes of the application
    Full,      \* the one that stays; the others hand over and exit once loaded
    MaxSaves,  \* bound: versions of the list of sites
    MaxKeys,   \* bound: keys ever made
    MaxStarts  \* bound: starts of a process

ASSUME VaultAssumption ==
    /\ Full \subseteq Proc /\ IsFiniteSet(Proc)
    /\ \A p, q \in Full : p = q       \* the single-instance plugin
    /\ MaxSaves \in Nat /\ MaxKeys \in Nat /\ MaxStarts \in Nat

VARIABLES
    has_store, \* there is an OS key store (macOS)
    keychain,  \* the key it holds, or 0
    keyfile,   \* .vault_key: "absent", "blank" or "filled", its key, and who
               \* has the file open to fill it
    vault,     \* sites.vault: the key it is sealed with (0: no file), version
    bak,       \* sites.vault.bak
    layout,    \* site-layout.vault; every version of it is the same here
    aside,     \* the .corrupt files
    proc,      \* what each process does, with its local variables
    keys, saves, starts,
    relied,    \* history: versions a save reported written, that no later
               \* save was made from
    unmoved    \* history: a vault could be neither read nor moved at a start

ghosts    == <<relied, unmoved>>
counters  == <<keys, saves, starts>>
files     == <<vault, bak, layout, aside>>
keyVars   == <<keychain, keyfile>>
vaultVars == <<has_store, keyVars, files, proc, counters, ghosts>>

Nothing == [key |-> 0, ver |-> 0]
exists(f) == f # Nothing
NoKeyFile == [is |-> "absent", key |-> 0, open |-> {}]
NoOp == [step |-> "off", op |-> "none", fileKey |-> 0, found |-> 0, seen |-> Nothing,
         sites |-> 0, next |-> 0, tree |-> "unread", blocked |-> FALSE,
         deaf |-> {}]    \* history: what this operation could not read

At(p, s) == proc[p].step = s
Op(p) == proc[p].op
Go(p, s) == proc' = [proc EXCEPT ![p].step = s]
Idle(p) == [proc[p] EXCEPT !.step = "idle", !.op = "none", !.fileKey = 0, !.found = 0,
                           !.seen = Nothing, !.next = 0, !.deaf = {}]
Done(p, r) == proc' = [proc EXCEPT ![p] = IF p \in Full THEN r ELSE NoOp]

(* ------------------------------ operations ------------------------------ *)
(* load_local_vault reads the file before the key; no file is no sites.    *)
(* macOS starts no second process; elsewhere it hands over once loaded.    *)
Start(p) ==
    /\ At(p, "off") /\ (p \in Full \/ ~has_store) /\ starts < MaxStarts /\ starts' = starts + 1
    /\ \/ vault = Nothing /\ Done(p, Idle(p))
       \/ /\ exists(vault)
          /\ proc' = [proc EXCEPT ![p].step = "file", ![p].op = "load", ![p].seen = vault]
       \/ exists(vault) /\ proc' = [proc EXCEPT ![p].step = "quarantine", ![p].deaf = {"file"}]
    /\ UNCHANGED <<has_store, keyVars, files, keys, saves, ghosts>>
SaveSites(p) ==            \* save_local_vault, whichever command changed them
    /\ At(p, "idle") /\ ~proc[p].blocked /\ saves < MaxSaves /\ saves' = saves + 1
    /\ proc' = [proc EXCEPT ![p].step = "file", ![p].op = "save", ![p].next = saves + 1]
    /\ UNCHANGED <<has_store, keyVars, files, keys, starts, ghosts>>
LoadTree(p) ==             \* load_site_layout, on first use
    /\ At(p, "idle") /\ proc[p].tree = "unread"
    /\ proc' = [proc EXCEPT ![p] = IF exists(layout)
           THEN [@ EXCEPT !.step = "file", !.op = "read tree", !.seen = layout]
           ELSE [@ EXCEPT !.tree = "ready"]]
    /\ UNCHANGED <<has_store, keyVars, files, counters, ghosts>>
SaveTree(p) ==
    /\ At(p, "idle") /\ proc[p].tree = "ready" /\ ~proc[p].blocked
    /\ proc' = [proc EXCEPT ![p].step = "file", ![p].op = "save tree"]
    /\ UNCHANGED <<has_store, keyVars, files, counters, ghosts>>

(* -------------------------- resolve_device_key -------------------------- *)
Saving(p) == Op(p) \in {"save", "save tree"}
migrate(p) == Op(p) # "read tree"
Goes(p) == IF Saving(p) THEN "seal" ELSE "open"
Found(p, k) == proc' = [proc EXCEPT ![p].step = Goes(p), ![p].found = k]
FoundDeaf(p, k) ==
    proc' = [proc EXCEPT ![p].step = Goes(p), ![p].found = k, ![p].deaf = @ \cup {"store"}]
NotFound(p, error) ==      \* no key at all, or the store cannot be read
    LET r == [Idle(p) EXCEPT !.tree = "read only"] IN
    CASE Op(p) = "load" /\ error = "unavailable" -> Done(p, [r EXCEPT !.blocked = TRUE])
      [] Op(p) = "load" /\ error = "missing"     -> Go(p, "quarantine")
      [] Op(p) = "read tree" /\ error = "missing" /\ ~exists(vault) -> Go(p, "tree aside")
      [] Op(p) = "read tree" /\ (error = "unavailable" \/ exists(vault)) -> Done(p, r)
      [] Saving(p) /\ exists(vault) -> Done(p, Idle(p))
      [] OTHER -> Go(p, IF error = "missing" /\ has_store THEN "mint" ELSE "mint file")

ReadKeyFile(p) ==
    /\ At(p, "file")
    /\ LET k == IF keyfile.is = "filled" THEN keyfile.key ELSE 0 IN
       IF has_store THEN proc' = [proc EXCEPT ![p].step = "store", ![p].fileKey = k]
       ELSE IF k # 0 THEN Found(p, k) ELSE NotFound(p, "missing")
    /\ UNCHANGED <<has_store, keyVars, files, counters, ghosts>>
(* Of two different keys the one that opens the vault; neither is deleted. *)
(* Mutant: the Keychain's is taken.                                        *)
StoreWins(file) == keychain
Choose(file) == IF vault.key # keychain /\ vault.key = file THEN file ELSE keychain
AskStore(p) ==
    LET file == proc[p].fileKey IN
    /\ At(p, "store")
    /\ \/ IF file # 0 THEN FoundDeaf(p, file) ELSE NotFound(p, "unavailable")
       \/ CASE keychain = 0 /\ file = 0 -> NotFound(p, "missing")
            [] keychain = 0 /\ file # 0 -> IF migrate(p) THEN Go(p, "migrate") ELSE Found(p, file)
            [] keychain # 0 /\ file = 0 -> Found(p, keychain)
            [] keychain # 0 /\ file = keychain ->
                   IF migrate(p) THEN Go(p, "drop file") ELSE Found(p, file)
            [] OTHER -> Found(p, Choose(file))
    /\ UNCHANGED <<has_store, keyVars, files, counters, ghosts>>
(* migrate_key_file: added, read back, and only then is the file deleted.  *)
Migrate(p) ==
    LET k == proc[p].fileKey IN
    /\ \/ /\ At(p, "migrate") /\ Go(p, "verify")
          /\ keychain' = (IF keychain = 0 THEN k ELSE keychain)
       \/ At(p, "migrate") /\ Found(p, k) /\ UNCHANGED keychain
       \/ At(p, "verify") /\ keychain = k /\ Go(p, "drop file") /\ UNCHANGED keychain
       \/ At(p, "verify") /\ Found(p, k) /\ UNCHANGED keychain     \* another, or not read
    /\ UNCHANGED <<has_store, keyfile, files, counters, ghosts>>
DropKeyFile(p) ==          \* a failure leaves it for the next time
    /\ At(p, "drop file") /\ keyfile' \in {keyfile, NoKeyFile} /\ Found(p, proc[p].fileKey)
    /\ UNCHANGED <<has_store, keychain, files, counters, ghosts>>

(* -------------------- get_or_create_device_key_locked ------------------- *)
Mint(p) ==                 \* into the store, unless another process was first
    /\ At(p, "mint")
    /\ \/ /\ keychain = 0 /\ keys < MaxKeys /\ keys' = keys + 1 /\ keychain' = keys + 1
          /\ Found(p, keys + 1)
       \/ keychain # 0 /\ (Found(p, keychain) \/ Done(p, Idle(p))) /\ UNCHANGED <<keys, keychain>>
       \/ Go(p, "mint file") /\ UNCHANGED <<keys, keychain>>
    /\ UNCHANGED <<has_store, keyfile, files, saves, starts, ghosts>>
MintFile(p) ==
    /\ At(p, "mint file")
    /\ \/ /\ keyfile.is = "absent" /\ keyfile' = [is |-> "blank", key |-> 0, open |-> {p}]
          /\ Go(p, "fill") /\ UNCHANGED keys
       \/ /\ keyfile.is = "filled" /\ Found(p, keyfile.key) /\ UNCHANGED <<keyfile, keys>>
       \/ /\ keyfile.is = "blank" /\ keys < MaxKeys /\ keys' = keys + 1
          /\ keyfile' = [is |-> "filled", key |-> keys + 1, open |-> {}] /\ Found(p, keys + 1)
       \/ keyfile.is = "blank" /\ Done(p, Idle(p)) /\ UNCHANGED <<keyfile, keys>>   \* created meanwhile
    /\ UNCHANGED <<has_store, keychain, files, saves, starts, ghosts>>
Fill(p) ==                 \* what is filled may have been replaced by then
    /\ At(p, "fill") /\ keys < MaxKeys /\ keys' = keys + 1 /\ Found(p, keys + 1)
    /\ keyfile' = IF p \in keyfile.open THEN [is |-> "filled", key |-> keys + 1, open |-> {}]
                  ELSE keyfile
    /\ UNCHANGED <<has_store, keychain, files, saves, starts, ghosts>>

(* ---------------- load_vault_with, load_saved_sites_at_startup ---------- *)
OpenSealed(p) ==
    /\ At(p, "open")
    /\ LET opened == proc[p].seen.key = proc[p].found IN
       CASE Op(p) = "load" /\ opened -> Done(p, [Idle(p) EXCEPT !.sites = proc[p].seen.ver])
         [] Op(p) = "load" /\ ~opened -> Go(p, "quarantine")
         [] Op(p) = "read tree" /\ opened -> Done(p, [Idle(p) EXCEPT !.tree = "ready"])
         [] OTHER -> Go(p, "tree aside")
    /\ UNCHANGED <<has_store, keyVars, files, counters, ghosts>>
(* Mutant: the vault that did not load is left, and no sites are known.    *)
NotMoved(p) == UNCHANGED <<aside, vault, unmoved>>
MovedAside(p) ==
    \/ aside' = aside \cup ({vault} \ {Nothing}) /\ vault' = Nothing /\ UNCHANGED unmoved
    \/ unmoved' = TRUE /\ UNCHANGED <<aside, vault>>
Quarantine(p) ==
    /\ At(p, "quarantine") /\ Done(p, [Idle(p) EXCEPT !.tree = "read only"]) /\ MovedAside(p)
    /\ UNCHANGED <<has_store, keyVars, bak, layout, counters, relied>>
TreeAside(p) ==            \* kept and read only where it cannot be moved
    /\ At(p, "tree aside")
    /\ \/ /\ aside' = aside \cup ({layout} \ {Nothing}) /\ layout' = Nothing
          /\ Done(p, [Idle(p) EXCEPT !.tree = "ready"])
       \/ UNCHANGED <<aside, layout>> /\ Done(p, [Idle(p) EXCEPT !.tree = "read only"])
    /\ UNCHANGED <<has_store, keyVars, vault, bak, counters, ghosts>>

(* ------------------- save_vault_with, save_sealed_with ------------------ *)
(* A vault that opens is kept as the backup, any other put aside.          *)
KeepExisting(p) ==
    IF proc[p].seen.key = proc[p].found THEN bak' \in {bak, proc[p].seen} /\ UNCHANGED <<vault, aside>>
    ELSE aside' = aside \cup ({vault} \ {Nothing}) /\ vault' = Nothing /\ UNCHANGED bak
SafetyNet(p) ==
    /\ \/ /\ At(p, "seal") /\ Op(p) = "save" /\ UNCHANGED <<vault, bak, aside>>
          /\ proc' = [proc EXCEPT ![p].step = IF exists(vault) THEN "keep" ELSE "write",
                                  ![p].seen = vault]
       \/ At(p, "keep") /\ KeepExisting(p) /\ Go(p, "write")
       \/ At(p, "keep") /\ Done(p, Idle(p)) /\ UNCHANGED <<vault, bak, aside>>     \* not moved
    /\ UNCHANGED <<has_store, keyVars, layout, counters, ghosts>>
Write(p) ==
    /\ At(p, "write")
    /\ \/ /\ vault' = [key |-> proc[p].found, ver |-> proc[p].next]
          /\ Done(p, [Idle(p) EXCEPT !.sites = proc[p].next])
          /\ relied' = (relied \ {proc[p].sites}) \cup {proc[p].next}
       \/ Done(p, Idle(p)) /\ UNCHANGED <<vault, relied>>
    /\ UNCHANGED <<has_store, keyVars, bak, layout, aside, counters, unmoved>>
WriteTree(p) ==
    /\ At(p, "seal") /\ Op(p) = "save tree" /\ Done(p, Idle(p))
    /\ layout' \in {layout, [key |-> proc[p].found, ver |-> 0]}
    /\ UNCHANGED <<has_store, keyVars, vault, bak, aside, counters, ghosts>>

Die(p) ==                  \* or quit
    /\ ~At(p, "off") /\ proc' = [proc EXCEPT ![p] = NoOp]
    /\ UNCHANGED <<has_store, keyVars, files, counters, ghosts>>

VaultInit ==
    /\ has_store \in BOOLEAN /\ keychain = 0 /\ keyfile = NoKeyFile
    /\ vault = Nothing /\ bak = Nothing /\ layout = Nothing /\ aside = {}
    /\ proc = [p \in Proc |-> NoOp] /\ keys = 0 /\ saves = 0 /\ starts = 0
    /\ relied = {} /\ unmoved = FALSE
VaultStep(p) ==
    \/ Start(p) \/ SaveSites(p) \/ LoadTree(p) \/ SaveTree(p)
    \/ ReadKeyFile(p) \/ AskStore(p) \/ Migrate(p) \/ DropKeyFile(p)
    \/ Mint(p) \/ MintFile(p) \/ Fill(p)
    \/ OpenSealed(p) \/ Quarantine(p) \/ TreeAside(p)
    \/ SafetyNet(p) \/ Write(p) \/ WriteTree(p) \/ Die(p)
VaultNext == \E p \in Proc : VaultStep(p)
VaultSpec == VaultInit /\ [][VaultNext]_vaultVars

(* ------------------------------- Properties ----------------------------- *)
HeldKeys == {keychain, keyfile.key} \ {0}
Readable(f) == f.key \in HeldKeys

(* A list of sites a save reported written, and that no later save was     *)
(* made from, is in a file with the key that opens it, whenever the        *)
(* process dies, the Keychain is locked or a file cannot be moved; unless  *)
(* a start could neither read nor move the vault.                          *)
SavedSitesAreKept ==
    unmoved \/ \A v \in relied : \E f \in {vault, bak} \cup aside : f.ver = v /\ Readable(f)

(* A vault whose key is kept is never put aside by an operation that could *)
(* read the file and the Keychain, even with two different keys left.      *)
PutAside(p) == vault # Nothing /\ vault \in aside' /\ vault' = Nothing /\ proc'[p] # proc[p]
VaultStaysIfAnswered ==
    [][\A p \in Proc : PutAside(p) /\ proc[p].deaf = {} => ~Readable(vault)]_vaultVars

(* "When only the Keychain holding its key could not be read, the vault is *)
(* intact: it stays in place", as commands.rs has it of a start.           *)
IntactVaultStays ==
    [][\A p \in Proc : PutAside(p) /\ Op(p) = "load" /\ "file" \notin proc[p].deaf
          => ~Readable(vault)]_vaultVars
=============================================================================
