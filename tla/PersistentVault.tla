---------------------------- MODULE PersistentVault ----------------------------
(***************************************************************************)
(* The command line of the Rust crate: main.rs, persistent_vault.rs and    *)
(* the in-memory Vault of quantum_kernel.rs.  Each invocation is a process *)
(* that loads a key file, changes its own copy of the vault and writes the *)
(* whole vault back; nothing locks the file between the load and the save. *)
(*                                                                         *)
(* Abstractions.  A file holds at most one encrypted blob; a blob opens    *)
(* only under the passphrase that sealed it (Argon2id + AES-GCM).  A       *)
(* keyring keeps, for each id, the secrets pushed under it in order: the   *)
(* order between different ids is never observable.  A key pair is its     *)
(* secret, taken fresh from Secrets, which bounds how many are generated.  *)
(***************************************************************************)
EXTENDS Integers, Sequences, FiniteSets

CONSTANTS
    Procs,        \* process slots: as many invocations may overlap
    KeyIds,       \* ids that validate_key_id accepts
    Passphrases,
    Secrets,      \* key pairs that can ever be generated (the bound)
    NoSecret,     \* "no key"
    Sealless,     \* pass of a file that no passphrase opens
    Faults        \* what may go wrong: a subset of FaultKinds

FaultKinds == {"crash", "create", "short"}
Files == {"kem", "dsa"}   \* keys.enc and mldsa_keys.enc

ASSUME NoSecretAssumption == NoSecret \notin Secrets
ASSUME SeallessAssumption == Sealless \notin Passphrases
ASSUME KeyIdsAssumption   == IsFiniteSet(KeyIds)
ASSUME FaultsAssumption   == Faults \subseteq FaultKinds

VARIABLES
    disk,     \* the two key files
    pc,       \* where each process is in its command
    cmd,      \* the command each process runs, and the secret it concerns
    vault,    \* each process's own copy of the keys
    owner,    \* for whom each secret was generated (history)
    acked,    \* keys whose command reported success, less those given up since
    refused   \* acknowledged keys with which a decryption failed (history)

vars == <<disk, pc, cmd, vault, owner, acked, refused>>

Keyring == [KeyIds -> Seq(Secrets)]
Empty == [k \in KeyIds |-> <<>>]

Key == [file : Files, id : KeyIds, pass : Passphrases, secret : Secrets]
Owner == [file : Files, id : KeyIds, pass : Passphrases]
Nobody == [file |-> "none", id |-> NoSecret, pass |-> Sealless]
Generated == {s \in Secrets : owner[s] # Nobody}

Ops == {"init", "encrypt", "delete", "decrypt", "mldsa-init"}
Command == [op : Ops, file : Files, id : KeyIds, pass : Passphrases,
            secret : Secrets \union {NoSecret}]
NoCommand == [op |-> "none", file |-> "none", id |-> NoSecret,
              pass |-> Sealless, secret |-> NoSecret]

-------------------------------------------------------------------------------
(* The in-memory Vault. *)

\* `iter().find`: the first entry pushed under the id
First(ring, k) == IF ring[k] = <<>> THEN NoSecret ELSE Head(ring[k])

\* generate_keypair pushes even when the id is taken
Mutant_PushAlone(ring, k, s) == [Empty EXCEPT ![k] = <<s>>]
Push(ring, k, s) == [ring EXCEPT ![k] = Append(@, s)]

\* remove_keypair retains every entry of another id
Remove(ring, k) == [ring EXCEPT ![k] = <<>>]

\* importing the stored entries in order, each replacing the one before
Mutant_ReloadAppends(ring) == ring
Mutant_ReloadKeepsFirst(ring) ==
    [k \in KeyIds |-> IF ring[k] = <<>> THEN <<>> ELSE <<ring[k][1]>>]
Reload(ring) ==
    [k \in KeyIds |-> IF ring[k] = <<>> THEN <<>> ELSE <<ring[k][Len(ring[k])]>>]

-------------------------------------------------------------------------------
(* The key file. *)

\* bytes of a blob, counted in keys; one more for the salt, nonce and tag
Size(ring) == 1 + Cardinality(UNION {{k} \X DOMAIN ring[k] : k \in KeyIds})

NoFile == [pass |-> Sealless, keys |-> Empty, len |-> 0]
Blob(p) == [pass |-> cmd[p].pass, keys |-> vault[p], len |-> Size(vault[p])]
Torn(n) == [pass |-> Sealless, keys |-> Empty, len |-> n]

\* get_vault: a missing, short, torn or otherwise sealed file is an empty vault
Mutant_LoadAnyPassphrase(file, pass) ==
    IF disk[file].pass = Sealless THEN Empty ELSE Reload(disk[file].keys)
Load(file, pass) ==
    IF disk[file].pass = pass THEN Reload(disk[file].keys) ELSE Empty

-------------------------------------------------------------------------------
Init ==
    /\ disk = [f \in Files |-> NoFile]
    /\ pc = [p \in Procs |-> "idle"]
    /\ cmd = [p \in Procs |-> NoCommand]
    /\ vault = [p \in Procs |-> Empty]
    /\ owner = [s \in Secrets |-> Nobody]
    /\ acked = {}
    /\ refused = {}

Start(p, op, file, k, pass, s, ring) ==
    /\ pc[p] = "idle"
    /\ pc' = [pc EXCEPT ![p] = "loaded"]
    /\ cmd' = [cmd EXCEPT ![p] = [op |-> op, file |-> file, id |-> k,
                                  pass |-> pass, secret |-> s]]
    /\ vault' = [vault EXCEPT ![p] = ring]
    /\ UNCHANGED <<disk, refused>>

Generate(s, file, k, pass) ==
    /\ s \notin Generated
    /\ owner' = [owner EXCEPT ![s] = [file |-> file, id |-> k, pass |-> pass]]

\* the user asks for the keys of k to be replaced or deleted
GiveUp(file, k, pass) ==
    acked' = {a \in acked : ~(a.file = file /\ a.id = k /\ a.pass = pass)}

\* `init`: get_vault and generate_keypair
InitKey(p, k, pass, s) ==
    /\ Generate(s, "kem", k, pass)
    /\ GiveUp("kem", k, pass)
    /\ Start(p, "init", "kem", k, pass, s, Push(Load("kem", pass), k, s))

\* `encrypt`: get_vault and Vault::store, which generates a key when none is found
Encrypt(p, k, pass) ==
    LET ring == Load("kem", pass)
        found == First(ring, k)
    IN  /\ \/ /\ found # NoSecret
              /\ Start(p, "encrypt", "kem", k, pass, found, ring)
              /\ UNCHANGED owner
           \/ /\ found = NoSecret
              /\ \E s \in Secrets :
                    /\ Generate(s, "kem", k, pass)
                    /\ Start(p, "encrypt", "kem", k, pass, s, Push(ring, k, s))
        /\ UNCHANGED acked

\* `delete-key`: get_vault and remove_keypair
DeleteKey(p, k, pass) ==
    /\ GiveUp("kem", k, pass)
    /\ Start(p, "delete", "kem", k, pass, NoSecret, Remove(Load("kem", pass), k))
    /\ UNCHANGED owner

\* `mldsa-init --key-id`: persist_mldsa_keys is given the new key pair alone
MldsaInit(p, k, pass, s) ==
    /\ Generate(s, "dsa", k, pass)
    /\ GiveUp("dsa", k, pass)
    /\ Start(p, "mldsa-init", "dsa", k, pass, s, Push(Empty, k, s))

\* `decrypt` of a ciphertext made with an acknowledged key: the first read
Decrypt(p, a) ==
    /\ a \in acked /\ a.file = "kem"
    /\ Start(p, "decrypt", "kem", a.id, a.pass, a.secret, Load("kem", a.pass))
    /\ UNCHANGED <<owner, acked>>

Finish(p) ==
    /\ pc' = [pc EXCEPT ![p] = "idle"]
    /\ cmd' = [cmd EXCEPT ![p] = NoCommand]
    /\ vault' = [vault EXCEPT ![p] = Empty]

\* retrieve_decrypted: load_additional_keys reads the file again and imports the
\* ids it did not have, then Vault::retrieve uses the first key of the id
FinishDecrypt(p) ==
    LET again == Load("kem", cmd[p].pass)
        merged == [k \in KeyIds |-> IF vault[p][k] # <<>> THEN vault[p][k] ELSE again[k]]
        tried == [file |-> "kem", id |-> cmd[p].id, pass |-> cmd[p].pass,
                  secret |-> cmd[p].secret]
    IN  /\ pc[p] = "loaded" /\ cmd[p].op = "decrypt"
        /\ refused' = IF First(merged, cmd[p].id) # cmd[p].secret
                      THEN refused \union ({tried} \intersect acked)
                      ELSE refused
        /\ Finish(p)
        /\ UNCHANGED <<disk, owner, acked>>

-------------------------------------------------------------------------------
(* Saving: persist and persist_mldsa_keys end in fs::write, which truncates *)
(* the file, then writes the blob from its start.                           *)

\* the ciphertext or "Generated keypair" is printed, and the user relies on the key
Acknowledge(p) ==
    LET c == cmd[p]
        others == {a \in acked : ~(a.file = c.file /\ a.id = c.id /\ a.pass = c.pass)}
        key == [file |-> c.file, id |-> c.id, pass |-> c.pass, secret |-> c.secret]
    IN  acked' = CASE c.op = "delete"  -> others
                   [] c.op = "encrypt" -> acked \union {key}
                   [] OTHER            -> others \union {key}

\* fs::write(..).ok() in persist; persist_mldsa_keys returns the error instead
IgnoreError(p) == IF cmd[p].file = "kem" THEN Acknowledge(p) ELSE UNCHANGED acked

Truncate(p) ==
    /\ pc[p] = "loaded" /\ cmd[p].op # "decrypt"
    /\ pc' = [pc EXCEPT ![p] = "truncated"]
    /\ disk' = [disk EXCEPT ![cmd[p].file] = NoFile]
    /\ UNCHANGED <<cmd, vault, owner, acked, refused>>

CreateFails(p) ==
    /\ "create" \in Faults
    /\ pc[p] = "loaded" /\ cmd[p].op # "decrypt"
    /\ IgnoreError(p)
    /\ Finish(p)
    /\ UNCHANGED <<disk, owner, refused>>

\* what a file of length len holds once a blob is written over its start
Overlaid(len, blob) ==
    {c \in {blob, Torn(len)} : IF c = blob THEN blob.len >= len ELSE len >= blob.len}

Write(p) ==
    /\ pc[p] = "truncated"
    /\ \E content \in Overlaid(disk[cmd[p].file].len, Blob(p)) :
          disk' = [disk EXCEPT ![cmd[p].file] = content]
    /\ Acknowledge(p)
    /\ Finish(p)
    /\ UNCHANGED <<owner, refused>>

\* the disk fills up after n keys' worth of bytes
ShortWrite(p) ==
    /\ "short" \in Faults
    /\ pc[p] = "truncated"
    /\ \E n \in 1..(Size(vault[p]) - 1) :
          disk' = [disk EXCEPT ![cmd[p].file] = Torn(IF n > @.len THEN n ELSE @.len)]
    /\ IgnoreError(p)
    /\ Finish(p)
    /\ UNCHANGED <<owner, refused>>

\* the directory was removed after the file was created: the bytes go nowhere
OrphanWrite(p) ==
    /\ pc[p] = "orphaned"
    /\ Acknowledge(p)
    /\ Finish(p)
    /\ UNCHANGED <<disk, owner, refused>>

\* the process dies: killed, or encrypt's watchdog panics before the save
Crash(p) ==
    /\ "crash" \in Faults
    /\ pc[p] # "idle"
    /\ Finish(p)
    /\ UNCHANGED <<disk, owner, acked, refused>>

\* `clear-cache`: remove_dir_all on ~/.abir_guard
ClearCache(p) ==
    /\ pc[p] = "idle"
    /\ disk' = [f \in Files |-> NoFile]
    /\ pc' = [q \in Procs |-> IF pc[q] = "truncated" THEN "orphaned" ELSE pc[q]]
    /\ acked' = {}
    /\ UNCHANGED <<cmd, vault, owner, refused>>

Step(p) ==
    \/ \E k \in KeyIds, pass \in Passphrases :
          \/ \E s \in Secrets : InitKey(p, k, pass, s) \/ MldsaInit(p, k, pass, s)
          \/ Encrypt(p, k, pass)
          \/ DeleteKey(p, k, pass)
    \/ \E a \in acked : Decrypt(p, a)
    \/ FinishDecrypt(p)
    \/ Truncate(p) \/ CreateFails(p)
    \/ Write(p) \/ ShortWrite(p) \/ OrphanWrite(p)
    \/ Crash(p)
    \/ ClearCache(p)

Next == \E p \in Procs : Step(p)

Spec == Init /\ [][Next]_vars

-------------------------------------------------------------------------------
(* Properties. *)

TypeOK ==
    /\ disk \in [Files -> [pass : Passphrases \union {Sealless}, keys : Keyring, len : Nat]]
    /\ pc \in [Procs -> {"idle", "loaded", "truncated", "orphaned"}]
    /\ cmd \in [Procs -> Command \union {NoCommand}]
    /\ vault \in [Procs -> Keyring]
    /\ owner \in [Secrets -> Owner \union {Nobody}]
    /\ acked \subseteq Key
    /\ refused \subseteq Key

HoldsOnly(own, ring, file, pass) ==
    \A k \in KeyIds : \A i \in DOMAIN ring[k] :
        own[ring[k][i]] = [file |-> file, id |-> k, pass |-> pass]

\* However invocations under several passphrases overlap, crash or fail, a secret is
\* only ever written to the file, and sealed under the passphrase, it was generated
\* for, and bound to the id it was generated for: get_vault's silent fall-back to an
\* empty vault (persistent_vault.rs:77-117) is what keeps a save with the wrong
\* passphrase from re-sealing somebody else's keys.
SealedUnderOwner ==
    /\ \A f \in Files : HoldsOnly(owner, disk[f].keys, f, disk[f].pass)
    /\ \A p \in Procs : HoldsOnly(owner, vault[p], cmd[p].file, cmd[p].pass)

\* `init` on a taken id pushes a second entry that is saved beside the first, but
\* import_key's "replace if exists" (quantum_kernel.rs:333-335) keeps the file from
\* growing: no interleaving stores more than two entries under one id.
DuplicatesCollapse ==
    \A f \in Files : \A k \in KeyIds : Len(disk[f].keys[k]) <= 2

Effective(f, k, pass) == First(Load(f, pass), k)

\* When no command is in flight, every key a command reported saved, and that was not
\* deleted, re-initialised or cleared since, is the one its id loads: the promise of
\* "Encrypt data and persist the vault (saves new auto-generated keys)"
\* (persistent_vault.rs:160).
KemKeysKept ==
    (\A p \in Procs : pc[p] = "idle") =>
        \A a \in acked :
            a.file = "kem" => Effective("kem", a.id, a.pass) = a.secret

\* `decrypt` never turns away a ciphertext whose key is still relied on
\* (retrieve_decrypted, persistent_vault.rs:173-181).
NothingRefused == refused = {}

\* The key file as one passphrase sees it, committed by the save.
Saved(pass) ==
    LET saver == {p \in Procs : pc[p] = "truncated" /\ cmd[p].file = "kem"}
        ring == IF saver = {} THEN Load("kem", pass)
                ELSE Reload(vault[CHOOSE p \in saver : TRUE])
    IN  [k \in KeyIds |-> First(ring, k)]

Uncommitted == {cmd[p].secret : p \in {q \in Procs : pc[q] = "loaded"}}

\* One process at a time, without faults and under one passphrase, the command line is
\* an atomic map from ids to secrets (main.rs:121-208): each command changes the id it
\* names and no other, and no replaced or deleted secret comes back.
User == CHOOSE pass \in Passphrases : TRUE
Store == INSTANCE KeyStore WITH
    store <- Saved(User),
    retired <- {s \in Generated : owner[s].file = "kem"}
                 \ (Uncommitted \union {Saved(User)[k] : k \in KeyIds})
StoreImplemented == Store!StoreSpec
===============================================================================
