-------------------------------- MODULE FileVault --------------------------------
(***************************************************************************)
(* The encrypted file vault (abir_guard/crypto_store.py): instances of one *)
(* passphrase that share the file of keys and the file that names the      *)
(* canary.  An instance draws the salt of its master key the first time it *)
(* saves or loads, and no file carries the salt.  write_bytes truncates    *)
(* and then writes: it may fail, another instance may write in between,    *)
(* and the process may die.  audit.log, which nothing reads back, is left  *)
(* out.                                                                    *)
(***************************************************************************)
EXTENDS Integers, FiniteSets, Functions, TLC

CONSTANTS
    Instances, Nobody,
    KeyNames, Pairs,        \* ids and key pairs that callers store
    CanaryIds, CanaryPair,
    OldKeys,                \* what keys.json holds before migration
    MaxStores, MaxSaves     \* bounds: store_key and add_canary calls, and salts drawn

ASSUME CanaryAssumption == CanaryIds \cap KeyNames = {} /\ CanaryPair \notin Pairs
ASSUME NobodyAssumption == Nobody \notin Instances \union KeyNames \union CanaryIds

VARIABLES
    mem,        \* _keys of each instance
    salts,      \* _salt of each instance, a number, or 0
    salted,     \* how many salts were drawn
    saving,     \* the set of the keys that a save of each instance is about to write, or {}
    keysFile,   \* KEYS_FILE: missing, torn, or keys under a salt
    canaryFile, \* CANARY_FILE: the set of the id it names, {Nobody} when its text was cut
                \* short, or {}
    plainFile,  \* keys.json is there, or its keys are saved and it is about to go, or gone
    lastSave,   \* history: who completed the last save, and with which keys
    lastCall,   \* history: the last load or canary check
    stores

fileVars == <<mem, salts, salted, saving, keysFile, canaryFile, plainFile, lastSave, lastCall, stores>>

NoKeys == <<>>
Saved(salt, keyMap) == [state |-> "saved", salt |-> salt, keys |-> keyMap]
Torn == [state |-> "torn", salt |-> 0]
NoSave == [by |-> Nobody, keys |-> NoKeys]

-------------------------------------------------------------------------------
FileInit ==
    /\ mem = [i \in Instances |-> NoKeys]
    /\ salts = [i \in Instances |-> 0]
    /\ salted = 0
    /\ saving = [i \in Instances |-> {}]
    /\ keysFile = [state |-> "missing"]
    /\ canaryFile = {}
    /\ plainFile = "there"
    /\ lastSave = NoSave
    /\ lastCall = [call |-> "none"]
    /\ stores = 0

Free(i) == saving[i] = {}

\* _get_key: under the salt the instance has, or a fresh one
GetKey(i) ==
    \/ salts[i] # 0 /\ UNCHANGED <<salts, salted>>
    \/ /\ salts[i] = 0 /\ salted < MaxSaves
       /\ salted' = salted + 1
       /\ salts' = [salts EXCEPT ![i] = salted + 1]

Stored(i, id, pair) == [mem EXCEPT ![i] = (id :> pair) @@ @]

store_key(i, id, pair) ==
    /\ Free(i) /\ stores < MaxStores
    /\ stores' = stores + 1
    /\ mem' = Stored(i, id, pair)
    /\ UNCHANGED <<salts, salted, saving, keysFile, canaryFile, plainFile, lastSave, lastCall>>

remove_key(i, id) ==
    /\ Free(i) /\ id \in DOMAIN mem[i]
    /\ mem' = [mem EXCEPT ![i] = Restrict(@, DOMAIN @ \ {id})]
    /\ UNCHANGED <<salts, salted, saving, keysFile, canaryFile, plainFile, lastSave, lastCall, stores>>

\* save encrypts what is in memory, and truncates the file
save(i) ==
    /\ Free(i)
    /\ GetKey(i)
    /\ saving' = [saving EXCEPT ![i] = {mem[i]}]
    /\ keysFile' = Torn
    /\ lastSave' = NoSave
    /\ UNCHANGED <<mem, canaryFile, plainFile, lastCall, stores>>

\* then it writes; over what another instance wrote meanwhile, the tail of that may stay,
\* or writing fails, and save raises
WriteBytes(i) ==
    /\ ~Free(i)
    /\ saving' = [saving EXCEPT ![i] = {}]
    /\ \/ \E keyMap \in saving[i] :
             /\ keysFile' = Saved(salts[i], keyMap)
             /\ lastSave' = [by |-> i, keys |-> keyMap]
       \/ keysFile' = Torn /\ lastSave' = NoSave
    /\ UNCHANGED <<mem, salts, salted, canaryFile, plainFile, lastCall, stores>>

Mutant_LoadMerges(i, keyMap) == [mem EXCEPT ![i] = keyMap @@ @]
Loaded(i, keyMap) == [mem EXCEPT ![i] = keyMap]

\* FALSE for a missing file, an error for one that is short or of another key
load(i) ==
    /\ Free(i) /\ keysFile.state # "missing"
    /\ GetKey(i)
    /\ \/ /\ keysFile.state = "saved" /\ keysFile.salt = salts'[i]
          /\ mem' = Loaded(i, keysFile.keys)
          /\ lastCall' = [call |-> "loaded", by |-> i, save |-> lastSave, keys |-> mem'[i]]
       \/ /\ keysFile.state = "torn" \/ keysFile.salt # salts'[i]
          /\ lastCall' = [call |-> "not loaded", by |-> i, save |-> lastSave]
          /\ UNCHANGED mem
    /\ UNCHANGED <<saving, keysFile, canaryFile, plainFile, lastSave, stores>>

\* in memory, and in the file, which forgets the canary before; an error is dropped
add_canary(i, id) ==
    /\ Free(i) /\ stores < MaxStores
    /\ \A j \in Instances : id \notin DOMAIN mem[j]
    /\ id \notin canaryFile
    /\ stores' = stores + 1
    /\ mem' = Stored(i, id, CanaryPair)
    /\ canaryFile' \in {{id}, {Nobody}, canaryFile}
    /\ UNCHANGED <<salts, salted, saving, keysFile, plainFile, lastSave, lastCall>>

\* a breach: the file's canary is not in this memory, or the file is not JSON
check_canary(i) ==
    /\ Free(i)
    /\ lastCall' = [call |-> IF canaryFile \subseteq DOMAIN mem[i] THEN "intact" ELSE "breach"]
    /\ UNCHANGED <<mem, salts, salted, saving, keysFile, canaryFile, plainFile, lastSave, stores>>

\* migrate_plaintext_vault: an instance of its own saves the old keys, under a salt that
\* is gone when it returns, and removes the file; after a crash or a failed write it is
\* called again, and repeats
Migrate ==
    /\ plainFile = "there" /\ salted < MaxSaves
    /\ salted' = salted + 1
    /\ \/ /\ plainFile' \in {"there", "saved"}
          /\ keysFile' = Saved(salted + 1, OldKeys)
          /\ lastSave' = [by |-> Nobody, keys |-> OldKeys]
       \/ /\ keysFile' = Torn /\ lastSave' = NoSave
          /\ UNCHANGED plainFile
    /\ UNCHANGED <<mem, salts, saving, canaryFile, lastCall, stores>>

Unlink ==
    /\ plainFile = "saved"
    /\ plainFile' = "gone"
    /\ UNCHANGED <<mem, salts, salted, saving, keysFile, canaryFile, lastSave, lastCall, stores>>

\* the process of an instance dies, and a new instance takes its place
Die(i) ==
    /\ mem' = [mem EXCEPT ![i] = NoKeys]
    /\ salts' = [salts EXCEPT ![i] = 0]
    /\ saving' = [saving EXCEPT ![i] = {}]
    /\ lastSave' = IF lastSave.by = i THEN [lastSave EXCEPT !.by = Nobody] ELSE lastSave
    /\ UNCHANGED <<salted, keysFile, canaryFile, plainFile, lastCall, stores>>

FileNext ==
    \/ \E i \in Instances :
          \/ \E id \in KeyNames : remove_key(i, id) \/ \E pair \in Pairs : store_key(i, id, pair)
          \/ save(i) \/ WriteBytes(i) \/ load(i) \/ check_canary(i) \/ Die(i)
          \/ \E id \in CanaryIds : add_canary(i, id)
    \/ Migrate \/ Unlink

FileSpec == FileInit /\ [][FileNext]_fileVars

-------------------------------------------------------------------------------
\* Whatever other instances wrote, cut short or overwrote meanwhile, a load that succeeds
\* leaves in memory exactly the keys of the last save that was completed, neither more nor
\* an older set, and it does succeed for the instance that made that save
\* (crypto_store.py:165-198).
LoadsLastSave ==
    /\ lastCall.call = "loaded" => lastCall.keys = lastCall.save.keys
    /\ lastCall.call = "not loaded" => lastCall.save.by # lastCall.by
===============================================================================
