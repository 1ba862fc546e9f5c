------------------------------- MODULE RustGateway -------------------------------
(***************************************************************************)
(* The MCP server of the crate (src/mcp_gateway.rs) over its in-memory     *)
(* vault (src/quantum_kernel.rs).  handle takes &self, so threads share    *)
(* the server: the key list is behind a mutex, but a key is generated      *)
(* before it is taken and data is encrypted after it is released.          *)
(*                                                                         *)
(* A panic while the mutex is held poisons it, and every later lock panics *)
(* too.  A panic ends one request: its thread goes on with the next.  The  *)
(* binary of this crate's release profile aborts at the first one instead. *)
(***************************************************************************)
EXTENDS Integers, Sequences, FiniteSets, SequencesExt, Vectors

CONSTANTS
    Threads,
    KeyIds,
    MaxKeys     \* bound: keys generated

VARIABLES
    keys,       \* Vault.keys: ids and key material, in the order they were pushed
    poisoned,   \* the mutex of keys
    minted,     \* how many keys were generated: key material is a number
    work,       \* of each thread, where its request stands
    sealed,     \* history: ciphertexts returned, with whether their key was removed since
                \* it was picked
    malformed   \* history: was a nonce of the wrong length ever presented?

gatewayVars == <<keys, poisoned, minted, work, sealed, malformed>>

\* The nonce of a decrypt: the one encrypt returned, another of 12 bytes or one that does
\* not decode, and one left out, the request that src/README.md:688 documents, which
\* handle_decrypt makes "", or of another length.
Nonces == {"whole", "other", "missing"}

\* An idle thread keeps the answer to its last request.  `due` is set for a decrypt of
\* what encrypt returned, under its id and with no removal since: the nonce it came with.
Reply(answer) == [at |-> "idle", answer |-> answer, due |-> "none"]
Decrypted(answer, id, ct, nonce) ==
    [at |-> "idle", answer |-> answer,
     due |-> IF ct \in sealed /\ ct.id = id /\ ~ct.removed THEN nonce ELSE "none"]
Idle == Reply("none")

-------------------------------------------------------------------------------
Has(id) == \E i \in DOMAIN keys : keys[i].id = id

\* iter().find: the first key pushed under the id
First(id) == keys[SelectInSeq(keys, LAMBDA k : k.id = id)].key

Mutant_Replaces(id, key) ==
    Append(SelectSeq(keys, LAMBDA k : k.id # id), [id |-> id, key |-> key])
Push(id, key) == Append(keys, [id |-> id, key |-> key])

GatewayInit ==
    /\ keys = <<>>
    /\ poisoned = FALSE
    /\ minted = 0
    /\ work = [t \in Threads |-> Idle]
    /\ sealed = {}
    /\ malformed = FALSE

At(t, where) == work[t].at = where
Ends(t, answer) == work' = [work EXCEPT ![t] = Reply(answer)]

\* lock().unwrap() on a poisoned mutex, in any handler that reaches the vault; decrypt's
\* is below
LockPanics(t) ==
    /\ At(t, "idle") \/ At(t, "push")
    /\ poisoned
    /\ Ends(t, "panic")
    /\ UNCHANGED <<keys, poisoned, minted, sealed, malformed>>

\* generate_key: the keypair first, then the lock
GenerateKey(t, id) ==
    /\ At(t, "idle") /\ minted < MaxKeys
    /\ minted' = minted + 1
    /\ work' = [work EXCEPT ![t] = [at |-> "push", id |-> id, key |-> minted + 1]]
    /\ UNCHANGED <<keys, poisoned, sealed, malformed>>

PushKey(t) ==
    /\ At(t, "push") /\ ~poisoned
    /\ keys' = Push(work[t].id, work[t].key)
    /\ Ends(t, "generated")
    /\ UNCHANGED <<poisoned, minted, sealed, malformed>>

\* encrypt, under the lock: the key is picked, or generated when the id has none
PickKey(t, id) ==
    /\ At(t, "idle") /\ ~poisoned /\ Has(id)
    /\ work' = [work EXCEPT ![t] =
                    [at |-> "seal", id |-> id, key |-> First(id), removed |-> FALSE]]
    /\ UNCHANGED <<keys, poisoned, minted, sealed, malformed>>

AutoGenerate(t, id) ==
    /\ At(t, "idle") /\ ~poisoned /\ ~Has(id) /\ minted < MaxKeys
    /\ minted' = minted + 1
    /\ keys' = Push(id, minted + 1)
    /\ work' = [work EXCEPT ![t] =
                    [at |-> "seal", id |-> id, key |-> minted + 1, removed |-> FALSE]]
    /\ UNCHANGED <<poisoned, sealed, malformed>>

\* the lock is free again; the watchdog panics when encryption took over 200 ms
Mutant_SealUnderLock(t) ==
    LET ct == [id |-> work[t].id, key |-> work[t].key, removed |-> work[t].removed] IN
    /\ At(t, "seal")
    /\ \/ sealed' = sealed \union {ct} /\ Ends(t, "sealed") /\ UNCHANGED poisoned
       \/ sealed' = sealed /\ Ends(t, "panic") /\ poisoned' = TRUE
    /\ UNCHANGED <<keys, minted, malformed>>
Seal(t) ==
    LET ct == [id |-> work[t].id, key |-> work[t].key, removed |-> work[t].removed] IN
    /\ At(t, "seal")
    /\ \/ sealed' = sealed \union {ct} /\ Ends(t, "sealed")
       \/ sealed' = sealed /\ Ends(t, "panic")
    /\ UNCHANGED <<keys, poisoned, minted, malformed>>

\* What retrieve may answer: Nonce::from_slice panics before the ciphertext is looked at,
\* and the watchdog speaks after it opened.
Decryption(id, ct, nonce) ==
    IF ~Has(id) THEN {"Key not found"}
    ELSE IF nonce = "missing" THEN {"panic"}
    ELSE IF nonce = "whole" /\ First(id) = ct.key THEN {"plaintext", "Security watchdog"}
    ELSE {"error"}

\* decrypt, under the lock throughout: a panic poisons it.
Decrypt(t, id, ct, nonce) ==
    /\ At(t, "idle")
    /\ \E answer \in (IF poisoned THEN {"panic"} ELSE Decryption(id, ct, nonce)) :
          /\ work' = [work EXCEPT ![t] = Decrypted(answer, id, ct, nonce)]
          /\ poisoned' = (answer = "panic")
    /\ malformed' = (malformed \/ nonce = "missing")
    /\ UNCHANGED <<keys, minted, sealed>>

\* a ciphertext that no key of the vault sealed
Foreign(id) == [id |-> id, key |-> 0, removed |-> TRUE]

ListKeys(t) ==
    /\ At(t, "idle") /\ ~poisoned
    /\ Ends(t, "keys")
    /\ UNCHANGED <<keys, poisoned, minted, sealed, malformed>>

\* every key of the id goes, its ciphertexts and the requests that picked one of them
\* do not know
Removes(id, ct) == [ct EXCEPT !.removed = @ \/ ct.id = id]
DeleteKey(t, id) ==
    /\ At(t, "idle") /\ ~poisoned
    /\ keys' = retain(keys, {k \in ToSet(keys) : k.id = id})
    /\ sealed' = {Removes(id, ct) : ct \in sealed}
    /\ work' = [u \in Threads |->
                    IF u = t THEN Reply("deleted")
                    ELSE IF At(u, "seal") THEN Removes(id, work[u]) ELSE work[u]]
    /\ UNCHANGED <<poisoned, minted, malformed>>

\* clear_cache, info, an unknown method and a missing parameter touch nothing
Untouched(t) ==
    /\ At(t, "idle")
    /\ Ends(t, "untouched")
    /\ UNCHANGED <<keys, poisoned, minted, sealed, malformed>>

GatewayNext ==
    \E t \in Threads :
       \/ LockPanics(t) \/ PushKey(t) \/ Seal(t) \/ ListKeys(t) \/ Untouched(t)
       \/ \E id \in KeyIds :
             \/ GenerateKey(t, id) \/ PickKey(t, id) \/ AutoGenerate(t, id)
             \/ DeleteKey(t, id)
             \/ \E ct \in sealed \union {Foreign(id)}, nonce \in Nonces :
                   Decrypt(t, id, ct, nonce)

GatewaySpec == GatewayInit /\ [][GatewayNext]_gatewayVars

-------------------------------------------------------------------------------
\* What was asked of decrypt and answered: encryption runs after the lock is released,
\* and generate_key pushes a second key under an id that has one (quantum_kernel.rs:265-291),
\* yet whatever the threads do, a ciphertext that was returned opens when it is presented
\* with its nonce, under its id, and no delete_key of the id came after its key was
\* picked.  The time limit may speak instead; a panic may only when somebody presented a
\* nonce of the wrong length before, and never because an encryption was slow.
SealedOpens ==
    \A t \in Threads : At(t, "idle") /\ work[t].due = "whole" =>
        \/ work[t].answer \in {"plaintext", "Security watchdog"}
        \/ work[t].answer = "panic" /\ malformed

===============================================================================
