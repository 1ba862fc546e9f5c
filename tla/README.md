# Abir Guard in TLA+

Specifications of the stateful parts of Abir Guard, the TLC configurations that
check them on small instances, and TLAPS proofs of the results that matter most.
Paths are relative to the repository root, which holds the Rust crate (`src/`), the
Python package (`abir_guard/`) and the Go and JavaScript SDKs (`sdk/`).

The four vaults (Rust, Python, Go, JavaScript) do not call each other: each is an
implementation of the same idea, a map from key ids to key pairs, in a different
setting. What makes them hard is what surrounds the map: processes that share a file
without a lock, goroutines that give a lock up in the middle of a method, HTTP
handlers on a vault without any lock, replicas that exchange deltas in any order,
two data structures that must agree. Around them the crate has libraries that share no
state with the vaults or with each other: multi-party sessions, enclaves and attestation,
key anchors, revocation and rotation, an audit log, secret sharing, key distribution,
DID documents. Each has a module of its own; what makes those hard is protocol order,
clocks, boundaries, and failures half-way.

## Running

In this directory:

    tlc -workers 2 -config pv_faulty.cfg MCPersistentVault.tla
    tlapm PersistentVaultProofs.tla

Each `.cfg` starts from the `MC...` module of its component; the table under
[Runs](#runs) says which.

## Inventory

| Component | State | Operations | What is hard | What makes it correct |
|---|---|---|---|---|
| **Rust command line and key file** (`src/main.rs`, `src/persistent_vault.rs`, `src/quantum_kernel.rs`) | `keys.enc` and `mldsa_keys.enc`; each process's own `Vault` | init, encrypt, decrypt, delete-key, mldsa-init, mldsa-verify, mldsa-sign, clear-cache, list, info, shamir | load, change, save without a lock; `fs::write` truncates first; write errors are dropped; a wrong passphrase gives an empty vault | a key reported saved stays; what was encrypted opens; nothing is sealed for somebody else |
| **Go vault** (`sdk/go/abirguard.go`) | key maps, metadata, revocations, audit log, one `RWMutex` | GenerateKeypair, Encrypt, Decrypt, RevokeKey, RotateKey, RemoveKeypair, queries | Encrypt and RotateKey are several sections; Decrypt writes under the read lock | the audit log accounts for the vault; a revocation holds |
| **Python vault and MCP dispatcher** (`abir_guard/__init__.py`, `rotation.py`, `attestation.py`, `fips_mode.py`) | two key dictionaries, canaries, usage counters, FIPS flag, attestation, hash-chained audit list | the MCP methods, automatic rotation, canaries | two threads serve requests on a vault without locks | the chain verifies; the two dictionaries agree; a rotated key is gone; no false alarm |
| **MCP HTTP server** (`abir_guard/mcp_http.py`) | rate-limit windows, its own audit list | do_POST, do_GET, start | two accept loops; the clock is read before the lock | a window admits its limit and at most one late request per thread more; a refusal is justified |
| **Federated mesh** (`abir_guard/federated_vault.py`) | each node's clock and records | put, delete, export_delta, apply_delta | late, repeated, reordered and lost deltas; wall clocks | replicas with the same records agree; deletes are not undone |
| **Derived-key cache** (`src/performance/key_cache.rs`, `src/kdf.rs`) | map of derived keys, FIFO queue | get_or_derive, invalidate, clear | two structures updated apart; panics | within capacity; answers as a fresh derivation |
| **Python file vault** (`abir_guard/crypto_store.py`) | the key file, the canary file, `keys.json`; keys and a salt per instance | store_key, remove_key, save, load, add_canary, check_canary, migrate | the salt is drawn per instance and never saved; the file is truncated before it is written; migration may stop half-way | a load that succeeds gives the last completed save, and the instance that saved can load |
| **MPC session** (`src/confidential_computing/mpc/mod.rs`) | parties, commitments, shares, nonces, round | register, commit, reveal, aggregate, advance | duplicated and reordered messages; a nonce is spent before the message is checked | no accepted share without its commitment; equal shares, equal digest |
| **Enclaves, attestation, sealed storage** (`src/confidential_computing/`) | enclave and session, sealed blobs and their cache, platform registers, evidence, clock | seal, unseal, cache, quote, report, verify, batch | platform changes under a cache; clocks that differ; items of one batch read the clock apart | a stored blob answers by the registers its policy binds; nothing old is accepted; a refusal is final |
| **Key anchors** (`src/blockchain/`) | two anchor registries, PKI bindings, block height | register, invalidate, submit, revoke, resolve, verify | two maps updated one after the other; validity windows and revocations | one key, one entity; a revoked key does not come back; a height keeps its answers |
| **Revocation and rotation** (`src/revocation.rs`, `src/rotation.rs`, `abir_guard/revocation.py`) | list, index and signature; counters, limits and times | revoke, get_entry, verify; register, record_usage, expire, needs_rotation | revoked twice; limits of 0, `>` beside `>=` | the latest revocation is found; a due key stays due |
| **Audit and compliance** (`src/audit/`) | hash chain, rules | append, verify_chain, evaluate | which fields the hash covers; runs at the end of the log | the first changed or displaced entry is found; every long run is flagged |
| **Secret sharing** (`src/shamir.rs`, `src/advanced_secret_sharing.rs`, `abir_guard/multi_agent_key_sharing.py`) | shares, commitments, epochs | split, join, refresh, re-share | field arithmetic, thresholds, repeated shares, an epoch advanced before an error | any threshold of shares gives the secret, fewer tell next to nothing; a plan's shares are new |
| **HSM cluster and device backends** (`abir_guard/hsm_cluster.py`, `abir_hsm.py`, ...) | a cursor over providers | choose, sign | failover order | a healthy device is found |
| **Access control, compliance** (`abir_guard/rbac.py`, `compliance.py`) | roles, retention records | grant, check, erase | | |
| **QKD** (`src/qkd/mod.rs`, `abir_guard/qkd_network.py`) | bases, bits, shuffled indices | run | an entropy source that runs out; sampling in place; the abort rule | no bit of the key was made public, none is lost |
| **Rust MCP gateway** (`src/mcp_gateway.rs`) | the key list of `src/quantum_kernel.rs` and its mutex | generate_key, encrypt, decrypt, list_keys, delete_key | a key is made before the lock and used after it; panics poison the mutex | what was sealed opens until its key is deleted |
| **DID documents** (`src/interop/did.rs`) | methods and three lists of references | add, remove, get, JSON | four lists kept in step | a reference resolves to the key it was made for |
| **Zero-copy vault, batch operations, adapters, JWK, TLS, telemetry, benchmarks, JavaScript SDK** | little or none | | | |

`PROJECT.json` lists every component with its status, and each hazard of the code at
the line where it bites with the properties that watch it.

## Modules

| Module | Models | Notes |
|---|---|---|
| `PersistentVault` | one process per command-line invocation | composes with `KeyStore` |
| `KeyStore` | *abstract*: an atomic map from ids to secrets | what the command line promises |
| `PersistentVaultProofs` | | theorems about `PersistentVault` |
| `GoVault` | goroutines on the Go vault, one step per lock section | |
| `GoVaultProofs` | | theorems about `GoVault` |
| `PyGateway` | request handlers on the Python vault, one step per dictionary access | |
| `PyGatewayProofs` | | theorems about `PyGateway` |
| `FederatedVault` | nodes and deltas in flight | composes with `LwwStore` |
| `LwwStore` | *abstract*: last-writer-wins replicas | what the mesh promises |
| `FederatedVaultProofs` | | theorems about `FederatedVault` |
| `MpcSession` | members with a session each, and every message of a computation | |
| `MpcSessionProofs` | | theorems about `MpcSession` |
| `Tee` | the life cycle of an SGX enclave and a TrustZone session | shared by the next two |
| `Sealing` | sealing and unsealing, sealed storage, its cache, platform changes, restarts | extends `Tee` |
| `Attestation` | evidence, the verifiers, the attestation service, batches, the clock | extends `Tee` |
| `KeyAnchors` | anchor registry, decentralized PKI, simulated contract | |
| `KeyLifecycle` | revocation list, rotation manager | |
| `AuditLog` | hash chain, compliance rules, edits and losses of the stored log | |
| `TrustProofs` | | theorems about `KeyAnchors`, `KeyLifecycle`, `AuditLog`, `Attestation` and `Sealing` |
| `Vectors` | `retain` of Rust's vectors, as a fold | used by the next two, `RustGateway`, `Qkd` and `DidDocument` |
| `KeyCache` | the derived-key cache | |
| `HttpServer` | serving threads, rate limiter, audit list | in front of `PyGateway` |
| `FileVault` | instances of the encrypted file vault, and its files | |
| `Shamir` | `shamir-split`, `shamir-join` and the field arithmetic under them | |
| `ShamirProofs` | | theorems about `Shamir` |
| `ShareRefresh` | epochs, refreshes and re-sharing plans | |
| `RustGateway` | threads on the crate's MCP server and its in-memory vault | |
| `Qkd` | one run of the key-distribution simulator | |
| `DidDocument` | a DID document through its methods and through JSON | |
| `LibraryProofs` | | theorems about `KeyCache`, `HttpServer`, `FileVault`, `ShareRefresh`, `RustGateway`, `Qkd`, `DidDocument` |
| `MC*` | bounds, symmetries and reduced next-state relations for TLC | |

`MCTee`, `MCRegistries` and `MCLibraries` instantiate several components that share no
state. A variable `part`, chosen in `Init` and never changed, says which component a
behaviour exercises; the others stay in their initial state, so the states to
explore are the sum of the components' states, not their product, and nothing is lost,
because no property relates two of them.

### PersistentVault

A process is one invocation. `InitKey`, `Encrypt`, `Decrypt`, `DeleteKey` and `MldsaInit`
(the actions named for the commands) load the file through `Load` and change the
process's own copy in one step, because until the save nothing of that is visible to
others; the two steps that are, truncating the file and writing it, are `Truncate` and
`Write`. `Reload` is the import loop of `get_vault`, whose `import_key` replaces an
entry that exists; `Push` is `generate_keypair`, which does not. A file holds one blob,
which opens under the passphrase that sealed it; a blob cut short opens under none.
`Faults` chooses what may go wrong: a process may die between any two steps
(`Crash`), creating the file may fail (`CreateFails`), a write may come out short
(`ShortWrite`), and `clear-cache` may unlink a file another process has open
(`OrphanWrite`). The error of `fs::write` is dropped by the code, so a failed write
still ends in success. `owner`, `acked` and `refused` are history: for whom a secret
was generated, which keys were reported saved, and with which of those a decryption
failed.

Left out: `mldsa-sign`, `mldsa-verify`, `list-keys` and `info` (they read and print), `mcp-server`, which is
`RustGateway`, the watchdog of `decrypt` (it only ends the process), and
an `fs::write` that fails before its first byte. `clear-cache` removes the directory in one step, and finds
a home directory.

### GoVault

Every method of `Vault`. A section under `v.mu.Lock` is one action, enabled only when no
goroutine is inside `Decrypt`. `Encrypt` is `Encrypt` (checks, then either seals or
lets the lock go), `AutoGenerate` and `EncryptRelocked`; `RotateKey` is three sections.
`Decrypt` holds the read lock while it increments a counter and appends to the audit
log, so two of them race: `DecryptCounts` and `DecryptLogs` read and write separately,
and an update may be lost. `EncryptRelocked` dereferences a key pair that may have been
removed in between: the model then sets `panicked` and stops. The new id of `RotateKey`
depends on the clock's second: `NewIds` lists what it may be, and that a very long id
gives none. `Invoke` is a call, `Continue` any section of one: the fairness assumption
is about the latter.

Not modelled: a slice header torn between its words when two decryptions append, and a failing
`rand.Read`. When `AutoGenerate` finds that no key could be made, `Encrypt` takes the lock a second time only to
give it up in its deferred call, and changes nothing under it; that section is part of the step.

### PyGateway

`McpHttpServer.start(blocking=True)` runs `serve_forever` in a daemon thread and in the
main thread, so two requests run at once, and nothing locks the vault. A thread's
`todo` is the list of steps its request has left, and a step is one read or write of
what the threads share; a membership test and the access it guards are one step. The
actions named for the MCP methods (`GenerateKey`, `Encrypt`, `RotateKey`, ...) load the
list; those named for the accesses (`NewPair`, `NewSecret`, `Seal`, `LogLink`, `LogAppend`,
...) take steps from it. An exception drops what is left up to the entry `handle`
itself logs. A log entry is the number of entries before the one whose hash it carries.
`raced` records the ids (or the log) that two threads were changing at once.
`Configure` is the embedding program's call of `register_key` with a usage limit.

Two pairs of accesses are one step each: the two writes of `fips_mode`, because what reads them in `store` and
`retrieve` reads their conjunction, and the removal of a secret with the test before it, so that the `KeyError` of a second
deletion of the id in between is left out.

Left out: age limits, which nothing the server calls sets; the HTTP layer, which is
`HttpServer`; the branches that log a breach when a
canary is used, which no request can reach because `validate_key_id` refuses ids that
start with two underscores.

### FederatedVault

`put`, `delete`, `export_delta`, `apply_delta` of each node. The exchange of deltas is
the caller's, so `deltas` only grows and any node may apply any delta at any time or
never: late, repeated, reordered and lost deliveries need no actions of their own.
The wall clock is any value at every tick. `seen` is history.

### KeyCache

`get_or_derive` is four actions by outcome (`InvalidLength`, `Hit`, `Panic`, `Miss`),
beside `invalidate` and `clear`. A cache key holds the password's own bytes; the
derivation works on its lossy UTF-8 text, so two passwords may share derived bytes
(`Lossy`). An output length over 32 panics in the slice, and a salt Argon2 refuses
panics in `derive_key`. The queue drops a key by `VecDeque::retain`, which `Vectors` gives as
`retain`, a left fold that keeps the elements outside a set; so do the other modules that
remove from the middle of a list.

### MpcSession

Each member keeps an `MpcSession`; the transport between parties, members and
coordinator is the caller's. `Messages` is every commitment, reveal and uncommitted share
the parties ever send, and delivering one is a call of `submit_commit`,
`submit_reveal` or `submit_share` at any member, at any time, any number of times or never.
`Enter` is `ensure_round` followed by `register_nonce`: from there on a message has spent its
nonce even when it is refused, which is why those three actions and `apply_aggregate`
have an outcome that changes nothing else. `Aggregate` is a member acting as coordinator
(`finalize_digest`, `AggregateMessage::new`); the aggregate keeps, as history, the
shares it was made from. `effects` counts the messages of each nonce that took effect.
SHA-256 is taken to be injective. The digest hashes party ids and shares one after
the other without their lengths, as `Bytes` does, so ids and shares of varying length can
collide; `BytesAssumption` names the requirement that the ids and shares in use do not,
and only `AgreedHeld` rests on it.

### Tee, Sealing, Attestation

`Tee` is the gate every call passes: `Enclave::new` works in a simulator build only, and
every TrustZone session has number 1. `Sealing` keeps what callers persist (`blobs`), the cache
of `SealedStorage` and the platform's current registers; `UpdatePcr` leaves the cache as
the code does, `Restart` leaves only the blobs. The enclave's own `seal_data` and
`unseal_data` are the placeholders they are in the code: `EnclaveUnseals` answers every blob,
whoever sealed it and on whatever platform, with zeros. Every blob may be handed to every
environment, and `tried` keeps each answer, refusals included, with the platform it was given
on. The policy an enclave is given is kept with its blob as history; the code drops it.

In `Attestation` a platform stamps evidence with a clock that may be ahead of the verifier's
by up to `MaxLead`, and the caller of `build_simulated_report` gives any stamp up to there (the code
takes any `u64`; one further ahead is as fresh for longer, and the bound of `AcceptedRecent` is relative to the lead).
The verifier's clock does not go back, which `SystemTime` may. Evidence arrives once and may be verified any number of times later,
alone (`VerifyOne`) or as an item of a batch (`BatchItem`), whose items each read the
clock. `Verify` is the way through the two verifiers and `enforce_policy`, in the order
of their checks, with the first reason that applies. `refused` and `last` are history.

Left out: `generate_keypair` and `sign` of the enclave and the mock interface, which keep no
state, and `verify_quote_strict`, which nothing calls.

### KeyAnchors, KeyLifecycle, AuditLog

`KeyAnchors`: an anchor's id is the hash of its key, so keys stand for both. The PKI and the
contract own a registry each. `register_key` writes two maps, the registry first;
`OneKeyOneEntity` is about that order and its early returns.

`KeyLifecycle`: `RevocationList` with its list, index and signature, and `KeyRotationManager`
with counters, times and limits, 0 meaning none. Time only passes, although `SystemTime` may be set back.

`AuditLog`: strings are sequences of letters, because `compute_entry_hash` joins them without
separators, and leaves out index and severity. `Edit` and `Lose` are what may happen to the
stored log before it is verified; appending goes on afterwards. The rules of
`compliance.rs` are operators on the log, with the run that ends with the log
handled apart from the others, as in the code.

### HttpServer, FileVault

`HttpServer`: a thread's request goes through `Receive` (which reads the clock), the section under
the limiter's lock, the key check, `ReadEntry` and `AppendEntry` of the audit list,
and `Respond`; `NextSecond` may come between any two of them. What the request does to
the vault is `PyGateway`.

`FileVault`: instances share `keys.enc` and the canary file; each draws its salt the first
time it saves or loads. `save` truncates and `WriteBytes` writes, with other instances,
a failure or a death (`Die`) in between. `Migrate` and `Unlink` are
`migrate_plaintext_vault`, which may be repeated; its own save truncates and writes in one step unless the
write fails. `log_audit`, which nothing reads back, is left out.

### Shamir, ShareRefresh

`Shamir` follows one sharing from `shamir-split` to `shamir-join`. The field is that of `P`
elements, the arithmetic that of the code (`evaluate` with a running power, `reconstruct` by
Lagrange interpolation in 16 bits, `gf_inv` by the squaring loop for Fermat's exponent, a
recursive function on its three variables), and its coefficients
are never zero, as in the code. `ThresholdScheme` compares it with the definition of a
threshold scheme: the secrets some polynomial agrees with. `decode_shares` admits any
index and any data; what `split` did not deal is `Stray`, and joining it (`JoinStray`) may be refused, panic or give
any byte. A secret is one byte, so the empty secret, of which repeated shares do not panic, is outside.

`ShareRefresh`: a share is an original share with a set of masks, each a hash of seed,
participant, position and epoch, XORed onto it; the hash, which the code cuts to the length of the share,
is taken to be injective. A plan may be adopted or dropped, and one that fails
has advanced the epoch.

### RustGateway, Qkd, DidDocument

`RustGateway`: `handle` takes `&self`, so threads share it. A key is made before the lock
(`GenerateKey`, then `PushKey`) and data is encrypted after it (`PickKey`, then
`Seal`). A nonce of the wrong length panics under the lock and poisons it, and `Decrypt` answers every request from
then on with a panic, as `LockPanics` does for the other methods. Each answer to a `decrypt` of something `encrypt` returned is kept until the
thread's next request (`due`), so that `SealedOpens` speaks of answers. A panic ends one request, as in a debug
build or an embedding program that unwinds; the crate's release profile aborts at the first one (`Cargo.toml:72`).

`Qkd`: one run of the simulator, qubit by qubit, over an entropy source that may end at any
draw; the shuffle is that of the code, swap by swap.

`DidDocument`: methods, the three lists that refer to them, and the trip through JSON, which
fails when a list is empty. `added` is history: with which key and for which relationships an id was last added.

## Runs

| Run | Instance | Checks | Shows |
|---|---|---|---|
| `pv_faulty` | 2 processes, 1 id, 2 passphrases, 3 secrets, all faults | `SealedUnderOwner`, `DuplicatesCollapse` | no interleaving, crash or short write seals a secret for another owner or stores more than two entries of an id |
| `pv_sequential` | 1 process, 2 ids, 1 passphrase, 4 secrets | `KemKeysKept`, `NothingRefused`, `StoreImplemented` | without overlap and faults the command line is the atomic map of `KeyStore` |
| `pv_lost_save` | 2 overlapping `encrypt` commands, no fault | `KemKeysKept` **violated** | a key reported saved is erased by the later save |
| `go_vault` | 2 goroutines, 2 ids, 4 calls, fair | `AuditReplays`, `RevocationHolds`, `EveryCallReturns` | the log replays to the vault's state; a call after a revocation has no effect; no call waits for ever |
| `go_revoked_encrypt` | 2 goroutines that encrypt and revoke, 2 calls | `RevokedNeverEncrypts` **violated** | `Encrypt` seals with a key revoked between its sections |
| `py_gateway` | 2 handlers, 1 id, 1 canary, 4 secrets, limit 1, 3 requests | `ChainIntact`, `PairsMatch`, `RotatedKeysGone`, `NoFalseBreach`, `LimitRotates` | the chain and the key pairs break only by the named races; rotation and limits hold otherwise |
| `py_audit_race` | 2 handlers, 2 requests | `UntouchedLogVerifies` **violated** | two handlers that log at once make `verify_integrity` report tampering |
| `federated` | 3 nodes, 1 key, clocks up to 3, 3 records | `ReplicaLatest`, `Agree`, `StoreImplemented` | replicas agree whatever the order; the mesh implements `LwwStore` |
| `mpc_session` | 2 members, 2 parties, 2 shares, threshold 2, 2 rounds, 3 nonces, 7 messages, 2 aggregates | `SharesCommitted`, `AgreedHeld`, `NoReplay`, `EarlyNotSpent` | whatever the transport does, counted shares are committed to or sent as they are, accepted aggregates stay held, no nonce takes effect twice, early messages are not burnt |
| `attestation` | 3 registers, 3 platform states, 3 policies, 2 blobs, 2 answers; 3 routing policies, times 0 to 2, lead 1, 2 pieces of evidence, batches of 2 | `StorageAnswersByPolicy`, `SealedComesBack`, `AcceptedRecent`, `RefusedForGood`, `BatchAnswersAll` | the storage answers a blob by the registers its policy binds and nothing else, an owner's bytes come back only from the environment that sealed them; nothing too old is accepted, a refusal is final, a batch answers every item |
| `registries` | 3 keys, 2 owners, 2 times, height 3; 2 ids, limits 0 and 1, 3 revocations; 3 log entries of 7 kinds, 2 faults | `OneKeyOneEntity`, `NeverRevived`, `SameHeightSameAnswer`, `LatestRevocationFound`, `DueUntilRegistered`, `FirstBreakFound`, `EveryLongRunFlagged` | key anchors, revocation, rotation and the audit log keep what they promise under every sequence of calls and faults |
| `libraries` | cache: 3 passwords, 2 salts, 5 lengths, capacity 3; HTTP: 2 threads, 1 client, limit 1, window 2, 5 seconds, 4 posts; files: 2 instances, 2 stores, 2 salts; Shamir: field of 7, up to 5 shares, 4 given back; refresh: 2 participants, 3 steps, last epoch 3; gateway: 2 threads, 2 ids, 3 keys; QKD: 4 qubits; DID: 3 ids, 3 methods | `CacheSound`, `RateLimited`, `LoadsLastSave`, `ThresholdScheme`, `PlanSharesNew`, `SealedOpens`, `KeyNotSampled`, `ReferencesResolve` | eight smaller components, each under every sequence of calls or interleaving of its threads |

All runs but `attestation` say `CHECK_DEADLOCK FALSE`: bounded secrets, calls, stamps and
steps run out, a panicked program stops, and a sharing or a key-distribution run ends.

### Bounds, and why they are enough

- *Processes and threads.* Two: every hazard listed is one actor acting between two
  steps of another. The Python server has exactly two threads. For the key file
  the proofs cover any number.
- *Ids and passphrases.* One id is enough where the property is about each id on its
  own and the code never relates two; `pv_sequential` and `go_vault` have two, because a
  save writes all ids and a rotation makes one id from another. Two passphrases make a
  save with the wrong one possible.
- *Secrets* bound how many keys are generated: three let a key be replaced and the
  replacement be replaced; `pv_sequential` has four for a second id.
- *Calls* (`MaxCalls`): two overlapping requests and one after them; `py_gateway` was
  also run once with four calls (4.3 million states), and the safety properties of `go_vault`
  with five, with the same result.
- *Mesh.* Three nodes are the fewest with a record that reaches a node by two ways;
  three records cover a write, a concurrent one and one that supersedes
  (`FewWrites`). `MaxClock` 3 lets clocks agree, fall behind and jump. The proofs
  cover any mesh.
- *MPC.* Two members can hold different shares of one party and exchange aggregates; the
  seven messages include a reveal of something not committed to, one nonce in three
  messages, a second commitment in round 2 and two uncommitted shares of one party. Two
  aggregates (`FewAggregates`) are one that is accepted and one that is not. The proofs
  cover any members, parties and messages.
- *Enclaves.* A policy binds both, the first or the second of two registers, and the
  platform states differ in one or both; two blobs under two policies, and two answers
  (`MaxTries`), because `StorageAnswersByPolicy` compares two. The
  limits 0 and 1 with a lead of 1 make evidence that is fresh, just in time and too late,
  by the provider's limit or by the service's, on a clock of three ticks. The
  proofs cover any limits, leads and policies for attestation.
- *Registries.* Three keys and two owners let an owner come back with a second and a third
  key and both ask for one. Three log entries hold a run in the
  middle, a run at the end and a closed run; two entries of the seven kinds run together to one text.
- *Cache.* Capacity 3 is below the number of distinct cache keys, so evictions happen at
  every position of the queue, and an invalidation can hit its middle. The lengths are
  0 and 65 (refused), 33 (panics), 32 and 16.
- *HTTP.* With a limit of 1 and a window of 2 seconds, 5 seconds hold two windows that do not
  overlap; four posts are one admitted, one refused, and one late one of each thread.
- *Files.* Two instances, one of which may die and come back with another salt; two salts and the one of
  a migration compete for them (`MaxSaves`).
- *Shares.* The field of 7 elements has room for 5 shares and for two limits that differ
  (`CliMaxShares`, `MaxShares`), as 255 and 250 do in the code; thresholds 2 and 3 are the
  first two allowed. In the refresh, the last epoch is within reach of the three
  steps, where the counter sticks.
- *Simulator.* Four qubits give samples of 0, 1 and 2 of up to 4 sifted bits; the accepted rates
  include 0, 1/2, 1 and one above 1, which never aborts.

### Fairness

Only `GoVault` assumes fairness: `FairSpec` is strong fairness of each goroutine's `Continue`, on
no call in particular and not of `Invoke`, so callers may stop calling. The Go
scheduler runs every runnable goroutine, and `sync.RWMutex` admits no new reader while
a writer waits and hands the lock to waiting readers when a writer leaves, so a section that is possible again and
again is entered. `EveryCallReturns` then says that a call cannot wait for ever: it
would if `Encrypt` or `RotateKey` called `GenerateKeypair` with the lock held. The nil
dereference of `EncryptRelocked` stops the program, and is the one exception.

Nothing else claims liveness: a command line invocation may die, a handler may never be
scheduled again, and deltas are exchanged by code outside the repository, and so are
the messages of a computation: an MPC session that missed its only copy of a reveal, or
spent its nonce on it, never finishes. The libraries are called by others, one call
at a time.

## Proofs

The eight `...Proofs` modules are checked by TLAPS from the named assumptions of the modules
they extend, for every value of the constants.

**PersistentVault.** `TypeCorrect`, `SealedUnderOwnerHolds`, `DuplicatesCollapseHolds`
hold for any number of invocations, ids, passphrases and secrets, and any set of faults,
from `NoSecretAssumption`, `SeallessAssumption`, `KeyIdsAssumption` (finitely many ids:
the length of a blob counts its keys) and `FaultsAssumption`. Neither invariant is
inductive: that the file holds only its owner's secrets says nothing of the copies that
processes are about to write. `IInv` adds that every process's copy, under its own
command's file and passphrase, is as good as the file must be (`AllGood`: typed,
sealed for its owner, at most two entries of an id) and that a command in flight is a
command (`CommandOK`). `AllGood` then needs to know what loading returns: `ReloadGood` and
`LoadGood` show that the import leaves at most one entry of an id, `PushGood` that one
more makes at most two, which is why the file does not grow.

`KemKeysKeptHolds`, `NothingRefusedHolds` and `StoreImplementedHolds` have the hypothesis
`Sequential`: one process, one passphrase, no faults, and any ids and secrets. It is what the code
needs and no more than that: with a second process `pv_lost_save` refutes the first of them. The
invariant is `Alone`: the process's copy shows, under every id but its command's, what the file
shows, and under that one the secret it is about (`Carries`); what the user relies on is what the
file, or the copy about to replace it, shows (`Relied`); a file is missing only while it is being
replaced (`Saving`); and nothing was refused. For the refinement, a command takes
effect at `Truncate`: from there on nobody but the process can show the
file, and `Write` is a stutter.

**FederatedVault.** `TypeCorrect`, `ReplicaLatestHolds`, `AgreeHolds` and `Implementation`
(the mesh refines `LwwStore`) from `NodesAssumption` (node ids are ordered),
`NothingAssumption` and `MaxClockAssumption`. `ReplicaLatest` is not inductive, since a new
write must beat a record nobody is known to be ahead of: `Stamped` says that a node's
clock has passed every record it was given *and every record of its own that anybody
was given*; with it a fresh stamp is new to the whole mesh (`FreshStamp`), hence a stamp
names one record (`Unique`), hence the latest of a set of records is one record
(`Agree`). `Exported` carries this through deltas in flight.

**MpcSession.** `TypeCorrect`, `SharesCommittedHolds`, `AgreedHeldHolds`, `NoReplayHolds` and
`EarlyNotSpentHolds`, from `PolicyAssumption` (what `MpcPolicy::new` lets through),
`NoneAssumption`, `MessagesAssumption` and, for `AgreedHeld`, `BytesAssumption`. Two parts of `IInv`
are not properties of the runs: `Honest`, that an aggregate carries the digest of the
shares it was made from, without which equal digests would say nothing about those
shares; and `Spent`, that a nonce which has taken effect is spent, without which
`NoReplay` is not inductive.

**KeyAnchors.** `AnchorTypeCorrect`, `OneKeyOneEntityHolds`, `NeverRevivedHolds` and
`SameHeightSameAnswerHolds` hold for any keys, entities, times and heights, from `EmptyAssumption`,
`TimesAssumption` and `HeightAssumption`. `OneKeyOneEntity` is inductive with the types: a
registration is refused for a bound entity before its key is anchored, and for an anchored
key always. `NeverRevived` rests on it: a binding that expired or was revoked is
never replaced, so nothing it resolves through can change but from valid to revoked.

**AuditLog.** `FirstBreakFoundHolds` and `EveryLongRunFlaggedHolds`, from `RulesAssumption`, for any events and
faults. What neither an append nor an edit nor a loss changes is `HashesStand`: the hash
an entry is stored under is that of what was appended and of the hash it was appended
after. Recomputing it then fails exactly at the entries that say something else or stand elsewhere.
`RemovedAt` says what losing an entry makes of a sequence. The rule about failures is a fold over the
log; `Seen` says what it holds after m entries: the closed runs up to where the open one
began, each flagged once, and the open one itself. `RunCloses` is the
argument that matters: between the beginning of the open run and m no other long run ends.

**Shamir.** `ThresholdSchemeHolds` and `JoinFits`, from `PrimeAssumption`, `ShareBoundAssumption` and
`ArgsAssumption` (what the command line parses are numbers). The invariant of the commands, `ShamirIInv`, is
short: the shares at hand are values, at points other than 0, of the polynomial drawn (`Shared`), and what was
printed was computed from them. The work is the algebra under it, done for sums and products of
any length, by least counterexamples over numbers and over subsets (`NumberInduction`, `SubsetInduction`):

- *Loops.* `reconstruct` visits its shares one after the other. `Over` is what such a loop ends with; it does not
  depend on the order (`OverTakes`), so sums and products are split, scaled and renamed like in algebra
  (`SumTake`, `SumBoth`, `SumScaled`, `ProductNamed`).
- *Field.* A product of two numbers from 1 to P - 1 is not 0 modulo the prime (`NoZeroDivisors`: the least one
  that it is 0 for would leave a smaller remainder), so multiplying by one of them permutes them, `a^(P-1) = 1` (`Fermat`), and the loop of
  `gf_inv`, which keeps `result * base^exp` (`Turn`), inverts (`InverseIs`).
- *Recovery.* `Divided` is the divided difference of `x^m` over a set of points. For `x^(m+1)` it follows from those for
  `x^m` over the set and over the set less a point (`DividedStep`), so it is 0 when there are more than m + 1
  points (`DividedPower`). Over the points of the shares
  and 0, the term of the point 0 is the value there and the others are the code's coefficients, hence `Lagrange`:
  they interpolate `x^m` at 0 to `0^m`. By linearity what `evaluate` computes (`EvaluateIs`) is interpolated to
  its first coefficient, the secret (`Recovery`). A repeated share makes a denominator 0, so the command panics
  (`InvertsDistinct`).
- *Secrecy.* For t - 1 shares there are coefficients of a polynomial that is 1 at 0 and 0 at their points
  (`VanishingExists`, one factor for each share). Adding its multiples to the polynomial drawn gives one for
  every other secret that these shares cannot tell apart (`OtherIs`). `split` draws it unless one of its
  coefficients is 0, which happens for at most one secret each (`OtherZero`): hence the bound of `Secrecy`, and
  why it is not all of the field.
- *Widths.* `JoinFits`: while the shares joined are ones that were dealt (`Genuine`), what the loops of `reconstruct`
  compute before each remainder, `PRIME - xj` included, fits `u16`, and what goes to `gf_inv` fits
  `u8` (`LoopFits`, `TermsFit`). For an index above `P` the first of them is false, which is why `JoinStray` is
  a step of its own.

**Attestation.** `AttIInvHolds`, `AcceptedRecentHolds`, `RefusedForGoodHolds` and `BatchAnswersAllHolds`, from the
assumptions on ages, lead, routing and batches. None of the properties is inductive: what is accepted now is
recent because its stamp lies within `MaxLead` of the time it was made (`Stamped`), and
stays out of `refused` because a refusal at one time is a refusal at every later time
(`RefusalsLast`, from `AgeGrows`: ages do not shrink). `LastVerified` ties the last verdict to
the time it was given, and `BatchFed` says that the items of a batch are evidence in
circulation, which the first two parts speak of.

**Sealing.** `SealIInvHolds`, `StorageAnswersByPolicyHolds` and `SealedComesBackHolds`, from `AnswersAssumption` (a
refusal and the placeholder are no owner's data), for any registers, platform states, policies and data. `Kept` says that
every blob ever persisted holds its owner's bytes unless the enclave sealed it; `CacheKept`, that the cache
repeats what persistent storage has; `Attempted`, that every answer so far is a function of the environment, the
blob and the platform of its moment alone, and not of the cache, the restarts or the answers before it. Two answers to one blob
on platforms that agree on the bound registers are then the same.

**GoVault.** `IInvHolds`, `RevocationHoldsHolds` and `AuditReplaysHolds`, from `NoneAssumption`, `BoundAssumption` and
`NewIdsAssumption`. What a step does to
a call made after the revocation of its id depends on two facts: the id is still revoked
(`StillRevoked`: nothing leaves the list, `RemoveKeypair` included) and the call has not got
past its first section, where the check is (`AtTheDoor`). Each section then either refuses,
and returns without a change, or belongs to a call that was made before.

`AuditReplays` is about a log two decryptions may race on: one stores a log it read before
the other's entry. Its invariant `LogInv` therefore speaks of every log that some
goroutine is about to store, and says that they are `Alike`: they differ in entries of decryptions only,
which replay to nothing. `ReplayAppend` is the step of the fold that replays.

**PyGateway.** `FormedHolds`, `ChainIntactHolds`, `PairsMatchHolds`, `RotatedKeysGoneHolds`, `LimitRotatesHolds` and
`NoFalseBreachHolds`, for any handlers, ids, canaries, secrets and limits, from `NoneAssumption`,
`IdsAssumption` and `LimitAssumption`. What another thread still has to do is what makes a state good or bad, so
`Formed` comes first: what is left of a request in a thread's `todo` is a piece of the plan it was made
with, in which the writes of an id stand in a known order. Every step is then quiet,
one of five writes, or idle (`StepKinds`), and each property has an invariant on how far the
writes of an id have got (`Chained`, `Guarded`, `Halfway`, `Retiring`, `Limited`), kept by each kind.

**KeyLifecycle.** `LifeIInvHolds`, `LatestRevocationFoundHolds` and `DueUntilRegisteredHolds`, from
`LifecycleAssumption`. A lookup goes through the index, so `Indexed` relates the index to the list: it
names the last entry of its key, and every entry's key is in it; `verify_integrity`, that the list's
digest is current, is part of `IInv`. That a due key stays due rests on `DueGrows` (use and time
only bring a limit nearer), from which `StillDue`: after any step it is due, or was registered in it.

**FileVault.** `FileIInvHolds` and `LoadsLastSaveHolds`, from `NobodyAssumption`. The property says what a load gives;
the invariant says what the file is: a file that is whole holds the keys of the last completed save, under
its writer's salt while the writer lives (`LastSaved`), and an instance in the middle of
a save has drawn its salt (`Salted`), so the save cannot end under another.

**Vectors.** `RetainEmbeds` says of every sequence what `retain` makes of it: its elements are
embedded in the order they had, and they are those outside the set. From it `RetainKeeps` (the
elements, and that none is repeated that was not) and `AmongRetained` (counts). The induction over
the sequence is one over its length, by a least counterexample (`LeastNumber`, from the well-foundedness of `<`);
the folds of `GoVault` and `AuditLog` are reasoned about in the same way.

**KeyCache.** `CacheSoundHolds`, from `SaltsAssumption`, `LengthsAssumption` and `CapacityAssumption`. `Aligned`: the queue
lists the keys of the map, each once, so its length counts them; `Fresh`: an entry is what its key
derives, passwords that share their text included. An eviction takes one key from both
(`OldestEvicted`) whatever invalidations took from the middle before.

**HttpServer.** `RateLimitedHolds`, from `LimiterAssumption` (finitely many threads). That a window
admits its limit and one late request per thread more is not inductive: the stamps that bear witness to
admissions are pruned. While the window lasts, `WithinLimit` counts its admissions by the stamps
in it, none of which is pruned yet, and the threads that are not `Late`. A late thread read the clock before the
window: its admission leaves no stamp in the window, but its next request reads the clock anew.
`Stamped` says conversely that every stamp is that of an admission, from which a refusal
is justified.

**ShareRefresh.** `PlanSharesNewHolds`, from `EpochAssumption` and `ShareAssumption`. Every mask that was ever applied
carries an earlier epoch (`EpochInv`), an epoch advances before anything can fail, so the masks of a plan are on no share
before it (`MaskedOnce`), and the shares of one plan differ in their positions.

**RustGateway.** `SealedOpensHolds`, for any threads, ids and number of keys. Under it lies `SealedKeyKept`, which is
inductive with the types:
the key a thread picked is the first of its id, pushing leaves an id that has one its first
(`PushFirst`), and deleting leaves it to every other id (`DeleteFirst`). `GatewayAnswers` adds what was answered: a decrypt finds
that key and says the plaintext or the time limit (`DecryptAnswers`), and the lock is poisoned only if a nonce of the wrong
length was presented.

**Qkd.** `KeyNotSampledHolds`, from `QkdAssumption`. The shuffle permutes the indices (`Permuted`), so its prefix is a sample
without repetitions and `retain` keeps exactly the rest; both parties have sifted the same
rounds (`SiftedTogether`).

**DidDocument.** `ReferencesResolveHolds`, from `RelationsAssumption`. `MethodsKnown` and `ListsKnown` relate the document to
what was added: methods with their keys, and in every list as many references as were asked
for. `ReferencedCounts` is what an addition does to a list, `AmongRetained` what a removal does.

Only model-checked:

- `EveryCallReturns`: liveness under fairness is out of the provers' reach, and so is `ENABLED`;
- the three properties that their runs refute.

## Findings

Runs that exhibit one:

- `pv_lost_save`: two overlapping `encrypt` commands both report success, and one key is
  gone (`src/persistent_vault.rs:146`).
- `go_revoked_encrypt`: `Encrypt` does not check the revocation list again after it gave
  the lock up (`sdk/go/abirguard.go:157`).
- `py_audit_race`: the audit chain breaks when two handlers log at once
  (`abir_guard/__init__.py:101`).

Met while reading, and modelled as the code has them where a module covers the code:

- *Vaults.* `Encrypt` of the Go SDK panics when the key is removed between its sections.
  `mldsa-init` erases the ML-DSA keys stored before. A nonce of the wrong length panics under the lock
  of the Rust vault and poisons it for good, and so does a `decrypt` without a nonce, the form the README documents. The Rust gateway's `generate_key` returns the
  secret key as part of its "public_key". Canaries are unreachable through the Python API and
  so never signal a use; FIPS mode skips the audit entry and the usage count. The README lists an
  audit chain in `src/persistent_vault.rs`, which has none. `src/zero_copy.rs` evicts an arbitrary
  entry, not the oldest.
- *Files and server.* `crypto_store.py` cannot load what another instance saved; its migration saves under a salt nobody
  keeps, deletes the plaintext file and reports success; `check_canary` reports a breach when a file
  saved before the canary is loaded. The rate limiter may admit one late request
  per thread beyond its limit.
- *Cache.* It panics for lengths 33 to 64 and for short salts although its comment promises
  an error, and is first-in first-out although the README calls it LRU.
- *MPC.* `advance_round` keeps the commitments of the round before, so nobody can commit
  twice; `register_party` never looks at the policy.
- *Enclaves.* `generate_keypair` returns the secret key; `unseal_data` of the enclave answers every blob with zeros and
  reads no policy; `verify_offline` accepts everything; security advisories, the Intel signature flag and the
  CPU list are never consulted; a TrustZone session's own attestation never passes the
  verifier; every session has the same number.
- *Audit.* The chain covers neither severity nor index.
- *Sharing.* `split` panics on bytes above 250 and above 250 shares, which the command
  accepts; `reconstruct` computes below zero for an index above 251, which `decode_shares` admits; a refresh changes the secret the shares recover; the share MAC joins its inputs without lengths.
- *QKD and DID.* `next_unit_f64` may return 1.0; a document with an empty list cannot be read
  back from its own JSON.

## Not modelled, and why

- Cryptography itself: a ciphertext is what it was made with and opens only with that.
- Timing, memory and process protections (`entropy_inject.rs`, watchdogs as clocks,
  zeroisation): nothing a state machine tells apart. A watchdog that ends an operation
  half-way is a crash.
- Wrappers over devices, clouds and libraries outside the repository; encodings (JWK,
  TLS settings); sampling (differential privacy, benchmarks).
- Second implementations of something modelled, which change no state of it: the JavaScript
  SDK, `abir_guard/revocation.py`, `multi_agent_key_sharing.py`, `qkd_network.py`.
- Objects one caller fills and reads, a lookup per call, that no vault or server uses:
  `rbac.py`, `compliance.py`, `telemetry.py`; `hsm_cluster.py`, which chooses among devices
  whose health is not its own; `zero_copy.rs`, two maps behind a mutex each.
- Pure functions over library signatures: `batch_ops.rs`, `ml_dsa.rs`.

## Plan

Written in this order, the most exposed first: `PersistentVault` over `KeyStore`, `GoVault`,
`FederatedVault` over `LwwStore`, `KeyCache`, `PyGateway`, `MpcSession`, `Tee` with `Sealing` and
`Attestation`, `KeyAnchors`, `KeyLifecycle`, `AuditLog`, then the libraries. Next:

- `HttpServer` composed with `PyGateway`, so that a refusal of the limiter and a step of the
  vault are one behaviour;
- enclaves of other vendors when the crate gets verifiers for them.
