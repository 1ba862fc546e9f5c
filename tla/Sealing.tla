------------------------------- MODULE Sealing -------------------------------
(***************************************************************************)
(* Sealing to a platform: the enclave's seal_data and unseal_data          *)
(* (sgx/mod.rs), the TrustZone commands SealData and UnsealData            *)
(* (trustzone/mod.rs, interface.rs), and the SealedStorage of              *)
(* sgx/sealed_storage.rs with its cache and its PCR policies.              *)
(*                                                                         *)
(* Sealed blobs are returned to the caller, who persists them: `blobs` is  *)
(* what persistent storage holds and outlives enclaves, sessions and       *)
(* storage managers.  Any environment may be handed any of them; `tried`   *)
(* records each attempt to unseal with its answer, refusals included.      *)
(***************************************************************************)
EXTENDS Tee

CONSTANTS
    Registers,    \* the PCRs a policy can bind: pcr0, pcr1, pcr2
    Platforms,    \* the PCR values the platform may show
    Policies,     \* the policies data is sealed under
    Ids, Data,
    Zeros,        \* the enclave's placeholder for every byte string
    Unchecked,    \* None in a PcrPolicy: the register is not checked
    Refused,      \* the answer of an unsealing that returns an error
    MaxBlobs,     \* bound: blobs that persistent storage holds
    MaxTries      \* bound: unsealings attempted that differ

ASSUME PlatformsAssumption ==
    \A pcr \in Platforms : DOMAIN pcr = Registers /\ \A r \in Registers : pcr[r] # Unchecked
ASSUME PoliciesAssumption == \A p \in Policies : DOMAIN p = Registers
ASSUME AnswersAssumption == Refused \notin Data \cup {Zeros} /\ Zeros \notin Data

VARIABLES
    current_pcr,  \* what the platform shows, which SealedStorage is told
    cache,        \* from key ids to blobs
    blobs,        \* what persistent storage holds
    tried         \* history: every attempt to unseal, on which platform, and its answer

sealVars == <<current_pcr, cache, blobs, tried>>

\* PcrPolicy::any
any == [r \in Registers |-> Unchecked]

\* A blob carries `data`; `of` and `policy` are what its owner gave to be sealed and
\* the policy he gave with it, of which an "enclave" blob, the byte string of
\* Enclave::seal_data, carries neither.  A SealedData is tagged with the TEE it
\* belongs to; "storage" blobs are the SealedDataBlobs of the storage.
Blob == [by : {"enclave", "storage"} \cup TeeType, of : Data, data : Data \cup {Zeros},
         policy : Policies \cup {any}]

\* SealedData::new
SealedData(tee, d) == [by |-> tee, of |-> d, data |-> d, policy |-> any]
\* SealedDataBlob::new
SealedDataBlob(d, policy) == [by |-> "storage", of |-> d, data |-> d, policy |-> policy]

\* PcrValues::matches_policy
Mutant_FirstRegisterOnly(pcr, policy) ==
    \A r \in {CHOOSE q \in Registers : TRUE} : policy[r] \in {Unchecked, pcr[r]}
matches_policy(pcr, policy) == \A r \in Registers : policy[r] \in {Unchecked, pcr[r]}

SealInit ==
    /\ TeeInit
    /\ current_pcr \in Platforms
    /\ cache = <<>>
    /\ blobs \in {{}} \cup {{SealedData("SGX", d)} : d \in Data}
    /\ tried = {}

-------------------------------------------------------------------------------
Persist(b) ==
    /\ blobs' = blobs \cup {b}
    /\ Cardinality(blobs') <= MaxBlobs

Cached(id, b) == cache' = [i \in DOMAIN cache \cup {id} |-> IF i = id THEN b ELSE cache[i]]

Answers(by, b, answer) ==
    /\ tried' = tried \cup {[by |-> by, blob |-> b, answer |-> answer, pcr |-> current_pcr]}
    /\ Cardinality(tried') <= MaxTries
    /\ UNCHANGED <<teeVars, current_pcr, cache, blobs>>

\* Enclave::seal_data is given a policy and looks neither at it nor at the bytes.
EnclaveSeals(d, policy) ==
    /\ enclave
    /\ Persist([by |-> "enclave", of |-> d, data |-> Zeros, policy |-> policy])
    /\ UNCHANGED <<teeVars, current_pcr, cache, tried>>

\* Enclave::unseal_data answers any byte string of 72 bytes or more with zeros, and
\* each of the three kinds of blob is that long; it looks at nothing else, though its doc
\* promises an error when the PCR values do not match the policy (sgx/mod.rs:354).
EnclaveUnseals(b) ==
    /\ enclave
    /\ b \in blobs
    /\ Answers("enclave", b, Zeros)

\* TaCommand::SealData
SessionSeals(id, d) ==
    /\ Dispatched(id)
    /\ Persist(SealedData("TrustZone", d))
    /\ UNCHANGED <<teeVars, current_pcr, cache, tried>>

\* TaCommand::UnsealData: a payload that does not decode as a SealedData is refused,
\* and so is a SealedData of another TEE.
Mutant_SessionUnsealsAnyTee(id, b) ==
    /\ Dispatched(id)
    /\ b \in blobs
    /\ Answers("TrustZone", b, IF b.by \in TeeType THEN b.data ELSE Refused)
SessionUnseals(id, b) ==
    /\ Dispatched(id)
    /\ b \in blobs
    /\ Answers("TrustZone", b, IF b.by = "TrustZone" THEN b.data ELSE Refused)

\* SealedStorage::seal and SealedKeyStore::store_private_key
Seal(id, d, policy) ==
    /\ Persist(SealedDataBlob(d, policy))
    /\ Cached(id, SealedDataBlob(d, policy))
    /\ UNCHANGED <<teeVars, current_pcr, tried>>

\* SealedDataBlob::from_bytes refuses what is not one; then SealedStorage::unseal,
\* SealedKeyStore::retrieve_private_key.
Opens(b) == b.by = "storage" /\ matches_policy(current_pcr, b.policy)
Unseal(b) == Answers("storage", b, IF Opens(b) THEN b.data ELSE Refused)

\* SealedStorage::cache_blob, of a blob read back from persistent storage
CacheBlob(id, b) ==
    /\ b \in blobs /\ b.by = "storage"
    /\ Cached(id, b)
    /\ UNCHANGED <<teeVars, current_pcr, blobs, tried>>

ClearCache ==
    /\ cache' = <<>>
    /\ UNCHANGED <<teeVars, current_pcr, blobs, tried>>

\* SealedStorage::update_pcr: the cache stays.
UpdatePcr(pcr) ==
    /\ current_pcr' = pcr
    /\ UNCHANGED <<teeVars, cache, blobs, tried>>

\* A new process makes a new storage manager; only the blobs are left.
Restart(pcr) ==
    /\ current_pcr' = pcr
    /\ cache' = <<>>
    /\ enclave' = FALSE
    /\ session' = 0
    /\ UNCHANGED <<build, blobs, tried>>

SealNext ==
    \/ TeeStep /\ UNCHANGED sealVars
    \/ \E d \in Data, p \in Policies : EnclaveSeals(d, p)
    \/ \E b \in blobs : EnclaveUnseals(b)
    \/ \E d \in Data : SessionSeals(SessionId, d)
    \/ \E b \in blobs : SessionUnseals(SessionId, b)
    \/ \E id \in Ids, d \in Data, p \in Policies : Seal(id, d, p)
    \/ \E b \in blobs : Unseal(b)
    \/ \E id \in DOMAIN cache : Unseal(cache[id])
    \/ \E id \in Ids, b \in blobs : CacheBlob(id, b)
    \/ ClearCache
    \/ \E pcr \in Platforms : UpdatePcr(pcr)
    \/ \E pcr \in Platforms : Restart(pcr)

SealSpec == SealInit /\ [][SealNext]_<<teeVars, sealVars>>

-------------------------------------------------------------------------------
(***************************************************************************)
(* Properties                                                              *)
(***************************************************************************)

\* One blob gives the storage one answer wherever the registers its policy binds are
\* the same, a refusal where they are not, through update_pcr, restarts and copies
\* in the cache: a refused owner who comes back to the platform gets his data, and
\* nobody gets it on two platforms that differ in a bound register
\* (sealed_storage.rs unseal, update_pcr; sgx/mod.rs matches_policy).
StorageAnswersByPolicy ==
    \A o, p \in tried :
        o.by = "storage" /\ p.by = "storage" /\ o.blob = p.blob =>
            IF \A r \in Registers : o.blob.policy[r] # Unchecked => o.pcr[r] = p.pcr[r]
            THEN o.answer = p.answer
            ELSE Refused \in {o.answer, p.answer}

\* Whichever environment a blob is handed to, bytes of an owner come back from the one
\* that sealed them alone, and are what that owner sealed; the enclave gives everyone
\* its placeholder.  The cache holds nothing that a restart would lose
\* (sealed_storage.rs seal, unseal, cache_blob; trustzone/mod.rs unseal_data;
\* sgx/mod.rs unseal_data).
SealedComesBack ==
    /\ \A o \in tried : o.answer \in Data => o.by = o.blob.by /\ o.answer = o.blob.of
    /\ \A o \in tried : o.answer = Zeros <=> o.by = "enclave"
    /\ \A id \in DOMAIN cache : cache[id] \in blobs

===============================================================================
