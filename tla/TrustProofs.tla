------------------------------ MODULE TrustProofs ------------------------------
(***************************************************************************)
(* What others rely on.  The registries, for any keys, owners, limits and  *)
(* times: bindings and anchors of the PKI correspond one to one, what was  *)
(* invalidated or revoked never resolves again, and the contract never     *)
(* changes an answer within a block; the revocation list finds the last    *)
(* entry of a key and verifies, and a key due for rotation stays due until *)
(* it is registered again; the audit log's verification stops where the    *)
(* log was touched, and the auth-failure rule flags every long run in it.  *)
(*                                                                         *)
(* The enclaves, for any ages, clocks, routing policies and batches: what  *)
(* the service accepts is recent, what it refused once it never accepts    *)
(* later, and a finished batch answers all of its items; for any           *)
(* platforms, policies and data, sealed blobs open only where and as they  *)
(* should.                                                                 *)
(***************************************************************************)
EXTENDS KeyAnchors, KeyLifecycle, AuditLog, Attestation, Sealing, SequenceTheorems,
        FiniteSetTheorems, WellFoundedInduction, TLAPS

-------------------------------------------------------------------------------
(***************************************************************************)
(* Anchors (KeyAnchors)                                                    *)
(***************************************************************************)

\* The initial registries are empty and have their types (dpki.rs new).
LEMMA AnchorInitTypeOK == AnchorInit => AnchorTypeOK
  BY DEF AnchorInit, AnchorTypeOK

\* A registry keeps its type when a key of the code's kind is registered in it or
\* one of its anchors is revoked (key_anchor.rs register, revoke).
LEMMA RegistryTyped ==
    ASSUME NEW A, DOMAIN A \subseteq Keys, \A j \in DOMAIN A : A[j] \in KeyAnchor
    PROVE  /\ \A k : \A owner \in Owners : Registrable(A, k) =>
                 /\ DOMAIN registered(A, k, owner) \subseteq Keys
                 /\ \A j \in DOMAIN registered(A, k, owner) :
                       registered(A, k, owner)[j] \in KeyAnchor
           /\ \A id : \A owner \in Owners : Revocable(A, id, owner) =>
                 /\ DOMAIN revoked(A, id) \subseteq Keys
                 /\ \A j \in DOMAIN revoked(A, id) : revoked(A, id)[j] \in KeyAnchor
<1>1. ASSUME NEW k, NEW owner \in Owners, Registrable(A, k)
      PROVE  /\ DOMAIN registered(A, k, owner) \subseteq Keys
             /\ \A j \in DOMAIN registered(A, k, owner) :
                   registered(A, k, owner)[j] \in KeyAnchor
  <2> DEFINE B == registered(A, k, owner)
  <2>1. ~contains_key(A, k) /\ k \in Keys
    BY <1>1 DEF Registrable
  <2>2. /\ DOMAIN B = DOMAIN A \cup {k}
        /\ B[k] = [owner_id |-> owner, revoked |-> FALSE]
        /\ \A j \in DOMAIN A : B[j] = A[j]
    BY <2>1 DEF registered, contains_key
  <2>3. [owner_id |-> owner, revoked |-> FALSE] \in KeyAnchor
    BY DEF KeyAnchor
  <2> HIDE DEF B
  <2>4. DOMAIN B \subseteq Keys /\ \A j \in DOMAIN B : B[j] \in KeyAnchor
    BY <2>1, <2>2, <2>3
  <2>5. QED
    BY <2>4 DEF B
<1>2. ASSUME NEW id, NEW owner \in Owners, Revocable(A, id, owner)
      PROVE  /\ DOMAIN revoked(A, id) \subseteq Keys
             /\ \A j \in DOMAIN revoked(A, id) : revoked(A, id)[j] \in KeyAnchor
  <2> DEFINE B == revoked(A, id)
  <2>1. id \in DOMAIN A
    BY <1>2 DEF Revocable, contains_key
  <2>2. /\ DOMAIN B = DOMAIN A
        /\ B[id] = [owner_id |-> A[id].owner_id, revoked |-> TRUE]
        /\ \A j \in DOMAIN A : j # id => B[j] = A[j]
    BY <2>1 DEF revoked, KeyAnchor
  <2>3. [owner_id |-> A[id].owner_id, revoked |-> TRUE] \in KeyAnchor
    BY <2>1 DEF KeyAnchor
  <2> HIDE DEF B
  <2>4. DOMAIN B \subseteq Keys /\ \A j \in DOMAIN B : B[j] \in KeyAnchor
    BY <2>2, <2>3
  <2>5. QED
    BY <2>4 DEF B
<1>3. QED
  BY <1>1, <1>2

\* Every step keeps the types of the entries, the two registries and the height
\* (dpki.rs register_key and invalidate, smart_contract.rs).
LEMMA AnchorNextTypeOK == AnchorTypeOK /\ [AnchorNext]_anchorVars => AnchorTypeOK'
<1> SUFFICES ASSUME AnchorTypeOK, [AnchorNext]_anchorVars PROVE AnchorTypeOK'
  OBVIOUS
<1>1. ASSUME NEW e \in Owners, NEW k \in Keys \cup {Empty}, NEW from \in Times,
             NEW until \in Times \cup {NoExpiry}, register_key(e, k, from, until)
      PROVE AnchorTypeOK'
  <2>1. DOMAIN anchors' \subseteq Keys /\ \A j \in DOMAIN anchors' : anchors'[j] \in KeyAnchor
    BY <1>1, RegistryTyped DEF AnchorTypeOK, register_key
  <2>2. /\ DOMAIN entries' \subseteq Owners
        /\ \A x \in DOMAIN entries' : entries'[x] \in DpkiEntry
    BY <1>1 DEF AnchorTypeOK, register_key, DpkiEntry, Registrable
  <2>3. QED
    BY <1>1, <2>1, <2>2 DEF AnchorTypeOK, register_key
<1>2. ASSUME NEW e \in Owners, invalidate(e) PROVE AnchorTypeOK'
  <2>1. DOMAIN anchors' \subseteq Keys /\ \A j \in DOMAIN anchors' : anchors'[j] \in KeyAnchor
    BY <1>2, RegistryTyped DEF AnchorTypeOK, invalidate
  <2>2. QED
    BY <1>2, <2>1 DEF AnchorTypeOK, invalidate
<1>3. ASSUME NEW k \in Keys \cup {Empty}, NEW owner \in Owners, submit_anchor(k, owner)
      PROVE AnchorTypeOK'
  <2>1. DOMAIN registry' \subseteq Keys /\ \A j \in DOMAIN registry' : registry'[j] \in KeyAnchor
    BY <1>3, RegistryTyped DEF AnchorTypeOK, submit_anchor
  <2>2. QED
    BY <1>3, <2>1 DEF AnchorTypeOK, submit_anchor
<1>4. ASSUME NEW id \in Keys, NEW owner \in Owners, revoke_anchor(id, owner)
      PROVE AnchorTypeOK'
  <2>1. DOMAIN registry' \subseteq Keys /\ \A j \in DOMAIN registry' : registry'[j] \in KeyAnchor
    BY <1>4, RegistryTyped DEF AnchorTypeOK, revoke_anchor
  <2>2. QED
    BY <1>4, <2>1 DEF AnchorTypeOK, revoke_anchor
<1>5. CASE UNCHANGED anchorVars
  BY <1>5 DEF AnchorTypeOK, anchorVars
<1>6. QED
  BY <1>1, <1>2, <1>3, <1>4, <1>5 DEF AnchorNext

\* The entries, the registries and the block height always have their types: the
\* maps of DecentralizedPki and SimulatedContractAnchor (dpki.rs, smart_contract.rs).
THEOREM AnchorTypeCorrect == AnchorSpec => []AnchorTypeOK
<1>1. QED
  BY AnchorInitTypeOK, AnchorNextTypeOK, PTL DEF AnchorSpec

\* Every step keeps bindings and anchors one to one (dpki.rs register_key,
\* invalidate; the contract has a registry of its own).
LEMMA NextOneKey ==
    AnchorTypeOK /\ OneKeyOneEntity /\ [AnchorNext]_anchorVars => OneKeyOneEntity'
<1> SUFFICES ASSUME AnchorTypeOK, OneKeyOneEntity, [AnchorNext]_anchorVars
             PROVE  OneKeyOneEntity'
  OBVIOUS
<1>1. ASSUME NEW e \in Owners, NEW k \in Keys \cup {Empty}, NEW from \in Times,
             NEW until \in Times \cup {NoExpiry}, register_key(e, k, from, until)
      PROVE OneKeyOneEntity'
  <2>1. /\ DOMAIN anchors' = DOMAIN anchors \cup {k}
        /\ anchors'[k].owner_id = e
        /\ \A j \in DOMAIN anchors : anchors'[j] = anchors[j]
    BY <1>1 DEF register_key, Registrable, registered, contains_key
  <2>2. /\ DOMAIN entries' = DOMAIN entries \cup {e}
        /\ entries'[e].anchor_id = k
        /\ \A x \in DOMAIN entries : entries'[x] = entries[x]
    BY <1>1 DEF register_key
  <2>3. e \notin DOMAIN entries /\ k \notin DOMAIN anchors
    BY <1>1 DEF register_key, Registrable, contains_key
  <2>4. QED
    BY <2>1, <2>2, <2>3 DEF OneKeyOneEntity
<1>2. ASSUME NEW e \in Owners, invalidate(e) PROVE OneKeyOneEntity'
  <2>1. /\ DOMAIN anchors' = DOMAIN anchors
        /\ \A j \in DOMAIN anchors : anchors'[j].owner_id = anchors[j].owner_id
    BY <1>2 DEF invalidate, Revocable, revoked, contains_key, AnchorTypeOK, KeyAnchor
  <2>2. QED
    BY <1>2, <2>1 DEF invalidate, OneKeyOneEntity
<1>3. ASSUME UNCHANGED <<entries, anchors>> PROVE OneKeyOneEntity'
  BY <1>3 DEF OneKeyOneEntity
<1>4. QED
  BY <1>1, <1>2, <1>3 DEF AnchorNext, submit_anchor, revoke_anchor, anchorVars

\* Bindings and anchors of the PKI are in one-to-one correspondence, so that an
\* invalidation always finds its own entity's anchor (dpki.rs:87-162).
THEOREM OneKeyOneEntityHolds == AnchorSpec => []OneKeyOneEntity
<1>1. AnchorInit => OneKeyOneEntity
  BY DEF AnchorInit, OneKeyOneEntity
<1>2. QED
  BY <1>1, AnchorInitTypeOK, AnchorNextTypeOK, NextOneKey, PTL DEF AnchorSpec

\* An anchor that is registered and revoked stays so in every registry a step makes
\* (key_anchor.rs register refuses it, revoke is idempotent).
LEMMA StaysRevoked ==
    ASSUME NEW A, \A j \in DOMAIN A : A[j] \in KeyAnchor,
           NEW id \in DOMAIN A, A[id].revoked
    PROVE  /\ \A k, owner : Registrable(A, k) =>
                 /\ id \in DOMAIN registered(A, k, owner)
                 /\ registered(A, k, owner)[id].revoked
           /\ \A k, owner : Revocable(A, k, owner) =>
                 /\ id \in DOMAIN revoked(A, k)
                 /\ revoked(A, k)[id].revoked
<1>1. ASSUME NEW k, NEW owner, Registrable(A, k)
      PROVE  id \in DOMAIN registered(A, k, owner) /\ registered(A, k, owner)[id].revoked
  BY <1>1 DEF Registrable, registered, contains_key
<1>2. ASSUME NEW k, NEW owner, Revocable(A, k, owner)
      PROVE  id \in DOMAIN revoked(A, k) /\ revoked(A, k)[id].revoked
  BY <1>2 DEF Revocable, revoked, contains_key, KeyAnchor
<1>3. QED
  BY <1>1, <1>2

\* A step keeps every entry, and every revoked anchor revoked, in the PKI and on the
\* chain (dpki.rs 87-162, smart_contract.rs 84-124).
LEMMA NextKeepsRevoked ==
    ASSUME AnchorTypeOK, AnchorNext
    PROVE  /\ \A e \in DOMAIN entries : e \in DOMAIN entries' /\ entries'[e] = entries[e]
           /\ \A j \in DOMAIN anchors : anchors[j].revoked =>
                 j \in DOMAIN anchors' /\ anchors'[j].revoked
           /\ \A j \in DOMAIN registry : registry[j].revoked =>
                 j \in DOMAIN registry' /\ registry'[j].revoked
<1>1. ASSUME NEW e \in Owners, NEW k \in Keys \cup {Empty}, NEW from \in Times,
             NEW until \in Times \cup {NoExpiry}, register_key(e, k, from, until)
      PROVE  /\ \A x \in DOMAIN entries : x \in DOMAIN entries' /\ entries'[x] = entries[x]
             /\ \A j \in DOMAIN anchors : anchors[j].revoked =>
                   j \in DOMAIN anchors' /\ anchors'[j].revoked
             /\ UNCHANGED registry
  BY <1>1, StaysRevoked DEF register_key, AnchorTypeOK
<1>2. ASSUME NEW e \in Owners, invalidate(e)
      PROVE  /\ UNCHANGED <<entries, registry>>
             /\ \A j \in DOMAIN anchors : anchors[j].revoked =>
                   j \in DOMAIN anchors' /\ anchors'[j].revoked
  BY <1>2, StaysRevoked DEF invalidate, AnchorTypeOK
<1>3. ASSUME NEW k \in Keys \cup {Empty}, NEW owner \in Owners, submit_anchor(k, owner)
      PROVE  /\ UNCHANGED <<entries, anchors>>
             /\ \A j \in DOMAIN registry : registry[j].revoked =>
                   j \in DOMAIN registry' /\ registry'[j].revoked
  BY <1>3, StaysRevoked DEF submit_anchor, AnchorTypeOK
<1>4. ASSUME NEW id \in Keys, NEW owner \in Owners, revoke_anchor(id, owner)
      PROVE  /\ UNCHANGED <<entries, anchors>>
             /\ \A j \in DOMAIN registry : registry[j].revoked =>
                   j \in DOMAIN registry' /\ registry'[j].revoked
  BY <1>4, StaysRevoked DEF revoke_anchor, AnchorTypeOK
<1>5. QED
  BY <1>1, <1>2, <1>3, <1>4 DEF AnchorNext

\* What does not resolve at a time never resolves at that time again: a binding is
\* never changed and its anchor, once revoked, stays revoked, here and on the chain
\* (dpki.rs resolve, smart_contract.rs verify_on_chain).
THEOREM NeverRevivedHolds == AnchorSpec => NeverRevived
<1>1. ASSUME AnchorTypeOK, OneKeyOneEntity, [AnchorNext]_anchorVars
      PROVE  [ /\ \A e \in DOMAIN entries, t \in Times : ~resolves(e, t) => ~resolves(e, t)'
               /\ \A k \in DOMAIN registry :
                     ~verify_anchor(registry, k) => ~verify_anchor(registry', k)
             ]_anchorVars
  <2> SUFFICES ASSUME AnchorNext
               PROVE  /\ \A e \in DOMAIN entries, t \in Times :
                            ~resolves(e, t) => ~resolves(e, t)'
                      /\ \A k \in DOMAIN registry :
                            ~verify_anchor(registry, k) => ~verify_anchor(registry', k)
    BY <1>1
  <2>1. ASSUME NEW e \in DOMAIN entries, NEW t \in Times, ~resolves(e, t)
        PROVE  ~resolves(e, t)'
    <3> DEFINE id == entries[e].anchor_id
    <3>1. /\ e \in DOMAIN entries' /\ entries'[e] = entries[e] 
          /\ anchors[id].revoked => id \in DOMAIN anchors' /\ anchors'[id].revoked
          /\ id \in DOMAIN anchors
      BY <1>1, NextKeepsRevoked DEF OneKeyOneEntity
    <3>2. CASE ~is_valid_at(entries[e], t)
      BY <3>1, <3>2 DEF resolves
    <3>3. CASE anchors[id].revoked
      BY <3>1, <3>3 DEF resolves, verify_anchor
    <3>4. QED
      BY <2>1, <3>1, <3>2, <3>3 DEF resolves, verify_anchor, contains_key
  <2>2. ASSUME NEW k \in DOMAIN registry, ~verify_anchor(registry, k)
        PROVE  ~verify_anchor(registry', k)
    BY <1>1, <2>2, NextKeepsRevoked DEF verify_anchor, contains_key
  <2>3. QED
    BY <2>1, <2>2
<1>2. QED
  BY <1>1, AnchorTypeCorrect, OneKeyOneEntityHolds, PTL DEF AnchorSpec, NeverRevived

\* The contract answers otherwise about an anchor only in a later block: each of its
\* mutations counts one (smart_contract.rs 84-124).
THEOREM SameHeightSameAnswerHolds == AnchorSpec => SameHeightSameAnswer
<1>1. ASSUME AnchorTypeOK, [AnchorNext]_anchorVars
      PROVE  [ block_height' = block_height =>
                 \A k \in Keys : verify_on_chain(k)' = verify_on_chain(k) ]_anchorVars
  <2>1. CASE UNCHANGED registry
    BY <2>1 DEF verify_on_chain, contains_key
  <2>2. CASE block_height' = block_height + 1
    BY <1>1, <2>2 DEF AnchorTypeOK
  <2>3. QED
    BY <1>1, <2>1, <2>2
       DEF AnchorNext, register_key, invalidate, submit_anchor, revoke_anchor, anchorVars
<1>2. QED
  BY <1>1, AnchorTypeCorrect, PTL DEF AnchorSpec, SameHeightSameAnswer

-------------------------------------------------------------------------------
(***************************************************************************)
(* Revocation and rotation (KeyLifecycle)                                  *)
(***************************************************************************)

LifeTypeOK ==
    /\ time \in 0..MaxTime
    /\ revocations \in Seq(RevocationEntry)
    /\ DOMAIN revoked_ids \subseteq KeyIds
    /\ DOMAIN metadata \subseteq KeyIds
    /\ \A k \in DOMAIN metadata : metadata[k] \in KeyMetadata

\* The index names an entry of its key, the last one, for every key that has one.
Indexed ==
    /\ \A k \in DOMAIN revoked_ids :
          revoked_ids[k] \in DOMAIN revocations /\ revocations[revoked_ids[k]].key_id = k
    /\ \A i \in DOMAIN revocations :
          revocations[i].key_id \in DOMAIN revoked_ids /\ i <= revoked_ids[revocations[i].key_id]

LifeIInv == LifeTypeOK /\ Indexed /\ verify_integrity

\* Both registries start empty (revocation.rs new, rotation.rs new).
LEMMA LifeInitIInv == LifeInit => LifeIInv
  BY LifecycleAssumption DEF LifeInit, LifeIInv, LifeTypeOK, Indexed, verify_integrity

\* A revocation, the first of its key or another, keeps the index and the signature
\* with the list (revocation.rs revoke).
LEMMA RevokeLifeIInv ==
    ASSUME LifeIInv, NEW k \in KeyIds, NEW reason \in RevocationReason, revoke(k, reason)
    PROVE  LifeIInv'
<1> DEFINE n == Len(revocations) + 1
           e == [key_id |-> k, reason |-> reason, timestamp |-> time]
<1>1. revocations \in Seq(RevocationEntry) /\ e \in RevocationEntry
  BY DEF LifeIInv, LifeTypeOK, RevocationEntry
<1>2. revocations' = Append(revocations, e)
  BY DEF revoke
<1>3. /\ revocations' \in Seq(RevocationEntry)
      /\ DOMAIN revocations' = 1..n
      /\ DOMAIN revocations = 1..Len(revocations)
      /\ n \in Nat
      /\ revocations'[n] = e
      /\ \A i \in DOMAIN revocations : revocations'[i] = revocations[i]
  BY <1>1, <1>2
<1>4. /\ DOMAIN revoked_ids' = DOMAIN revoked_ids \cup {k}
      /\ revoked_ids'[k] = n
      /\ \A j \in DOMAIN revoked_ids : j # k => revoked_ids'[j] = revoked_ids[j]
  BY DEF revoke
<1>5. LifeTypeOK'
  BY <1>3, <1>4 DEF LifeIInv, LifeTypeOK, revoke
<1>6. ASSUME NEW j \in DOMAIN revoked_ids'
      PROVE  revoked_ids'[j] \in DOMAIN revocations' /\ revocations'[revoked_ids'[j]].key_id = j
  <2>1. CASE j = k
    BY <2>1, <1>3, <1>4
  <2>2. CASE j # k
    BY <2>2, <1>3, <1>4 DEF LifeIInv, Indexed
  <2>3. QED
    BY <2>1, <2>2
<1>7. ASSUME NEW i \in DOMAIN revocations'
      PROVE  /\ revocations'[i].key_id \in DOMAIN revoked_ids'
             /\ i <= revoked_ids'[revocations'[i].key_id]
  <2>1. CASE i = n
    BY <2>1, <1>3, <1>4
  <2>2. CASE i # n
    <3>1. i \in DOMAIN revocations /\ i <= n
      BY <2>2, <1>3
    <3>2. revocations[i].key_id \in DOMAIN revoked_ids /\ i <= revoked_ids[revocations[i].key_id]
      BY <3>1 DEF LifeIInv, Indexed
    <3>3. QED
      BY <3>1, <3>2, <1>3, <1>4
  <2>3. QED
    BY <2>1, <2>2
<1>8. verify_integrity'
  BY DEF revoke, verify_integrity
<1>9. QED
  BY <1>5, <1>6, <1>7, <1>8 DEF LifeIInv, Indexed

\* The revocation list is as it was.
Unrevoked == UNCHANGED <<revocations, revoked_ids, signature>>

\* A key's metadata keeps its type when it is registered, used or expired
\* (rotation.rs register_key, record_usage, expire_key).
LEMMA KnownTyped ==
    ASSUME LifeIInv, Unrevoked, time' = time, NEW k \in KeyIds, NEW m \in KeyMetadata, Known(k, m)
    PROVE  LifeIInv'
<1>1. LifeTypeOK'
  BY DEF LifeIInv, LifeTypeOK, Known, Unrevoked
<1>2. Indexed' /\ verify_integrity'
  BY DEF LifeIInv, Indexed, verify_integrity, Unrevoked
<1>3. QED
  BY <1>1, <1>2 DEF LifeIInv

\* The metadata of a new key (rotation.rs KeyMetadata::new).
Fresh(lifetime, operations) ==
    [created_at |-> time, encrypt_count |-> 0, decrypt_count |-> 0,
     max_lifetime_seconds |-> lifetime, max_operations |-> operations, is_expired |-> FALSE]

\* Every operation on the metadata writes what KeyMetadata allows.
LEMMA MetadataTyped ==
    ASSUME LifeIInv
    PROVE  /\ \A lifetime, operations \in Limits : Fresh(lifetime, operations) \in KeyMetadata
           /\ \A k \in DOMAIN metadata :
                 /\ total_operations(metadata[k]) < MaxUses =>
                       /\ [metadata[k] EXCEPT !.encrypt_count = @ + 1] \in KeyMetadata
                       /\ [metadata[k] EXCEPT !.decrypt_count = @ + 1] \in KeyMetadata
                 /\ [metadata[k] EXCEPT !.is_expired = TRUE] \in KeyMetadata
<1>1. /\ time \in 0..MaxTime /\ MaxUses \in Nat
      /\ \A k \in DOMAIN metadata : metadata[k] \in KeyMetadata
  BY LifecycleAssumption DEF LifeIInv, LifeTypeOK
<1>2. ASSUME NEW lifetime \in Limits, NEW operations \in Limits
      PROVE  Fresh(lifetime, operations) \in KeyMetadata
  BY <1>1 DEF Fresh, KeyMetadata
<1>3. ASSUME NEW k \in DOMAIN metadata, total_operations(metadata[k]) < MaxUses
      PROVE  /\ [metadata[k] EXCEPT !.encrypt_count = @ + 1] \in KeyMetadata
             /\ [metadata[k] EXCEPT !.decrypt_count = @ + 1] \in KeyMetadata
  BY <1>1, <1>3 DEF KeyMetadata, total_operations
<1>4. ASSUME NEW k \in DOMAIN metadata
      PROVE  [metadata[k] EXCEPT !.is_expired = TRUE] \in KeyMetadata
  BY <1>1 DEF KeyMetadata
<1>5. QED
  BY <1>2, <1>3, <1>4

\* Every step keeps the invariant.
LEMMA LifeNextIInv == LifeIInv /\ [RevocationNext \/ RotationNext]_lifeVars => LifeIInv'
<1> SUFFICES ASSUME LifeIInv, [RevocationNext \/ RotationNext]_lifeVars PROVE LifeIInv'
  OBVIOUS
<1>1. ASSUME NEW k \in KeyIds, NEW reason \in RevocationReason, revoke(k, reason) PROVE LifeIInv'
  BY <1>1, RevokeLifeIInv
<1>2. ASSUME NEW k \in KeyIds, NEW lifetime \in Limits, NEW operations \in Limits,
             register(k, lifetime, operations)
      PROVE  LifeIInv'
  <2>1. Fresh(lifetime, operations) \in KeyMetadata
    BY MetadataTyped
  <2>2. Known(k, Fresh(lifetime, operations)) /\ Unrevoked /\ time' = time
    BY <1>2 DEF register, Fresh, Unrevoked
  <2>3. QED
    BY <2>1, <2>2, KnownTyped
<1>3. ASSUME NEW k \in KeyIds, NEW is_encrypt \in BOOLEAN, record_usage(k, is_encrypt)
      PROVE  LifeIInv'
  <2>1. PICK m \in KeyMetadata : Known(k, m)
    BY <1>3, MetadataTyped DEF record_usage, record_encrypt, record_decrypt
  <2>2. Unrevoked /\ time' = time
    BY <1>3 DEF record_usage, Unrevoked
  <2>3. QED
    BY <2>1, <2>2, KnownTyped
<1>4. ASSUME NEW k \in KeyIds, expire_key(k) PROVE LifeIInv'
  <2>1. [metadata[k] EXCEPT !.is_expired = TRUE] \in KeyMetadata
    BY <1>4, MetadataTyped DEF expire_key
  <2>2. /\ Known(k, [metadata[k] EXCEPT !.is_expired = TRUE])
        /\ Unrevoked /\ time' = time
    BY <1>4 DEF expire_key, Unrevoked
  <2>3. QED
    BY <2>1, <2>2, KnownTyped
<1>5. CASE Pass
  BY <1>5, LifecycleAssumption DEF Pass, LifeIInv, LifeTypeOK, Indexed, verify_integrity
<1>6. CASE UNCHANGED lifeVars
  BY <1>6 DEF lifeVars, LifeIInv, LifeTypeOK, Indexed, verify_integrity
<1>7. QED
  BY <1>1, <1>2, <1>3, <1>4, <1>5, <1>6 DEF RevocationNext, RotationNext

\* The invariant holds throughout: types, an index that names the last entry of every
\* revoked key, and a signature of the whole list (revocation.rs, rotation.rs).
THEOREM LifeIInvHolds == LifeSpec => []LifeIInv
  BY LifeInitIInv, LifeNextIInv, PTL DEF LifeSpec

\* A key is revoked exactly when an entry names it, the entry found is the last, and the
\* list verifies, after any revocations (revocation.rs revoke, get_entry,
\* verify_integrity).
THEOREM LatestRevocationFoundHolds == LifeSpec => []LatestRevocationFound
<1>1. LifeIInv => LatestRevocationFound
  <2> SUFFICES ASSUME LifeIInv PROVE LatestRevocationFound
    OBVIOUS
  <2>1. ASSUME NEW k \in KeyIds
        PROVE  /\ is_revoked(k) <=> \E i \in DOMAIN revocations : revocations[i].key_id = k
               /\ is_revoked(k) =>
                     /\ get_entry(k).key_id = k
                     /\ \A i \in DOMAIN revocations :
                           revocations[i].key_id = k => i <= revoked_ids[k]
    BY DEF LifeIInv, Indexed, is_revoked, get_entry
  <2>2. QED
    BY <2>1 DEF LifeIInv, LatestRevocationFound
<1>2. QED
  BY <1>1, LifeIInvHolds, PTL

\* Use and time only bring a limit nearer (rotation.rs should_expire).
LEMMA DueGrows ==
    ASSUME NEW m \in KeyMetadata, NEW n \in KeyMetadata, time \in Nat, time' \in Nat, time <= time',
           should_expire(m),
           n.created_at = m.created_at, total_operations(m) <= total_operations(n),
           n.max_lifetime_seconds = m.max_lifetime_seconds, n.max_operations = m.max_operations
    PROVE  should_expire(n)'
<1>0. /\ MaxTime \in Nat /\ MaxUses \in Nat /\ Limits \subseteq Nat
      /\ m.created_at \in 0..MaxTime
      /\ m.max_lifetime_seconds \in Limits /\ m.max_operations \in Limits
      /\ m.encrypt_count \in 0..MaxUses /\ m.decrypt_count \in 0..MaxUses
      /\ n.encrypt_count \in 0..MaxUses /\ n.decrypt_count \in 0..MaxUses
  BY LifecycleAssumption DEF KeyMetadata
<1>1. /\ m.created_at \in Nat
      /\ m.max_lifetime_seconds \in Nat /\ m.max_operations \in Nat
      /\ total_operations(m) \in Nat /\ total_operations(n) \in Nat
  <2>1. m.created_at \in Nat
    BY <1>0
  <2>2. m.max_lifetime_seconds \in Nat /\ m.max_operations \in Nat
    BY <1>0
  <2>3. total_operations(m) \in Nat
    BY <1>0 DEF total_operations
  <2>4. total_operations(n) \in Nat
    BY <1>0 DEF total_operations
  <2>5. QED
    BY <2>1, <2>2, <2>3, <2>4
<1>2. CASE m.max_lifetime_seconds > 0 /\ age_seconds(m) > m.max_lifetime_seconds
  BY <1>1, <1>2 DEF should_expire, age_seconds
<1>3. CASE m.max_operations > 0 /\ total_operations(m) >= m.max_operations
  BY <1>1, <1>3 DEF should_expire, total_operations
<1>4. QED
  BY <1>2, <1>3 DEF should_expire

\* A key that was due is due after any step, or was registered in it.
LEMMA StillDue ==
    ASSUME LifeIInv, LifeIInv', [RevocationNext \/ RotationNext]_lifeVars,
           NEW k \in KeyIds, needs_rotation(k)
    PROVE  \/ needs_rotation(k)'
           \/ metadata'[k].created_at = time /\ total_operations(metadata'[k]) = 0
<1>1. k \in DOMAIN metadata /\ metadata[k] \in KeyMetadata /\ should_expire(metadata[k])
  BY DEF LifeIInv, LifeTypeOK, needs_rotation
<1>2. /\ time \in Nat /\ time' \in Nat
      /\ MaxUses \in Nat
      /\ k \in DOMAIN metadata' => metadata'[k] \in KeyMetadata
  BY LifecycleAssumption DEF LifeIInv, LifeTypeOK
<1>3. metadata[k].encrypt_count \in Nat /\ metadata[k].decrypt_count \in Nat
  BY <1>1, <1>2 DEF KeyMetadata
<1> DEFINE n == metadata'[k]
           Grows ==
             /\ k \in DOMAIN metadata'
             /\ time <= time'
             /\ n.created_at = metadata[k].created_at
             /\ total_operations(metadata[k]) <= total_operations(n)
             /\ n.max_lifetime_seconds = metadata[k].max_lifetime_seconds
             /\ n.max_operations = metadata[k].max_operations
<1>4. Grows => needs_rotation(k)'
  <2> SUFFICES ASSUME Grows PROVE needs_rotation(k)'
    OBVIOUS
  <2>1. PICK p \in KeyMetadata : p = metadata'[k]
    BY <1>2
  <2>2. PICK m \in KeyMetadata : m = metadata[k]
    BY <1>1
  <2>3. should_expire(p)'
    BY <1>1, <1>2, <2>1, <2>2, DueGrows
  <2>4. QED
    BY <2>1, <2>3 DEF needs_rotation, should_expire, age_seconds, total_operations
<1>5. ASSUME k \in DOMAIN metadata', metadata'[k] = metadata[k], time <= time' PROVE Grows
  BY <1>1, <1>3, <1>5 DEF total_operations
<1>6. ASSUME NEW j \in KeyIds, NEW lifetime \in Limits, NEW operations \in Limits,
             register(j, lifetime, operations)
      PROVE  Grows \/ (n.created_at = time /\ total_operations(n) = 0)
  <2>1. CASE j = k
    BY <1>6, <2>1 DEF register, Known, total_operations
  <2>2. CASE j # k
    <3>1. k \in DOMAIN metadata' /\ metadata'[k] = metadata[k] /\ time <= time'
      BY <1>1, <1>2, <1>6, <2>2 DEF register, Known
    <3>2. QED
      BY <1>5, <3>1
  <2>3. QED
    BY <2>1, <2>2
<1>7. ASSUME NEW j \in KeyIds, NEW is_encrypt \in BOOLEAN, record_usage(j, is_encrypt)
      PROVE  Grows
  <2>1. CASE j = k
    BY <1>1, <1>2, <1>3, <1>7, <2>1
    DEF record_usage, record_encrypt, record_decrypt, Known, total_operations, KeyMetadata
  <2>2. CASE j # k
    <3>1. k \in DOMAIN metadata' /\ metadata'[k] = metadata[k] /\ time <= time'
      BY <1>1, <1>2, <1>7, <2>2 DEF record_usage, Known
    <3>2. QED
      BY <1>5, <3>1
  <2>3. QED
    BY <2>1, <2>2
<1>8. ASSUME NEW j \in KeyIds, expire_key(j) PROVE Grows
  <2>1. CASE j = k
    BY <1>1, <1>2, <1>3, <1>8, <2>1 DEF expire_key, Known, total_operations, KeyMetadata
  <2>2. CASE j # k
    <3>1. k \in DOMAIN metadata' /\ metadata'[k] = metadata[k] /\ time <= time'
      BY <1>1, <1>2, <1>8, <2>2 DEF expire_key, Known
    <3>2. QED
      BY <1>5, <3>1
  <2>3. QED
    BY <2>1, <2>2
<1>9. ASSUME UNCHANGED metadata, time <= time' PROVE Grows
  BY <1>1, <1>5, <1>9
<1>10. ASSUME NEW j \in KeyIds, NEW reason \in RevocationReason, revoke(j, reason) PROVE Grows
  <2>1. UNCHANGED metadata /\ time <= time'
    BY <1>2, <1>10 DEF revoke
  <2>2. QED
    BY <1>9, <2>1
<1>11. ASSUME Pass PROVE Grows
  <2>1. UNCHANGED metadata /\ time <= time'
    BY <1>2, <1>11 DEF Pass
  <2>2. QED
    BY <1>9, <2>1
<1>12. ASSUME UNCHANGED lifeVars PROVE Grows
  <2>1. UNCHANGED metadata /\ time <= time'
    BY <1>2, <1>12 DEF lifeVars
  <2>2. QED
    BY <1>9, <2>1
<1> HIDE DEF Grows, n
<1>13. Grows \/ (n.created_at = time /\ total_operations(n) = 0)
  BY <1>6, <1>7, <1>8, <1>10, <1>11, <1>12 DEF RevocationNext, RotationNext
<1>14. QED
  BY <1>4, <1>13 DEF n

\* Once a key is due for rotation it stays due until it is registered anew, whatever is
\* done with it or the time does (rotation.rs should_expire, record_usage, register_key).
THEOREM DueUntilRegisteredHolds == LifeSpec => DueUntilRegistered
<1>1. LifeIInv /\ LifeIInv' /\ [RevocationNext \/ RotationNext]_lifeVars =>
        [ \A k \in KeyIds :
            needs_rotation(k) =>
               \/ needs_rotation(k)'
               \/ metadata'[k].created_at = time /\ total_operations(metadata'[k]) = 0 ]_lifeVars
  BY StillDue
<1>2. QED
  BY <1>1, LifeIInvHolds, PTL DEF LifeSpec, DueUntilRegistered

-------------------------------------------------------------------------------
(***************************************************************************)
(* The audit log.  Whatever is edited and lost, the hash under which an    *)
(* entry is stored stays that of what was appended and of the hash it was  *)
(* appended after; so recomputing it fails exactly at the entries touched. *)
(***************************************************************************)

AuditEntry(e) ==
    e = [index |-> e.index, event |-> e.event, entry_hash |-> e.entry_hash]

HashesStand ==
    /\ \E S : log \in Seq(S)
    /\ \E S : written \in Seq(S)
    /\ Len(log) = Len(written)
    /\ \A i \in DOMAIN log :
          /\ AuditEntry(log[i])
          /\ log[i].entry_hash = <<written[i].prev_hash, Text(written[i].event)>>

\* Removing an entry closes the gap (AuditLog.entries, a Vec, as it is stored).
LEMMA RemovedAt ==
    ASSUME NEW S, NEW s \in Seq(S), NEW i \in DOMAIN s
    PROVE  /\ RemoveAt(s, i) \in Seq(S)
           /\ Len(RemoveAt(s, i)) = Len(s) - 1
           /\ \A j \in 1..(Len(s) - 1) :
                 RemoveAt(s, i)[j] = IF j < i THEN s[j] ELSE s[j + 1]
<1> DEFINE a == SubSeq(s, 1, i - 1)
           b == SubSeq(s, i + 1, Len(s))
<1>1. i \in 1..Len(s) /\ Len(s) \in Nat
  OBVIOUS
<1>2. /\ a \in Seq(S) /\ Len(a) = i - 1
      /\ \A j \in 1..(i - 1) : a[j] = s[j]
  BY <1>1
<1>3. /\ b \in Seq(S) /\ Len(b) = Len(s) - i
      /\ \A j \in 1..(Len(s) - i) : b[j] = s[i + j]
  BY <1>1
<1>4. RemoveAt(s, i) = a \o b
  BY DEF RemoveAt
<1> HIDE DEF a, b
<1>5. /\ a \o b \in Seq(S) /\ Len(a \o b) = Len(a) + Len(b)
      /\ \A j \in 1..(Len(a) + Len(b)) :
            (a \o b)[j] = IF j <= Len(a) THEN a[j] ELSE b[j - Len(a)]
  BY <1>2, <1>3, ConcatProperties
<1>6. ASSUME NEW j \in 1..(Len(s) - 1)
      PROVE  (a \o b)[j] = IF j < i THEN s[j] ELSE s[j + 1]
  <2>1. CASE j < i
    <3>1. j \in 1..(i - 1)
      BY <1>1, <2>1
    <3>2. j \in 1..(Len(a) + Len(b)) /\ j <= Len(a)
      BY <1>1, <1>2, <1>3, <2>1
    <3>3. (a \o b)[j] = a[j]
      BY <1>5, <3>2
    <3>4. a[j] = s[j]
      BY <1>2, <3>1
    <3>5. QED
      BY <2>1, <3>3, <3>4
  <2>2. CASE ~(j < i)
    <3>1. j - (i - 1) \in 1..(Len(s) - i)
      BY <1>1, <2>2
    <3>2. /\ j \in 1..(Len(a) + Len(b)) /\ ~(j <= Len(a)) /\ Len(a) = i - 1
      BY <1>1, <1>2, <1>3, <2>2
    <3>3. (a \o b)[j] = b[j - (i - 1)]
      BY <1>5, <3>2
    <3>4. b[j - (i - 1)] = s[i + (j - (i - 1))]
      BY <1>3, <3>1
    <3>5. i + (j - (i - 1)) = j + 1
      BY <1>1
    <3>6. QED
      BY <2>2, <3>3, <3>4, <3>5
  <2>3. QED
    BY <2>1, <2>2
<1>7. Len(a) + Len(b) = Len(s) - 1
  BY <1>1, <1>2, <1>3
<1>8. QED
  BY <1>4, <1>5, <1>6, <1>7

\* An entry is appended under the hash of its contents after the last hash
\* (audit_log.rs append).
LEMMA AppendStands ==
    ASSUME HashesStand, NEW ev, append(ev)
    PROVE  HashesStand'
<1> DEFINE prev == PrevHash(log, Len(log) + 1)
           e == [index |-> Len(log), event |-> ev, entry_hash |-> compute_entry_hash(prev, ev)]
           w == [event |-> ev, prev_hash |-> prev]
<1>1. log' = Append(log, e) /\ written' = Append(written, w)
  BY DEF append
<1>2. AuditEntry(e) /\ e.entry_hash = <<w.prev_hash, Text(w.event)>>
  BY DEF AuditEntry, compute_entry_hash, Text
<1> HIDE DEF e, w
<1>3. PICK S : log \in Seq(S)
  BY DEF HashesStand
<1>4. PICK T : written \in Seq(T)
  BY DEF HashesStand
<1>5. log \in Seq(S \cup {e}) /\ written \in Seq(T \cup {w})
  BY <1>3, <1>4
<1>6. log' \in Seq(S \cup {e}) /\ written' \in Seq(T \cup {w})
  BY <1>1, <1>5
<1>7. Len(log) \in Nat /\ Len(written) = Len(log)
  BY <1>3 DEF HashesStand
<1>8. /\ DOMAIN log' = 1..(Len(log) + 1) /\ DOMAIN log = 1..Len(log)
      /\ Len(log') = Len(written')
      /\ log'[Len(log) + 1] = e /\ written'[Len(log) + 1] = w
      /\ \A i \in 1..Len(log) : log'[i] = log[i] /\ written'[i] = written[i]
  BY <1>1, <1>5, <1>7
<1>9. ASSUME NEW i \in 1..(Len(log) + 1)
      PROVE  /\ AuditEntry(log'[i])
             /\ log'[i].entry_hash = <<written'[i].prev_hash, Text(written'[i].event)>>
  <2>1. CASE i = Len(log) + 1
    BY <1>2, <1>8, <2>1
  <2>2. CASE i # Len(log) + 1
    <3>1. i \in 1..Len(log)
      BY <1>7, <2>2
    <3>2. QED
      BY <1>8, <3>1 DEF HashesStand
  <2>3. QED
    BY <2>1, <2>2
<1>10. QED
  BY <1>6, <1>8, <1>9 DEF HashesStand

\* Every step keeps the stored hashes: an append, an edit, a loss.
LEMMA NextStands == HashesStand /\ [AuditNext]_auditVars => HashesStand'
<1> SUFFICES ASSUME HashesStand, [AuditNext]_auditVars PROVE HashesStand'
  OBVIOUS
<1>1. CASE UNCHANGED auditVars
  BY <1>1 DEF auditVars, HashesStand
<1>2. ASSUME NEW ev \in Events, append(ev) PROVE HashesStand'
  BY <1>2, AppendStands
<1>3. ASSUME NEW i \in DOMAIN log, NEW ev \in Events, Edit(i, ev) PROVE HashesStand'
  <2> DEFINE e == [log[i] EXCEPT !.event = ev]
  <2>1. log' = [log EXCEPT ![i] = e] /\ written' = written
    BY <1>3 DEF Edit
  <2>2. AuditEntry(e) /\ e.entry_hash = log[i].entry_hash
    <3>1. log[i] = [index |-> log[i].index, event |-> log[i].event,
                    entry_hash |-> log[i].entry_hash]
      BY DEF HashesStand, AuditEntry
    <3>2. e = [index |-> log[i].index, event |-> ev, entry_hash |-> log[i].entry_hash]
      BY <3>1
    <3> HIDE DEF e
    <3>3. QED
      BY <3>2 DEF AuditEntry
  <2> HIDE DEF e
  <2>3. PICK S : log \in Seq(S)
    BY DEF HashesStand
  <2>4. log \in Seq(S \cup {e})
    BY <2>3
  <2>5. /\ log' \in Seq(S \cup {e}) /\ Len(log') = Len(log) /\ DOMAIN log' = DOMAIN log
        /\ log'[i] = e /\ \A j \in DOMAIN log : j # i => log'[j] = log[j]
    BY <2>1, <2>4
  <2>6. \A j \in DOMAIN log' :
           /\ AuditEntry(log'[j])
           /\ log'[j].entry_hash = <<written'[j].prev_hash, Text(written'[j].event)>>
    BY <2>1, <2>2, <2>5 DEF HashesStand
  <2>7. QED
    BY <2>1, <2>5, <2>6 DEF HashesStand
<1>4. ASSUME NEW i \in DOMAIN log, Lose(i) PROVE HashesStand'
  <2>1. log' = RemoveAt(log, i) /\ written' = RemoveAt(written, i)
    BY <1>4 DEF Lose
  <2>2. PICK S : log \in Seq(S)
    BY DEF HashesStand
  <2>3. PICK T : written \in Seq(T)
    BY DEF HashesStand
  <2>4. /\ Len(written) = Len(log) /\ Len(log) \in Nat
        /\ DOMAIN log = 1..Len(log) /\ i \in DOMAIN written
    BY <2>2, <2>3 DEF HashesStand
  <2>5. /\ log' \in Seq(S) /\ Len(log') = Len(log) - 1
        /\ \A j \in 1..(Len(log) - 1) : log'[j] = IF j < i THEN log[j] ELSE log[j + 1]
    BY <2>1, <2>2, RemovedAt
  <2>6. /\ written' \in Seq(T) /\ Len(written') = Len(log) - 1
        /\ \A j \in 1..(Len(log) - 1) :
              written'[j] = IF j < i THEN written[j] ELSE written[j + 1]
    BY <2>1, <2>3, <2>4, RemovedAt
  <2>7. ASSUME NEW j \in DOMAIN log'
        PROVE  /\ AuditEntry(log'[j])
               /\ log'[j].entry_hash = <<written'[j].prev_hash, Text(written'[j].event)>>
    <3>1. j \in 1..(Len(log) - 1) /\ j \in DOMAIN log /\ j + 1 \in DOMAIN log
      BY <2>4, <2>5
    <3>2. CASE j < i
      BY <2>5, <2>6, <3>1, <3>2 DEF HashesStand
    <3>3. CASE ~(j < i)
      BY <2>5, <2>6, <3>1, <3>3 DEF HashesStand
    <3>4. QED
      BY <3>2, <3>3
  <2>8. QED
    BY <2>5, <2>6, <2>7 DEF HashesStand
<1>5. QED
  BY <1>1, <1>2, <1>3, <1>4 DEF AuditNext

\* verify_chain stops at the first entry that was edited or stands after another entry
\* than it was appended to, and passes a log that has none (audit_log.rs verify_chain,
\* compute_entry_hash).
THEOREM FirstBreakFoundHolds == AuditSpec => []FirstBreakFound
<1>1. AuditInit => HashesStand
  BY DEF AuditInit, HashesStand
<1>2. HashesStand => FirstBreakFound
  <2> SUFFICES ASSUME HashesStand PROVE FirstBreakFound
    OBVIOUS
  <2> DEFINE touched == {i \in DOMAIN log : ~Untouched(i)}
  <2>1. ASSUME NEW i \in DOMAIN log
        PROVE  log[i].entry_hash = compute_entry_hash(PrevHash(log, i), log[i].event)
                 <=> Untouched(i)
    <3> DEFINE prev == PrevHash(log, i)
    <3>1. log[i].entry_hash = <<written[i].prev_hash, Text(written[i].event)>>
      BY DEF HashesStand
    <3>2. compute_entry_hash(prev, log[i].event) = <<prev, Text(log[i].event)>>
      BY DEF compute_entry_hash, Text
    <3> HIDE DEF prev
    <3>3. compute_entry_hash(prev, log[i].event) = log[i].entry_hash
            <=> prev = written[i].prev_hash /\ Text(log[i].event) = Text(written[i].event)
      BY <3>1, <3>2
    <3>4. QED
      BY <3>3 DEF Untouched, prev
  <2>2. Broken(log) = touched
    BY <2>1 DEF Broken
  <2> HIDE DEF touched
  <2>3. verify_chain(log) = IF touched = {} THEN 0 ELSE Min(touched)
    BY <2>2 DEF verify_chain
  <2>4. QED
    BY <2>3 DEF FirstBreakFound, touched
<1>3. QED
  BY <1>1, <1>2, NextStands, PTL DEF AuditSpec

-------------------------------------------------------------------------------
(***************************************************************************)
(* The auth-failure rule, on every log: while it is scanned, the runs      *)
(* closed so far are those flagged, and the open one ends where the scan   *)
(* is (compliance.rs check_consecutive_auth_failures).                     *)
(***************************************************************************)

\* A set of numbers that is not empty has a least element; the log's indices have.
LEMMA LeastNumber ==
    ASSUME NEW T, T \subseteq Nat, T # {}
    PROVE  \E n \in T : \A m \in T : ~(m < n)
<1>1. \E n \in T : \A m \in T : ~(<<m, n>> \in OpToRel(<, Nat))
  BY NatLessThanWellFounded, WFMin
<1>2. QED
  BY <1>1 DEF OpToRel

\* The scan for runs, spelt out: it visits the indices in q from the greatest down
\* (compliance.rs, check_consecutive_auth_failures).
Scans(s, n, it) ==
    it = [q \in SUBSET (1..n) |->
             IF q = {} THEN NothingSeen ELSE Scanned(it[q \ {Max(q)}], s[Max(q)])]

\* The greatest index of a stretch of the log that ends there.
LEMMA MaxTop ==
    ASSUME NEW n \in Nat, NEW q \in SUBSET (1..(n + 1)), n + 1 \in q
    PROVE  Max(q) = n + 1 /\ q \ {Max(q)} \in SUBSET (1..n)
<1>1. \A y \in q : n + 1 >= y
  OBVIOUS
<1>2. \A x \in q : (\A y \in q : x >= y) => x = n + 1
  OBVIOUS
<1>3. Max(q) = n + 1
  BY <1>1, <1>2 DEF Max
<1>4. QED
  BY <1>3

\* A log of any length can be scanned.
LEMMA ScanExists ==
    ASSUME NEW s
    PROVE  \A n \in Nat : \E it : Scans(s, n, it)
<1> DEFINE Bad == {n \in Nat : ~(\E it : Scans(s, n, it))}
<1>1. \E it : Scans(s, 0, it)
  <2> DEFINE it == [q \in SUBSET (1..0) |-> NothingSeen]
  <2>1. \A q \in SUBSET (1..0) : q = {}
    OBVIOUS
  <2>2. it = [q \in SUBSET (1..0) |->
                 IF q = {} THEN NothingSeen ELSE Scanned(it[q \ {Max(q)}], s[Max(q)])]
    BY <2>1
  <2>3. QED
    BY <2>2 DEF Scans
<1>2. ASSUME NEW n \in Nat, NEW it, Scans(s, n, it)
      PROVE  \E h : Scans(s, n + 1, h)
  <2> DEFINE h == [q \in SUBSET (1..(n + 1)) |->
                      IF n + 1 \in q THEN Scanned(it[q \ {n + 1}], s[n + 1]) ELSE it[q]]
             Value(q) == IF q = {} THEN NothingSeen ELSE Scanned(h[q \ {Max(q)}], s[Max(q)])
  <2>1. \A q \in SUBSET (1..n) : q \in SUBSET (1..(n + 1)) /\ n + 1 \notin q
    OBVIOUS
  <2>2. \A q \in SUBSET (1..n) : h[q] = it[q]
    BY <2>1
  <2>3. ASSUME NEW q \in SUBSET (1..(n + 1)), n + 1 \in q
        PROVE  h[q] = Value(q)
    <3>1. Max(q) = n + 1 /\ q \ {n + 1} \in SUBSET (1..n)
      BY <2>3, MaxTop
    <3>2. h[q] = Scanned(it[q \ {n + 1}], s[n + 1])
      BY <2>3
    <3>3. h[q \ {n + 1}] = it[q \ {n + 1}]
      BY <2>2, <3>1
    <3> HIDE DEF h
    <3>4. QED
      BY <2>3, <3>1, <3>2, <3>3
  <2>4. ASSUME NEW q \in SUBSET (1..(n + 1)), n + 1 \notin q
        PROVE  h[q] = Value(q)
    <3>1. q \in SUBSET (1..n) /\ q \ {Max(q)} \in SUBSET (1..n)
      <4>1. \A x \in q : x \in 1..n
        BY <2>4
      <4>2. QED
        BY <4>1
    <3>2. it[q] = IF q = {} THEN NothingSeen ELSE Scanned(it[q \ {Max(q)}], s[Max(q)])
      BY <1>2, <3>1 DEF Scans
    <3>3. h[q] = it[q] /\ h[q \ {Max(q)}] = it[q \ {Max(q)}]
      BY <2>2, <3>1
    <3> HIDE DEF h
    <3>4. QED
      BY <3>2, <3>3
  <2>5. h = [q \in SUBSET (1..(n + 1)) |-> Value(q)]
    <3>1. \A q \in SUBSET (1..(n + 1)) : h[q] = Value(q)
      BY <2>3, <2>4
    <3>2. h = [q \in SUBSET (1..(n + 1)) |-> h[q]]
      OBVIOUS
    <3> HIDE DEF h, Value
    <3>3. QED
      BY <3>1, <3>2
  <2>6. QED
    BY <2>5 DEF Scans
<1>3. Bad = {}
  <2> SUFFICES ASSUME Bad # {} PROVE FALSE
    OBVIOUS
  <2>1. PICK n \in Bad : \A m \in Bad : ~(m < n)
    BY LeastNumber
  <2>2. n # 0 /\ n \in Nat
    BY <1>1
  <2>3. n - 1 \in Nat /\ n - 1 < n /\ (n - 1) + 1 = n
    BY <2>2
  <2>4. n - 1 \notin Bad
    BY <2>1, <2>3
  <2>5. PICK it : Scans(s, n - 1, it)
    BY <2>3, <2>4
  <2>6. \E h : Scans(s, (n - 1) + 1, h)
    BY <1>2, <2>3, <2>5
  <2>7. QED
    BY <2>1, <2>3, <2>6
<1>4. QED
  BY <1>3

\* The scan takes one entry after the other (`for e in entries`).
LEMMA ScanStep ==
    ASSUME NEW s, NEW n \in Nat, NEW it, Scans(s, n, it)
    PROVE  /\ it[1..0] = NothingSeen
           /\ \A m \in 1..n : it[1..m] = Scanned(it[1..(m - 1)], s[m])
<1>1. it[1..0] = NothingSeen
  <2>1. 1..0 = {} /\ {} \in SUBSET (1..n)
    OBVIOUS
  <2>2. it[{}] = NothingSeen
    BY <2>1 DEF Scans
  <2>3. QED
    BY <2>1, <2>2
<1>2. ASSUME NEW m \in 1..n PROVE it[1..m] = Scanned(it[1..(m - 1)], s[m])
  <2>1. m - 1 \in Nat /\ (m - 1) + 1 = m /\ m \in 1..m /\ 1..m \in SUBSET (1..n)
    OBVIOUS
  <2>2. Max(1..m) = m
    BY <2>1, MaxTop
  <2>3. (1..m) \ {m} = 1..(m - 1)
    BY <2>1
  <2>4. it[1..m] = IF 1..m = {} THEN NothingSeen
                   ELSE Scanned(it[(1..m) \ {Max(1..m)}], s[Max(1..m)])
    BY <2>1 DEF Scans
  <2>5. QED
    BY <2>1, <2>2, <2>3, <2>4
<1>3. QED
  BY <1>1, <1>2

\* The longest runs of more than max_consecutive failures that end at b or before.
RunsUpTo(b) ==
    {i \in 1..Len(log) :
        /\ i > 1 => ~Failure(i - 1)
        /\ \A j \in i..(i + max_consecutive) : j <= b /\ Failure(j)}

Indices == {log[i].index : i \in DOMAIN log}

\* r lists the indices of consecutive failures, from place i on.
Names(r, i) == \A k \in DOMAIN r : Failure(i + k - 1) /\ r[k] = log[i + k - 1].index

\* What the scan holds after m entries.
Flagged(violations, b) ==
    /\ violations \in Seq(Seq(Indices))
    /\ Len(violations) = Cardinality(RunsUpTo(b))
    /\ \A r \in DOMAIN violations : \E i \in RunsUpTo(b) : Names(violations[r], i)

OpenRun(run, m) ==
    /\ run \in Seq(Indices) /\ Len(run) <= m
    /\ Names(run, m - Len(run) + 1)
    /\ Len(run) < m => ~Failure(m - Len(run))

Seen(s, m) == OpenRun(s.run, m) /\ Flagged(s.violations, m - Len(s.run))

\* Closing the run that is open at m flags it if it is long: no other ends between where it
\* began and m (compliance.rs:105-115, 119-128).
LEMMA RunCloses ==
    ASSUME Len(log) \in Nat, NEW m \in 0..Len(log), NEW s, Seen(s, m)
    PROVE  Flagged(Closed(s), m)
<1> DEFINE run == s.run
           a == m - Len(run)
           old == s.violations
<1>1. /\ run \in Seq(Indices) /\ Len(run) \in Nat /\ a \in Nat /\ a <= m /\ m \in Nat
      /\ DOMAIN run = 1..Len(run) /\ Len(run) = m - a
      /\ Names(run, a + 1) /\ (a > 0 => ~Failure(a))
      /\ Flagged(old, a)
  <2>1. OpenRun(run, m) /\ Flagged(old, a)
    BY DEF Seen
  <2> HIDE DEF run, old
  <2>2. /\ run \in Seq(Indices) /\ Len(run) <= m
        /\ Names(run, a + 1) /\ (Len(run) < m => ~Failure(a))
    BY <2>1 DEF OpenRun
  <2>3. Len(run) \in Nat /\ DOMAIN run = 1..Len(run) /\ m \in Nat
    BY <2>2
  <2>4. a \in Nat /\ a <= m /\ Len(run) = m - a /\ (a > 0 => Len(run) < m)
    BY <2>2, <2>3
  <2>5. QED
    BY <2>1, <2>2, <2>3, <2>4
<1> HIDE DEF run, a
<1>2. \A j \in (a + 1)..m : Failure(j)
  <2>1. ASSUME NEW j \in (a + 1)..m PROVE Failure(j)
    <3>1. j - a \in DOMAIN run /\ (a + 1) + (j - a) - 1 = j
      BY <1>1
    <3>2. Failure((a + 1) + (j - a) - 1)
      BY <1>1, <3>1 DEF Names
    <3>3. QED
      BY <3>1, <3>2
  <2>2. QED
    BY <2>1
<1>3. max_consecutive \in Nat
  BY RulesAssumption
<1>4. RunsUpTo(a) \subseteq RunsUpTo(m)
  <2>1. \A j \in Int : j <= a => j <= m
    BY <1>1
  <2>2. QED
    BY <1>3, <2>1 DEF RunsUpTo
<1>5. ASSUME NEW i \in RunsUpTo(m), i \notin RunsUpTo(a)
      PROVE  i = a + 1 /\ Len(run) > max_consecutive
  <2>1. /\ i \in 1..Len(log) /\ (i > 1 => ~Failure(i - 1))
        /\ \A j \in i..(i + max_consecutive) : j <= m /\ Failure(j)
    BY DEF RunsUpTo
  <2>2. PICK j \in i..(i + max_consecutive) : ~(j <= a)
    BY <1>5, <2>1 DEF RunsUpTo
  <2>3. ~(i <= a)
    <3> SUFFICES ASSUME i <= a PROVE FALSE
      OBVIOUS
    <3>1. a \in i..(i + max_consecutive) /\ a > 0
      BY <1>1, <1>3, <2>1, <2>2
    <3>2. QED
      BY <1>1, <2>1, <3>1
  <2>4. ~(i > a + 1)
    <3> SUFFICES ASSUME i > a + 1 PROVE FALSE
      OBVIOUS
    <3>1. i \in i..(i + max_consecutive)
      BY <1>3, <2>1
    <3>2. i <= m
      BY <2>1, <3>1
    <3>3. i - 1 \in (a + 1)..m /\ i > 1
      BY <1>1, <2>1, <3>2
    <3>4. QED
      BY <1>2, <2>1, <3>3
  <2>5. i + max_consecutive \in i..(i + max_consecutive)
    BY <1>3, <2>1
  <2>6. i + max_consecutive <= m
    BY <2>1, <2>5
  <2>7. QED
    BY <1>1, <1>3, <2>1, <2>3, <2>4, <2>6
<1>6. ASSUME Len(run) > max_consecutive PROVE a + 1 \in RunsUpTo(m)
  <2>1. a + 1 \in 1..Len(log)
    BY <1>1, <1>3, <1>6
  <2>2. a + 1 > 1 => ~Failure((a + 1) - 1)
    <3>1. (a + 1) - 1 = a
      BY <1>1
    <3>2. QED
      BY <1>1, <3>1
  <2>3. ASSUME NEW j \in (a + 1)..((a + 1) + max_consecutive) PROVE j <= m /\ Failure(j)
    <3>1. j \in (a + 1)..m
      BY <1>1, <1>3, <1>6
    <3>2. QED
      BY <1>1, <1>2, <3>1
  <2>4. QED
    BY <2>1, <2>2, <2>3 DEF RunsUpTo
<1>7. a + 1 \notin RunsUpTo(a)
  <2>1. a + 1 \in (a + 1)..((a + 1) + max_consecutive) /\ ~(a + 1 <= a)
    BY <1>1, <1>3
  <2>2. QED
    BY <2>1 DEF RunsUpTo
<1>8. IsFiniteSet(RunsUpTo(a))
  <2>1. \A n \in Nat : IsFiniteSet(1..n)
    BY FS_Interval
  <2>2. RunsUpTo(a) \in SUBSET (1..Len(log)) /\ IsFiniteSet(1..Len(log))
    BY <2>1 DEF RunsUpTo
  <2>3. QED
    BY <2>2, FS_Subset
<1>9. CASE Len(run) > max_consecutive
  <2>1. Closed(s) = Append(old, run)
    BY <1>9 DEF Closed, run
  <2>2. RunsUpTo(m) = RunsUpTo(a) \union {a + 1}
    BY <1>4, <1>5, <1>6, <1>9
  <2>3. Cardinality(RunsUpTo(m)) = Cardinality(RunsUpTo(a)) + 1
    BY <1>7, <1>8, <2>2, FS_AddElement
  <2>4. PICK list : list = Append(old, run)
    OBVIOUS
  <2>5. /\ old \in Seq(Seq(Indices)) /\ Len(old) = Cardinality(RunsUpTo(a))
        /\ \A r \in DOMAIN old : \E i \in RunsUpTo(a) : Names(old[r], i)
    BY <1>1 DEF Flagged
  <2> HIDE DEF old
  <2>6. /\ list \in Seq(Seq(Indices)) /\ Len(list) = Len(old) + 1
        /\ DOMAIN list = 1..(Len(old) + 1) /\ DOMAIN old = 1..Len(old) /\ Len(old) \in Nat
        /\ list[Len(old) + 1] = run /\ \A r \in 1..Len(old) : list[r] = old[r]
    BY <1>1, <2>4, <2>5
  <2>7. ASSUME NEW r \in DOMAIN list PROVE \E i \in RunsUpTo(m) : Names(list[r], i)
    <3>1. r = Len(old) + 1 \/ r \in 1..Len(old)
      BY <2>6
    <3>2. CASE r = Len(old) + 1
      BY <1>1, <1>6, <1>9, <2>6, <3>2
    <3>3. CASE r \in 1..Len(old)
      <4>1. PICK i \in RunsUpTo(a) : Names(old[r], i)
        BY <2>5, <2>6, <3>3
      <4>2. list[r] = old[r] /\ i \in RunsUpTo(m)
        BY <1>4, <2>6, <3>3
      <4>3. QED
        BY <4>1, <4>2
    <3>4. QED
      BY <3>1, <3>2, <3>3
  <2>8. QED
    BY <2>1, <2>3, <2>4, <2>5, <2>6, <2>7 DEF Flagged
<1>10. CASE ~(Len(run) > max_consecutive)
  <2>1. Closed(s) = old
    BY <1>10 DEF Closed, run
  <2>2. RunsUpTo(m) = RunsUpTo(a)
    BY <1>4, <1>5, <1>10
  <2>3. QED
    BY <1>1, <2>1, <2>2 DEF Flagged
<1>11. QED
  BY <1>9, <1>10

\* The next entry extends the open run, or closes it and stands before the next one
\* (compliance.rs:101-117).
LEMMA EntryScanned ==
    ASSUME Len(log) \in Nat, NEW m \in Nat, m + 1 \in DOMAIN log, DOMAIN log = 1..Len(log),
           NEW s, Seen(s, m)
    PROVE  Seen(Scanned(s, log[m + 1]), m + 1)
<1> DEFINE e == log[m + 1]
           run == s.run
           next == Scanned(s, e)
<1>1. /\ run \in Seq(Indices) /\ Len(run) \in Nat /\ Len(run) <= m /\ m + 1 \in Nat
      /\ Names(run, m - Len(run) + 1) /\ (Len(run) < m => ~Failure(m - Len(run)))
      /\ Flagged(s.violations, m - Len(run))
  <2>1. OpenRun(run, m) /\ Flagged(s.violations, m - Len(run))
    BY DEF Seen
  <2> HIDE DEF run
  <2>2. /\ run \in Seq(Indices) /\ Len(run) <= m
        /\ Names(run, m - Len(run) + 1) /\ (Len(run) < m => ~Failure(m - Len(run)))
    BY <2>1 DEF OpenRun
  <2>3. QED
    BY <2>1, <2>2
<1>2. e.index \in Indices
  BY DEF Indices
<1>3. Failure(m + 1) <=> e.event.action = AuthFailure
  BY DEF Failure
<1>4. CASE e.event.action = AuthFailure
  <2> DEFINE longer == Append(run, e.index)
  <2>1. next.run = longer /\ next.violations = s.violations
    BY <1>4 DEF Scanned
  <2> HIDE DEF e, run, next
  <2>2. /\ longer \in Seq(Indices) /\ Len(longer) = Len(run) + 1
        /\ DOMAIN longer = 1..(Len(run) + 1) /\ DOMAIN run = 1..Len(run)
        /\ longer[Len(run) + 1] = e.index /\ \A k \in 1..Len(run) : longer[k] = run[k]
    BY <1>1, <1>2
  <2> HIDE DEF longer
  <2>3. PICK b \in Nat : b = m - Len(run)
    <3>1. PICK l : l = Len(run)
      OBVIOUS
    <3>2. l \in Nat /\ m \in Nat /\ l <= m
      BY <1>1, <3>1
    <3>3. m - l \in Nat
      BY <3>2
    <3>4. QED
      BY <3>1, <3>3
  <2>4. (m + 1) - Len(longer) = b /\ Len(longer) <= m + 1
    BY <1>1, <2>2, <2>3
  <2>5. Names(longer, b + 1)
    <3>1. ASSUME NEW k \in 1..(Len(run) + 1)
          PROVE  Failure((b + 1) + k - 1) /\ longer[k] = log[(b + 1) + k - 1].index
      <4>1. CASE k = Len(run) + 1
        <5>1. (b + 1) + k - 1 = m + 1
          BY <1>1, <2>3, <4>1
        <5>2. QED
          BY <1>3, <1>4, <2>2, <4>1, <5>1 DEF e
      <4>2. CASE k # Len(run) + 1
        <5>1. k \in 1..Len(run)
          BY <1>1, <4>2
        <5>2. Failure((b + 1) + k - 1) /\ run[k] = log[(b + 1) + k - 1].index
          BY <1>1, <2>2, <2>3, <5>1 DEF Names
        <5>3. QED
          BY <2>2, <5>1, <5>2
      <4>3. QED
        BY <4>1, <4>2
    <3>2. QED
      BY <2>2, <3>1 DEF Names
  <2>6. OpenRun(longer, m + 1)
    <3>1. Len(longer) < m + 1 => ~Failure(b)
      BY <1>1, <2>2, <2>3
    <3>2. QED
      BY <2>2, <2>4, <2>5, <3>1 DEF OpenRun
  <2>7. Flagged(next.violations, (m + 1) - Len(next.run))
    BY <1>1, <2>1, <2>3, <2>4
  <2>8. QED
    BY <2>1, <2>6, <2>7 DEF Seen, next, e
<1>5. CASE e.event.action # AuthFailure
  <2>1. next.run = <<>> /\ next.violations = Closed(s)
    BY <1>5 DEF Scanned
  <2>2. m \in 0..Len(log)
    OBVIOUS
  <2>3. Flagged(Closed(s), m)
    BY <2>2, RunCloses
  <2>4. RunsUpTo(m + 1) = RunsUpTo(m)
    <3>1. ASSUME NEW i \in 1..Len(log),
                 \A j \in i..(i + max_consecutive) : j <= m + 1 /\ Failure(j),
                 NEW j \in i..(i + max_consecutive)
          PROVE  j <= m
      <4>1. j <= m + 1 /\ Failure(j) /\ ~Failure(m + 1)
        BY <1>3, <1>5, <3>1
      <4>2. QED
        BY <4>1, RulesAssumption
    <3>2. ASSUME NEW j \in Int, j <= m PROVE j <= m + 1
      BY <3>2
    <3>3. max_consecutive \in Nat
      BY RulesAssumption
    <3>4. RunsUpTo(m + 1) \subseteq RunsUpTo(m)
      BY <3>1 DEF RunsUpTo
    <3>5. RunsUpTo(m) \subseteq RunsUpTo(m + 1)
      BY <3>2, <3>3 DEF RunsUpTo
    <3>6. QED
      BY <3>4, <3>5
  <2>5. Flagged(next.violations, m + 1)
    BY <2>1, <2>3, <2>4 DEF Flagged
  <2> HIDE DEF next
  <2>6. OpenRun(<<>>, m + 1)
    <3>1. PICK none : none = <<>>
      OBVIOUS
    <3>2. none \in Seq(Indices) /\ Len(none) = 0 /\ DOMAIN none = {}
      BY <3>1
    <3>3. m + 1 - Len(none) = m + 1 /\ Len(none) <= m + 1
      BY <3>2
    <3>4. OpenRun(none, m + 1)
      BY <1>3, <1>5, <3>2, <3>3 DEF OpenRun, Names
    <3>5. QED
      BY <3>1, <3>4
  <2>7. (m + 1) - Len(<<>>) = m + 1
    <3>1. Len(<<>>) = 0
      OBVIOUS
    <3>2. QED
      BY <3>1
  <2>8. QED
    BY <2>1, <2>5, <2>6, <2>7 DEF Seen, next, e
<1>6. QED
  BY <1>4, <1>5

\* After the whole log the open run is closed too.
LEMMA LogScanned ==
    ASSUME NEW S, log \in Seq(S)
    PROVE  Flagged(check_consecutive_auth_failures(log), Len(log))
<1> DEFINE n == Len(log)
<1>1. n \in Nat /\ DOMAIN log = 1..n
  OBVIOUS
<1> HIDE DEF n
<1>2. Scan(log) = (CHOOSE it : Scans(log, n, it))[1..n]
  BY <1>1 DEF Scan, FoldLeft, MapThenFoldSet, Scans
<1>3. PICK it : Scans(log, n, it) /\ Scan(log) = it[1..n]
  BY <1>1, <1>2, ScanExists
<1> DEFINE Bad == {m \in 0..n : ~Seen(it[1..m], m)}
<1>4. Seen(it[1..0], 0)
  <2>1. it[1..0] = NothingSeen
    BY <1>1, <1>3, ScanStep
  <2>2. PICK none : none = <<>>
    OBVIOUS
  <2>3. /\ none \in Seq(Indices) /\ none \in Seq(Seq(Indices))
        /\ Len(none) = 0 /\ DOMAIN none = {}
    BY <2>2
  <2>4. RunsUpTo(0) = {}
    <3>1. ASSUME NEW i \in 1..Len(log) PROVE i \in i..(i + max_consecutive) /\ ~(i <= 0)
      BY RulesAssumption
    <3>2. QED
      BY <3>1 DEF RunsUpTo
  <2>5. Flagged(none, 0)
    BY <2>3, <2>4, FS_EmptySet DEF Flagged
  <2>6. OpenRun(none, 0)
    BY <2>3 DEF OpenRun, Names
  <2>7. 0 - Len(none) = 0
    BY <2>3
  <2>8. NothingSeen.run = none /\ NothingSeen.violations = none
    BY <2>2 DEF NothingSeen
  <2>9. QED
    BY <2>1, <2>5, <2>6, <2>7, <2>8 DEF Seen
<1>5. ASSUME NEW m \in Nat, m + 1 <= n, Seen(it[1..m], m)
      PROVE  Seen(it[1..(m + 1)], m + 1)
  <2>1. m + 1 \in 1..n /\ (m + 1) - 1 = m
    BY <1>1, <1>5
  <2>2. it[1..(m + 1)] = Scanned(it[1..((m + 1) - 1)], log[m + 1])
    BY <1>1, <1>3, <2>1, ScanStep
  <2>3. Seen(Scanned(it[1..m], log[m + 1]), m + 1)
    BY <1>1, <1>5, <2>1, EntryScanned DEF n
  <2>4. QED
    BY <2>1, <2>2, <2>3
<1>6. Bad = {}
  <2> SUFFICES ASSUME Bad # {} PROVE FALSE
    OBVIOUS
  <2>1. PICK m \in Bad : \A j \in Bad : ~(j < m)
    <3>1. Bad \subseteq Nat
      OBVIOUS
    <3> HIDE DEF Bad
    <3>2. QED
      BY <3>1, LeastNumber
  <2>2. m \in 0..n /\ ~Seen(it[1..m], m) /\ m # 0
    BY <1>4
  <2>3. m - 1 \in Nat /\ m - 1 \in 0..n /\ m - 1 < m /\ (m - 1) + 1 = m /\ (m - 1) + 1 <= n
    BY <1>1, <2>2
  <2>4. Seen(it[1..(m - 1)], m - 1)
    BY <2>1, <2>3
  <2>5. Seen(it[1..((m - 1) + 1)], (m - 1) + 1)
    BY <1>5, <2>3, <2>4
  <2>6. QED
    BY <2>2, <2>3, <2>5
<1>7. n \in 0..n
  BY <1>1
<1>8. Seen(Scan(log), n)
  BY <1>3, <1>6, <1>7
<1>9. Flagged(Closed(Scan(log)), n)
  BY <1>1, <1>7, <1>8, RunCloses DEF n
<1>10. QED
  BY <1>9 DEF check_consecutive_auth_failures, n

\* For any events, limits and log, edited and shortened as it may be: the auth-failure rule
\* flags every longest run of more than max_consecutive failures once, also the one at the
\* end, and a log that passes has none (compliance.rs:95-129, evaluate).
THEOREM EveryLongRunFlaggedHolds == AuditSpec => []EveryLongRunFlagged
<1>1. HashesStand => EveryLongRunFlagged
  <2> SUFFICES ASSUME HashesStand PROVE EveryLongRunFlagged
    OBVIOUS
  <2>1. PICK S : log \in Seq(S)
    BY DEF HashesStand
  <2>2. Len(log) \in Nat /\ DOMAIN log = 1..Len(log)
    BY <2>1
  <2>3. RunsUpTo(Len(log)) = LongRuns
    <3>1. ASSUME NEW i \in 1..Len(log), NEW j \in i..(i + max_consecutive)
          PROVE  j <= Len(log) <=> j \in 1..Len(log)
      BY <2>2, RulesAssumption
    <3>2. QED
      BY <2>2, <3>1 DEF RunsUpTo, LongRuns
  <2>4. PICK flagged : flagged = check_consecutive_auth_failures(log)
    OBVIOUS
  <2>5. Flagged(flagged, Len(log))
    BY <2>1, <2>4, LogScanned
  <2>6. Len(flagged) = Cardinality(LongRuns)
    BY <2>3, <2>5 DEF Flagged
  <2>7. \A r \in DOMAIN flagged : \E i \in LongRuns : Names(flagged[r], i)
    BY <2>3, <2>5 DEF Flagged
  <2>8. ASSUME passed(log)
        PROVE  LongRuns = {} /\ (Count(log, KeyRevoke) > 0 => Count(log, KeyRotation) > 0)
    <3>1. Len(flagged) = 0
      BY <2>4, <2>8 DEF passed
    <3>2. \A n \in Nat : IsFiniteSet(1..n)
      BY FS_Interval
    <3>3. IsFiniteSet(1..Len(log))
      BY <2>2, <3>2
    <3>4. IsFiniteSet(LongRuns)
      <4>1. LongRuns \in SUBSET (1..Len(log))
        BY <2>2 DEF LongRuns
      <4>2. QED
        BY <3>3, <4>1, FS_Subset
    <3>5. LongRuns = {}
      BY <2>6, <3>1, <3>4, FS_EmptySet
    <3>6. ASSUME NEW action PROVE Count(log, action) \in Nat
      <4>1. PICK X : X = {i \in DOMAIN log : log[i].event.action = action}
        OBVIOUS
      <4>2. X \in SUBSET (1..Len(log))
        BY <2>2, <4>1
      <4>3. Cardinality(X) \in Nat
        BY <3>3, <4>2, FS_Subset, FS_CardinalityType
      <4>4. QED
        BY <4>1, <4>3 DEF Count
    <3>7. ~(Count(log, KeyRotation) = 0 /\ Count(log, KeyRevoke) > 0)
      BY <2>8 DEF passed, check_revocation_rotation_ratio
    <3>8. QED
      BY <3>5, <3>6, <3>7
  <2>9. QED
    BY <2>4, <2>6, <2>7, <2>8 DEF EveryLongRunFlagged, Names
<1>2. AuditInit => HashesStand
  BY DEF AuditInit, HashesStand
<1>3. QED
  BY <1>1, <1>2, NextStands, PTL DEF AuditSpec

-------------------------------------------------------------------------------
(***************************************************************************)
(* Attestation: evidence in circulation was stamped at most MaxLead ahead  *)
(* of the clock (Stamped); a verdict depends on time through the age       *)
(* alone, which only grows, so a refusal lasts (RefusalsLast); what was    *)
(* accepted last was verified, and was never refused before (LastVerified).*)
(***************************************************************************)

Stamped ==
    /\ now \in Nat
    /\ policy \in Routing
    /\ \A e \in evidence :
          /\ e \in Evidence
          /\ e.form = "quote" => e.tee = "SGX"
          /\ e.stamp <= e.born + MaxLead

RefusalsLast == \A e \in refused : e \in evidence /\ Verify(policy, e, now) # "ok"

LastVerified ==
    last.verdict = "ok" /\ last.by = "service" =>
        /\ last.e \in evidence /\ last.e \notin refused
        /\ last.at \in Nat
        /\ Verify(policy, last.e, last.at) = "ok"

BatchFed ==
    /\ batch = [input |-> batch.input, items |-> batch.items, done |-> batch.done,
                passed |-> batch.passed, failed |-> batch.failed]
    /\ batch.input \in Seq(evidence)
    /\ batch.items \in Seq(Reasons \cup {"ok"})

AttIInv == Stamped /\ RefusalsLast /\ LastVerified /\ BatchFed

Age(e, t) == saturating_sub(t, e.stamp)

\* The age is a natural number and does not shrink as time passes
\* (quote_verifier.rs:117, trustzone/attestation.rs:70).
LEMMA AgeGrows ==
    ASSUME NEW e \in Evidence, NEW t \in Nat, NEW u \in Nat, t <= u
    PROVE  Age(e, t) \in Nat /\ Age(e, u) \in Nat /\ Age(e, t) <= Age(e, u)
<1>1. e.stamp \in Nat
  BY DEF Evidence
<1>2. QED
  BY <1>1 DEF Age, saturating_sub

\* A result passes when each check of enforce_policy does.
LEMMA EnforceOk ==
    ASSUME NEW p, NEW r
    PROVE  enforce_policy(p, r) = "ok" <=>
              /\ r.tee \in p.allowed_tees
              /\ ~(r.age > p.max_age[r.tee])
              /\ r.trust_level >= p.minimum_trust_level
              /\ r.is_valid /\ r.is_fresh
  BY DEF enforce_policy, meets_minimum

\* A verdict is one of the reasons, or "ok" (UnifiedAttestationResult, its errors).
LEMMA VerdictKnown ==
    ASSUME NEW p, NEW e \in Evidence, NEW t
    PROVE  Verify(p, e, t) \in Reasons \cup {"ok"}
<1>1. ASSUME NEW r PROVE enforce_policy(p, r) \in Reasons \cup {"ok"}
  BY DEF enforce_policy, Reasons
<1>2. e.form \in {"quote", "report"}
  BY DEF Evidence
<1>3. CASE e.form = "quote"
  BY <1>1, <1>3 DEF Verify
<1>4. CASE e.form = "report" /\ e.tee = "TrustZone"
  BY <1>1, <1>4 DEF Verify
<1>5. CASE e.form = "report" /\ e.tee # "TrustZone"
  BY <1>5 DEF Verify, Reasons
<1>6. QED
  BY <1>2, <1>3, <1>4, <1>5

\* When the service accepts a quote (attestation_service/mod.rs enforce_policy over
\* quote_verifier.rs verify).
LEMMA QuoteVerdict ==
    ASSUME NEW p \in RoutingPolicy, NEW e \in Evidence, NEW t \in Nat, e.form = "quote"
    PROVE  Verify(p, e, t) = "ok" <=>
              /\ "SGX" \in p.allowed_tees
              /\ Age(e, t) <= p.max_age["SGX"]
              /\ e.signed
              /\ Age(e, t) <= QuoteMaxAge
<1> DEFINE r == FromQuote(verify_quote_standard(e, t))
<1>1. Verify(p, e, t) = enforce_policy(p, r)
  BY DEF Verify
<1>2. /\ r.tee = "SGX"
      /\ r.age = Age(e, t)
      /\ r.is_valid <=> e.signed /\ Age(e, t) <= QuoteMaxAge
      /\ r.is_fresh <=> Age(e, t) <= QuoteMaxAge
  BY DEF FromQuote, verify_quote_standard, verify_quote, check_advisories, Age, Evidence
<1>3. e.signed => r.trust_level = High
  BY DEF FromQuote, verify_quote_standard, verify_quote, check_advisories
<1>4. p.minimum_trust_level \in Low..High
  BY DEF RoutingPolicy
<1>5. e.signed => r.trust_level >= p.minimum_trust_level
  BY <1>3, <1>4 DEF Low, High
<1>6. Age(e, t) \in Nat /\ p.max_age["SGX"] \in Nat
  BY AgeGrows DEF RoutingPolicy
<1> HIDE DEF r
<1>7. Verify(p, e, t) = "ok" <=>
         /\ r.tee \in p.allowed_tees
         /\ ~(r.age > p.max_age[r.tee])
         /\ r.trust_level >= p.minimum_trust_level
         /\ r.is_valid /\ r.is_fresh
  BY <1>1, EnforceOk
<1>8. QED
  BY <1>2, <1>5, <1>6, <1>7

\* When the service accepts a report of TrustZone (enforce_policy over
\* trustzone/attestation.rs verify).
LEMMA ReportVerdict ==
    ASSUME NEW p \in RoutingPolicy, NEW e \in Evidence, NEW t \in Nat,
           e.form = "report", e.tee = "TrustZone"
    PROVE  Verify(p, e, t) = "ok" <=>
              /\ "TrustZone" \in p.allowed_tees
              /\ Age(e, t) <= p.max_age["TrustZone"]
              /\ RequireMarker => e.marked
              /\ Age(e, t) <= ReportMaxAge
              /\ Medium >= p.minimum_trust_level
<1> DEFINE r == FromReport(verify_report(e, t))
<1>1. Verify(p, e, t) = enforce_policy(p, r)
  BY DEF Verify
<1>2. /\ r.tee = "TrustZone"
      /\ r.age = Age(e, t)
      /\ r.is_valid <=> Age(e, t) <= ReportMaxAge /\ (RequireMarker => e.marked)
      /\ r.is_fresh <=> Age(e, t) <= ReportMaxAge
      /\ r.trust_level = IF r.is_valid THEN Medium ELSE Low
  BY DEF FromReport, verify_report, Age
<1>3. Age(e, t) \in Nat /\ p.max_age["TrustZone"] \in Nat
  BY AgeGrows DEF RoutingPolicy
<1> HIDE DEF r
<1>4. Verify(p, e, t) = "ok" <=>
         /\ r.tee \in p.allowed_tees
         /\ ~(r.age > p.max_age[r.tee])
         /\ r.trust_level >= p.minimum_trust_level
         /\ r.is_valid /\ r.is_fresh
  BY <1>1, EnforceOk
<1>5. QED
  BY <1>2, <1>3, <1>4

\* Any other report is unsupported (verify_report of attestation_service/mod.rs).
LEMMA OtherVerdict ==
    ASSUME NEW p \in RoutingPolicy, NEW e \in Evidence, NEW t \in Nat,
           e.form = "report", e.tee # "TrustZone"
    PROVE  Verify(p, e, t) # "ok"
  BY DEF Verify

\* A refusal lasts: what is refused at a time is refused at any later one.
LEMMA RefusedLater ==
    ASSUME NEW p \in RoutingPolicy, NEW e \in Evidence, NEW t \in Nat, NEW u \in Nat,
           t <= u, Verify(p, e, u) = "ok"
    PROVE  Verify(p, e, t) = "ok"
<1>1. /\ Age(e, t) \in Nat /\ Age(e, u) \in Nat /\ Age(e, t) <= Age(e, u)
      /\ p.max_age["SGX"] \in Nat /\ p.max_age["TrustZone"] \in Nat
  BY AgeGrows DEF RoutingPolicy
<1>2. CASE e.form = "quote"
  BY <1>1, <1>2, QuoteVerdict, AgesAssumption
<1>3. CASE e.form = "report" /\ e.tee = "TrustZone"
  BY <1>1, <1>3, ReportVerdict, AgesAssumption
<1>4. CASE e.form = "report" /\ e.tee # "TrustZone"
  BY <1>4, OtherVerdict
<1>5. QED
  BY <1>2, <1>3, <1>4 DEF Evidence

\* The initial state has no evidence and no verdict.
LEMMA AttInitIInv == AttInit => AttIInv
  BY DEF AttInit, AttIInv, Stamped, RefusalsLast, LastVerified, BatchFed, NoBatch

\* New evidence joins, and nothing else changes (the platforms: sgx/mod.rs get_quote,
\* trustzone/mod.rs get_attestation, build_simulated_report).
LEMMA AttIssueIInv ==
    ASSUME AttIInv, NEW e \in Evidence, e.form = "quote" => e.tee = "SGX",
           e.stamp <= e.born + MaxLead, Issue(e)
    PROVE  AttIInv'
<1>1. /\ evidence' = evidence \cup {e}
      /\ UNCHANGED <<now, policy, refused, last, batch>>
  BY DEF Issue
<1>2. Stamped' /\ RefusalsLast' /\ LastVerified'
  BY <1>1 DEF AttIInv, Stamped, RefusalsLast, LastVerified
<1>3. BatchFed'
  BY <1>1 DEF AttIInv, BatchFed
<1>4. QED
  BY <1>2, <1>3 DEF AttIInv

\* Each platform stamps its evidence at most MaxLead ahead of the verifier's clock.
LEMMA AttPlatformIInv ==
    ASSUME AttIInv,
           \/ \E lead \in 0..MaxLead : get_quote(lead)
           \/ \E stamp \in 0..(now + MaxLead) : build_simulated_report(stamp)
           \/ get_attestation(SessionId)
           \/ Arrive("quote", "SGX")
           \/ \E tee \in {"SGX", "AmdSev"} : Arrive("report", tee)
    PROVE  AttIInv'
<1>1. now \in Nat /\ MaxLead \in Nat
  BY ClockAssumption DEF AttIInv, Stamped
<1>2. ASSUME NEW lead \in 0..MaxLead, get_quote(lead) PROVE AttIInv'
  <2> DEFINE e == [form |-> "quote", tee |-> "SGX", signed |-> TRUE, chained |-> FALSE,
                   marked |-> FALSE, stamp |-> now + lead, born |-> now]
  <2>1. e \in Evidence /\ e.tee = "SGX" /\ e.stamp <= e.born + MaxLead
    BY <1>1 DEF Evidence, TeeType
  <2>2. Issue(e)
    BY <1>2 DEF get_quote
  <2> HIDE DEF e
  <2>3. QED
    BY <2>1, <2>2, AttIssueIInv
<1>3. ASSUME NEW stamp \in 0..(now + MaxLead), build_simulated_report(stamp) PROVE AttIInv'
  <2> DEFINE e == [form |-> "report", tee |-> "TrustZone", signed |-> FALSE,
                   chained |-> FALSE, marked |-> TRUE, stamp |-> stamp, born |-> now]
  <2>1. e \in Evidence /\ e.form # "quote" /\ e.stamp <= e.born + MaxLead
    BY <1>1 DEF Evidence, TeeType
  <2>2. Issue(e)
    BY <1>3 DEF build_simulated_report
  <2> HIDE DEF e
  <2>3. QED
    BY <2>1, <2>2, AttIssueIInv
<1>4. ASSUME get_attestation(SessionId) PROVE AttIInv'
  <2> DEFINE e == [form |-> "report", tee |-> "TrustZone", signed |-> FALSE,
                   chained |-> FALSE, marked |-> FALSE, stamp |-> 0, born |-> now]
  <2>1. e \in Evidence /\ e.form # "quote" /\ e.stamp <= e.born + MaxLead
    BY <1>1 DEF Evidence, TeeType
  <2>2. Issue(e)
    BY <1>4 DEF get_attestation
  <2> HIDE DEF e
  <2>3. QED
    BY <2>1, <2>2, AttIssueIInv
<1>5. ASSUME NEW form \in {"quote", "report"}, NEW tee \in {"SGX", "AmdSev"},
             form = "quote" => tee = "SGX", Arrive(form, tee)
      PROVE AttIInv'
  <2> DEFINE e == [form |-> form, tee |-> tee, signed |-> FALSE, chained |-> TRUE,
                   marked |-> TRUE, stamp |-> now, born |-> now]
  <2>1. /\ e \in Evidence /\ (e.form = "quote" => e.tee = "SGX")
        /\ e.stamp <= e.born + MaxLead
    BY <1>1, <1>5 DEF Evidence, TeeType
  <2>2. Issue(e)
    BY <1>5 DEF Arrive
  <2> HIDE DEF e
  <2>3. QED
    BY <2>1, <2>2, AttIssueIInv
<1>6. QED
  BY <1>2, <1>3, <1>4, <1>5

\* A verdict of the service keeps refusals and the last acceptance apart, because what
\* is refused already cannot be found acceptable now (enforce_policy).
LEMMA AttJudgeIInv ==
    ASSUME AttIInv, NEW e \in evidence, Judge(e), UNCHANGED <<now, policy, evidence>>
    PROVE  Stamped' /\ RefusalsLast' /\ LastVerified'
<1>1. Stamped'
  BY DEF AttIInv, Stamped
<1>2. CASE Verify(policy, e, now) = "ok"
  <2>1. /\ last' = [by |-> "service", e |-> e, at |-> now, verdict |-> "ok"]
        /\ refused' = refused
    BY <1>2 DEF Judge
  <2>2. e \notin refused
    BY <1>2 DEF AttIInv, RefusalsLast
  <2>3. RefusalsLast'
    BY <2>1 DEF AttIInv, RefusalsLast
  <2>4. LastVerified'
    BY <1>2, <2>1, <2>2 DEF AttIInv, Stamped, LastVerified
  <2>5. QED
    BY <1>1, <2>3, <2>4
<1>3. CASE Verify(policy, e, now) # "ok"
  <2>1. /\ last'.verdict # "ok"
        /\ refused' = refused \cup {e}
    BY <1>3 DEF Judge
  <2>2. RefusalsLast'
    BY <1>3, <2>1 DEF AttIInv, RefusalsLast
  <2>3. LastVerified'
    BY <2>1 DEF LastVerified
  <2>4. QED
    BY <1>1, <2>2, <2>3
<1>4. QED
  BY <1>2, <1>3

\* As time passes, ages grow and refusals stand.
LEMMA AttTickIInv ==
    ASSUME AttIInv, Tick
    PROVE  AttIInv'
<1>1. now \in Nat /\ now' = now + 1 /\ now' \in Nat /\ now <= now'
  BY DEF AttIInv, Stamped, Tick
<1>2. UNCHANGED <<policy, evidence, refused, last, batch>>
  BY DEF Tick
<1>3. policy \in RoutingPolicy
  BY RoutingAssumption DEF AttIInv, Stamped
<1>4. RefusalsLast'
  <2> SUFFICES ASSUME NEW e \in refused
               PROVE  e \in evidence /\ Verify(policy, e, now') # "ok"
    BY <1>2 DEF RefusalsLast
  <2>1. e \in evidence /\ e \in Evidence /\ Verify(policy, e, now) # "ok"
    BY DEF AttIInv, Stamped, RefusalsLast
  <2>2. QED
    BY <1>1, <1>3, <2>1, RefusedLater
<1>5. Stamped' /\ LastVerified' /\ BatchFed'
  BY <1>1, <1>2 DEF AttIInv, Stamped, LastVerified, BatchFed
<1>6. QED
  BY <1>4, <1>5 DEF AttIInv

\* Every step keeps the invariant: Next's actions one by one.
LEMMA AttNextIInv == AttIInv /\ [AttNext]_<<teeVars, attVars>> => AttIInv'
<1> SUFFICES ASSUME AttIInv, [AttNext]_<<teeVars, attVars>> PROVE AttIInv'
  OBVIOUS
<1>1. CASE UNCHANGED attVars
  BY <1>1 DEF AttIInv, Stamped, RefusalsLast, LastVerified, BatchFed, attVars
<1>2. CASE \/ \E lead \in 0..MaxLead : get_quote(lead)
           \/ \E stamp \in 0..(now + MaxLead) : build_simulated_report(stamp)
           \/ get_attestation(SessionId)
           \/ Arrive("quote", "SGX")
           \/ \E tee \in {"SGX", "AmdSev"} : Arrive("report", tee)
  BY <1>2, AttPlatformIInv
<1>3. ASSUME NEW e \in evidence, VerifyOne(e) PROVE AttIInv'
  <2>1. Stamped' /\ RefusalsLast' /\ LastVerified'
    BY <1>3, AttJudgeIInv DEF VerifyOne
  <2>2. BatchFed'
    BY <1>3 DEF AttIInv, BatchFed, VerifyOne
  <2>3. QED
    BY <2>1, <2>2 DEF AttIInv
<1>4. ASSUME NEW c, NEW e \in evidence, VerifyRemotely(c, e) PROVE AttIInv'
  <2>1. last'.by = "provider" /\ UNCHANGED <<now, policy, evidence, refused, batch>>
    BY <1>4 DEF VerifyRemotely
  <2>2. Stamped' /\ RefusalsLast' /\ LastVerified' /\ BatchFed'
    BY <2>1 DEF AttIInv, Stamped, RefusalsLast, LastVerified, BatchFed
  <2>3. QED
    BY <2>2 DEF AttIInv
<1>5. ASSUME NEW n \in 1..MaxBatch, NEW input \in [1..n -> evidence], BeginBatch(input)
      PROVE AttIInv'
  <2>1. /\ batch' = [NoBatch EXCEPT !.input = input, !.done = FALSE]
        /\ UNCHANGED <<now, policy, evidence, refused, last>>
    BY <1>5 DEF BeginBatch
  <2>2. batch' = [input |-> input, items |-> <<>>, done |-> FALSE, passed |-> 0, failed |-> 0]
    BY <2>1 DEF NoBatch
  <2>3. input \in Seq(evidence')
    <3>1. n \in Nat /\ evidence' = evidence
      BY <2>1, BatchAssumption
    <3>2. QED
      BY <3>1, SeqDef
  <2>4. BatchFed'
    <3>1. batch'.input = input /\ batch'.items = <<>>
      BY <2>2
    <3>2. batch' = [input |-> batch'.input, items |-> batch'.items, done |-> batch'.done,
                    passed |-> batch'.passed, failed |-> batch'.failed]
      BY <2>2
    <3>3. <<>> \in Seq(Reasons \cup {"ok"})
      OBVIOUS
    <3>4. QED
      BY <2>3, <3>1, <3>2, <3>3 DEF BatchFed
  <2>5. QED
    BY <2>1, <2>4 DEF AttIInv, Stamped, RefusalsLast, LastVerified
<1>6. CASE BatchItem
  <2> DEFINE e == batch.input[Len(batch.items) + 1]
  <2>1. /\ Judge(e)
        /\ batch' = [batch EXCEPT !.items = Append(@, Verify(policy, e, now))]
        /\ UNCHANGED <<now, policy, evidence>>
        /\ Len(batch.items) < Len(batch.input)
    BY <1>6 DEF BatchItem
  <2>2. /\ batch.input \in Seq(evidence)
        /\ batch.items \in Seq(Reasons \cup {"ok"})
        /\ Len(batch.items) + 1 \in 1..Len(batch.input)
    BY <2>1 DEF AttIInv, BatchFed
  <2>3. e \in evidence
    BY <2>2
  <2>4. Stamped' /\ RefusalsLast' /\ LastVerified'
    BY <2>1, <2>3, AttJudgeIInv
  <2>5. Verify(policy, e, now) \in Reasons \cup {"ok"}
    BY <2>3, VerdictKnown DEF AttIInv, Stamped
  <2>6. /\ batch'.input = batch.input
        /\ batch'.items = Append(batch.items, Verify(policy, e, now))
        /\ batch' = [input |-> batch'.input, items |-> batch'.items, done |-> batch'.done,
                     passed |-> batch'.passed, failed |-> batch'.failed]
    <3> DEFINE v == Verify(policy, e, now)
    <3>1. batch' = [batch EXCEPT !.items = Append(@, v)]
      BY <2>1
    <3> HIDE DEF v
    <3>2. batch = [input |-> batch.input, items |-> batch.items, done |-> batch.done,
                   passed |-> batch.passed, failed |-> batch.failed]
      BY DEF AttIInv, BatchFed
    <3>3. batch' = [input |-> batch.input, items |-> Append(batch.items, v),
                    done |-> batch.done, passed |-> batch.passed, failed |-> batch.failed]
      BY <3>1, <3>2
    <3>4. QED
      BY <3>3 DEF v
  <2>7. BatchFed'
    <3> DEFINE v == Verify(policy, e, now)
    <3>1. Append(batch.items, v) \in Seq(Reasons \cup {"ok"})
      BY <2>2, <2>5
    <3>2. QED
      BY <2>1, <2>2, <2>6, <3>1 DEF BatchFed
  <2>8. QED
    BY <2>4, <2>7 DEF AttIInv
<1>7. CASE EndBatch
  <2>1. QED
    BY <1>7 DEF AttIInv, Stamped, RefusalsLast, LastVerified, BatchFed, EndBatch
<1>8. CASE Tick
  BY <1>8, AttTickIInv
<1>9. QED
  BY <1>1, <1>2, <1>3, <1>4, <1>5, <1>6, <1>7, <1>8 DEF AttNext, attVars

\* The invariant holds in every behaviour.
THEOREM AttIInvHolds == AttSpec => []AttIInv
<1>1. QED
  BY AttInitIInv, AttNextIInv, PTL DEF AttSpec

\* What the service accepts was made within the limits of the provider and of the
\* service, give or take the platform's lead (quote_verifier.rs:117,
\* trustzone/attestation.rs:70, attestation_service/mod.rs:272).
THEOREM AcceptedRecentHolds == AttSpec => []AcceptedRecent
<1>1. AttIInv => AcceptedRecent
  <2> SUFFICES ASSUME AttIInv, last.verdict = "ok", last.by = "service"
               PROVE  /\ last.e.tee \in policy.allowed_tees
                      /\ last.at - last.e.born <= ProviderMaxAge(last.e.tee) + MaxLead
                      /\ last.at - last.e.born <= policy.max_age[last.e.tee] + MaxLead
    BY DEF AcceptedRecent
  <2> DEFINE e == last.e
             t == last.at
  <2>1. /\ e \in Evidence /\ t \in Nat /\ policy \in RoutingPolicy
        /\ e.form = "quote" => e.tee = "SGX"
        /\ e.stamp <= e.born + MaxLead
        /\ Verify(policy, e, t) = "ok"
    BY RoutingAssumption DEF AttIInv, Stamped, LastVerified
  <2> HIDE DEF e, t
  <2>2. /\ e.form \in {"quote", "report"} /\ e.stamp \in Nat /\ e.born \in Nat
        /\ policy.max_age["SGX"] \in Nat /\ policy.max_age["TrustZone"] \in Nat
    BY <2>1 DEF Evidence, RoutingPolicy
  <2>3. ASSUME NEW limit \in Nat, Age(e, t) <= limit PROVE t - e.born <= limit + MaxLead
    BY <2>1, <2>2, <2>3, ClockAssumption DEF Age, saturating_sub
  <2>4. CASE e.form = "quote"
    <3>1. /\ e.tee = "SGX" /\ "SGX" \in policy.allowed_tees
          /\ Age(e, t) <= policy.max_age["SGX"] /\ Age(e, t) <= QuoteMaxAge
      BY <2>1, <2>4, QuoteVerdict
    <3>2. QED
      BY <2>2, <2>3, <3>1, AgesAssumption DEF ProviderMaxAge, e, t
  <2>5. CASE e.form = "report"
    <3>1. e.tee = "TrustZone"
      BY <2>1, <2>5, OtherVerdict
    <3>2. /\ "TrustZone" \in policy.allowed_tees
          /\ Age(e, t) <= policy.max_age["TrustZone"] /\ Age(e, t) <= ReportMaxAge
      BY <2>1, <2>5, <3>1, ReportVerdict
    <3>3. QED
      BY <2>2, <2>3, <3>1, <3>2, AgesAssumption DEF ProviderMaxAge, e, t
  <2>6. QED
    BY <2>2, <2>4, <2>5
<1>2. QED
  BY <1>1, AttIInvHolds, PTL

\* What the service refused once it never accepts, alone or in a batch (enforce_policy
\* of attestation_service/mod.rs).
THEOREM RefusedForGoodHolds == AttSpec => []RefusedForGood
<1>1. AttIInv => RefusedForGood
  BY DEF AttIInv, LastVerified, RefusedForGood
<1>2. QED
  BY <1>1, AttIInvHolds, PTL
-------------------------------------------------------------------------------
(***************************************************************************)
(* Batches.  What a batch has refused is among the refusals, which last;   *)
(* so a later copy of it cannot be accepted, whatever the clock shows by   *)
(* then.                                                                   *)
(***************************************************************************)

OkItems == {i \in DOMAIN batch.items : batch.items[i] = "ok"}

BatchKept ==
    /\ Len(batch.items) <= Len(batch.input)
    /\ batch.done => /\ Len(batch.items) = Len(batch.input)
                     /\ batch.passed + batch.failed = Len(batch.input)
    /\ \A i \in DOMAIN batch.items : batch.items[i] # "ok" => batch.input[i] \in refused
    /\ \A i, j \in DOMAIN batch.items :
          i < j /\ batch.input[i] = batch.input[j] /\ batch.items[j] = "ok" => batch.items[i] = "ok"

\* What is accepted is part of what was answered, so the rest is a natural number
\* (BatchVerificationResult of attestation_service/mod.rs).
LEMMA PassedBounded ==
    ASSUME BatchFed
    PROVE  Cardinality(OkItems) \in 0..Len(batch.items)
<1>1. Len(batch.items) \in Nat /\ DOMAIN batch.items = 1..Len(batch.items)
  BY DEF BatchFed
<1>2. IsFiniteSet(1..Len(batch.items)) /\ Cardinality(1..Len(batch.items)) = Len(batch.items)
  BY <1>1, FS_Interval
<1>3. OkItems \subseteq 1..Len(batch.items)
  BY <1>1 DEF OkItems
<1>4. IsFiniteSet(OkItems) /\ Cardinality(OkItems) <= Len(batch.items)
  BY <1>2, <1>3, FS_Subset
<1>5. QED
  BY <1>1, <1>4, FS_CardinalityType

\* The next item is answered after every earlier copy of it (verify_reports_batch).
LEMMA BatchItemKept ==
    ASSUME AttIInv, BatchKept, BatchItem
    PROVE  BatchKept'
<1> DEFINE n == Len(batch.items)
           e == batch.input[n + 1]
           v == Verify(policy, e, now)
<1>1. /\ Judge(e)
      /\ batch' = [batch EXCEPT !.items = Append(@, v)]
      /\ ~batch.done /\ n < Len(batch.input)
  BY DEF BatchItem
<1>2. /\ batch = [input |-> batch.input, items |-> batch.items, done |-> batch.done,
                  passed |-> batch.passed, failed |-> batch.failed]
      /\ batch.input \in Seq(evidence) /\ batch.items \in Seq(Reasons \cup {"ok"})
  BY DEF AttIInv, BatchFed
<1>3. n \in Nat /\ Len(batch.input) \in Nat /\ n + 1 \in 1..Len(batch.input) /\ e \in evidence
  BY <1>1, <1>2
<1>4. v \in Reasons \cup {"ok"}
  BY <1>3, VerdictKnown DEF AttIInv, Stamped
<1>5. refused' = IF v = "ok" THEN refused ELSE refused \cup {e}
  BY <1>1 DEF Judge
<1>6. v = "ok" => e \notin refused
  BY DEF AttIInv, RefusalsLast
<1> HIDE DEF v
<1>7. batch' = [input |-> batch.input, items |-> Append(batch.items, v),
                done |-> batch.done, passed |-> batch.passed, failed |-> batch.failed]
  BY <1>1, <1>2
<1>8. /\ batch'.input = batch.input /\ batch'.done = batch.done
      /\ batch'.items = Append(batch.items, v)
  BY <1>7
<1>9. /\ Len(batch'.items) = n + 1 /\ DOMAIN batch'.items = 1..(n + 1)
      /\ batch'.items[n + 1] = v
      /\ \A i \in 1..n : batch'.items[i] = batch.items[i]
      /\ DOMAIN batch.items = 1..n
  BY <1>2, <1>4, <1>8
<1> HIDE DEF n, e
<1>10. \A i \in 1..(n + 1) : batch'.items[i] # "ok" => batch.input[i] \in refused'
  <2> SUFFICES ASSUME NEW i \in 1..(n + 1), batch'.items[i] # "ok"
               PROVE  batch.input[i] \in refused'
    OBVIOUS
  <2>1. CASE i = n + 1
    BY <1>5, <1>9, <2>1 DEF e
  <2>2. CASE i # n + 1
    <3>1. i \in 1..n
      BY <1>3, <2>2
    <3>2. batch.input[i] \in refused
      BY <1>9, <3>1 DEF BatchKept
    <3>3. QED
      BY <1>5, <3>2
  <2>3. QED
    BY <2>1, <2>2
<1>11. ASSUME NEW i \in 1..(n + 1), NEW j \in 1..(n + 1), i < j,
              batch.input[i] = batch.input[j], batch'.items[j] = "ok"
       PROVE  batch'.items[i] = "ok"
  <2>1. i \in 1..n
    BY <1>3, <1>11
  <2>2. CASE j = n + 1
    <3>1. v = "ok" /\ batch.input[i] = e
      BY <1>9, <1>11, <2>2 DEF e
    <3>2. batch.input[i] \notin refused
      BY <1>6, <3>1
    <3>3. QED
      BY <1>9, <2>1, <3>2 DEF BatchKept
  <2>3. CASE j # n + 1
    <3>1. j \in 1..n
      BY <1>3, <2>3
    <3>2. QED
      BY <1>9, <1>11, <2>1, <3>1 DEF BatchKept
  <2>4. QED
    BY <2>2, <2>3
<1>12. n + 1 <= Len(batch.input)
  BY <1>3
<1>13. QED
  BY <1>1, <1>8, <1>9, <1>10, <1>11, <1>12 DEF BatchKept

\* Every other step keeps the batch and forgets no refusal, begins a batch, or ends it.
LEMMA BatchNextKept == AttIInv /\ BatchKept /\ [AttNext]_<<teeVars, attVars>> => BatchKept'
<1> SUFFICES ASSUME AttIInv, BatchKept, [AttNext]_<<teeVars, attVars>> PROVE BatchKept'
  OBVIOUS
<1>1. ASSUME batch' = batch, refused \subseteq refused' PROVE BatchKept'
  BY <1>1 DEF BatchKept
<1>2. CASE UNCHANGED attVars
  BY <1>1, <1>2 DEF attVars
<1>3. CASE \/ \E lead \in 0..MaxLead : get_quote(lead)
           \/ \E stamp \in 0..(now + MaxLead) : build_simulated_report(stamp)
           \/ get_attestation(SessionId)
           \/ Arrive("quote", "SGX")
           \/ \E tee \in {"SGX", "AmdSev"} : Arrive("report", tee)
  BY <1>1, <1>3 DEF get_quote, build_simulated_report, get_attestation, Arrive, Issue
<1>4. ASSUME NEW e \in evidence, VerifyOne(e) PROVE BatchKept'
  BY <1>1, <1>4 DEF VerifyOne, Judge
<1>5. ASSUME NEW c, NEW e \in evidence, VerifyRemotely(c, e) PROVE BatchKept'
  BY <1>1, <1>5 DEF VerifyRemotely
<1>6. ASSUME NEW k \in 1..MaxBatch, NEW input \in [1..k -> evidence], BeginBatch(input)
      PROVE  BatchKept'
  <2>1. batch' = [input |-> input, items |-> <<>>, done |-> FALSE, passed |-> 0, failed |-> 0]
    BY <1>6 DEF BeginBatch, NoBatch
  <2>2. k \in Nat /\ Len(input) = k
    BY BatchAssumption
  <2>3. QED
    BY <2>1, <2>2 DEF BatchKept
<1>7. CASE BatchItem
  BY <1>7, BatchItemKept
<1>8. CASE EndBatch
  <2> DEFINE passing == Cardinality(OkItems)
             failing == saturating_sub(Len(batch.items), passing)
  <2>1. /\ batch' = [batch EXCEPT !.done = TRUE, !.passed = passing, !.failed = failing]
        /\ Len(batch.items) = Len(batch.input) /\ refused' = refused
    BY <1>8 DEF EndBatch, OkItems
  <2>2. BatchFed
    BY DEF AttIInv
  <2>3. passing \in 0..Len(batch.items) /\ Len(batch.items) \in Nat
    BY <2>2, PassedBounded DEF BatchFed
  <2>4. passing + failing = Len(batch.items)
    BY <2>3 DEF saturating_sub
  <2>5. batch = [input |-> batch.input, items |-> batch.items, done |-> batch.done,
                 passed |-> batch.passed, failed |-> batch.failed]
    BY <2>2 DEF BatchFed
  <2> HIDE DEF passing, failing
  <2>6. batch' = [input |-> batch.input, items |-> batch.items, done |-> TRUE,
                  passed |-> passing, failed |-> failing]
    BY <2>1, <2>5
  <2>7. /\ batch'.input = batch.input /\ batch'.items = batch.items
        /\ batch'.passed = passing /\ batch'.failed = failing
    BY <2>6
  <2>8. QED
    BY <2>1, <2>3, <2>4, <2>7 DEF BatchKept
<1>9. CASE Tick
  BY <1>1, <1>9 DEF Tick
<1>10. QED
  BY <1>2, <1>3, <1>4, <1>5, <1>6, <1>7, <1>8, <1>9 DEF AttNext, attVars

\* A finished batch answers every item in order and counts each once, and of two
\* copies of one piece of evidence accepts the later only if it accepted the earlier
\* (AttestationService::verify_reports_batch, verify_sgx_quotes_batch).
THEOREM BatchAnswersAllHolds == AttSpec => []BatchAnswersAll
<1>1. AttInit => BatchKept
  BY DEF AttInit, NoBatch, BatchKept
<1>2. BatchKept => BatchAnswersAll
  BY DEF BatchKept, BatchAnswersAll
<1>3. QED
  BY <1>1, <1>2, AttInitIInv, AttNextIInv, BatchNextKept, PTL DEF AttSpec

-------------------------------------------------------------------------------
(***************************************************************************)
(* Sealing.  A blob holds its owner's bytes unless the enclave sealed it   *)
(* (Kept); the cache repeats what persistent storage has; every attempt so *)
(* far was answered by the environment, the blob and the platform of its   *)
(* moment alone (Attempted).                                               *)
(***************************************************************************)

Kept == \A b \in blobs : b.of \in Data /\ (b.by # "enclave" => b.data = b.of)

CacheKept == \A id \in DOMAIN cache : cache[id] \in blobs

Attempted(o) ==
    /\ o.by \in {"enclave", "TrustZone", "storage"}
    /\ o.blob.of \in Data
    /\ o.by = "enclave" => o.answer = Zeros
    /\ o.by = "TrustZone" =>
          o.answer = IF o.blob.by = "TrustZone" THEN o.blob.of ELSE Refused
    /\ o.by = "storage" =>
          o.answer = IF o.blob.by = "storage" /\ matches_policy(o.pcr, o.blob.policy)
                     THEN o.blob.of ELSE Refused

SealIInv == Kept /\ CacheKept /\ \A o \in tried : Attempted(o)

\* Persistent storage grows by a blob sealed by one of the three (sgx/mod.rs
\* seal_data, trustzone/mod.rs SealData, sealed_storage.rs seal).
LEMMA PersistKept ==
    ASSUME Kept, NEW b, Persist(b), b.of \in Data, b.by # "enclave" => b.data = b.of
    PROVE  Kept' /\ blobs \subseteq blobs' /\ b \in blobs'
  BY DEF Kept, Persist

\* The cache takes one more blob (sealed_storage.rs seal, cache_blob).
LEMMA CachedKept ==
    ASSUME CacheKept, NEW id, NEW b, Cached(id, b), b \in blobs', blobs \subseteq blobs'
    PROVE  CacheKept'
  BY DEF CacheKept, Cached

\* One more attempt to unseal (the three unseal functions).
LEMMA AnswersKept ==
    ASSUME SealIInv, NEW by, NEW b, NEW answer, Answers(by, b, answer),
           Attempted([by |-> by, blob |-> b, answer |-> answer, pcr |-> current_pcr])
    PROVE  SealIInv'
<1> DEFINE o == [by |-> by, blob |-> b, answer |-> answer, pcr |-> current_pcr]
<1>1. tried' = tried \cup {o} /\ UNCHANGED <<cache, blobs>>
  BY DEF Answers
<1>2. Kept' /\ CacheKept'
  BY <1>1 DEF SealIInv, Kept, CacheKept
<1>3. Attempted(o)
  OBVIOUS
<1> HIDE DEF o
<1>4. \A q \in tried' : Attempted(q)
  BY <1>1, <1>3 DEF SealIInv
<1>5. QED
  BY <1>2, <1>4 DEF SealIInv

\* Before anything is opened there is at most a SealedData of an earlier process.
LEMMA SealInitIInv == SealInit => SealIInv
  BY DEF SealInit, SealIInv, Kept, CacheKept, SealedData

\* Every step keeps the invariant: SealNext's actions one by one.
LEMMA SealNextIInv == SealIInv /\ [SealNext]_<<teeVars, sealVars>> => SealIInv'
<1> SUFFICES ASSUME SealIInv, [SealNext]_<<teeVars, sealVars>> PROVE SealIInv'
  OBVIOUS
<1>1. CASE UNCHANGED sealVars
  BY <1>1 DEF sealVars, SealIInv, Kept, CacheKept, Attempted
<1>2. ASSUME NEW b, Persist(b), UNCHANGED <<cache, tried>>,
             b.of \in Data, b.by # "enclave" => b.data = b.of
      PROVE  SealIInv'
  BY <1>2, PersistKept DEF SealIInv, CacheKept
<1>3. ASSUME NEW d \in Data, NEW p \in Policies, EnclaveSeals(d, p) PROVE SealIInv'
  BY <1>2, <1>3 DEF EnclaveSeals
<1>4. ASSUME NEW b \in blobs, EnclaveUnseals(b) PROVE SealIInv'
  <2>1. Attempted([by |-> "enclave", blob |-> b, answer |-> Zeros, pcr |-> current_pcr])
    BY DEF Attempted, SealIInv, Kept
  <2>2. QED
    BY <1>4, <2>1, AnswersKept DEF EnclaveUnseals
<1>5. ASSUME NEW d \in Data, SessionSeals(SessionId, d) PROVE SealIInv'
  BY <1>2, <1>5 DEF SessionSeals, SealedData
<1>6. ASSUME NEW b \in blobs, SessionUnseals(SessionId, b) PROVE SealIInv'
  <2> DEFINE answer == IF b.by = "TrustZone" THEN b.data ELSE Refused
  <2>1. Attempted([by |-> "TrustZone", blob |-> b, answer |-> answer, pcr |-> current_pcr])
    BY DEF Attempted, SealIInv, Kept
  <2>2. Answers("TrustZone", b, answer)
    BY <1>6 DEF SessionUnseals
  <2> HIDE DEF answer
  <2>3. QED
    BY <2>1, <2>2, AnswersKept
<1>7. ASSUME NEW id \in Ids, NEW d \in Data, NEW p \in Policies, Seal(id, d, p)
      PROVE  SealIInv'
  <2> DEFINE b == SealedDataBlob(d, p)
  <2>1. b.of \in Data /\ b.data = b.of
    BY DEF SealedDataBlob
  <2>2. Persist(b) /\ Cached(id, b) /\ UNCHANGED tried
    BY <1>7 DEF Seal
  <2> HIDE DEF b
  <2>3. Kept' /\ blobs \subseteq blobs' /\ b \in blobs'
    BY <2>1, <2>2, PersistKept DEF SealIInv
  <2>4. CacheKept'
    BY <2>2, <2>3, CachedKept DEF SealIInv
  <2>5. QED
    BY <2>2, <2>3, <2>4 DEF SealIInv
<1>8. ASSUME NEW b \in blobs, Unseal(b) PROVE SealIInv'
  <2> DEFINE answer == IF Opens(b) THEN b.data ELSE Refused
  <2>1. Attempted([by |-> "storage", blob |-> b, answer |-> answer, pcr |-> current_pcr])
    BY DEF Attempted, SealIInv, Kept, Opens
  <2>2. Answers("storage", b, answer)
    BY <1>8 DEF Unseal
  <2> HIDE DEF answer
  <2>3. QED
    BY <2>1, <2>2, AnswersKept
<1>9. ASSUME NEW id \in DOMAIN cache, Unseal(cache[id]) PROVE SealIInv'
  BY <1>8, <1>9 DEF SealIInv, CacheKept
<1>10. ASSUME NEW id \in Ids, NEW b \in blobs, CacheBlob(id, b) PROVE SealIInv'
  <2>1. Cached(id, b) /\ UNCHANGED <<blobs, tried>>
    BY <1>10 DEF CacheBlob
  <2>2. CacheKept'
    BY <2>1, CachedKept DEF SealIInv
  <2>3. QED
    BY <2>1, <2>2 DEF SealIInv, Kept
<1>11. ASSUME cache' = <<>> \/ cache' = cache, UNCHANGED <<blobs, tried>> PROVE SealIInv'
  BY <1>11 DEF SealIInv, Kept, CacheKept
<1>12. CASE ClearCache
  BY <1>11, <1>12 DEF ClearCache
<1>13. ASSUME NEW pcr \in Platforms, UpdatePcr(pcr) \/ Restart(pcr) PROVE SealIInv'
  BY <1>11, <1>13 DEF UpdatePcr, Restart
<1>14. QED
  BY <1>1, <1>3, <1>4, <1>5, <1>6, <1>7, <1>8, <1>9, <1>10, <1>12, <1>13
     DEF SealNext, sealVars

\* What every environment answers about any blob, whoever sealed it and however often
\* the platform changed since (sgx/mod.rs unseal_data, trustzone/mod.rs unseal_data,
\* sealed_storage.rs unseal).
THEOREM SealIInvHolds == SealSpec => []SealIInv
<1>1. QED
  BY SealInitIInv, SealNextIInv, PTL DEF SealSpec

\* One blob gives the storage one answer wherever the registers its policy binds are
\* the same, and a refusal where they are not (sealed_storage.rs unseal; sgx/mod.rs
\* matches_policy).
THEOREM StorageAnswersByPolicyHolds == SealSpec => []StorageAnswersByPolicy
<1>1. SealIInv => StorageAnswersByPolicy
  <2> SUFFICES ASSUME SealIInv, NEW o \in tried, NEW p \in tried,
                      o.by = "storage", p.by = "storage", o.blob = p.blob
               PROVE  IF \A r \in Registers :
                             o.blob.policy[r] # Unchecked => o.pcr[r] = p.pcr[r]
                      THEN o.answer = p.answer
                      ELSE Refused \in {o.answer, p.answer}
    BY DEF StorageAnswersByPolicy
  <2> DEFINE ok(q) == o.blob.by = "storage" /\ matches_policy(q.pcr, o.blob.policy)
             agree == \A r \in Registers : o.blob.policy[r] # Unchecked => o.pcr[r] = p.pcr[r]
  <2>1. /\ o.answer = IF ok(o) THEN o.blob.of ELSE Refused
        /\ p.answer = IF ok(p) THEN o.blob.of ELSE Refused
    BY DEF SealIInv, Attempted
  <2>2. agree => (ok(o) <=> ok(p))
    BY DEF matches_policy
  <2>3. ok(o) /\ ok(p) => agree
    BY DEF matches_policy
  <2> HIDE DEF ok, agree
  <2>4. IF agree THEN o.answer = p.answer ELSE Refused \in {o.answer, p.answer}
    BY <2>1, <2>2, <2>3
  <2>5. QED
    BY <2>4 DEF agree
<1>2. QED
  BY <1>1, SealIInvHolds, PTL

\* An owner's bytes come back from the environment that sealed them alone and are what
\* that owner sealed; the enclave gives every blob, whoever sealed it, its placeholder;
\* the cache holds nothing that persistent storage lacks (sgx/mod.rs unseal_data,
\* sealed_storage.rs seal, unseal; trustzone/mod.rs unseal_data).
THEOREM SealedComesBackHolds == SealSpec => []SealedComesBack
<1>1. SealIInv => SealedComesBack
  <2> SUFFICES ASSUME SealIInv PROVE SealedComesBack
    OBVIOUS
  <2>1. \A o \in tried : /\ o.answer \in Data => o.by = o.blob.by /\ o.answer = o.blob.of
                         /\ o.answer = Zeros <=> o.by = "enclave"
    BY AnswersAssumption DEF SealIInv, Attempted
  <2>2. QED
    BY <2>1 DEF SealIInv, CacheKept, SealedComesBack
<1>2. QED
  BY <1>1, SealIInvHolds, PTL
===============================================================================
