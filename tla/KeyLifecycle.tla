----------------------------- MODULE KeyLifecycle -----------------------------
(***************************************************************************)
(* The two registries a key's owner consults before using it: the          *)
(* RevocationList (src/revocation.rs) and the KeyRotationManager           *)
(* (src/rotation.rs).  Both read the system clock, which here only         *)
(* moves forward.  last_used_at and rotated_to, which nothing reads, are   *)
(* left out.                                                               *)
(***************************************************************************)
EXTENDS Integers, Sequences, FiniteSets, SequencesExt

CONSTANTS
    KeyIds,
    Limits,      \* lifetimes and operation counts keys are registered with; 0 is no limit
    MaxTime,     \* bound: the last time the clock shows
    MaxUses,     \* bound: uses of one key counted
    MaxEntries   \* bound: entries of the revocation list

ASSUME LifecycleAssumption ==
    Limits \subseteq Nat /\ MaxTime \in Nat /\ MaxUses \in Nat /\ MaxEntries \in Nat

VARIABLES
    time,          \* the system clock
    revocations,   \* RevocationList.entries
    revoked_ids,   \* RevocationList.revoked_ids: from key ids to positions
    signature,     \* RevocationList.signature: what was hashed for it
    metadata       \* KeyRotationManager.metadata

lifeVars == <<time, revocations, revoked_ids, signature, metadata>>

RevocationReason == {"compromised", "rotated", "retired", "policy"}

RevocationEntry == [key_id : KeyIds, reason : RevocationReason, timestamp : 0..MaxTime]

KeyMetadata == [created_at : 0..MaxTime, encrypt_count : 0..MaxUses,
                decrypt_count : 0..MaxUses, max_lifetime_seconds : Limits, max_operations : Limits,
                is_expired : BOOLEAN]

-------------------------------------------------------------------------------
(***************************************************************************)
(* RevocationList                                                          *)
(***************************************************************************)

\* compute_signature hashes these fields of every entry, in order.
compute_signature(list) == list

\* verify_integrity: an unsigned list is taken to be sound.
verify_integrity == signature = <<>> \/ compute_signature(revocations) = signature

is_revoked(k) == k \in DOMAIN revoked_ids
get_entry(k) == revocations[revoked_ids[k]]

\* RevocationList::revoke; a key may be revoked again, and its last entry counts.
Mutant_SignsFirst(k, reason) ==
    /\ Len(revocations) < MaxEntries
    /\ signature' = compute_signature(revocations)
    /\ revocations' = Append(revocations, [key_id |-> k, reason |-> reason, timestamp |-> time])
    /\ revoked_ids' = [i \in DOMAIN revoked_ids \cup {k} |->
                         IF i = k THEN Len(revocations) + 1 ELSE revoked_ids[i]]
    /\ UNCHANGED <<time, metadata>>
revoke(k, reason) ==
    /\ Len(revocations) < MaxEntries
    /\ revocations' = Append(revocations, [key_id |-> k, reason |-> reason, timestamp |-> time])
    /\ revoked_ids' = [i \in DOMAIN revoked_ids \cup {k} |->
                         IF i = k THEN Len(revocations) + 1 ELSE revoked_ids[i]]
    /\ signature' = compute_signature(revocations')
    /\ UNCHANGED <<time, metadata>>

-------------------------------------------------------------------------------
(***************************************************************************)
(* KeyRotationManager                                                      *)
(***************************************************************************)
age_seconds(m) == IF time < m.created_at THEN 0 ELSE time - m.created_at
total_operations(m) == m.encrypt_count + m.decrypt_count

\* KeyMetadata::should_expire; neither is_expired nor rotated_to has a say.
Mutant_LimitMissed(m) ==
    \/ m.max_lifetime_seconds > 0 /\ age_seconds(m) > m.max_lifetime_seconds
    \/ m.max_operations > 0 /\ total_operations(m) = m.max_operations
should_expire(m) ==
    \/ m.max_lifetime_seconds > 0 /\ age_seconds(m) > m.max_lifetime_seconds
    \/ m.max_operations > 0 /\ total_operations(m) >= m.max_operations

needs_rotation(k) == k \in DOMAIN metadata /\ should_expire(metadata[k])

Known(k, m) == metadata' = [i \in DOMAIN metadata \cup {k} |-> IF i = k THEN m ELSE metadata[i]]

\* KeyRotationManager::register_key: a known key starts again, expired or not.
register(k, lifetime, operations) ==
    /\ Known(k, [created_at |-> time, encrypt_count |-> 0,
                 decrypt_count |-> 0, max_lifetime_seconds |-> lifetime,
                 max_operations |-> operations, is_expired |-> FALSE])
    /\ UNCHANGED <<time, revocations, revoked_ids, signature>>

record_encrypt(m) == [m EXCEPT !.encrypt_count = @ + 1]
record_decrypt(m) == [m EXCEPT !.decrypt_count = @ + 1]

\* record_usage does not refuse a key that needs rotation or has expired.
record_usage(k, is_encrypt) ==
    LET m == metadata[k] IN
    /\ k \in DOMAIN metadata
    /\ total_operations(m) < MaxUses
    /\ \/ /\ is_encrypt
          /\ Known(k, record_encrypt(m))
       \/ /\ ~is_encrypt
          /\ Known(k, record_decrypt(m))
    /\ UNCHANGED <<time, revocations, revoked_ids, signature>>

\* expire_key
expire_key(k) ==
    /\ k \in DOMAIN metadata
    /\ Known(k, [metadata[k] EXCEPT !.is_expired = TRUE])
    /\ UNCHANGED <<time, revocations, revoked_ids, signature>>

Pass ==
    /\ time < MaxTime
    /\ time' = time + 1
    /\ UNCHANGED <<revocations, revoked_ids, signature, metadata>>

-------------------------------------------------------------------------------
LifeInit ==
    /\ time = 0
    /\ revocations = <<>>
    /\ revoked_ids = [k \in {} |-> 0]
    /\ signature = <<>>
    /\ metadata = [k \in {} |-> 0]

RevocationNext ==
    \/ \E k \in KeyIds, reason \in RevocationReason : revoke(k, reason)
    \/ Pass

RotationNext ==
    \/ \E k \in KeyIds, lifetime, operations \in Limits : register(k, lifetime, operations)
    \/ \E k \in KeyIds, is_encrypt \in BOOLEAN : record_usage(k, is_encrypt)
    \/ \E k \in KeyIds : expire_key(k)
    \/ Pass

LifeSpec == LifeInit /\ [][RevocationNext \/ RotationNext]_lifeVars

-------------------------------------------------------------------------------
(***************************************************************************)
(* Properties                                                              *)
(***************************************************************************)

\* A key is revoked exactly when some entry names it, the entry found for it is
\* the last one made, and the list verifies after any sequence of revocations
\* (revocation.rs revoke, get_entry, verify_integrity).
LatestRevocationFound ==
    /\ verify_integrity
    /\ \A k \in KeyIds :
          /\ is_revoked(k) <=> \E i \in DOMAIN revocations : revocations[i].key_id = k
          /\ is_revoked(k) =>
                /\ get_entry(k).key_id = k
                /\ \A i \in DOMAIN revocations :
                      revocations[i].key_id = k => i <= revoked_ids[k]

\* Once a key is due for rotation it stays due, however it is used, expired or
\* left alone, until it is registered anew (rotation.rs should_expire,
\* record_usage, register_key).
DueUntilRegistered ==
    [][ \A k \in KeyIds :
          needs_rotation(k) =>
              \/ needs_rotation(k)'
              \/ metadata'[k].created_at = time /\ total_operations(metadata'[k]) = 0
      ]_lifeVars

===============================================================================
