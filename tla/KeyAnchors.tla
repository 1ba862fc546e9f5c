------------------------------ MODULE KeyAnchors ------------------------------
(***************************************************************************)
(* Key anchors (src/blockchain): the AnchorRegistry of key_anchor.rs,      *)
(* and the two facades that own one each, the DecentralizedPki of dpki.rs  *)
(* and the SimulatedContractAnchor of smart_contract.rs.                   *)
(*                                                                         *)
(* An anchor's id is the hash of its public key, so keys stand for ids and *)
(* hashes both.  Callers supply the times; those of anchors are recorded   *)
(* and never read, and are left out.                                       *)
(***************************************************************************)
EXTENDS Integers, FiniteSets

CONSTANTS
    Keys,        \* public keys
    Empty,       \* the empty byte string, which is no key
    Owners,      \* entities, and owners of anchors
    Times,       \* the times that callers pass
    NoExpiry,    \* None as valid_until
    MaxHeight    \* bound: mutations of the contract

ASSUME EmptyAssumption == Empty \notin Keys
ASSUME TimesAssumption == Times \subseteq Nat /\ NoExpiry \notin Times
ASSUME HeightAssumption == MaxHeight \in Nat

VARIABLES
    entries,       \* DecentralizedPki: from entity ids to bindings
    anchors,       \* DecentralizedPki: its own AnchorRegistry
    registry,      \* SimulatedContractAnchor: its own AnchorRegistry
    block_height   \* SimulatedContractAnchor: its mutations so far

anchorVars == <<entries, anchors, registry, block_height>>

\* KeyAnchor and DpkiEntry, without what their map key says
KeyAnchor == [owner_id : Owners, revoked : BOOLEAN]
DpkiEntry == [anchor_id : Keys, valid_from : Times, valid_until : Times \cup {NoExpiry}]

-------------------------------------------------------------------------------
(***************************************************************************)
(* AnchorRegistry: what a registry A becomes, and what its checks say      *)
(***************************************************************************)
contains_key(A, k) == k \in DOMAIN A

\* AnchorRegistry::register succeeds for a key that was never anchored here.
Mutant_ReAnchors(A, k) == k \in Keys /\ (contains_key(A, k) => A[k].revoked)
Registrable(A, k) == k \in Keys /\ ~contains_key(A, k)
registered(A, k, owner) ==
    [id \in DOMAIN A \cup {k} |-> IF id = k THEN [owner_id |-> owner, revoked |-> FALSE] ELSE A[id]]

\* AnchorRegistry::revoke succeeds for the owner, and again if already revoked.
Revocable(A, id, requesting_owner) == contains_key(A, id) /\ A[id].owner_id = requesting_owner
revoked(A, id) == [A EXCEPT ![id].revoked = TRUE]

\* AnchorRegistry::verify_anchor_by_id, and verify_anchor of the key itself
verify_anchor(A, id) == contains_key(A, id) /\ ~A[id].revoked

-------------------------------------------------------------------------------
(***************************************************************************)
(* DecentralizedPki                                                        *)
(***************************************************************************)

\* DpkiEntry::is_valid_at
is_valid_at(entry, t) ==
    /\ entry.valid_from <= t
    /\ entry.valid_until # NoExpiry => t <= entry.valid_until

\* DecentralizedPki::resolve
resolves(e, t) ==
    /\ e \in DOMAIN entries
    /\ is_valid_at(entries[e], t)
    /\ verify_anchor(anchors, entries[e].anchor_id)

\* DecentralizedPki::register_key; an entity binds once.
Mutant_Rebinds(e, k, from, until) ==
    /\ Registrable(anchors, k)
    /\ anchors' = registered(anchors, k, e)
    /\ entries' = [x \in DOMAIN entries \cup {e} |->
                     IF x = e THEN [anchor_id |-> k, valid_from |-> from, valid_until |-> until]
                     ELSE entries[x]]
    /\ UNCHANGED <<registry, block_height>>
register_key(e, k, from, until) ==
    /\ e \notin DOMAIN entries
    /\ Registrable(anchors, k)
    /\ anchors' = registered(anchors, k, e)
    /\ entries' = [x \in DOMAIN entries \cup {e} |->
                     IF x = e THEN [anchor_id |-> k, valid_from |-> from, valid_until |-> until]
                     ELSE entries[x]]
    /\ UNCHANGED <<registry, block_height>>

\* DecentralizedPki::invalidate keeps the entry and revokes its anchor.
invalidate(e) ==
    /\ e \in DOMAIN entries
    /\ Revocable(anchors, entries[e].anchor_id, e)
    /\ anchors' = revoked(anchors, entries[e].anchor_id)
    /\ UNCHANGED <<entries, registry, block_height>>

-------------------------------------------------------------------------------
(***************************************************************************)
(* SimulatedContractAnchor                                                 *)
(***************************************************************************)

\* verify_on_chain: not found, or whether the anchor is valid
verify_on_chain(id) ==
    IF contains_key(registry, id) THEN [found |-> TRUE, valid |-> ~registry[id].revoked]
    ELSE [found |-> FALSE]

\* submit_anchor
submit_anchor(k, owner) ==
    /\ Registrable(registry, k)
    /\ block_height < MaxHeight
    /\ registry' = registered(registry, k, owner)
    /\ block_height' = block_height + 1
    /\ UNCHANGED <<entries, anchors>>

\* revoke_anchor; a second revocation is a block of its own.
Mutant_SilentRevocation(id, owner) ==
    /\ Revocable(registry, id, owner)
    /\ registry' = revoked(registry, id)
    /\ UNCHANGED <<entries, anchors, block_height>>
revoke_anchor(id, owner) ==
    /\ Revocable(registry, id, owner)
    /\ block_height < MaxHeight
    /\ registry' = revoked(registry, id)
    /\ block_height' = block_height + 1
    /\ UNCHANGED <<entries, anchors>>

-------------------------------------------------------------------------------
AnchorInit ==
    /\ entries = [e \in {} |-> 0]
    /\ anchors = [k \in {} |-> 0]
    /\ registry = [k \in {} |-> 0]
    /\ block_height = 0

AnchorNext ==
    \/ \E e \in Owners, k \in Keys \cup {Empty}, from \in Times, until \in Times \cup {NoExpiry} :
          register_key(e, k, from, until)
    \/ \E e \in Owners : invalidate(e)
    \/ \E k \in Keys \cup {Empty}, owner \in Owners : submit_anchor(k, owner)
    \/ \E id \in Keys, owner \in Owners : revoke_anchor(id, owner)

AnchorSpec == AnchorInit /\ [][AnchorNext]_anchorVars

-------------------------------------------------------------------------------
(***************************************************************************)
(* Properties                                                              *)
(***************************************************************************)

AnchorTypeOK ==
    /\ DOMAIN entries \subseteq Owners
    /\ \A e \in DOMAIN entries : entries[e] \in DpkiEntry
    /\ DOMAIN anchors \subseteq Keys
    /\ \A k \in DOMAIN anchors : anchors[k] \in KeyAnchor
    /\ DOMAIN registry \subseteq Keys
    /\ \A k \in DOMAIN registry : registry[k] \in KeyAnchor
    /\ block_height \in Nat

\* Bindings and anchors of the PKI are in one-to-one correspondence: the anchor
\* of a binding is its entity's, no key is bound twice, and no anchor is without
\* a binding.  So an invalidation, which revokes through the entity's name,
\* cannot fail and never touches another entity (dpki.rs register_key, invalidate).
OneKeyOneEntity ==
    /\ \A e \in DOMAIN entries :
          /\ entries[e].anchor_id \in DOMAIN anchors
          /\ anchors[entries[e].anchor_id].owner_id = e
    /\ \A k \in DOMAIN anchors :
          /\ anchors[k].owner_id \in DOMAIN entries
          /\ entries[anchors[k].owner_id].anchor_id = k

\* A binding that does not resolve at some time never resolves at that time
\* again, whatever is registered, invalidated or revoked later; nor does a
\* revoked anchor become valid on the chain (dpki.rs resolve, smart_contract.rs
\* verify_on_chain).
NeverRevived ==
    [][ /\ \A e \in DOMAIN entries, t \in Times : ~resolves(e, t) => ~resolves(e, t)'
        /\ \A k \in DOMAIN registry : ~verify_anchor(registry, k) => ~verify_anchor(registry', k)
      ]_anchorVars

\* What verify_on_chain answers for an anchor changes only together with the
\* block height it reports (smart_contract.rs block_height).
SameHeightSameAnswer ==
    [][ block_height' = block_height =>
          \A k \in Keys : verify_on_chain(k)' = verify_on_chain(k) ]_anchorVars

===============================================================================
