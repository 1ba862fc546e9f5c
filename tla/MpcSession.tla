------------------------------- MODULE MpcSession -------------------------------
(***************************************************************************)
(* Multi-party computation sessions (src/confidential_computing/mpc):      *)
(* each member of a computation keeps an MpcSession of its own, and the    *)
(* parties' commitments, reveals and shares and the coordinator's          *)
(* aggregates reach it over a transport the crate leaves to its user: late, *)
(* repeated, in another order, or never.                                   *)
(*                                                                         *)
(* Messages is every message the parties ever send, and delivering one is  *)
(* a call of the method for its kind.  A call that returns an error before *)
(* it changed anything is no step.  SHA-256 is injective: a commitment is  *)
(* the tagged share, a digest the tagged bytes it is computed from.        *)
(***************************************************************************)
EXTENDS Integers, Sequences, FiniteSets, SequencesExt

CONSTANTS
    Members,        \* who keeps a session
    Parties,        \* party ids, as bytes
    Shares,         \* share payloads, as bytes
    None,           \* "no share", "no commitment"
    Nonces,         \* nonces of messages and aggregates
    TotalParties, Threshold, MaxRounds,   \* the policy
    Order,          \* the party ids in lexicographic order
    Messages

Rounds == 1..MaxRounds
commitment_for(x) == <<"commitment", x>>
Commitments == {commitment_for(x) : x \in Shares}
Maybe(S) == S \union {None}

ShareSubmission == [kind : {"share"}, party : Parties, payload : Shares]
CommitSubmission ==
    [kind : {"commit"}, party : Parties, payload : Commitments, nonce : Nonces, round : Rounds]
RevealSubmission ==
    [kind : {"reveal"}, party : Parties, payload : Shares, nonce : Nonces, round : Rounds]

\* what is hashed: each party that has a share, and its share, with nothing in between
Bytes(f) ==
    FlattenSeq([i \in DOMAIN Order |->
                   IF f[Order[i]] = None THEN <<>> ELSE Order[i] \o f[Order[i]]])

\* what MpcPolicy::new accepts
ASSUME PolicyAssumption ==
    /\ TotalParties \in Nat \ {0}
    /\ Threshold \in 1..TotalParties
    /\ MaxRounds \in Nat \ {0}
ASSUME NoneAssumption == None \notin Shares \union Commitments
ASSUME FiniteAssumption == IsFiniteSet(Parties)
ASSUME OrderAssumption == Order \in Seq(Parties)
ASSUME MessagesAssumption ==
    Messages \subseteq ShareSubmission \union CommitSubmission \union RevealSubmission
\* The code hashes ids and shares without their lengths.  These ids and shares are such
\* that their bytes can be told apart all the same.
ASSUME BytesAssumption ==
    \A f, g \in [Parties -> Maybe(Shares)] : Bytes(f) = Bytes(g) => f = g

VARIABLES
    parties, commitments, shares, seen_nonces, round,   \* MpcSession, of each member
    aggregates,   \* the coordinators' messages, with the shares each was made from
    agreed,       \* the aggregates each member accepted (history)
    effects       \* how many messages with each nonce took effect (history)

session == <<parties, commitments, shares, seen_nonces, round>>
vars == <<session, aggregates, agreed, effects>>

AggregateMessage ==
    [round : Rounds, nonce : Nonces, digest : {<<"digest", Bytes(f)>> : f \in [Parties -> Maybe(Shares)]},
     of : [Parties -> Maybe(Shares)]]

-------------------------------------------------------------------------------
Init ==
    /\ parties = [m \in Members |-> {}]
    /\ commitments = [m \in Members |-> [p \in Parties |-> None]]
    /\ shares = [m \in Members |-> [p \in Parties |-> None]]
    /\ seen_nonces = [m \in Members |-> {}]
    /\ round = [m \in Members |-> 1]
    /\ aggregates = {}
    /\ agreed = [m \in Members |-> {}]
    /\ effects = [m \in Members |-> [n \in Nonces |-> 0]]

register_party(m, p) ==
    /\ p \notin parties[m]
    /\ parties' = [parties EXCEPT ![m] = @ \union {p}]
    /\ UNCHANGED <<commitments, shares, seen_nonces, round, aggregates, agreed, effects>>

\* ensure_round and register_nonce, which spends the nonce of a message that is refused
\* for any later reason
Mutant_EnterAnyRound(m, msg) ==
    /\ msg.nonce \notin seen_nonces[m]
    /\ seen_nonces' = [seen_nonces EXCEPT ![m] = @ \union {msg.nonce}]
Enter(m, msg) ==
    /\ msg.round = round[m]
    /\ msg.nonce \notin seen_nonces[m]
    /\ seen_nonces' = [seen_nonces EXCEPT ![m] = @ \union {msg.nonce}]

TakesEffect(m, msg) == effects' = [effects EXCEPT ![m][msg.nonce] = @ + 1]

submit_commit(m, msg) ==
    /\ msg.kind = "commit"
    /\ Enter(m, msg)
    /\ LET taken == msg.party \in parties[m] /\ commitments[m][msg.party] = None IN
       \/ /\ taken
          /\ commitments' = [commitments EXCEPT ![m][msg.party] = msg.payload]
          /\ TakesEffect(m, msg)
       \/ /\ ~taken
          /\ UNCHANGED <<commitments, effects>>
    /\ UNCHANGED <<parties, shares, round, aggregates, agreed>>

Mutant_RevealsAny(m, msg) == commitments[m][msg.party] # None
Reveals(m, msg) == commitments[m][msg.party] = commitment_for(msg.payload)

submit_reveal(m, msg) ==
    /\ msg.kind = "reveal"
    /\ Enter(m, msg)
    /\ LET taken == /\ msg.party \in parties[m]
                    /\ shares[m][msg.party] = None
                    /\ Reveals(m, msg)
       IN  \/ /\ taken
              /\ shares' = [shares EXCEPT ![m][msg.party] = msg.payload]
              /\ TakesEffect(m, msg)
           \/ /\ ~taken
              /\ UNCHANGED <<shares, effects>>
    /\ UNCHANGED <<parties, commitments, round, aggregates, agreed>>

\* a share that was never committed to, and has neither round nor nonce
Mutant_ShareReplaces(m, msg) ==
    /\ msg.kind = "share"
    /\ msg.party \in parties[m]
    /\ shares' = [shares EXCEPT ![m][msg.party] = msg.payload]
    /\ UNCHANGED <<parties, commitments, seen_nonces, round, aggregates, agreed, effects>>
submit_share(m, msg) ==
    /\ msg.kind = "share"
    /\ msg.party \in parties[m]
    /\ shares[m][msg.party] = None
    /\ shares' = [shares EXCEPT ![m][msg.party] = msg.payload]
    /\ UNCHANGED <<parties, commitments, seen_nonces, round, aggregates, agreed, effects>>

advance_round(m) ==
    /\ round[m] < MaxRounds
    /\ round' = [round EXCEPT ![m] = @ + 1]
    /\ UNCHANGED <<parties, commitments, shares, seen_nonces, aggregates, agreed, effects>>

Held(f) == {p \in Parties : f[p] # None}
can_finalize(m) == Cardinality(Held(shares[m])) >= Threshold

finalize_digest(f) == <<"digest", Bytes(f)>>

\* a member acts as the coordinator: finalize_digest and AggregateMessage::new
Aggregate(m, n) ==
    /\ can_finalize(m)
    /\ aggregates' = aggregates \union
           {[round |-> round[m], nonce |-> n, digest |-> finalize_digest(shares[m]),
             of |-> shares[m]]}
    /\ UNCHANGED <<session, agreed, effects>>

Mutant_ApplyWithoutNonce(m, msg) ==
    /\ msg.round = round[m]
    /\ can_finalize(m) /\ finalize_digest(shares[m]) = msg.digest
    /\ agreed' = [agreed EXCEPT ![m] = @ \union {msg}]
    /\ TakesEffect(m, msg)
    /\ UNCHANGED <<session, aggregates>>
apply_aggregate(m, msg) ==
    /\ Enter(m, msg)
    /\ LET taken == can_finalize(m) /\ finalize_digest(shares[m]) = msg.digest IN
       \/ /\ taken
          /\ agreed' = [agreed EXCEPT ![m] = @ \union {msg}]
          /\ TakesEffect(m, msg)
       \/ /\ ~taken
          /\ UNCHANGED <<agreed, effects>>
    /\ UNCHANGED <<parties, commitments, shares, round, aggregates>>

Next ==
    \E m \in Members :
       \/ \E p \in Parties : register_party(m, p)
       \/ \E msg \in Messages : submit_commit(m, msg) \/ submit_reveal(m, msg) \/ submit_share(m, msg)
       \/ \E n \in Nonces : Aggregate(m, n)
       \/ \E msg \in aggregates : apply_aggregate(m, msg)
       \/ advance_round(m)

Spec == Init /\ [][Next]_vars

-------------------------------------------------------------------------------
(* Properties. *)

TypeOK ==
    /\ parties \in [Members -> SUBSET Parties]
    /\ commitments \in [Members -> [Parties -> Maybe(Commitments)]]
    /\ shares \in [Members -> [Parties -> Maybe(Shares)]]
    /\ seen_nonces \in [Members -> SUBSET Nonces]
    /\ round \in [Members -> Rounds]
    /\ aggregates \subseteq AggregateMessage
    /\ agreed \in [Members -> SUBSET AggregateMessage]
    /\ effects \in [Members -> [Nonces -> Nat]]

\* Whatever the order of registrations, commitments, reveals and rounds, a share that a
\* session counts is from a registered party, and either the one its party committed to
\* or one the party submitted without a commitment (208-261): a second commitment or a
\* reveal of something else never gets in.
SharesCommitted ==
    \A m \in Members : \A p \in Held(shares[m]) :
        /\ p \in parties[m]
        /\ \/ commitments[m][p] = commitment_for(shares[m][p])
           \/ [kind |-> "share", party |-> p, payload |-> shares[m][p]] \in Messages

\* An aggregate a member accepted was made from at least Threshold shares, and the
\* member still holds every one of them, however the session went on: two members that
\* accepted one aggregate agree on all of its shares (276-285, 293-320).
AgreedHeld ==
    \A m \in Members : \A a \in agreed[m] :
        /\ Cardinality(Held(a.of)) >= Threshold
        /\ \A p \in Held(a.of) : shares[m][p] = a.of[p]

\* "Per-message nonce used to prevent replay" (mpc/mod.rs:103): no nonce takes effect
\* twice in one session, not even in messages of different kinds and rounds.
NoReplay ==
    \A m \in Members, n \in Nonces : effects[m][n] <= 1

\* A message that arrives before its round is refused without spending its nonce
\* (ensure_round comes before register_nonce), so it can be delivered again in time: a
\* spent nonce is that of a message of a round the session has reached.
EarlyNotSpent ==
    \A m \in Members : \A n \in seen_nonces[m] :
        \/ \E msg \in Messages : msg.kind # "share" /\ msg.nonce = n /\ msg.round <= round[m]
        \/ \E a \in aggregates : a.nonce = n /\ a.round <= round[m]
===============================================================================
