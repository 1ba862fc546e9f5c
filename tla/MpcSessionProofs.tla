---------------------------- MODULE MpcSessionProofs ----------------------------
(***************************************************************************)
(* Proofs about multi-party computation sessions: for any members, parties, *)
(* policy and messages, whatever the transport does with them.             *)
(***************************************************************************)
EXTENDS MpcSession, TLAPS

\* an aggregate carries the digest of the shares it was made from
Honest == \A a \in aggregates : a.digest = finalize_digest(a.of)

\* a nonce has taken effect at most once, and only if it is spent
Spent ==
    \A m \in Members, n \in Nonces :
        /\ effects[m][n] <= 1
        /\ effects[m][n] # 0 => n \in seen_nonces[m]

IInv == TypeOK /\ SharesCommitted /\ AgreedHeld /\ Honest /\ Spent /\ EarlyNotSpent

\* The fields of the messages, and of an aggregate.
LEMMA MessageFields ==
    /\ \A msg \in Messages :
          /\ msg.kind \in {"share", "commit", "reveal"} /\ msg.party \in Parties
          /\ msg.kind = "share" => /\ msg.payload \in Shares
                                   /\ msg = [kind |-> "share", party |-> msg.party,
                                             payload |-> msg.payload]
          /\ msg.kind = "reveal" => msg.payload \in Shares
          /\ msg.kind = "commit" => msg.payload \in Commitments
          /\ msg.kind # "share" => msg.nonce \in Nonces /\ msg.round \in Rounds
    /\ \A a \in AggregateMessage :
          a.nonce \in Nonces /\ a.round \in Rounds /\ a.of \in [Parties -> Maybe(Shares)]
BY MessagesAssumption DEF ShareSubmission, CommitSubmission, RevealSubmission, AggregateMessage

\* Aggregates with equal digests were made from equal shares.
LEMMA SameDigest ==
    ASSUME NEW f \in [Parties -> Maybe(Shares)], NEW g \in [Parties -> Maybe(Shares)],
           finalize_digest(f) = finalize_digest(g)
    PROVE  f = g
BY BytesAssumption DEF finalize_digest

\* The invariant holds before any message arrives.
LEMMA InitIInv == Init => IInv
<1> SUFFICES ASSUME Init PROVE IInv
  OBVIOUS
<1>1. 1 \in Rounds
  BY PolicyAssumption DEF Rounds
<1>2. TypeOK
  BY <1>1 DEF Init, TypeOK, Maybe
<1>3. SharesCommitted /\ AgreedHeld /\ Honest /\ Spent /\ EarlyNotSpent
  BY DEF Init, SharesCommitted, AgreedHeld, Honest, Spent, EarlyNotSpent, Held
<1>4. QED
  BY <1>2, <1>3 DEF IInv

\* A message that enters spends a nonce that had not taken effect, and belongs to a
\* round the session has reached.
LEMMA Enters ==
    ASSUME IInv, NEW m \in Members, NEW msg,
           msg.nonce \in Nonces,
           Enter(m, msg), UNCHANGED <<round, aggregates>>,
           \/ msg \in Messages /\ msg.kind # "share"
           \/ msg \in aggregates
    PROVE  /\ seen_nonces' \in [Members -> SUBSET Nonces]
           /\ EarlyNotSpent'
           /\ UNCHANGED effects \/ TakesEffect(m, msg) =>
                 effects' \in [Members -> [Nonces -> Nat]] /\ Spent'
<1>1. /\ seen_nonces \in [Members -> SUBSET Nonces]
      /\ round \in [Members -> Rounds] /\ effects \in [Members -> [Nonces -> Nat]]
  BY DEF IInv, TypeOK
<1>2. \A l \in Members : seen_nonces'[l] = IF l = m THEN seen_nonces[m] \union {msg.nonce}
                                           ELSE seen_nonces[l]
  BY <1>1 DEF Enter
<1>3. seen_nonces' \in [Members -> SUBSET Nonces]
  BY <1>1 DEF Enter
<1>4. EarlyNotSpent'
  <2> SUFFICES ASSUME NEW l \in Members, NEW n \in seen_nonces'[l]
      PROVE  \/ \E g \in Messages : g.kind # "share" /\ g.nonce = n /\ g.round <= round[l]
             \/ \E a \in aggregates : a.nonce = n /\ a.round <= round[l]
    BY DEF EarlyNotSpent
  <2>1. CASE n \in seen_nonces[l]
    BY <2>1 DEF IInv, EarlyNotSpent
  <2>2. CASE l = m /\ n = msg.nonce
    <3>1. msg.round = round[m] /\ round[m] \in Nat
      BY <1>1 DEF Enter, Rounds
    <3>2. msg.round <= round[l]
      BY <2>2, <3>1
    <3>3. QED
      BY <2>2, <3>2
  <2>3. QED
    BY <1>2, <2>1, <2>2
<1>5. ASSUME UNCHANGED effects
      PROVE  effects' \in [Members -> [Nonces -> Nat]] /\ Spent'
  BY <1>1, <1>2, <1>5 DEF IInv, Spent
<1>6. ASSUME TakesEffect(m, msg)
      PROVE  effects' \in [Members -> [Nonces -> Nat]] /\ Spent'
  <2>1. effects[m][msg.nonce] = 0
    BY DEF Enter, IInv, Spent
  <2>2. \A l \in Members, n \in Nonces :
           effects'[l][n] = IF l = m /\ n = msg.nonce THEN 1 ELSE effects[l][n]
    BY <1>1, <1>6, <2>1 DEF TakesEffect
  <2>3. effects' \in [Members -> [Nonces -> Nat]]
    BY <1>1, <1>6 DEF TakesEffect
  <2>4. Spent'
    BY <1>2, <2>2 DEF IInv, Spent
  <2>5. QED
    BY <2>3, <2>4
<1>7. QED
  BY <1>3, <1>4, <1>5, <1>6

\* Sharing a new share, or a commitment, leaves accepted aggregates as they are held.
LEMMA AgreedKept ==
    ASSUME IInv, UNCHANGED agreed,
           \A m \in Members, p \in Parties : shares[m][p] # None => shares'[m][p] = shares[m][p]
    PROVE  AgreedHeld'
<1> SUFFICES ASSUME NEW m \in Members, NEW a \in agreed[m]
    PROVE  /\ Cardinality(Held(a.of)) >= Threshold
           /\ \A p \in Held(a.of) : shares'[m][p] = a.of[p]
  BY DEF AgreedHeld, Held
<1>1. /\ Cardinality(Held(a.of)) >= Threshold
      /\ \A p \in Held(a.of) : shares[m][p] = a.of[p]
  BY DEF IInv, AgreedHeld
<1>2. \A p \in Held(a.of) : p \in Parties /\ a.of[p] # None
  BY DEF Held
<1>3. QED
  BY <1>1, <1>2

\* Every call preserves the invariant.
LEMMA NextIInv == IInv /\ [Next]_vars => IInv'
<1> SUFFICES ASSUME IInv, [Next]_vars PROVE IInv'
  OBVIOUS
<1>typ. /\ parties \in [Members -> SUBSET Parties]
        /\ commitments \in [Members -> [Parties -> Maybe(Commitments)]]
        /\ shares \in [Members -> [Parties -> Maybe(Shares)]]
        /\ seen_nonces \in [Members -> SUBSET Nonces]
        /\ round \in [Members -> Rounds]
        /\ aggregates \subseteq AggregateMessage
        /\ agreed \in [Members -> SUBSET AggregateMessage]
        /\ effects \in [Members -> [Nonces -> Nat]]
  BY DEF IInv, TypeOK
<1>1. ASSUME NEW m \in Members, NEW p \in Parties, register_party(m, p) PROVE IInv'
  <2>1. TypeOK'
    BY <1>1, <1>typ DEF register_party, TypeOK
  <2>2. SharesCommitted'
    <3>1. \A l \in Members : parties[l] \subseteq parties'[l]
      BY <1>1, <1>typ DEF register_party
    <3>2. QED
      BY <1>1, <3>1 DEF register_party, IInv, SharesCommitted, Held
  <2>3. AgreedHeld' /\ Honest' /\ Spent' /\ EarlyNotSpent'
    BY <1>1 DEF register_party, IInv, AgreedHeld, Held, Honest, Spent, EarlyNotSpent
  <2>4. QED
    BY <2>1, <2>2, <2>3 DEF IInv
<1>2. ASSUME NEW m \in Members, NEW msg \in Messages, submit_commit(m, msg) PROVE IInv'
  <2>1. /\ msg.kind = "commit" /\ msg.party \in Parties
        /\ msg.payload \in Commitments /\ msg.nonce \in Nonces
    BY <1>2, MessageFields DEF submit_commit
  <2>2. /\ seen_nonces' \in [Members -> SUBSET Nonces] /\ EarlyNotSpent'
        /\ effects' \in [Members -> [Nonces -> Nat]] /\ Spent'
    BY <1>2, <2>1, Enters DEF submit_commit
  <2>3. commitments' \in [Members -> [Parties -> Maybe(Commitments)]]
    <3>1. \/ commitments' = commitments
          \/ commitments' = [commitments EXCEPT ![m][msg.party] = msg.payload]
      BY <1>2 DEF submit_commit
    <3>2. msg.payload \in Maybe(Commitments)
      BY <2>1 DEF Maybe
    <3>3. CASE commitments' = [commitments EXCEPT ![m][msg.party] = msg.payload]
      BY <1>typ, <2>1, <3>2, <3>3
    <3>4. QED
      BY <1>typ, <3>1, <3>3
  <2>4. \A l \in Members, p \in Parties :
           commitments[l][p] # None => commitments'[l][p] = commitments[l][p]
    BY <1>2, <1>typ, SMTT(30) DEF submit_commit
  <2>5. TypeOK'
    BY <1>2, <1>typ, <2>2, <2>3 DEF submit_commit, TypeOK
  <2>6. SharesCommitted'
    <3> SUFFICES ASSUME NEW l \in Members, NEW p \in Held(shares[l])
        PROVE  /\ p \in parties[l]
               /\ \/ commitments'[l][p] = commitment_for(shares[l][p])
                  \/ [kind |-> "share", party |-> p, payload |-> shares[l][p]] \in Messages
      BY <1>2 DEF submit_commit, SharesCommitted, Held
    <3>1. p \in Parties /\ shares[l][p] \in Shares
      BY <1>typ DEF Held, Maybe
    <3>2. commitment_for(shares[l][p]) # None
      BY <3>1, NoneAssumption DEF Commitments
    <3>3. QED
      BY <2>4, <3>1, <3>2 DEF IInv, SharesCommitted
  <2>7. AgreedHeld'
    BY <1>2, AgreedKept DEF submit_commit
  <2>8. Honest'
    BY <1>2 DEF submit_commit, IInv, Honest
  <2>9. QED
    BY <2>2, <2>5, <2>6, <2>7, <2>8 DEF IInv
<1>3. ASSUME NEW m \in Members, NEW msg \in Messages, submit_reveal(m, msg) PROVE IInv'
  <2>1. /\ msg.kind = "reveal" /\ msg.party \in Parties
        /\ msg.payload \in Shares /\ msg.nonce \in Nonces
    BY <1>3, MessageFields DEF submit_reveal
  <2>2. /\ seen_nonces' \in [Members -> SUBSET Nonces] /\ EarlyNotSpent'
        /\ effects' \in [Members -> [Nonces -> Nat]] /\ Spent'
    BY <1>3, <2>1, Enters DEF submit_reveal
  <2>up. \/ shares' = shares
         \/ /\ shares' = [shares EXCEPT ![m][msg.party] = msg.payload]
            /\ msg.party \in parties[m] /\ shares[m][msg.party] = None
            /\ commitments[m][msg.party] = commitment_for(msg.payload)
    BY <1>3 DEF submit_reveal, Reveals
  <2>val. msg.payload \in Maybe(Shares)
    BY <2>1 DEF Maybe
  <2>3. shares' \in [Members -> [Parties -> Maybe(Shares)]]
    <3>1. CASE shares' = [shares EXCEPT ![m][msg.party] = msg.payload]
      BY <1>typ, <2>1, <2>val, <3>1
    <3>2. QED
      BY <1>typ, <2>up, <3>1
  <2>4. \A l \in Members, p \in Parties :
           \/ shares'[l][p] = shares[l][p]
           \/ /\ p \in parties[l] /\ shares[l][p] = None
              /\ commitments[l][p] = commitment_for(shares'[l][p])
    <3>1. CASE shares' = shares
      BY <3>1
    <3>2. CASE shares' # shares
      <4>1. \A l \in Members, p \in Parties :
               shares'[l][p] = IF l = m /\ p = msg.party THEN msg.payload ELSE shares[l][p]
        <5>1. shares' = [shares EXCEPT ![m][msg.party] = msg.payload]
          BY <3>2, <2>up
        <5>2. QED
          BY <1>typ, <2>1, <5>1
      <4>2. QED
        BY <3>2, <4>1, <2>up
    <3>3. QED
      BY <3>1, <3>2
  <2>5. TypeOK'
    BY <1>3, <1>typ, <2>2, <2>3 DEF submit_reveal, TypeOK
  <2>6. SharesCommitted'
    BY <1>3, <2>4 DEF submit_reveal, IInv, SharesCommitted, Held
  <2>7. AgreedHeld'
    BY <1>3, <2>4, AgreedKept DEF submit_reveal
  <2>8. Honest'
    BY <1>3 DEF submit_reveal, IInv, Honest
  <2>9. QED
    BY <2>2, <2>5, <2>6, <2>7, <2>8 DEF IInv
<1>4. ASSUME NEW m \in Members, NEW msg \in Messages, submit_share(m, msg) PROVE IInv'
  <2>1. /\ msg.party \in Parties /\ msg.payload \in Shares
        /\ [kind |-> "share", party |-> msg.party, payload |-> msg.payload] \in Messages
    BY <1>4, MessageFields DEF submit_share
  <2>2. shares' \in [Members -> [Parties -> Maybe(Shares)]]
    BY <1>4, <1>typ, <2>1 DEF submit_share, Maybe
  <2>3. \A l \in Members, p \in Parties :
           \/ shares'[l][p] = shares[l][p]
           \/ /\ p \in parties[l] /\ shares[l][p] = None
              /\ p = msg.party /\ shares'[l][p] = msg.payload
    BY <1>4, <1>typ DEF submit_share
  <2>4. TypeOK'
    BY <1>4, <1>typ, <2>2 DEF submit_share, TypeOK
  <2>5. SharesCommitted'
    BY <1>4, <2>1, <2>3 DEF submit_share, IInv, SharesCommitted, Held
  <2>6. AgreedHeld'
    BY <1>4, <2>3, AgreedKept DEF submit_share
  <2>7. Honest' /\ Spent' /\ EarlyNotSpent'
    BY <1>4 DEF submit_share, IInv, Honest, Spent, EarlyNotSpent
  <2>8. QED
    BY <2>4, <2>5, <2>6, <2>7 DEF IInv
<1>5. ASSUME NEW m \in Members, NEW n \in Nonces, Aggregate(m, n) PROVE IInv'
  <2> DEFINE a == [round |-> round[m], nonce |-> n, digest |-> finalize_digest(shares[m]),
                   of |-> shares[m]]
  <2>1. a \in AggregateMessage
    BY <1>typ DEF AggregateMessage, finalize_digest
  <2>2. aggregates' = aggregates \union {a}
    BY <1>5 DEF Aggregate
  <2>3. TypeOK'
    BY <1>5, <1>typ, <2>1, <2>2 DEF Aggregate, TypeOK, session
  <2>4. Honest'
    BY <2>2 DEF IInv, Honest
  <2>5. SharesCommitted' /\ AgreedHeld' /\ Spent'
    BY <1>5 DEF Aggregate, session, IInv, SharesCommitted, AgreedHeld, Held, Spent
  <2>6. EarlyNotSpent'
    BY <1>5, <2>2 DEF Aggregate, session, IInv, EarlyNotSpent
  <2>7. QED
    BY <2>3, <2>4, <2>5, <2>6 DEF IInv
<1>6. ASSUME NEW m \in Members, NEW msg \in aggregates, apply_aggregate(m, msg) PROVE IInv'
  <2>1. msg \in AggregateMessage /\ msg.nonce \in Nonces /\ msg.of \in [Parties -> Maybe(Shares)]
    BY <1>typ, MessageFields
  <2>2. /\ seen_nonces' \in [Members -> SUBSET Nonces] /\ EarlyNotSpent'
        /\ effects' \in [Members -> [Nonces -> Nat]] /\ Spent'
    BY <1>6, <2>1, Enters DEF apply_aggregate
  <2>3. agreed' \in [Members -> SUBSET AggregateMessage]
    <3>1. agreed' = agreed \/ agreed' = [agreed EXCEPT ![m] = @ \union {msg}]
      BY <1>6 DEF apply_aggregate
    <3>2. CASE agreed' = [agreed EXCEPT ![m] = @ \union {msg}]
      <4>1. agreed[m] \union {msg} \in SUBSET AggregateMessage
        BY <1>typ, <2>1
      <4>2. QED
        BY <1>typ, <3>2, <4>1
    <3>3. QED
      BY <1>typ, <3>1, <3>2
  <2>4. TypeOK'
    BY <1>6, <1>typ, <2>2, <2>3 DEF apply_aggregate, TypeOK
  <2>5. AgreedHeld'
    <3>1. CASE UNCHANGED agreed
      BY <1>6, <3>1, AgreedKept DEF apply_aggregate
    <3>2. CASE /\ agreed' = [agreed EXCEPT ![m] = @ \union {msg}]
               /\ can_finalize(m) /\ finalize_digest(shares[m]) = msg.digest
      <4>1. msg.of = shares[m]
        BY <3>2, <1>typ, <2>1, SameDigest DEF IInv, Honest
      <4>2. \A l \in Members : \A g \in agreed'[l] : g \in agreed[l] \/ (l = m /\ g = msg)
        BY <3>2, <1>typ
      <4>3. shares' = shares
        BY <1>6 DEF apply_aggregate
      <4>4. /\ Cardinality(Held(msg.of)) >= Threshold
            /\ \A p \in Held(msg.of) : shares[m][p] = msg.of[p]
        BY <3>2, <4>1 DEF can_finalize
      <4>5. \A l \in Members : \A g \in agreed'[l] :
               /\ Cardinality(Held(g.of)) >= Threshold
               /\ \A p \in Held(g.of) : shares[l][p] = g.of[p]
        BY <4>2, <4>4 DEF IInv, AgreedHeld
      <4>6. QED
        BY <4>3, <4>5 DEF AgreedHeld, Held
    <3>3. QED
      BY <1>6, <3>1, <3>2 DEF apply_aggregate
  <2>6. SharesCommitted' /\ Honest'
    BY <1>6 DEF apply_aggregate, IInv, SharesCommitted, Held, Honest
  <2>7. QED
    BY <2>2, <2>4, <2>5, <2>6 DEF IInv
<1>7. ASSUME NEW m \in Members, advance_round(m) PROVE IInv'
  <2>1. round' \in [Members -> Rounds] /\ \A l \in Members : round[l] <= round'[l]
    BY <1>7, <1>typ, PolicyAssumption DEF advance_round, Rounds
  <2>2. TypeOK'
    BY <1>7, <1>typ, <2>1 DEF advance_round, TypeOK
  <2>3. SharesCommitted' /\ AgreedHeld' /\ Honest' /\ Spent'
    BY <1>7 DEF advance_round, IInv, SharesCommitted, AgreedHeld, Held, Honest, Spent
  <2>4. EarlyNotSpent'
    <3>1. \A l \in Members : round[l] \in Int /\ round'[l] \in Int
      BY <1>typ, <2>1, PolicyAssumption DEF Rounds
    <3>2. /\ \A msg \in Messages : msg.kind # "share" => msg.round \in Int
          /\ \A g \in aggregates : g.round \in Int
      BY <1>typ, MessageFields, PolicyAssumption DEF Rounds
    <3>3. \A l \in Members, r \in Int : r <= round[l] => r <= round'[l]
      BY <2>1, <3>1
    <3>4. QED
      BY <1>7, <3>2, <3>3 DEF advance_round, IInv, EarlyNotSpent
  <2>5. QED
    BY <2>2, <2>3, <2>4 DEF IInv
<1>8. CASE UNCHANGED vars
  BY <1>8 DEF vars, session, IInv, TypeOK, SharesCommitted, AgreedHeld, Held, Honest, Spent,
              EarlyNotSpent
<1>9. QED
  BY <1>1, <1>2, <1>3, <1>4, <1>5, <1>6, <1>7, <1>8 DEF Next

\* The invariant holds throughout.
THEOREM Invariance == Spec => []IInv
<1>1. QED
  BY InitIInv, NextIInv, PTL DEF Spec

\* The session's fields have their types and its round stays within the policy.
THEOREM TypeCorrect == Spec => []TypeOK
<1>1. IInv => TypeOK
  BY DEF IInv
<1>2. QED
  BY Invariance, <1>1, PTL

\* Every share a session counts is committed to, or was submitted as it is
\* (submit_share, submit_commit, submit_reveal).
THEOREM SharesCommittedHolds == Spec => []SharesCommitted
<1>1. IInv => SharesCommitted
  BY DEF IInv
<1>2. QED
  BY Invariance, <1>1, PTL

\* A member holds, for ever, the shares of every aggregate it accepted
\* (apply_aggregate).
THEOREM AgreedHeldHolds == Spec => []AgreedHeld
<1>1. IInv => AgreedHeld
  BY DEF IInv
<1>2. QED
  BY Invariance, <1>1, PTL

\* No nonce takes effect twice (register_nonce).
THEOREM NoReplayHolds == Spec => []NoReplay
<1>1. IInv => NoReplay
  BY DEF IInv, Spent, NoReplay
<1>2. QED
  BY Invariance, <1>1, PTL

\* A message that arrives before its round keeps its nonce (ensure_round).
THEOREM EarlyNotSpentHolds == Spec => []EarlyNotSpent
<1>1. IInv => EarlyNotSpent
  BY DEF IInv
<1>2. QED
  BY Invariance, <1>1, PTL
===============================================================================
