------------------------------ MODULE MCMpcSession ------------------------------
(* Bounds for model checking MPC sessions: two parties of one-byte ids, two     *)
(* shares, two rounds, and messages with a wrong reveal, a nonce used twice, a  *)
(* second commitment in the second round and a share without a commitment.      *)
EXTENDS MpcSession

P == <<1>>
Q == <<2>>
X == <<3>>
Y == <<4>>

Commit(p, x, n, r) ==
    [kind |-> "commit", party |-> p, payload |-> commitment_for(x), nonce |-> n, round |-> r]
Reveal(p, x, n, r) ==
    [kind |-> "reveal", party |-> p, payload |-> x, nonce |-> n, round |-> r]

MCParties == {P, Q}
MCShares == {X, Y}
MCOrder == <<P, Q>>
MCMessages ==
    {Commit(P, X, 1, 1), Reveal(P, X, 2, 1), Reveal(P, Y, 3, 2), Commit(P, Y, 1, 2),
     Commit(Q, Y, 2, 2), [kind |-> "share", party |-> Q, payload |-> X],
     [kind |-> "share", party |-> Q, payload |-> Y]}

\* at most two aggregates are ever made
FewAggregates == Cardinality(aggregates) <= 2
===============================================================================
