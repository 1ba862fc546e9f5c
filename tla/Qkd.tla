----------------------------------- MODULE Qkd -----------------------------------
(***************************************************************************)
(* The key-distribution simulator (src/qkd/mod.rs): one run, qubit by      *)
(* qubit, over an entropy source that may run out at any draw.  A channel  *)
(* of probability 0 never flips and any other may: at probability 1 a draw *)
(* that rounds up to 1.0 does not flip.  The error rate is compared as     *)
(* mismatches over the sample, without the division.                       *)
(***************************************************************************)
EXTENDS Integers, Sequences, FiniteSets, SequencesExt, Vectors

CONSTANTS
    QubitCounts, SampleSizes,
    MaxQbers,    \* max_qber, as <<numerator, denominator>>
    Noisy        \* whether bit_flip_probability is above 0

ASSUME QkdAssumption ==
    /\ QubitCounts \subseteq Nat /\ SampleSizes \subseteq Nat
    /\ MaxQbers \subseteq Int \X (Nat \ {0})

VARIABLES
    params,       \* Bb84Simulator
    qubits,       \* how many were sent
    alice, bob,   \* the sifted bits
    idx,          \* the indices that Fisher-Yates shuffles
    turn,         \* its position: the next i to swap
    report,
    phase

qkdVars == <<params, qubits, alice, bob, idx, turn, report, phase>>

Bit == {0, 1}
Sifted == 1..Len(alice)
NoReport == [mismatches |-> 0, accepted |-> FALSE, sampled |-> {}, key |-> <<>>]

-------------------------------------------------------------------------------
QkdInit ==
    /\ params = [qubit_count |-> 0, sample_size |-> 0, max_qber |-> <<0, 1>>, noisy |-> FALSE]
    /\ qubits = 0
    /\ alice = <<>> /\ bob = <<>>
    /\ idx = <<>> /\ turn = 0
    /\ report = NoReport
    /\ phase = "none"

\* Bb84Simulator::new
new(p) ==
    /\ phase = "none"
    /\ phase' = IF /\ p.qubit_count # 0
                   /\ p.sample_size # 0
                   /\ p.max_qber[1] \in 0..p.max_qber[2]
                THEN "sending" ELSE "refused"
    /\ params' = p
    /\ UNCHANGED <<qubits, alice, bob, idx, turn, report>>

\* The source may run out whenever run draws from it.
EntropyExhausted ==
    /\ \/ phase = "sending" /\ qubits < params.qubit_count
       \/ phase = "shuffling" /\ turn > 1
    /\ phase' = "EntropyExhausted"
    /\ UNCHANGED <<params, qubits, alice, bob, idx, turn, report>>

Flips == IF params.noisy THEN Bit ELSE {0}

maybe_flip(bit, flip) == (bit + flip) % 2

\* Bob measured in the other basis: neither keeps the bit
\* (the bit he measures and the noise on it are drawn and dropped)
Unmatched ==
    /\ phase = "sending" /\ qubits < params.qubit_count
    /\ qubits' = qubits + 1
    /\ UNCHANGED <<params, alice, bob, idx, turn, report, phase>>

Matched(bit, flip) ==
    /\ phase = "sending" /\ qubits < params.qubit_count
    /\ qubits' = qubits + 1
    /\ alice' = Append(alice, bit)
    /\ bob' = Append(bob, maybe_flip(bit, flip))
    /\ UNCHANGED <<params, idx, turn, report, phase>>

InsufficientSiftedBits ==
    /\ phase = "sending" /\ qubits = params.qubit_count
    /\ Len(alice) < params.sample_size
    /\ phase' = "InsufficientSiftedBits"
    /\ UNCHANGED <<params, qubits, alice, bob, idx, turn, report>>

BeginShuffle ==
    /\ phase = "sending" /\ qubits = params.qubit_count
    /\ Len(alice) >= params.sample_size
    /\ idx' = [i \in Sifted |-> i]
    /\ turn' = Len(alice)
    /\ phase' = "shuffling"
    /\ UNCHANGED <<params, qubits, alice, bob, report>>

Mutant_Overwrites(i, j) == [idx EXCEPT ![i] = idx[j]]
Swapped(i, j) == [idx EXCEPT ![i] = idx[j], ![j] = idx[i]]

\* for i in (1..len).rev(): swap with one of the first i + 1
Shuffle(j) ==
    /\ phase = "shuffling" /\ turn > 1
    /\ j \in 1..turn
    /\ idx' = Swapped(turn, j)
    /\ turn' = turn - 1
    /\ UNCHANGED <<params, qubits, alice, bob, report, phase>>

\* the sample is the shuffle's prefix; what it misses is the key, Alice's bits, whether
\* the rate is accepted or not
Report ==
    LET sample == SubSeq(idx, 1, params.sample_size)
        mismatches == Cardinality({i \in DOMAIN sample : alice[sample[i]] # bob[sample[i]]})
        kept == retain([i \in Sifted |-> i], ToSet(sample))
    IN  /\ phase = "shuffling" /\ turn <= 1
        /\ report' = [mismatches |-> mismatches,
                      accepted |-> mismatches * params.max_qber[2]
                                       <= params.max_qber[1] * params.sample_size,
                      sampled |-> ToSet(sample),
                      key |-> [i \in DOMAIN kept |-> alice[kept[i]]]]
        /\ phase' = "done"
        /\ UNCHANGED <<params, qubits, alice, bob, idx, turn>>

QkdNext ==
    \/ \E p \in [qubit_count : QubitCounts, sample_size : SampleSizes,
                 max_qber : MaxQbers, noisy : Noisy] : new(p)
    \/ EntropyExhausted
    \/ Unmatched \/ \E bit \in Bit, flip \in Flips : Matched(bit, flip)
    \/ InsufficientSiftedBits \/ BeginShuffle
    \/ \E j \in 1..turn : Shuffle(j)
    \/ Report

QkdSpec == QkdInit /\ [][QkdNext]_qkdVars

-------------------------------------------------------------------------------
\* The key and the sample are two views of one shuffled index vector (qkd/mod.rs:201-
\* 219, 234-250): a bit that was compared in public is never in the key and none that was
\* not is lost, so the key is as long as the report's numbers say; a rate that was
\* accepted bounds the errors in the sample, and a channel without noise always is.
KeyNotSampled ==
    phase = "done" =>
        LET kept == Sifted \ report.sampled
            differs == {i \in Sifted : alice[i] # bob[i]}
        IN  /\ Cardinality(report.sampled) = params.sample_size
            /\ Len(report.key) = Len(alice) - params.sample_size
            /\ \A b \in Bit : Cardinality({i \in DOMAIN report.key : report.key[i] = b})
                                  = Cardinality({i \in kept : alice[i] = b})
            /\ report.accepted <=>
                  Cardinality(differs \intersect report.sampled) * params.max_qber[2]
                      <= params.max_qber[1] * params.sample_size
            /\ ~params.noisy => report.accepted
===============================================================================
