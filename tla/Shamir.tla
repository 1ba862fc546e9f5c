--------------------------------- MODULE Shamir ---------------------------------
(***************************************************************************)
(* Threshold sharing over a prime field (src/shamir.rs) and its two        *)
(* commands (src/main.rs).  Bytes are shared independently of each other,  *)
(* so one byte stands for a secret.  Shares are handed out as text, kept   *)
(* and lost, and given back to shamir-join in any order; the same text may *)
(* be given twice, and so may text that split never handed out.            *)
(***************************************************************************)
EXTENDS Integers, Sequences, FiniteSets, Folds, Functions, SequencesExt

CONSTANTS
    P,               \* PRIME, 251 in the code
    MaxShares,       \* 250, the bound that split asserts
    CliMaxShares,    \* 255, the bound that shamir-split checks
    ThresholdArgs,   \* the -t that a user gives
    ShareArgs,       \* the -n that a user gives
    MaxJoin          \* bound: shares given to one shamir-join

ASSUME PrimeAssumption ==
    /\ P \in Nat \ {0, 1} /\ \A d \in 2..(P - 1) : P % d # 0
    /\ (P - 1) * (P - 1) < 2^16
ASSUME ShareBoundAssumption == MaxShares \in 1..(P - 1) /\ CliMaxShares \in Nat
ASSUME ArgsAssumption == ThresholdArgs \subseteq Nat /\ ShareArgs \subseteq Nat

\* P stands for every byte outside the field; text in UTF-8 has none of them, but split
\* is public and asserts that its callers give none.
Byte == 0..P

\* An index of a share that split did not deal: it stands for all of them, 0, one beyond
\* the shares or above the prime, and for a dealt index with other data.
Stray == 0

VARIABLES
    secret,     \* the byte last split
    poly,       \* coeffs, or <<>> before the first split
    dealt,      \* the data of share 1, 2, ...
    joined,     \* the indices given to the last shamir-join, in order
    recovered,  \* what it printed, or <<>>
    outcome     \* how the last command ended, or "gathering" before shamir-join

shamirVars == <<secret, poly, dealt, joined, recovered, outcome>>

-------------------------------------------------------------------------------
\* u16 arithmetic modulo the prime.  While the indices are those of dealt shares no value
\* leaves 16 bits: JoinFits of ShamirProofs.
Times(a, b) == (a * b) % P
Plus(a, b) == (a + b) % P

Mutant_SquaresOnly(a) ==
    LET loop[v \in (0..P) \X (0..P) \X (0..P)] ==
            LET exp == v[1] result == v[2] base == v[3] IN
            IF exp <= 1 THEN result
            ELSE loop[<<exp \div 2, IF exp % 2 = 1 THEN Times(result, base) ELSE result,
                        Times(base, base)>>]
    IN  loop[<<P - 2, 1, a>>]

\* a^(P-2) mod P, by squaring: the loop on its exp, result and base
gf_inv(a) ==
    LET loop[v \in (0..P) \X (0..P) \X (0..P)] ==
            LET exp == v[1] result == v[2] base == v[3] IN
            IF exp = 0 THEN result
            ELSE loop[<<exp \div 2, IF exp % 2 = 1 THEN Times(result, base) ELSE result,
                        Times(base, base)>>]
    IN  loop[<<P - 2, 1, a>>]

\* the polynomial at x, with the next power of x beside the sum
evaluate(coeffs, x) ==
    FoldLeft(LAMBDA acc, c : [y |-> Plus(acc.y, Times(c, acc.x_pow)),
                              x_pow |-> Times(acc.x_pow, x)],
             [y |-> 0, x_pow |-> 1], coeffs).y

\* L_i(0), the product of (0 - xj) / (xi - xj), over the positions of the joined shares
numerator(shares, i) ==
    MapThenFoldSet(Times, 1, LAMBDA j : (P - shares[j]) % P,
                   LAMBDA S : CHOOSE j \in S : TRUE, DOMAIN shares \ {i})
denominator(shares, i) ==
    MapThenFoldSet(Times, 1, LAMBDA j : (shares[i] + P - shares[j]) % P,
                   LAMBDA S : CHOOSE j \in S : TRUE, DOMAIN shares \ {i})
lagrange_coef(shares, i) == Times(numerator(shares, i), gf_inv(denominator(shares, i)))

reconstruct(shares, data) ==
    MapThenFoldSet(Plus, 0, LAMBDA i : Times(lagrange_coef(shares, i), data[shares[i]]),
                   LAMBDA S : CHOOSE i \in S : TRUE, DOMAIN shares)

\* gf_inv panics on zero: two of the shares have the same x
Inverts(shares) == \A i \in DOMAIN shares : denominator(shares, i) # 0

-------------------------------------------------------------------------------
ShamirInit ==
    /\ secret = 0
    /\ poly = <<>>
    /\ dealt = <<>>
    /\ joined = <<>>
    /\ recovered = <<>>
    /\ outcome = "started"

Stopped(why) == outcome' = why /\ UNCHANGED <<secret, poly, dealt, joined, recovered>>

\* the checks of shamir-split, then the assertions of split
SplitRefused(t, n) ==
    /\ t < 2 \/ n < t \/ n > CliMaxShares
    /\ Stopped("exit 1")

SplitPanics(b, t, n) ==
    /\ t >= 2 /\ n >= t /\ n <= CliMaxShares
    /\ n > MaxShares \/ b >= P
    /\ Stopped("panic")

\* every coefficient after the secret is one of 1..P-1: b % (P - 1) + 1
Split(b, t, n) ==
    /\ t >= 2 /\ n >= t /\ n <= MaxShares /\ n <= CliMaxShares /\ b < P
    /\ secret' = b
    /\ \E random \in [1..(t - 1) -> 1..(P - 1)] :
          LET coeffs == <<b>> \o random IN
          /\ poly' = coeffs
          /\ dealt' = [x \in 1..n |-> evaluate(coeffs, x)]
    /\ joined' = <<>>
    /\ outcome' = "split"
    /\ UNCHANGED recovered

\* a user gathers one more share, as text, for shamir-join; decode_shares takes any u8 as
\* its index
Gather(x) ==
    /\ outcome \in {"split", "gathering"}
    /\ Len(joined) < MaxJoin
    /\ joined' = Append(joined, x)
    /\ outcome' = "gathering"
    /\ UNCHANGED <<secret, poly, dealt, recovered>>

JoinRefused ==
    /\ outcome = "gathering" /\ Len(joined) < 2
    /\ Stopped("exit 1")

Genuine == \A i \in DOMAIN joined : joined[i] \in DOMAIN dealt

JoinPanics ==
    /\ outcome = "gathering" /\ Len(joined) >= 2
    /\ Genuine /\ ~Inverts(joined)
    /\ Stopped("panic")

Join ==
    /\ outcome = "gathering" /\ Len(joined) >= 2
    /\ Genuine /\ Inverts(joined)
    /\ recovered' = <<reconstruct(joined, dealt)>>
    /\ outcome' = "recovered"
    /\ UNCHANGED <<secret, poly, dealt, joined>>

\* With a stray share among them: text that does not decode is refused, two equal indices
\* have no inverse, an index above the prime makes PRIME - xj less than zero, which a debug
\* build panics on and a release build takes modulo 2^16, and the rest gives some byte.
JoinStray ==
    /\ outcome = "gathering" /\ Len(joined) >= 2
    /\ ~Genuine
    /\ \/ Stopped("exit 1")
       \/ Stopped("panic")
       \/ /\ \E b \in 0..(P - 1) : recovered' = <<b>>
          /\ outcome' = "stray"
          /\ UNCHANGED <<secret, poly, dealt, joined>>

ShamirNext ==
    \/ \E b \in Byte, t \in ThresholdArgs, n \in ShareArgs :
          /\ poly = <<>>    \* one sharing is followed at a time
          /\ SplitRefused(t, n) \/ SplitPanics(b, t, n) \/ Split(b, t, n)
    \/ \E x \in DOMAIN dealt \union {Stray} : Gather(x)
    \/ JoinRefused \/ JoinPanics \/ Join \/ JoinStray

ShamirSpec == ShamirInit /\ [][ShamirNext]_shamirVars

-------------------------------------------------------------------------------
threshold == Len(poly)

\* The secrets that some polynomial split could have drawn agrees with, on what the
\* shares xs say.
Possible(xs) ==
    {s \in 0..(P - 1) : \E random \in [1..(threshold - 1) -> 1..(P - 1)] :
        \A x \in xs : evaluate(<<s>> \o random, x) = dealt[x]}

\* Of the shares that were dealt, "any t shares can recover the secret" (main.rs:241), whatever their order and
\* however many more are given, and a share given twice is a panic, never a wrong
\* secret.  Fewer shares leave every secret possible but one for each coefficient,
\* which is never zero (shamir.rs:77-80).
ThresholdScheme ==
    /\ outcome = "recovered" =>
          /\ IsInjective(joined)
          /\ Len(joined) >= threshold => recovered = <<secret>>
    /\ outcome = "split" =>
          \A xs \in SUBSET DOMAIN dealt : Cardinality(xs) = threshold - 1 =>
              Cardinality(Possible(xs)) >= P - (threshold - 1)
===============================================================================
