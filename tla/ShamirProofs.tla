------------------------------ MODULE ShamirProofs ------------------------------
(***************************************************************************)
(* For any prime, secret, threshold and number of shares: enough shares,   *)
(* in any order, recover the secret, a share given twice is a panic, and   *)
(* too few leave all but a handful of secrets possible.                    *)
(*                                                                         *)
(* The argument.  What a loop over a set of shares accumulates does not    *)
(* depend on the order it visits them in (Over), so its sums and products  *)
(* can be split, scaled and renamed.  Products of numbers from 1 to P - 1  *)
(* are never zero because P is prime, hence multiplication permutes these  *)
(* numbers, a^(P-1) = 1 (Fermat), and gf_inv inverts (InverseIs).          *)
(* Interpolating is a divided difference over the shares' points and 0,    *)
(* which is zero for a power below their number (DividedPower); read for   *)
(* the point 0, that is: the interpolation of x^m is 0^m (Lagrange).  So   *)
(* it forgets every coefficient but the first (Recovery).  For t - 1       *)
(* shares there is a polynomial that is 1 at 0 and vanishes at them        *)
(* (Vanishing); adding its multiples changes the secret and none of these  *)
(* shares, and each coefficient becomes zero for one secret at most        *)
(* (Secrecy).  Between the commands, the shares at hand are values of the  *)
(* polynomial drawn (ShamirIInv).                                          *)
(***************************************************************************)
EXTENDS Shamir, FiniteSetTheorems, WellFoundedInduction, TLAPS

-------------------------------------------------------------------------------
(***************************************************************************)
(* Least elements: induction over numbers and over finite sets             *)
(***************************************************************************)

\* A set of numbers that is not empty has a least element.
LEMMA LeastNumber ==
    ASSUME NEW T, T \subseteq Nat, T # {}
    PROVE  \E n \in T : \A m \in T : ~(m < n)
<1>1. \E n \in T : \A m \in T : ~(<<m, n>> \in OpToRel(<, Nat))
  BY NatLessThanWellFounded, WFMin
<1>2. QED
  BY <1>1 DEF OpToRel

\* Among subsets of a finite set there is one that no other lies in.
LEMMA LeastSubset ==
    ASSUME NEW S, IsFiniteSet(S), NEW B, B \subseteq SUBSET S, B # {}
    PROVE  \E T \in B : \A U \in B : U \subseteq T => U = T
<1> DEFINE sizes == {Cardinality(T) : T \in B}
<1>1. \A T \in B : IsFiniteSet(T) /\ Cardinality(T) \in Nat
  BY FS_Subset, FS_CardinalityType
<1>2. PICK n \in sizes : \A m \in sizes : ~(m < n)
  <2>1. sizes \subseteq Nat /\ sizes # {}
    BY <1>1
  <2> HIDE DEF sizes
  <2>2. QED
    BY <2>1, LeastNumber
<1>3. PICK T \in B : n = Cardinality(T)
  BY <1>2
<1>4. ASSUME NEW U \in B, U \subseteq T PROVE U = T
  <2>1. Cardinality(U) <= Cardinality(T) /\ (Cardinality(T) = Cardinality(U) => T = U)
    BY <1>1, <1>4, FS_Subset
  <2>2. ~(Cardinality(U) < Cardinality(T))
    BY <1>2, <1>3
  <2>3. QED
    BY <1>1, <2>1, <2>2
<1>5. QED
  BY <1>4

-------------------------------------------------------------------------------
(***************************************************************************)
(* Sums and products over a set: what reconstruct accumulates, in any order *)
(***************************************************************************)

Field == 0..(P - 1)

\* One operation of a loop, on its accumulator; opaque to the provers but where it matters.
App(op, a, b) == op[a, b]

\* The accumulators of the loops over a set of positions, one for each subset visited.
Accumulates(op, base, f, S, it) ==
    it = [q \in SUBSET S |->
             IF q = {} THEN base
             ELSE App(op, f[CHOOSE j \in q : TRUE], it[q \ {CHOOSE j \in q : TRUE}])]

Over(op, base, f, S) == (CHOOSE it : Accumulates(op, base, f, S, it))[S]

\* Neither the order nor the grouping of the operands matters.
Commutes(op, base) ==
    /\ \A a, b \in Field : App(op, a, b) \in Field
    /\ base \in Field
    /\ \A a \in Field : App(op, a, base) = a
    /\ \A a, b \in Field : App(op, a, b) = App(op, b, a)
    /\ \A a, b, c \in Field : App(op, a, App(op, b, c)) = App(op, App(op, a, b), c)

\* Three operands may be grouped either way.
Groups(op, a, b, c) == App(op, a, App(op, b, c)) = App(op, App(op, a, b), c)

\* Accumulators that agree wherever both have visited.
Agree(T, it, h) == \A q \in SUBSET T : it[q] = h[q]

\* What is accumulated over a subset does not depend on the set it is a part of.
LEMMA AccumulatesOnce ==
    ASSUME NEW op, NEW base, NEW f, NEW S, IsFiniteSet(S), NEW T \in SUBSET S, NEW it, NEW h,
           Accumulates(op, base, f, S, it), Accumulates(op, base, f, T, h)
    PROVE  Agree(T, it, h)
<1> DEFINE Bad == {q \in SUBSET T : it[q] # h[q]}
<1> SUFFICES ASSUME Bad # {} PROVE FALSE
  BY DEF Agree
<1>1. IsFiniteSet(T)
  BY FS_Subset
<1>2. PICK q \in Bad : \A U \in Bad : U \subseteq q => U = q
  <2>1. Bad \subseteq SUBSET T
    OBVIOUS
  <2> HIDE DEF Bad
  <2>2. QED
    BY <1>1, <2>1, LeastSubset
<1>3. PICK x : x = CHOOSE j \in q : TRUE
  OBVIOUS
<1>4. /\ it[q] = IF q = {} THEN base ELSE App(op, f[x], it[q \ {x}])
      /\ h[q] = IF q = {} THEN base ELSE App(op, f[x], h[q \ {x}])
  <2>1. q \in SUBSET S /\ q \in SUBSET T
    BY <1>2
  <2>2. it[q] = IF q = {} THEN base ELSE App(op, f[x], it[q \ {x}])
    <3>1. it[q] = IF q = {} THEN base
                  ELSE App(op, f[CHOOSE j \in q : TRUE], it[q \ {CHOOSE j \in q : TRUE}])
      BY <2>1 DEF Accumulates
    <3>2. QED
      BY <1>3, <3>1
  <2>3. h[q] = IF q = {} THEN base ELSE App(op, f[x], h[q \ {x}])
    <3>1. h[q] = IF q = {} THEN base
                 ELSE App(op, f[CHOOSE j \in q : TRUE], h[q \ {CHOOSE j \in q : TRUE}])
      BY <2>1 DEF Accumulates
    <3>2. QED
      BY <1>3, <3>1
  <2>4. QED
    BY <2>2, <2>3
<1>5. q # {}
  BY <1>2, <1>4
<1>6. x \in q
  BY <1>3, <1>5
<1>7. q \ {x} \notin Bad /\ q \ {x} \in SUBSET T
  BY <1>2, <1>6
<1>8. it[q \ {x}] = h[q \ {x}]
  BY <1>7
<1>9. QED
  BY <1>2, <1>4, <1>8

\* Accumulators over every finite set exist.
LEMMA AccumulatesExists ==
    ASSUME NEW op, NEW base, NEW f, NEW S, IsFiniteSet(S)
    PROVE  \E it : Accumulates(op, base, f, S, it)
<1> DEFINE Bad == {T \in SUBSET S : ~(\E it : Accumulates(op, base, f, T, it))}
<1> SUFFICES ASSUME Bad # {} PROVE FALSE
  OBVIOUS
<1>1. PICK T \in Bad : \A U \in Bad : U \subseteq T => U = T
  <2>1. Bad \subseteq SUBSET S
    OBVIOUS
  <2> HIDE DEF Bad
  <2>2. QED
    BY <2>1, LeastSubset
<1>2. T \in SUBSET S /\ IsFiniteSet(T) /\ ~(\E it : Accumulates(op, base, f, T, it))
  BY <1>1, FS_Subset
<1>3. \A U \in SUBSET T : U # T => \E it : Accumulates(op, base, f, U, it)
  BY <1>1
<1> HIDE DEF Bad
<1> DEFINE acc(U) == CHOOSE it : Accumulates(op, base, f, U, it)
<1>4. \A U \in SUBSET T : U # T => Accumulates(op, base, f, U, acc(U))
  BY <1>3
<1> DEFINE at(q) == CHOOSE j \in q : TRUE
           value(q) == IF q = {} THEN base ELSE App(op, f[at(q)], acc(q \ {at(q)})[q \ {at(q)}])
           it == [q \in SUBSET T |-> value(q)]
<1>5. ASSUME NEW q \in SUBSET T PROVE q # T => value(q) = acc(q)[q]
  <2> SUFFICES ASSUME q # T PROVE value(q) = acc(q)[q]
    OBVIOUS
  <2>1. Accumulates(op, base, f, q, acc(q))
    BY <1>4
  <2>2. acc(q)[q] = IF q = {} THEN base ELSE App(op, f[at(q)], acc(q)[q \ {at(q)}])
    <3> HIDE DEF acc
    <3>1. q \in SUBSET q
      OBVIOUS
    <3>2. QED
      BY <2>1, <3>1 DEF Accumulates
  <2>3. CASE q # {}
    <3>1. at(q) \in q
      BY <2>3
    <3>2. q \ {at(q)} \in SUBSET T /\ q \ {at(q)} # T /\ q \ {at(q)} \in SUBSET q
      BY <3>1
    <3>3. IsFiniteSet(q)
      BY <1>2, FS_Subset
    <3>4. Accumulates(op, base, f, q \ {at(q)}, acc(q \ {at(q)}))
      BY <1>4, <3>2
    <3> HIDE DEF acc, at
    <3>5. PICK t, g, h : t = q \ {at(q)} /\ g = acc(q) /\ h = acc(q \ {at(q)})
      OBVIOUS
    <3>6. /\ t \in SUBSET q
          /\ Accumulates(op, base, f, q, g)
          /\ Accumulates(op, base, f, t, h)
      BY <2>1, <3>2, <3>4, <3>5
    <3>7. Agree(t, g, h)
      BY <3>3, <3>6, AccumulatesOnce, Zenon
    <3>8. acc(q)[q \ {at(q)}] = acc(q \ {at(q)})[q \ {at(q)}]
      BY <3>5, <3>7 DEF Agree
    <3>9. QED
      BY <2>2, <2>3, <3>8
  <2>4. QED
    <3> HIDE DEF acc, at
    <3>1. QED
      BY <2>2, <2>3
<1>6. \A q \in SUBSET T : q # {} => value(q) = App(op, f[at(q)], it[q \ {at(q)}])
  <2> SUFFICES ASSUME NEW q \in SUBSET T, q # {}
               PROVE  value(q) = App(op, f[at(q)], it[q \ {at(q)}])
    OBVIOUS
  <2>1. at(q) \in q
    OBVIOUS
  <2>2. PICK u : u = q \ {at(q)}
    OBVIOUS
  <2>3. u \in SUBSET T /\ u # T
    BY <2>1, <2>2
  <2>4. it[u] = value(u) /\ value(u) = acc(u)[u]
    BY <2>3, <1>5
  <2>5. value(q) = App(op, f[at(q)], acc(u)[u])
    BY <2>2
  <2> HIDE DEF value, it, at, acc
  <2>6. QED
    BY <2>2, <2>4, <2>5
<1>7. it = [q \in SUBSET T |-> IF q = {} THEN base ELSE App(op, f[at(q)], it[q \ {at(q)}])]
  <2>1. \A q \in SUBSET T : value(q) = IF q = {} THEN base ELSE App(op, f[at(q)], it[q \ {at(q)}])
    <3>1. \A q \in SUBSET T : q = {} => value(q) = base
      OBVIOUS
    <3> HIDE DEF value, at, it
    <3>2. QED
      BY <1>6, <3>1
  <2> HIDE DEF value, at
  <2>2. QED
    <3>1. PICK h : h = it
      OBVIOUS
    <3>2. \A q \in SUBSET T : value(q) = IF q = {} THEN base ELSE App(op, f[at(q)], h[q \ {at(q)}])
      BY <2>1, <3>1
    <3>3. h = [q \in SUBSET T |-> value(q)]
      BY <3>1
    <3>4. h = [q \in SUBSET T |-> IF q = {} THEN base ELSE App(op, f[at(q)], h[q \ {at(q)}])]
      BY <3>2, <3>3
    <3>5. QED
      BY <3>1, <3>4
<1>8. Accumulates(op, base, f, T, it)
  BY <1>7 DEF Accumulates
<1>9. QED
  BY <1>2, <1>8

\* Induction over the numbers, and over the subsets of a finite set.
LEMMA NumberInduction ==
    ASSUME NEW B, 0 \in B, \A n \in Nat : n \in B => n + 1 \in B
    PROVE  Nat \subseteq B
<1> SUFFICES ASSUME Nat \ B # {} PROVE FALSE
  OBVIOUS
<1>1. PICK n \in Nat \ B : \A m \in Nat \ B : ~(m < n)
  <2>1. Nat \ B \subseteq Nat
    OBVIOUS
  <2>2. QED
    BY <2>1, LeastNumber
<1>2. n # 0 /\ n - 1 \in Nat /\ n - 1 < n /\ (n - 1) + 1 = n
  BY <1>1
<1>3. n - 1 \in B
  BY <1>1, <1>2
<1>4. QED
  BY <1>1, <1>2, <1>3

\* What holds of the subsets one element smaller carries over to every subset.
LEMMA SubsetInduction ==
    ASSUME NEW S, IsFiniteSet(S), NEW B, {} \in B,
           \A T \in SUBSET S : T # {} /\ (\A x \in T : T \ {x} \in B) => T \in B
    PROVE  SUBSET S \subseteq B
<1> SUFFICES ASSUME (SUBSET S) \ B # {} PROVE FALSE
  OBVIOUS
<1>1. PICK T \in (SUBSET S) \ B : \A U \in (SUBSET S) \ B : U \subseteq T => U = T
  <2>1. PICK C : C = (SUBSET S) \ B
    OBVIOUS
  <2>2. C \subseteq SUBSET S /\ C # {}
    BY <2>1
  <2>3. \E T \in C : \A U \in C : U \subseteq T => U = T
    BY <2>2, LeastSubset
  <2>4. QED
    BY <2>1, <2>3
<1>2. ASSUME NEW x \in T PROVE T \ {x} \in B
  BY <1>1
<1>3. QED
  BY <1>1, <1>2

\* An empty sum or product is what the accumulator starts with.
LEMMA OverEmpty ==
    ASSUME NEW op, NEW base, NEW f
    PROVE  Over(op, base, f, {}) = base
<1>1. Accumulates(op, base, f, {}, CHOOSE it : Accumulates(op, base, f, {}, it))
  BY FS_EmptySet, AccumulatesExists
<1>2. QED
  BY <1>1 DEF Accumulates, Over

\* Any accumulator of the loop ends with the sum or product over the set.
LEMMA OverIs ==
    ASSUME NEW op, NEW base, NEW f, NEW S, IsFiniteSet(S), NEW it,
           Accumulates(op, base, f, S, it), NEW T \in SUBSET S
    PROVE  it[T] = Over(op, base, f, T)
<1>1. IsFiniteSet(T)
  BY FS_Subset
<1>2. PICK h : h = CHOOSE g : Accumulates(op, base, f, T, g)
  OBVIOUS
<1>3. Accumulates(op, base, f, T, h)
  BY <1>1, <1>2, AccumulatesExists
<1>4. Agree(T, it, h)
  BY <1>3, AccumulatesOnce, Zenon
<1>5. it[T] = h[T]
  BY <1>4 DEF Agree
<1>6. QED
  BY <1>2, <1>5 DEF Over

\* The accumulators of a loop, for what is to be accumulated.
LEMMA OverAll ==
    ASSUME NEW op, NEW base, NEW f, NEW S, IsFiniteSet(S)
    PROVE  \E it : /\ Accumulates(op, base, f, S, it)
                   /\ \A T \in SUBSET S : it[T] = Over(op, base, f, T)
<1>1. PICK it : Accumulates(op, base, f, S, it)
  BY AccumulatesExists
<1>2. \A T \in SUBSET S : it[T] = Over(op, base, f, T)
  BY <1>1, OverIs
<1>3. QED
  BY <1>1, <1>2

\* The loop accumulates x on top of the others.
Takes(op, base, f, S, x) == Over(op, base, f, S) = App(op, f[x], Over(op, base, f, S \ {x}))

\* The loop takes the elements in some order.
LEMMA OverStep ==
    ASSUME NEW op, NEW base, NEW f, NEW S, IsFiniteSet(S), S # {}
    PROVE  \E x \in S : Takes(op, base, f, S, x)
<1>1. PICK it : /\ Accumulates(op, base, f, S, it)
                /\ \A T \in SUBSET S : it[T] = Over(op, base, f, T)
  BY OverAll
<1>2. PICK x : x = CHOOSE j \in S : TRUE
  OBVIOUS
<1>3. x \in S
  BY <1>2
<1>4. it[S] = App(op, f[x], it[S \ {x}])
  <2>1. it[S] = IF S = {} THEN base
                ELSE App(op, f[CHOOSE j \in S : TRUE], it[S \ {CHOOSE j \in S : TRUE}])
    BY <1>1 DEF Accumulates
  <2>2. QED
    BY <1>2, <2>1
<1>5. S \in SUBSET S /\ S \ {x} \in SUBSET S
  OBVIOUS
<1>6. it[S] = Over(op, base, f, S) /\ it[S \ {x}] = Over(op, base, f, S \ {x})
  BY <1>1, <1>5
<1>7. QED
  BY <1>3, <1>4, <1>6 DEF Takes

\* A sum or product of field elements is one.
LEMMA OverType ==
    ASSUME NEW op, NEW base, Commutes(op, base), NEW f, NEW S, IsFiniteSet(S),
           \A x \in S : f[x] \in Field
    PROVE  \A T \in SUBSET S : Over(op, base, f, T) \in Field
<1> DEFINE B == {T \in SUBSET S : Over(op, base, f, T) \in Field}
<1>1. {} \in B
  <2>1. Over(op, base, f, {}) = base /\ base \in Field /\ {} \in SUBSET S
    BY OverEmpty, Zenon DEF Commutes
  <2>2. QED
    BY <2>1
<1>2. ASSUME NEW T \in SUBSET S, T # {}, \A x \in T : T \ {x} \in B
      PROVE  T \in B
  <2>1. IsFiniteSet(T)
    BY FS_Subset
  <2>2. PICK x \in T : Takes(op, base, f, T, x)
    <3>1. T # {}
      BY <1>2
    <3>2. QED
      BY <2>1, <3>1, OverStep, Zenon
  <2>3. f[x] \in Field /\ Over(op, base, f, T \ {x}) \in Field
    BY <1>2
  <2>4. App(op, f[x], Over(op, base, f, T \ {x})) \in Field
    BY <2>3 DEF Commutes
  <2>5. QED
    BY <2>2, <2>4 DEF Takes
<1> HIDE DEF B
<1>3. SUBSET S \subseteq B
  BY <1>1, <1>2, SubsetInduction
<1>4. QED
  BY <1>3 DEF B

\* Any element may be the last one taken.
LEMMA OverTakes ==
    ASSUME NEW op, NEW base, Commutes(op, base), NEW f, NEW S, IsFiniteSet(S),
           \A x \in S : f[x] \in Field
    PROVE  \A T \in SUBSET S : \A x \in T : Takes(op, base, f, T, x)
<1> DEFINE B == {T \in SUBSET S : \A x \in T : Takes(op, base, f, T, x)}
<1>1. {} \in B
  OBVIOUS
<1>2. ASSUME NEW T \in SUBSET S, T # {}, \A x \in T : T \ {x} \in B
      PROVE  T \in B
  <2>1. IsFiniteSet(T)
    BY FS_Subset
  <2>2. PICK y \in T : Takes(op, base, f, T, y)
    <3>1. T # {}
      BY <1>2
    <3>2. QED
      BY <2>1, <3>1, OverStep, Zenon
  <2>3. ASSUME NEW x \in T, x # y PROVE Takes(op, base, f, T, x)
    <3>1. PICK U : U = (T \ {x}) \ {y}
      OBVIOUS
    <3>2. U = (T \ {y}) \ {x} /\ U \in SUBSET S /\ x \in T \ {y} /\ y \in T \ {x}
      BY <2>3, <3>1
    <3>3. Over(op, base, f, T \ {x}) = App(op, f[y], Over(op, base, f, U))
      <4>1. Takes(op, base, f, T \ {x}, y)
        BY <1>2, <3>2
      <4>2. QED
        BY <3>1, <4>1 DEF Takes
    <3>4. Over(op, base, f, T \ {y}) = App(op, f[x], Over(op, base, f, U))
      <4>1. Takes(op, base, f, T \ {y}, x)
        BY <1>2, <3>2
      <4>2. QED
        BY <3>2, <4>1 DEF Takes
    <3>5. PICK u : u = Over(op, base, f, U)
      OBVIOUS
    <3>6. u \in Field /\ f[x] \in Field /\ f[y] \in Field
      BY <3>2, <3>5, OverType, Zenon
    <3>7. App(op, f[y], App(op, f[x], u)) = App(op, f[x], App(op, f[y], u))
      <4>1. PICK a, b : a = f[x] /\ b = f[y]
        OBVIOUS
      <4>2. a \in Field /\ b \in Field
        BY <3>6, <4>1
      <4>3. \A k, l, m \in Field : Groups(op, k, l, m)
        BY DEF Commutes, Groups
      <4>4. Groups(op, b, a, u) /\ Groups(op, a, b, u)
        BY <3>6, <4>2, <4>3, Zenon
      <4>5. App(op, a, b) = App(op, b, a)
        BY <4>2 DEF Commutes
      <4>6. QED
        BY <4>1, <4>4, <4>5 DEF Groups
    <3>8. QED
      BY <2>2, <3>3, <3>4, <3>5, <3>7 DEF Takes
  <2>4. QED
    BY <2>2, <2>3
<1> HIDE DEF B
<1>3. SUBSET S \subseteq B
  BY <1>1, <1>2, SubsetInduction
<1>4. QED
  BY <1>3 DEF B

-------------------------------------------------------------------------------
(***************************************************************************)
(* Arithmetic modulo the prime                                             *)
(***************************************************************************)

\* A remainder and what it is the remainder of.
LEMMA ModIs ==
    ASSUME NEW x \in Int
    PROVE  /\ x % P \in Field
           /\ x \div P \in Int
           /\ x = (x \div P) * P + (x % P)
<1>1. P \in Nat /\ P > 0
  BY PrimeAssumption
<1>2. x % P \in 0..(P - 1)
  BY <1>1
<1>3. x \div P \in Int
  BY <1>1
<1>4. x = P * (x \div P) + (x % P)
  BY <1>1
<1>5. PICK q, r : q = x \div P /\ r = x % P
  OBVIOUS
<1>6. q \in Int /\ r \in Int /\ x = P * q + r
  BY <1>2, <1>3, <1>4, <1>5, <1>1
<1>7. x = q * P + r
  BY <1>1, <1>6
<1>8. QED
  BY <1>2, <1>3, <1>5, <1>7 DEF Field

\* No number has two remainders.
LEMMA ModUnique ==
    ASSUME NEW q \in Int, NEW r \in Field
    PROVE  (q * P + r) % P = r
<1>1. PICK x : x = q * P + r
  OBVIOUS
<1>2. P \in Nat /\ P > 1 /\ r \in Int /\ 0 <= r /\ r < P
  BY PrimeAssumption DEF Field
<1>3. PICK s, k : s = x % P /\ k = x \div P
  OBVIOUS
<1>4. x \in Int /\ s \in Int /\ 0 <= s /\ s < P /\ k \in Int /\ x = k * P + s
  <2>1. x \in Int
    BY <1>1, <1>2
  <2>2. s \in Field /\ k \in Int /\ x = k * P + s
    <3>1. /\ x % P \in Field /\ x \div P \in Int
          /\ x = (x \div P) * P + (x % P)
      BY <2>1, ModIs
    <3>2. QED
      BY <1>3, <3>1, Zenon
  <2>3. QED
    BY <1>2, <2>1, <2>2 DEF Field
<1>5. (k - q) * P = r - s
  BY <1>1, <1>2, <1>4
<1>6. PICK d \in Int : d = k - q
  BY <1>4
<1>7. d * P = r - s
  BY <1>5, <1>6
<1>8. d = 0
  <2>1. CASE d >= 1
    <3>1. d * P >= P
      BY <1>2, <2>1
    <3>2. QED
      BY <1>2, <1>4, <1>7, <3>1
  <2>2. CASE d <= -1
    <3>1. d * P <= -P
      BY <1>2, <2>2
    <3>2. QED
      BY <1>2, <1>4, <1>7, <3>1
  <2>3. QED
    BY <1>6, <2>1, <2>2
<1>9. r = s
  BY <1>2, <1>4, <1>7, <1>8
<1>10. QED
  BY <1>1, <1>3, <1>9

\* Numbers that differ by a multiple of P have the same remainder.
LEMMA ModSame ==
    ASSUME NEW x \in Int, NEW k \in Int
    PROVE  (x + k * P) % P = x % P
<1>1. PICK q, r : q = x \div P /\ r = x % P
  OBVIOUS
<1>2. q \in Int /\ r \in Field /\ x = q * P + r
  <2>1. /\ x % P \in Field /\ x \div P \in Int
        /\ x = (x \div P) * P + (x % P)
    BY ModIs
  <2>2. QED
    BY <1>1, <2>1, Zenon
<1>3. P \in Int /\ r \in Int
  BY <1>2, PrimeAssumption DEF Field
<1>4. x + k * P = (q + k) * P + r
  BY <1>2, <1>3
<1>5. q + k \in Int
  BY <1>2
<1>6. ((q + k) * P + r) % P = r
  BY <1>2, <1>5, ModUnique
<1>7. QED
  BY <1>1, <1>4, <1>6

\* A sum may be reduced before it is added to, and a product before it is multiplied.
LEMMA ModInside ==
    ASSUME NEW x \in Int, NEW c \in Int
    PROVE  /\ ((x % P) + c) % P = (x + c) % P
           /\ ((x % P) * c) % P = (x * c) % P
<1>1. PICK q, r : q = x \div P /\ r = x % P
  OBVIOUS
<1>2. q \in Int /\ r \in Field /\ x = q * P + r
  <2>1. /\ x % P \in Field /\ x \div P \in Int
        /\ x = (x \div P) * P + (x % P)
    BY ModIs
  <2>2. QED
    BY <1>1, <2>1, Zenon
<1>3. P \in Int /\ r \in Int
  BY <1>2, PrimeAssumption DEF Field
<1>4. (r + c) % P = (x + c) % P
  <2>1. x + c = (r + c) + q * P
    BY <1>2, <1>3
  <2>2. ((r + c) + q * P) % P = (r + c) % P
    <3>1. r + c \in Int /\ q \in Int
      BY <1>2, <1>3
    <3>2. QED
      BY <3>1, ModSame
  <2>3. QED
    BY <2>1, <2>2
<1>5. (r * c) % P = (x * c) % P
  <2>1. x * c = (r * c) + (q * c) * P
    BY <1>2, <1>3
  <2>2. q * c \in Int /\ r * c \in Int
    BY <1>2, <1>3
  <2>3. ((r * c) + (q * c) * P) % P = (r * c) % P
    BY <2>2, ModSame
  <2>4. QED
    BY <2>1, <2>3
<1>6. QED
  BY <1>1, <1>4, <1>5

\* The field is closed, and its numbers are their own remainders.
LEMMA FieldNumbers ==
    /\ 0 \in Field /\ 1 \in Field /\ P \in Nat /\ P > 1
    /\ \A a \in Field : a \in Nat /\ a < P /\ a % P = a
    /\ \A a, b \in Int : Times(a, b) \in Field /\ Plus(a, b) \in Field
<1>1. P \in Nat /\ P > 1 /\ 0 \in Field /\ 1 \in Field
  BY PrimeAssumption DEF Field
<1>2. ASSUME NEW a \in Field PROVE a \in Nat /\ a < P /\ a % P = a
  BY <1>1 DEF Field
<1>3. ASSUME NEW a \in Int, NEW b \in Int PROVE Times(a, b) \in Field /\ Plus(a, b) \in Field
  <2>1. a * b \in Int /\ a + b \in Int
    OBVIOUS
  <2>2. QED
    BY <2>1, ModIs DEF Times, Plus
<1>4. QED
  BY <1>1, <1>2, <1>3

\* What reconstruct adds up may be added in any order, and the same of what it multiplies.
LEMMA FieldPlus ==
    /\ \A a \in Field : Plus(a, 0) = a /\ Plus(0, a) = a
    /\ \A a, b \in Field : Plus(a, b) \in Field
    /\ \A a, b \in Field : Plus(a, b) = Plus(b, a)
    /\ \A a, b, c \in Field : Plus(a, Plus(b, c)) = Plus(Plus(a, b), c)
<1>1. ASSUME NEW a \in Field PROVE Plus(a, 0) = a /\ Plus(0, a) = a
  <2>1. a \in Nat /\ a % P = a
    BY FieldNumbers, Zenon
  <2>2. a + 0 = a /\ 0 + a = a
    BY <2>1
  <2>3. QED
    BY <2>1, <2>2 DEF Plus
<1>2. ASSUME NEW a \in Field, NEW b \in Field
      PROVE  Plus(a, b) \in Field /\ Plus(a, b) = Plus(b, a)
  <2>1. a \in Nat /\ b \in Nat
    BY FieldNumbers, Zenon
  <2>2. a + b = b + a /\ a \in Int /\ b \in Int
    BY <2>1
  <2>3. Plus(a, b) = Plus(b, a)
    BY <2>2 DEF Plus
  <2>4. Plus(a, b) \in Field
    BY <2>2, FieldNumbers, Zenon
  <2>5. QED
    BY <2>3, <2>4
<1>3. ASSUME NEW a \in Field, NEW b \in Field, NEW c \in Field
      PROVE  Plus(a, Plus(b, c)) = Plus(Plus(a, b), c)
  <2>1. a \in Int /\ b \in Int /\ c \in Int
    BY FieldNumbers
  <2>2. (((b + c) % P) + a) % P = ((b + c) + a) % P
    BY <2>1, ModInside
  <2>3. (((a + b) % P) + c) % P = ((a + b) + c) % P
    BY <2>1, ModInside
  <2>4. (b + c) % P \in Int /\ (a + b) % P \in Int
    BY <2>1, FieldNumbers DEF Plus
  <2>5. Plus(a, Plus(b, c)) = ((b + c) + a) % P
    BY <2>1, <2>2, <2>4 DEF Plus
  <2>6. Plus(Plus(a, b), c) = ((a + b) + c) % P
    BY <2>3 DEF Plus
  <2>7. QED
    BY <2>1, <2>5, <2>6
<1>4. QED
  BY <1>1, <1>2, <1>3

\* What reconstruct and evaluate multiply may be multiplied in any order, and distributes.
LEMMA FieldTimes ==
    /\ \A a \in Field : Times(a, 1) = a /\ Times(1, a) = a /\ Times(a, 0) = 0 /\ Times(0, a) = 0
    /\ \A a, b \in Field : Times(a, b) \in Field
    /\ \A a, b \in Field : Times(a, b) = Times(b, a)
    /\ \A a, b, c \in Field : Times(a, Times(b, c)) = Times(Times(a, b), c)
    /\ \A a, b, c \in Field : Times(a, Plus(b, c)) = Plus(Times(a, b), Times(a, c))
<1>1. ASSUME NEW a \in Field
      PROVE  Times(a, 1) = a /\ Times(1, a) = a /\ Times(a, 0) = 0 /\ Times(0, a) = 0
  <2>1. a \in Nat /\ a % P = a /\ 0 % P = 0
    BY FieldNumbers
  <2>2. a * 1 = a /\ 1 * a = a /\ a * 0 = 0 /\ 0 * a = 0
    BY <2>1
  <2>3. QED
    BY <2>1, <2>2 DEF Times
<1>2. ASSUME NEW a \in Field, NEW b \in Field
      PROVE  Times(a, b) \in Field /\ Times(a, b) = Times(b, a)
  <2>1. a \in Nat /\ b \in Nat
    BY FieldNumbers
  <2>2. a * b = b * a
    BY <2>1
  <2>3. QED
    BY <2>1, <2>2, FieldNumbers DEF Times
<1>3. ASSUME NEW a \in Field, NEW b \in Field, NEW c \in Field
      PROVE  Times(a, Times(b, c)) = Times(Times(a, b), c)
  <2>1. a \in Int /\ b \in Int /\ c \in Int /\ b * c \in Int /\ a * b \in Int
    <3>1. a \in Nat /\ b \in Nat /\ c \in Nat
      BY FieldNumbers, Zenon
    <3>2. QED
      BY <3>1
  <2>2. (((b * c) % P) * a) % P = ((b * c) * a) % P
    BY <2>1, ModInside
  <2>3. (((a * b) % P) * c) % P = ((a * b) * c) % P
    BY <2>1, ModInside
  <2>4. (b * c) % P \in Int /\ (a * b) % P \in Int
    BY <2>1, FieldNumbers DEF Times
  <2>5. ((b * c) % P) * a = a * ((b * c) % P)
    BY <2>1, <2>4
  <2>6. (b * c) * a = (a * b) * c
    BY <2>1
  <2>7. QED
    BY <2>2, <2>3, <2>5, <2>6 DEF Times
<1>4. ASSUME NEW a \in Field, NEW b \in Field, NEW c \in Field
      PROVE  Times(a, Plus(b, c)) = Plus(Times(a, b), Times(a, c))
  <2>1. /\ a \in Int /\ b \in Int /\ c \in Int /\ b + c \in Int
        /\ a * b \in Int /\ a * c \in Int
    <3>1. a \in Nat /\ b \in Nat /\ c \in Nat
      BY FieldNumbers, Zenon
    <3>2. QED
      BY <3>1
  <2>2. PICK s, u, v : s = (b + c) % P /\ u = (a * b) % P /\ v = (a * c) % P
    OBVIOUS
  <2>3. s \in Int /\ u \in Int /\ v \in Int
    BY <2>1, <2>2, FieldNumbers DEF Times, Plus
  <2>4. (s * a) % P = ((b + c) * a) % P
    BY <2>1, <2>2, ModInside
  <2>5. (u + v) % P = ((a * b) + v) % P
    BY <2>1, <2>2, <2>3, ModInside
  <2>6. (v + a * b) % P = ((a * c) + a * b) % P
    BY <2>1, <2>2, <2>3, ModInside
  <2>7. s * a = a * s /\ (a * b) + v = v + a * b /\ (b + c) * a = (a * c) + a * b
    BY <2>1, <2>3
  <2>8. (a * s) % P = (u + v) % P
    BY <2>4, <2>5, <2>6, <2>7
  <2>9. QED
    BY <2>2, <2>8 DEF Times, Plus
<1>5. QED
  BY <1>1, <1>2, <1>3, <1>4

-------------------------------------------------------------------------------
(***************************************************************************)
(* More about sums and products over a set                                 *)
(***************************************************************************)

\* An element may be taken out of a set before it is accumulated.
LEMMA OverTake ==
    ASSUME NEW op, NEW base, Commutes(op, base), NEW f, NEW S, IsFiniteSet(S),
           \A x \in S : f[x] \in Field, NEW x \in S
    PROVE  Takes(op, base, f, S, x)
<1>1. \A T \in SUBSET S : \A y \in T : Takes(op, base, f, T, y)
  BY OverTakes
<1>2. QED
  BY <1>1

\* A loop over field elements ends in the field.
LEMMA OverIn ==
    ASSUME NEW op, NEW base, Commutes(op, base), NEW f, NEW S, IsFiniteSet(S),
           \A x \in S : f[x] \in Field
    PROVE  Over(op, base, f, S) \in Field
<1>1. \A T \in SUBSET S : Over(op, base, f, T) \in Field
  BY OverType
<1>2. QED
  BY <1>1

\* Equal elements have equal sums.
LEMMA OverSame ==
    ASSUME NEW op, NEW base, Commutes(op, base), NEW f, NEW g, NEW S, IsFiniteSet(S),
           \A x \in S : f[x] \in Field, \A x \in S : f[x] = g[x]
    PROVE  Over(op, base, f, S) = Over(op, base, g, S)
<1> DEFINE B == {T \in SUBSET S : Over(op, base, f, T) = Over(op, base, g, T)}
<1>1. {} \in B
  BY OverEmpty
<1>2. ASSUME NEW T \in SUBSET S, T # {}, \A x \in T : T \ {x} \in B
      PROVE  T \in B
  <2>1. IsFiniteSet(T) /\ (\A x \in T : f[x] \in Field) /\ (\A x \in T : g[x] \in Field)
    BY FS_Subset
  <2>2. PICK x \in T : TRUE
    BY <1>2
  <2>3. Takes(op, base, f, T, x) /\ Takes(op, base, g, T, x)
    BY <2>1, OverTake
  <2>4. Over(op, base, f, T \ {x}) = Over(op, base, g, T \ {x})
    BY <1>2
  <2>5. QED
    BY <2>3, <2>4 DEF Takes
<1> HIDE DEF B
<1>3. SUBSET S \subseteq B
  BY <1>1, <1>2, SubsetInduction
<1>4. QED
  BY <1>3 DEF B

\* Four operands may be paired differently.
LEMMA FourSwap ==
    ASSUME NEW op, NEW base, Commutes(op, base),
           NEW a \in Field, NEW b \in Field, NEW u \in Field, NEW v \in Field
    PROVE  App(op, App(op, a, b), App(op, u, v)) = App(op, App(op, a, u), App(op, b, v))
<1>1. \A x, y, z \in Field : Groups(op, x, y, z)
  BY DEF Commutes, Groups
<1>2. \A x, y \in Field : App(op, x, y) = App(op, y, x) /\ App(op, x, y) \in Field
  BY DEF Commutes
<1>3. PICK p, q : p = App(op, u, v) /\ q = App(op, b, v)
  OBVIOUS
<1>4. p \in Field /\ q \in Field
  BY <1>2, <1>3
<1>5. Groups(op, a, b, p) /\ Groups(op, a, u, q)
  BY <1>1, <1>4, Zenon
<1>6. Groups(op, b, u, v) /\ Groups(op, u, b, v)
  BY <1>1, Zenon
<1>7. App(op, b, u) = App(op, u, b)
  BY <1>2, Zenon
<1>8. App(op, b, p) = App(op, u, q)
  BY <1>3, <1>6, <1>7 DEF Groups
<1>9. QED
  BY <1>3, <1>5, <1>8 DEF Groups

\* Two sums over the same set are added element by element.
LEMMA OverBoth ==
    ASSUME NEW op, NEW base, Commutes(op, base), NEW f, NEW g, NEW h, NEW S, IsFiniteSet(S),
           \A x \in S : f[x] \in Field, \A x \in S : g[x] \in Field,
           \A x \in S : h[x] = App(op, f[x], g[x])
    PROVE  Over(op, base, h, S) = App(op, Over(op, base, f, S), Over(op, base, g, S))
<1> DEFINE B == {T \in SUBSET S :
                   Over(op, base, h, T) = App(op, Over(op, base, f, T), Over(op, base, g, T))}
<1>1. {} \in B
  <2>1. App(op, base, base) = base
    BY DEF Commutes
  <2>2. /\ Over(op, base, f, {}) = base /\ Over(op, base, g, {}) = base
        /\ Over(op, base, h, {}) = base
    BY OverEmpty
  <2>3. QED
    BY <2>1, <2>2
<1>2. ASSUME NEW T \in SUBSET S, T # {}, \A x \in T : T \ {x} \in B
      PROVE  T \in B
  <2>0. \A a \in Field : \A b \in Field : App(op, a, b) \in Field
    BY DEF Commutes
  <2>1. /\ IsFiniteSet(T) /\ (\A x \in T : f[x] \in Field) /\ (\A x \in T : g[x] \in Field)
        /\ (\A x \in T : h[x] \in Field)
    BY <2>0, FS_Subset
  <2>2. PICK x \in T : TRUE
    BY <1>2
  <2>3. Takes(op, base, f, T, x) /\ Takes(op, base, g, T, x) /\ Takes(op, base, h, T, x)
    BY <2>1, OverTake
  <2>4. PICK a, b, u, v : /\ a = f[x] /\ u = Over(op, base, f, T \ {x})
                          /\ b = g[x] /\ v = Over(op, base, g, T \ {x})
    OBVIOUS
  <2>5. Over(op, base, h, T \ {x}) = App(op, u, v) /\ h[x] = App(op, a, b)
    BY <1>2, <2>4
  <2>6. /\ Over(op, base, f, T) = App(op, a, u)
        /\ Over(op, base, g, T) = App(op, b, v)
        /\ Over(op, base, h, T) = App(op, App(op, a, b), App(op, u, v))
    BY <2>3, <2>4, <2>5 DEF Takes
  <2>7. a \in Field /\ b \in Field
    BY <2>1, <2>4
  <2>8. u \in Field /\ v \in Field
    <3>1. PICK U : U = T \ {x}
      OBVIOUS
    <3>2. U \in SUBSET S
      BY <3>1
    <3>3. Over(op, base, f, U) \in Field /\ Over(op, base, g, U) \in Field
      BY <3>2, OverType, Zenon
    <3>4. QED
      BY <2>4, <3>1, <3>3
  <2>9. App(op, App(op, a, b), App(op, u, v)) = App(op, App(op, a, u), App(op, b, v))
    <3>1. \A p, q, r, s \in Field :
             App(op, App(op, p, q), App(op, r, s)) = App(op, App(op, p, r), App(op, q, s))
      BY FourSwap, Zenon
    <3>2. QED
      BY <2>7, <2>8, <3>1
  <2>10. QED
    BY <2>6, <2>9
<1> HIDE DEF B
<1>3. SUBSET S \subseteq B
  BY <1>1, <1>2, SubsetInduction
<1>4. S \in B
  BY <1>3
<1>5. QED
  BY <1>4 DEF B

\* The elements may be named differently.
LEMMA OverNamed ==
    ASSUME NEW op, NEW base, Commutes(op, base), NEW S, IsFiniteSet(S), NEW name, NEW f, NEW g,
           \A x, y \in S : name[x] = name[y] => x = y,
           \A x \in S : g[x] = f[name[x]] /\ f[name[x]] \in Field
    PROVE  Over(op, base, g, S) = Over(op, base, f, {name[x] : x \in S})
<1> DEFINE image(T) == {name[x] : x \in T}
           B == {T \in SUBSET S : /\ IsFiniteSet(image(T))
                                  /\ Over(op, base, g, T) = Over(op, base, f, image(T))}
<1>1. {} \in B
  <2>1. image({}) = {}
    OBVIOUS
  <2>2. Over(op, base, f, {}) = base /\ Over(op, base, g, {}) = base
    BY OverEmpty
  <2> HIDE DEF image
  <2>3. QED
    BY <2>1, <2>2, FS_EmptySet
<1>2. ASSUME NEW T \in SUBSET S, T # {}, \A x \in T : T \ {x} \in B
      PROVE  T \in B
  <2>1. IsFiniteSet(T) /\ (\A x \in T : g[x] \in Field)
    BY FS_Subset
  <2>2. PICK x \in T : TRUE
    BY <1>2
  <2>3. PICK U, V : U = image(T) /\ V = image(T \ {x})
    OBVIOUS
  <2>4. V = U \ {name[x]} /\ U = V \cup {name[x]} /\ name[x] \in U
        /\ (\A y \in U : f[y] \in Field)
    BY <2>3
  <2>5. IsFiniteSet(V) /\ Over(op, base, g, T \ {x}) = Over(op, base, f, V)
    BY <1>2, <2>3
  <2>6. IsFiniteSet(U)
    <3>1. PICK z : z = name[x]
      OBVIOUS
    <3>2. IsFiniteSet(V \cup {z})
      BY <2>5, FS_AddElement
    <3>3. QED
      BY <2>4, <3>1, <3>2
  <2>7. Takes(op, base, g, T, x)
    BY <2>1, OverTake
  <2>8. PICK z : z = name[x]
    OBVIOUS
  <2>9. Takes(op, base, f, U, z)
    BY <2>4, <2>6, <2>8, OverTake
  <2>10. g[x] = f[z]
    BY <2>8
  <2>11. Over(op, base, g, T) = Over(op, base, f, U)
    BY <2>4, <2>5, <2>7, <2>8, <2>9, <2>10 DEF Takes
  <2>12. QED
    BY <2>3, <2>6, <2>11
<1> HIDE DEF B
<1>3. SUBSET S \subseteq B
  BY <1>1, <1>2, SubsetInduction
<1>4. S \in B
  BY <1>3
<1>5. QED
  BY <1>4 DEF B

-------------------------------------------------------------------------------
(***************************************************************************)
(* Sums and products in the field                                          *)
(***************************************************************************)

PlusOp == [p \in Int \X Int |-> Plus(p[1], p[2])]
TimesOp == [p \in Int \X Int |-> Times(p[1], p[2])]

SumOver(f, S) == Over(PlusOp, 0, f, S)
ProductOver(f, S) == Over(TimesOp, 1, f, S)

\* The field is made of integers.
LEMMA FieldInts == \A a \in Field : a \in Int
  BY FieldNumbers

\* The operations of the loops of reconstruct.
LEMMA AppIs ==
    \A a, b \in Int : App(PlusOp, a, b) = Plus(a, b) /\ App(TimesOp, a, b) = Times(a, b)
<1>1. ASSUME NEW a \in Int, NEW b \in Int
      PROVE  App(PlusOp, a, b) = Plus(a, b) /\ App(TimesOp, a, b) = Times(a, b)
  <2>1. PICK p : p = <<a, b>>
    OBVIOUS
  <2>2. p \in Int \X Int /\ p[1] = a /\ p[2] = b
    BY <2>1
  <2>3. PlusOp[p] = Plus(p[1], p[2])
    BY <2>2 DEF PlusOp
  <2>4. TimesOp[p] = Times(p[1], p[2])
    BY <2>2 DEF TimesOp
  <2>5. PlusOp[p] = Plus(a, b) /\ TimesOp[p] = Times(a, b)
    BY <2>2, <2>3, <2>4
  <2>6. PlusOp[a, b] = PlusOp[p] /\ TimesOp[a, b] = TimesOp[p]
    BY <2>1
  <2>7. QED
    BY <2>5, <2>6 DEF App
<1>2. QED
  BY <1>1

\* Both may be done in any order.
LEMMA FieldCommutes == Commutes(PlusOp, 0) /\ Commutes(TimesOp, 1)
<1>1. \A a \in Field : a \in Int
  BY FieldNumbers
<1>2. 0 \in Field /\ 1 \in Field
  BY FieldNumbers
<1>3. \A a, b \in Field : App(PlusOp, a, b) = Plus(a, b) /\ App(TimesOp, a, b) = Times(a, b)
  BY <1>1, AppIs
<1>4. Commutes(PlusOp, 0)
  <2>1. \A a, b \in Field : App(PlusOp, a, b) = Plus(a, b) /\ Plus(a, b) \in Field
    BY <1>3, FieldPlus
  <2>2. 0 \in Field /\ \A a \in Field : App(PlusOp, a, 0) = a
    BY <1>2, <2>1, FieldPlus
  <2>3. \A a, b \in Field : App(PlusOp, a, b) = App(PlusOp, b, a)
    BY <2>1, FieldPlus
  <2>4. \A a, b, c \in Field : App(PlusOp, a, App(PlusOp, b, c)) = App(PlusOp, App(PlusOp, a, b), c)
    BY <2>1, FieldPlus
  <2>5. \A a, b \in Field : App(PlusOp, a, b) \in Field
    BY <2>1
  <2>6. QED
    BY <2>2, <2>3, <2>4, <2>5 DEF Commutes
<1>5. Commutes(TimesOp, 1)
  <2>1. \A a, b \in Field : App(TimesOp, a, b) = Times(a, b) /\ Times(a, b) \in Field
    BY <1>3, FieldTimes
  <2>2. 1 \in Field /\ \A a \in Field : App(TimesOp, a, 1) = a
    BY <1>2, <2>1, FieldTimes
  <2>3. \A a, b \in Field : App(TimesOp, a, b) = App(TimesOp, b, a)
    BY <2>1, FieldTimes
  <2>4. \A a, b, c \in Field : App(TimesOp, a, App(TimesOp, b, c)) = App(TimesOp, App(TimesOp, a, b), c)
    BY <2>1, FieldTimes
  <2>5. \A a, b \in Field : App(TimesOp, a, b) \in Field
    BY <2>1
  <2>6. QED
    BY <2>2, <2>3, <2>4, <2>5 DEF Commutes
<1>6. QED
  BY <1>4, <1>5

\* With no shares, the loop of reconstruct adds up nothing.
LEMMA SumEmpty == ASSUME NEW f PROVE SumOver(f, {}) = 0
  BY OverEmpty DEF SumOver

\* The sum that reconstruct returns is in the field.
LEMMA SumIn ==
    ASSUME NEW f, NEW S, IsFiniteSet(S), \A x \in S : f[x] \in Field
    PROVE  SumOver(f, S) \in Field
  BY FieldCommutes, OverIn DEF SumOver

\* Any share may be the last that reconstruct adds.
LEMMA SumTake ==
    ASSUME NEW f, NEW S, IsFiniteSet(S), \A x \in S : f[x] \in Field, NEW x \in S
    PROVE  SumOver(f, S) = Plus(f[x], SumOver(f, S \ {x}))
<1>1. Takes(PlusOp, 0, f, S, x)
  BY FieldCommutes, OverTake
<1>2. PICK T : T = S \ {x}
  OBVIOUS
<1>3. IsFiniteSet(T) /\ \A y \in T : f[y] \in Field
  BY <1>2, FS_Subset
<1>4. SumOver(f, T) \in Int /\ f[x] \in Int
  BY <1>3, SumIn, FieldInts
<1>5. App(PlusOp, f[x], SumOver(f, T)) = Plus(f[x], SumOver(f, T))
  BY <1>4, AppIs
<1>6. QED
  BY <1>1, <1>2, <1>5 DEF Takes, SumOver

\* Equal terms have equal sums, however reconstruct came by them.
LEMMA SumSame ==
    ASSUME NEW f, NEW g, NEW S, IsFiniteSet(S),
           \A x \in S : f[x] \in Field, \A x \in S : f[x] = g[x]
    PROVE  SumOver(f, S) = SumOver(g, S)
  BY FieldCommutes, OverSame DEF SumOver

\* Sums over the same shares are added share by share.
LEMMA SumBoth ==
    ASSUME NEW f, NEW g, NEW h, NEW S, IsFiniteSet(S),
           \A x \in S : f[x] \in Field, \A x \in S : g[x] \in Field,
           \A x \in S : h[x] = Plus(f[x], g[x])
    PROVE  SumOver(h, S) = Plus(SumOver(f, S), SumOver(g, S))
<1>1. \A x \in S : h[x] = App(PlusOp, f[x], g[x])
  BY AppIs, FieldInts
<1>2. SumOver(h, S) = App(PlusOp, SumOver(f, S), SumOver(g, S))
  BY <1>1, FieldCommutes, OverBoth DEF SumOver
<1>3. SumOver(f, S) \in Int /\ SumOver(g, S) \in Int
  BY SumIn, FieldInts
<1>4. QED
  BY <1>2, <1>3, AppIs

\* With no other shares, the loops of reconstruct stay at 1.
LEMMA ProductEmpty == ASSUME NEW f PROVE ProductOver(f, {}) = 1
  BY OverEmpty DEF ProductOver

\* The products that reconstruct forms are in the field.
LEMMA ProductIn ==
    ASSUME NEW f, NEW S, IsFiniteSet(S), \A x \in S : f[x] \in Field
    PROVE  ProductOver(f, S) \in Field
  BY FieldCommutes, OverIn DEF ProductOver

\* Any share may be the last that reconstruct multiplies.
LEMMA ProductTake ==
    ASSUME NEW f, NEW S, IsFiniteSet(S), \A x \in S : f[x] \in Field, NEW x \in S
    PROVE  ProductOver(f, S) = Times(f[x], ProductOver(f, S \ {x}))
<1>1. Takes(TimesOp, 1, f, S, x)
  BY FieldCommutes, OverTake
<1>2. PICK T : T = S \ {x}
  OBVIOUS
<1>3. IsFiniteSet(T) /\ \A y \in T : f[y] \in Field
  BY <1>2, FS_Subset
<1>4. ProductOver(f, T) \in Int /\ f[x] \in Int
  BY <1>3, ProductIn, FieldInts
<1>5. App(TimesOp, f[x], ProductOver(f, T)) = Times(f[x], ProductOver(f, T))
  BY <1>4, AppIs
<1>6. QED
  BY <1>1, <1>2, <1>5 DEF Takes, ProductOver

\* Equal factors have equal products.
LEMMA ProductSame ==
    ASSUME NEW f, NEW g, NEW S, IsFiniteSet(S),
           \A x \in S : f[x] \in Field, \A x \in S : f[x] = g[x]
    PROVE  ProductOver(f, S) = ProductOver(g, S)
  BY FieldCommutes, OverSame DEF ProductOver

\* Products over the same shares are multiplied share by share.
LEMMA ProductBoth ==
    ASSUME NEW f, NEW g, NEW h, NEW S, IsFiniteSet(S),
           \A x \in S : f[x] \in Field, \A x \in S : g[x] \in Field,
           \A x \in S : h[x] = Times(f[x], g[x])
    PROVE  ProductOver(h, S) = Times(ProductOver(f, S), ProductOver(g, S))
<1>1. \A x \in S : h[x] = App(TimesOp, f[x], g[x])
  BY AppIs, FieldInts
<1>2. ProductOver(h, S) = App(TimesOp, ProductOver(f, S), ProductOver(g, S))
  BY <1>1, FieldCommutes, OverBoth DEF ProductOver
<1>3. ProductOver(f, S) \in Int /\ ProductOver(g, S) \in Int
  BY ProductIn, FieldInts
<1>4. QED
  BY <1>2, <1>3, AppIs

\* A product over positions is the product over what is found there.
LEMMA ProductNamed ==
    ASSUME NEW S, IsFiniteSet(S), NEW name, NEW f, NEW g,
           \A x, y \in S : name[x] = name[y] => x = y,
           \A x \in S : g[x] = f[name[x]] /\ f[name[x]] \in Field
    PROVE  ProductOver(g, S) = ProductOver(f, {name[x] : x \in S})
  BY FieldCommutes, OverNamed DEF ProductOver

\* A sum is scaled element by element.
LEMMA SumScaled ==
    ASSUME NEW c \in Field, NEW f, NEW g, NEW S, IsFiniteSet(S),
           \A x \in S : f[x] \in Field, \A x \in S : g[x] = Times(c, f[x])
    PROVE  SumOver(g, S) = Times(c, SumOver(f, S))
<1> DEFINE B == {T \in SUBSET S : SumOver(g, T) = Times(c, SumOver(f, T))}
<1>1. {} \in B
  <2>1. SumOver(f, {}) = 0 /\ SumOver(g, {}) = 0 /\ Times(c, 0) = 0
    BY SumEmpty, FieldTimes
  <2>2. QED
    BY <2>1
<1>2. ASSUME NEW T \in SUBSET S, T # {}, \A x \in T : T \ {x} \in B
      PROVE  T \in B
  <2>1. /\ IsFiniteSet(T) /\ (\A x \in T : f[x] \in Field)
        /\ (\A x \in T : g[x] \in Field)
    <3>1. IsFiniteSet(T)
      BY FS_Subset
    <3>2. \A y \in Field : Times(c, y) \in Field
      BY FieldTimes
    <3>3. QED
      BY <3>1, <3>2
  <2>2. PICK x \in T : TRUE
    BY <1>2
  <2>3. PICK a, u : a = f[x] /\ u = SumOver(f, T \ {x})
    OBVIOUS
  <2>4. a \in Field /\ u \in Field
    <3>1. PICK U : U = T \ {x}
      OBVIOUS
    <3>2. IsFiniteSet(U) /\ \A y \in U : f[y] \in Field
      BY <2>1, <3>1, FS_Subset
    <3>3. QED
      BY <2>1, <2>3, <3>1, <3>2, SumIn
  <2>5. SumOver(f, T) = Plus(a, u)
    BY <2>1, <2>3, SumTake
  <2>6. SumOver(g, T) = Plus(g[x], SumOver(g, T \ {x}))
    BY <2>1, SumTake
  <2>7. SumOver(g, T \ {x}) = Times(c, u) /\ g[x] = Times(c, a)
    BY <1>2, <2>3
  <2>8. Times(c, Plus(a, u)) = Plus(Times(c, a), Times(c, u))
    BY <2>4, FieldTimes
  <2>9. QED
    BY <2>5, <2>6, <2>7, <2>8
<1> HIDE DEF B
<1>3. SUBSET S \subseteq B
  BY <1>1, <1>2, SubsetInduction
<1>4. S \in B
  BY <1>3
<1>5. QED
  BY <1>4 DEF B

\* What reconstruct writes for a - b (denominator), and for -b (numerator).
Minus(a, b) == (a + P - b) % P
Negated(b) == (P - b) % P

\* The code's differences are differences in the field (reconstruct, shamir.rs:131-134).
LEMMA FieldMinus ==
    /\ \A a, b \in Field : Minus(a, b) \in Field
    /\ \A b \in Field : Negated(b) \in Field /\ Negated(b) = Minus(0, b)
    /\ \A a, b \in Field : Plus(Minus(a, b), b) = a
    /\ \A a, b \in Field : Minus(a, b) = 0 => a = b
    /\ \A a \in Field : Minus(a, a) = 0
    /\ \A a, b, c \in Field : Plus(a, c) = Plus(b, c) => a = b
<1>1. ASSUME NEW a \in Field, NEW b \in Field
      PROVE  Minus(a, b) \in Field /\ Plus(Minus(a, b), b) = a
  <2>1. a \in Int /\ b \in Int /\ P \in Int /\ a % P = a
    BY FieldNumbers
  <2>2. a + P - b \in Int
    BY <2>1
  <2>3. (((a + P - b) % P) + b) % P = ((a + P - b) + b) % P
    BY <2>1, <2>2, ModInside
  <2>4. (a + P - b) + b = a + 1 * P
    BY <2>1
  <2>5. (a + 1 * P) % P = a % P
    BY <2>1, ModSame
  <2>6. (a + P - b) % P \in Field
    BY <2>2, ModIs
  <2>7. QED
    BY <2>1, <2>3, <2>4, <2>5, <2>6 DEF Minus, Plus
<1>2. ASSUME NEW b \in Field PROVE Negated(b) \in Field /\ Negated(b) = Minus(0, b)
  <2>1. b \in Int /\ P \in Int /\ 0 \in Field
    BY FieldNumbers
  <2>2. P - b = 0 + P - b
    BY <2>1
  <2>3. QED
    BY <1>1, <2>1, <2>2 DEF Minus, Negated
<1>3. ASSUME NEW a \in Field PROVE Minus(a, a) = 0
  <2>1. a \in Int /\ P \in Int /\ 0 \in Field
    BY FieldNumbers
  <2>2. a + P - a = 1 * P + 0
    BY <2>1
  <2>3. (1 * P + 0) % P = 0
    <3>1. 1 \in Int
      OBVIOUS
    <3>2. QED
      BY <2>1, <3>1, ModUnique, Zenon
  <2>4. QED
    BY <2>2, <2>3 DEF Minus
<1>4. ASSUME NEW a \in Field, NEW b \in Field, NEW c \in Field, Plus(a, c) = Plus(b, c)
      PROVE  a = b
  <2>1. Minus(0, c) \in Field /\ Plus(Minus(0, c), c) = 0
    BY <1>1, FieldNumbers
  <2>2. PICK d \in Field : Plus(c, d) = 0
    BY <2>1, FieldPlus
  <2>3. Plus(a, Plus(c, d)) = Plus(Plus(a, c), d) /\ Plus(b, Plus(c, d)) = Plus(Plus(b, c), d)
    BY FieldPlus
  <2>4. QED
    BY <1>4, <2>2, <2>3, FieldPlus
<1>5. ASSUME NEW a \in Field, NEW b \in Field, Minus(a, b) = 0 PROVE a = b
  BY <1>1, <1>5, FieldPlus
<1>6. QED
  BY <1>1, <1>2, <1>3, <1>4, <1>5

\* A product of numbers of the field is zero only if one of them is: P is prime.
LEMMA NoZeroDivisors ==
    ASSUME NEW a \in Field, NEW b \in Field, Times(a, b) = 0, b # 0
    PROVE  a = 0
<1> DEFINE Bad == {d \in 1..(P - 1) : (d * b) % P = 0}
<1> SUFFICES ASSUME a # 0 PROVE FALSE
  OBVIOUS
<1>1. P \in Nat /\ P > 1 /\ a \in Nat /\ b \in Nat /\ b < P /\ b % P = b /\ a < P
  BY FieldNumbers
<1>2. a \in Bad
  BY <1>1 DEF Times
<1>3. PICK d \in Bad : \A m \in Bad : ~(m < d)
  <2>1. Bad \subseteq Nat /\ Bad # {}
    BY <1>2
  <2> HIDE DEF Bad
  <2>2. QED
    BY <2>1, LeastNumber
<1>4. d \in Nat /\ d >= 1 /\ d < P /\ (d * b) % P = 0
  BY <1>1, <1>3
<1>5. d # 1
  BY <1>1, <1>4
<1>6. P % d # 0
  <2>1. d \in 2..(P - 1)
    BY <1>1, <1>4, <1>5
  <2>2. \A n \in 2..(P - 1) : P % n # 0
    BY PrimeAssumption
  <2>3. QED
    BY <2>1, <2>2
<1>7. PICK q, r : q = P \div d /\ r = P % d
  OBVIOUS
<1>8. q \in Int /\ r \in Int /\ 0 <= r /\ r < d /\ P = d * q + r
  BY <1>1, <1>4, <1>7
<1>9. r \in 1..(P - 1) /\ r < d
  BY <1>1, <1>4, <1>6, <1>7, <1>8
<1>10. PICK k \in Int : d * b = k * P
  <2>1. d * b \in Int
    BY <1>1, <1>4
  <2>2. /\ (d * b) \div P \in Int
        /\ d * b = ((d * b) \div P) * P + ((d * b) % P)
    BY <2>1, ModIs
  <2>3. d * b = ((d * b) \div P) * P
    <3>1. PICK s : s = (d * b) \div P
      OBVIOUS
    <3>2. s * P + 0 = s * P
      BY <1>1, <2>2, <3>1
    <3>3. QED
      BY <1>4, <2>2, <3>1, <3>2
  <2>4. QED
    BY <2>2, <2>3
<1>11. r * b = (b - q * k) * P + 0
  <2>1. r = P - d * q
    BY <1>1, <1>4, <1>8
  <2>2. r * b = P * b - q * (d * b)
    BY <1>1, <1>4, <1>8, <2>1
  <2>3. q * (d * b) = (q * k) * P
    BY <1>1, <1>4, <1>8, <1>10
  <2>4. QED
    BY <1>1, <1>8, <1>10, <2>2, <2>3
<1>12. (r * b) % P = 0
  <2>1. b - q * k \in Int /\ 0 \in Field
    BY <1>1, <1>8, <1>10, FieldNumbers
  <2>2. ((b - q * k) * P + 0) % P = 0
    BY <2>1, ModUnique
  <2>3. QED
    BY <1>11, <2>2
<1>13. r \in Bad
  BY <1>9, <1>12
<1>14. QED
  BY <1>3, <1>9, <1>13

\* Nothing but one number of the field gives a product with a number that is not zero.
LEMMA TimesCancel ==
    ASSUME NEW a \in Field, NEW b \in Field, NEW c \in Field, c # 0, Times(a, c) = Times(b, c)
    PROVE  a = b
<1>1. PICK d \in Field : d = Minus(a, b) /\ Plus(d, b) = a
  BY FieldMinus
<1>2. Plus(Times(c, d), Times(c, b)) = Times(c, a)
  BY <1>1, FieldTimes
<1>3. Times(c, a) = Times(c, b)
  BY FieldTimes
<1>4. Times(c, d) \in Field /\ Times(c, b) \in Field /\ 0 \in Field
  BY FieldTimes, FieldNumbers
<1>5. Plus(0, Times(c, b)) = Times(c, b)
  BY <1>4, FieldPlus
<1>6. Times(c, d) = 0
  BY <1>2, <1>3, <1>4, <1>5, FieldMinus
<1>7. Times(d, c) = 0
  BY <1>6, FieldTimes
<1>8. d = 0
  BY <1>7, NoZeroDivisors
<1>9. QED
  BY <1>1, <1>8, FieldPlus

\* A product is zero exactly if one of its elements is.
LEMMA ProductZero ==
    ASSUME NEW f, NEW S, IsFiniteSet(S), \A x \in S : f[x] \in Field
    PROVE  ProductOver(f, S) = 0 <=> \E x \in S : f[x] = 0
<1> DEFINE B == {T \in SUBSET S : (ProductOver(f, T) = 0) <=> (\E x \in T : f[x] = 0)}
<1>1. {} \in B
  <2>1. ProductOver(f, {}) = 1
    BY ProductEmpty
  <2>2. QED
    BY <2>1
<1>2. ASSUME NEW T \in SUBSET S, T # {}, \A x \in T : T \ {x} \in B
      PROVE  T \in B
  <2>1. IsFiniteSet(T) /\ (\A x \in T : f[x] \in Field)
    BY FS_Subset
  <2>2. PICK x \in T : TRUE
    BY <1>2
  <2>3. PICK U, u : U = T \ {x} /\ u = ProductOver(f, U)
    OBVIOUS
  <2>4. IsFiniteSet(U) /\ (\A y \in U : f[y] \in Field)
    BY <2>1, <2>3, FS_Subset
  <2>5. u \in Field /\ f[x] \in Field
    BY <2>1, <2>3, <2>4, ProductIn
  <2>6. ProductOver(f, T) = Times(f[x], u)
    BY <2>1, <2>3, ProductTake
  <2>7. u = 0 <=> \E y \in U : f[y] = 0
    BY <1>2, <2>3
  <2>8. Times(f[x], u) = 0 <=> f[x] = 0 \/ u = 0
    <3>1. PICK k : k = f[x]
      OBVIOUS
    <3>2. Times(k, u) = 0 => k = 0 \/ u = 0
      BY <2>5, <3>1, NoZeroDivisors
    <3>3. Times(0, u) = 0 /\ Times(k, 0) = 0
      BY <2>5, <3>1, FieldTimes
    <3>4. QED
      BY <3>1, <3>2, <3>3
  <2>9. (\E y \in T : f[y] = 0) <=> f[x] = 0 \/ \E y \in U : f[y] = 0
    BY <2>3
  <2>10. QED
    BY <2>6, <2>7, <2>8, <2>9
<1> HIDE DEF B
<1>3. SUBSET S \subseteq B
  BY <1>1, <1>2, SubsetInduction
<1>4. S \in B
  BY <1>3
<1>5. QED
  BY <1>4 DEF B

-------------------------------------------------------------------------------
(***************************************************************************)
(* gf_inv inverts (Fermat)                                                 *)
(***************************************************************************)

Power(a, n) == ProductOver([i \in 1..n |-> a], 1..n)

\* Powers, one factor after the other.
LEMMA PowerSteps ==
    ASSUME NEW a \in Field
    PROVE  /\ Power(a, 0) = 1
           /\ \A n \in Nat : Power(a, n) \in Field
           /\ \A n \in Nat : Power(a, n + 1) = Times(a, Power(a, n))
<1>1. Power(a, 0) = 1
  <2>1. 1..0 = {}
    OBVIOUS
  <2>2. QED
    BY <2>1, ProductEmpty DEF Power
<1>2. ASSUME NEW n \in Nat PROVE Power(a, n) \in Field
  <2>1. IsFiniteSet(1..n)
    BY FS_Interval
  <2>2. \A i \in 1..n : [j \in 1..n |-> a][i] \in Field
    OBVIOUS
  <2>3. QED
    BY <2>1, <2>2, ProductIn DEF Power
<1>3. ASSUME NEW n \in Nat PROVE Power(a, n + 1) = Times(a, Power(a, n))
  <2>1. PICK m : m = n + 1
    OBVIOUS
  <2>2. IsFiniteSet(1..m) /\ IsFiniteSet(1..n) /\ m \in 1..m /\ (1..m) \ {m} = 1..n
    BY <2>1, FS_Interval
  <2>3. PICK f, g : f = [i \in 1..m |-> a] /\ g = [i \in 1..n |-> a]
    OBVIOUS
  <2>4. /\ \A i \in 1..m : f[i] \in Field
        /\ \A i \in 1..n : f[i] \in Field
        /\ \A i \in 1..n : f[i] = g[i]
        /\ f[m] = a
    BY <2>1, <2>2, <2>3
  <2>5. ProductOver(f, 1..m) = Times(f[m], ProductOver(f, (1..m) \ {m}))
    BY <2>2, <2>4, ProductTake
  <2>6. ProductOver(f, 1..n) = ProductOver(g, 1..n)
    BY <2>2, <2>4, ProductSame
  <2>7. QED
    BY <2>1, <2>2, <2>3, <2>4, <2>5, <2>6 DEF Power
<1>4. QED
  BY <1>1, <1>2, <1>3

\* Squaring the base halves the exponent.
LEMMA PowerSquare ==
    ASSUME NEW a \in Field
    PROVE  \A n \in Nat : Power(Times(a, a), n) = Power(a, 2 * n)
<1> DEFINE B == {n \in Nat : Power(Times(a, a), n) = Power(a, 2 * n)}
<1>0. Times(a, a) \in Field
  BY FieldTimes
<1>1. 0 \in B
  <2>1. 2 * 0 = 0
    OBVIOUS
  <2>2. QED
    BY <1>0, <2>1, PowerSteps
<1>2. ASSUME NEW n \in Nat, n \in B PROVE n + 1 \in B
  <2>1. PICK m \in Nat : m = 2 * n
    OBVIOUS
  <2>2. 2 * (n + 1) = (m + 1) + 1 /\ m + 1 \in Nat
    BY <2>1
  <2>3. Power(a, (m + 1) + 1) = Times(a, Times(a, Power(a, m)))
    BY <2>2, PowerSteps
  <2>4. Times(a, Times(a, Power(a, m))) = Times(Times(a, a), Power(a, m))
    BY PowerSteps, FieldTimes
  <2>5. Power(Times(a, a), n + 1) = Times(Times(a, a), Power(Times(a, a), n))
    BY <1>0, PowerSteps
  <2>6. Power(Times(a, a), n) = Power(a, m)
    BY <1>2, <2>1
  <2>7. Power(Times(a, a), n + 1) = Power(a, 2 * (n + 1))
    BY <2>2, <2>3, <2>4, <2>5, <2>6
  <2>8. QED
    BY <2>7
<1> HIDE DEF B
<1>3. Nat \subseteq B
  BY <1>1, <1>2, NumberInduction
<1>4. QED
  BY <1>3 DEF B

NonZero == 1..(P - 1)

\* Multiplication by a number permutes those that are not zero, so that a^(P-1) = 1.
LEMMA Fermat == ASSUME NEW a \in NonZero PROVE Power(a, P - 1) = 1
<1> DEFINE all == [x \in NonZero |-> a]
           own == [x \in NonZero |-> x]
           moved == [x \in NonZero |-> Times(a, x)]
<1>1. \A x : x \in NonZero <=> x \in Field /\ x # 0
  <2>1. P \in Nat /\ P > 1
    BY FieldNumbers
  <2>2. QED
    BY <2>1 DEF NonZero, Field
<1>2. IsFiniteSet(NonZero)
  BY FieldNumbers, FS_Interval DEF NonZero
<1>3. \A x \in NonZero : Times(a, x) \in NonZero
  BY <1>1, FieldTimes, NoZeroDivisors
<1>4. /\ \A x \in NonZero : all[x] = a /\ a \in Field
      /\ \A x \in NonZero : own[x] = x /\ x \in Field
      /\ \A x \in NonZero : moved[x] = Times(a, x) /\ Times(a, x) \in NonZero
  BY <1>1, <1>3
<1>5. moved \in [NonZero -> NonZero]
  BY <1>3
<1>6. all = [i \in 1..(P - 1) |-> a]
  BY DEF NonZero
<1>7. Power(a, P - 1) = ProductOver(all, NonZero)
  BY <1>6 DEF Power, NonZero
<1> HIDE DEF all, own, moved
<1>8. \A x, y \in NonZero : moved[x] = moved[y] => x = y
  <2>1. ASSUME NEW x \in NonZero, NEW y \in NonZero, moved[x] = moved[y] PROVE x = y
    <3>1. x \in Field /\ y \in Field /\ a \in Field /\ Times(a, x) = Times(a, y)
      BY <1>1, <1>4, <2>1
    <3>2. Times(x, a) = Times(y, a)
      BY <3>1, FieldTimes
    <3>3. a # 0
      BY <1>1
    <3>4. QED
      BY <3>1, <3>2, <3>3, TimesCancel
  <2>2. QED
    BY <2>1
<1>9. {moved[x] : x \in NonZero} = NonZero
  <2>1. moved \in Injection(NonZero, NonZero)
    BY <1>5, <1>8 DEF Injection, IsInjective
  <2>2. moved \in Surjection(NonZero, NonZero)
    BY <1>2, <2>1, FS_Injection, FS_CardinalityType
  <2>3. QED
    BY <1>5, <2>2 DEF Surjection
<1>10. ProductOver(moved, NonZero) = ProductOver(own, {moved[x] : x \in NonZero})
  <2>1. \A x \in NonZero : moved[x] = own[moved[x]] /\ own[moved[x]] \in Field
    BY <1>4
  <2>2. QED
    BY <1>2, <1>8, <2>1, ProductNamed
<1>11. ProductOver(moved, NonZero) = Times(ProductOver(all, NonZero), ProductOver(own, NonZero))
  <2>1. \A x \in NonZero : all[x] \in Field /\ own[x] \in Field
    BY <1>4
  <2>2. \A x \in NonZero : moved[x] = Times(all[x], own[x])
    BY <1>4
  <2>3. QED
    BY <1>2, <2>1, <2>2, ProductBoth
<1>12. PICK p, m : p = ProductOver(all, NonZero) /\ m = ProductOver(own, NonZero)
  OBVIOUS
<1>13. p \in Field /\ m \in Field
  BY <1>2, <1>4, <1>12, ProductIn
<1>14. m # 0
  <2>1. \A x \in NonZero : own[x] \in Field /\ own[x] # 0
    BY <1>1, <1>4
  <2>2. QED
    BY <1>2, <1>12, <2>1, ProductZero
<1>15. Times(p, m) = m
  BY <1>9, <1>10, <1>11, <1>12
<1>16. Times(1, m) = m /\ 1 \in Field
  BY <1>13, FieldTimes, FieldNumbers
<1>17. p = 1
  BY <1>13, <1>14, <1>15, <1>16, TimesCancel
<1>18. QED
  BY <1>7, <1>12, <1>17

\* The loop of gf_inv, on its three variables.
Turned(loop, e, r, b) ==
    IF e = 0 THEN r
    ELSE loop[<<e \div 2, IF e % 2 = 1 THEN Times(r, b) ELSE r, Times(b, b)>>]

Squares(loop) ==
    loop = [v \in (0..P) \X (0..P) \X (0..P) |-> Turned(loop, v[1], v[2], v[3])]

\* Halving an exponent.
LEMMA Halves ==
    ASSUME NEW e \in Nat, e # 0
    PROVE  /\ e \div 2 \in Nat /\ e \div 2 < e
           /\ e % 2 = 1 => e = 2 * (e \div 2) + 1
           /\ e % 2 # 1 => e = 2 * (e \div 2) /\ e \div 2 # 0
  OBVIOUS

Turns(r, b, e, s) ==
    /\ s \in Field /\ Times(b, b) \in Field
    /\ Times(s, Power(Times(b, b), e \div 2)) = Times(r, Power(b, e))

\* One turn of the loop leaves result * base^exp as it is.
LEMMA Turn ==
    ASSUME NEW r \in Field, NEW b \in Field, NEW e \in Nat, e # 0,
           NEW s, s = IF e % 2 = 1 THEN Times(r, b) ELSE r
    PROVE  Turns(r, b, e, s)
<1>1. PICK h : h = e \div 2
  OBVIOUS
<1>2. /\ h \in Nat
      /\ e % 2 = 1 => e = 2 * h + 1
      /\ e % 2 # 1 => e = 2 * h
  BY <1>1, Halves
<1>3. 2 * h \in Nat
  BY <1>2
<1>4. Power(Times(b, b), h) = Power(b, 2 * h) /\ Power(b, 2 * h) \in Field
  BY <1>2, <1>3, PowerSquare, PowerSteps
<1>5. s \in Field /\ Times(b, b) \in Field
  BY FieldTimes
<1>6. CASE e % 2 = 1
  <2>1. s = Times(r, b) /\ Power(b, e) = Times(b, Power(b, 2 * h))
    BY <1>2, <1>3, <1>6, PowerSteps
  <2>2. Times(Times(r, b), Power(b, 2 * h)) = Times(r, Times(b, Power(b, 2 * h)))
    BY <1>4, FieldTimes
  <2>3. QED
    BY <1>1, <1>4, <1>5, <2>1, <2>2 DEF Turns
<1>7. CASE e % 2 # 1
  BY <1>1, <1>2, <1>4, <1>5, <1>7 DEF Turns
<1>8. QED
  BY <1>6, <1>7

\* The loop ends with result * base^exp.
LEMMA LoopEnds ==
    ASSUME NEW loop, Squares(loop)
    PROVE  \A e \in 0..P : \A r, b \in Field : loop[<<e, r, b>>] = Times(r, Power(b, e))
<1>0. P \in Nat /\ P > 1
  BY FieldNumbers
<1> DEFINE Bad == {e \in 0..P : ~(\A r, b \in Field : loop[<<e, r, b>>] = Times(r, Power(b, e)))}
<1> SUFFICES ASSUME Bad # {} PROVE FALSE
  OBVIOUS
<1>1. PICK e \in Bad : \A m \in Bad : ~(m < e)
  <2>1. Bad \subseteq Nat
    BY <1>0
  <2> HIDE DEF Bad
  <2>2. QED
    BY <2>1, LeastNumber
<1>2. e \in Nat /\ e \in 0..P
  BY <1>0, <1>1
<1>3. PICK r \in Field, b \in Field : loop[<<e, r, b>>] # Times(r, Power(b, e))
  BY <1>1
<1>4. r \in 0..P /\ b \in 0..P
  BY <1>0 DEF Field
<1>5. PICK s, h : s = (IF e % 2 = 1 THEN Times(r, b) ELSE r) /\ h = e \div 2
  OBVIOUS
<1>6. loop[<<e, r, b>>] = IF e = 0 THEN r ELSE loop[<<h, s, Times(b, b)>>]
  <2>1. loop[<<e, r, b>>] = Turned(loop, e, r, b)
    BY <1>2, <1>4 DEF Squares
  <2>2. QED
    BY <1>5, <2>1 DEF Turned
<1>7. CASE e = 0
  <2>1. Times(r, Power(b, 0)) = r
    BY PowerSteps, FieldTimes
  <2>2. QED
    BY <1>3, <1>6, <1>7, <2>1
<1>8. CASE e # 0
  <2>1. /\ s \in Field /\ Times(b, b) \in Field
        /\ Times(s, Power(Times(b, b), h)) = Times(r, Power(b, e))
    <3>1. s = IF e % 2 = 1 THEN Times(r, b) ELSE r
      BY <1>5
    <3>2. Turns(r, b, e, s)
      BY <1>2, <1>8, <3>1, Turn
    <3>3. QED
      BY <1>5, <3>2 DEF Turns
  <2>2. h \in 0..P /\ h < e
    <3>1. h \in Nat /\ h < e
      BY <1>2, <1>5, <1>8, Halves
    <3>2. QED
      BY <1>0, <1>2, <3>1
  <2>3. h \notin Bad
    BY <1>1, <2>2
  <2>4. loop[<<h, s, Times(b, b)>>] = Times(s, Power(Times(b, b), h))
    BY <2>1, <2>2, <2>3
  <2>5. QED
    BY <1>3, <1>6, <1>8, <2>1, <2>4
<1>9. QED
  BY <1>7, <1>8

\* There is such a loop, whatever bytes it starts with.
LEMMA LoopExists == \E loop : Squares(loop)
<1> DEFINE value(e, r, b) == IF e = 0 THEN r ELSE Times(r % P, Power(b % P, e))
           loop == [v \in (0..P) \X (0..P) \X (0..P) |-> value(v[1], v[2], v[3])]
<1>0. P \in Nat /\ P > 1
  BY FieldNumbers
<1>1. ASSUME NEW e \in 0..P, NEW r \in 0..P, NEW b \in 0..P, e # 0
      PROVE  value(e, r, b) = value(e \div 2, IF e % 2 = 1 THEN Times(r, b) ELSE r, Times(b, b))
  <2>1. PICK x, y : x = r % P /\ y = b % P
    OBVIOUS
  <2>2. e \in Nat /\ r \in Int /\ b \in Int /\ x \in Field /\ y \in Field
    BY <1>0, <2>1, ModIs
  <2>3. Times(x, y) = Times(r, b) /\ Times(y, y) = Times(b, b)
    <3>1. (x * b) % P = (r * b) % P /\ (y * x) % P = (b * x) % P
          /\ (y * b) % P = (b * b) % P /\ (y * y) % P = (b * y) % P
      <4>1. x \in Int /\ y \in Int
        BY <2>2, FieldInts
      <4>2. QED
        BY <2>1, <2>2, <4>1, ModInside
    <3>2. x * b = b * x /\ y * x = x * y /\ b * y = y * b
      BY <2>2, FieldInts
    <3>3. QED
      BY <3>1, <3>2 DEF Times
  <2>4. PICK s, t, h : /\ s = (IF e % 2 = 1 THEN Times(r, b) ELSE r)
                       /\ t = (IF e % 2 = 1 THEN Times(x, y) ELSE x)
                       /\ h = e \div 2
    OBVIOUS
  <2>5. t \in Field /\ Times(y, y) \in Field
        /\ Times(t, Power(Times(y, y), h)) = Times(x, Power(y, e))
    <3>1. t = IF e % 2 = 1 THEN Times(x, y) ELSE x
      BY <2>4
    <3>2. Turns(x, y, e, t)
      BY <1>1, <2>2, <3>1, Turn
    <3>3. QED
      BY <2>4, <3>2 DEF Turns
  <2>6. s % P = t /\ Times(b, b) % P = Times(y, y)
    <3>1. \A a \in Field : a % P = a
      BY FieldNumbers
    <3>2. QED
      BY <2>1, <2>3, <2>4, <2>5, <3>1
  <2>7. value(e, r, b) = Times(x, Power(y, e))
    BY <1>1, <2>1
  <2>8. CASE h = 0
    <3>1. e % 2 = 1
      BY <1>1, <2>2, <2>4, <2>8, Halves
    <3>2. s = t
      BY <2>3, <2>4, <3>1
    <3>3. Times(t, Power(Times(y, y), 0)) = t
      BY <2>5, PowerSteps, FieldTimes
    <3>4. value(h, s, Times(b, b)) = s
      BY <2>8
    <3> HIDE DEF value
    <3>5. QED
      BY <2>4, <2>5, <2>7, <2>8, <3>2, <3>3, <3>4
  <2>9. CASE h # 0
    <3>1. value(h, s, Times(b, b)) = Times(s % P, Power(Times(b, b) % P, h))
      BY <2>9
    <3> HIDE DEF value
    <3>2. QED
      BY <2>4, <2>5, <2>6, <2>7, <3>1
  <2>10. QED
    BY <2>8, <2>9
<1>2. ASSUME NEW e \in 0..P, NEW r \in 0..P, NEW b \in 0..P
      PROVE  value(e, r, b) = Turned(loop, e, r, b)
  <2>1. PICK s, h, t : /\ s = (IF e % 2 = 1 THEN Times(r, b) ELSE r)
                       /\ h = e \div 2 /\ t = Times(b, b)
    OBVIOUS
  <2>2. CASE e # 0
    <3>1. h \in 0..P
      <4>1. e \in Nat /\ e <= P
        BY <1>0
      <4>2. h \in Nat /\ h < e
        BY <2>1, <2>2, <4>1, Halves
      <4>3. QED
        BY <1>0, <4>1, <4>2
    <3>2. s \in 0..P /\ t \in 0..P
      <4>1. r \in Int /\ b \in Int
        BY <1>0
      <4>2. Times(r, b) \in Field /\ Times(b, b) \in Field
        BY <4>1, FieldNumbers
      <4>3. \A a \in Field : a \in 0..P
        BY <1>0 DEF Field
      <4>4. QED
        BY <2>1, <4>2, <4>3
    <3>3. loop[<<h, s, t>>] = value(h, s, t)
      <4> HIDE DEF value
      <4>1. QED
        BY <3>1, <3>2
    <3>4. value(e, r, b) = value(h, s, t)
      BY <1>1, <2>1, <2>2
    <3> HIDE DEF value, loop
    <3>5. QED
      BY <2>1, <2>2, <3>3, <3>4 DEF Turned
  <2>3. CASE e = 0
    BY <2>3 DEF Turned
  <2>4. QED
    BY <2>2, <2>3
<1>3. PICK h : h = loop
  OBVIOUS
<1>4. Squares(h)
  <2> HIDE DEF value
  <2>1. \A e, r, b \in 0..P : value(e, r, b) = Turned(h, e, r, b)
    <3> HIDE DEF loop
    <3>1. QED
      BY <1>2, <1>3
  <2>2. \A v \in (0..P) \X (0..P) \X (0..P) :
           value(v[1], v[2], v[3]) = Turned(h, v[1], v[2], v[3])
    BY <2>1
  <2>3. h = [v \in (0..P) \X (0..P) \X (0..P) |-> Turned(h, v[1], v[2], v[3])]
    BY <1>3, <2>2
  <2>4. QED
    BY <2>3 DEF Squares
<1>5. QED
  BY <1>4

\* gf_inv(a) is the inverse of a (gf_inv, shamir.rs:27-42).
THEOREM InverseIs ==
    ASSUME NEW a \in NonZero
    PROVE  gf_inv(a) \in NonZero /\ Times(a, gf_inv(a)) = 1
<1>1. PICK loop : loop = CHOOSE l : Squares(l)
  OBVIOUS
<1>2. Squares(loop)
  BY <1>1, LoopExists
<1>3. gf_inv(a) = loop[<<P - 2, 1, a>>]
  BY <1>1 DEF gf_inv, Squares, Turned
<1>4. P \in Nat /\ P > 1 /\ P - 2 \in 0..P /\ P - 2 \in Nat /\ (P - 2) + 1 = P - 1
  BY FieldNumbers
<1>5. a \in Field /\ 1 \in Field
  BY <1>4 DEF Field, NonZero
<1>6. loop[<<P - 2, 1, a>>] = Times(1, Power(a, P - 2))
  BY <1>2, <1>4, <1>5, LoopEnds
<1>7. Power(a, P - 2) \in Field
  BY <1>4, <1>5, PowerSteps
<1>8. gf_inv(a) = Power(a, P - 2)
  BY <1>3, <1>6, <1>7, FieldTimes
<1>9. Times(a, Power(a, P - 2)) = 1
  <2>1. Power(a, (P - 2) + 1) = Times(a, Power(a, P - 2))
    BY <1>4, <1>5, PowerSteps
  <2>2. QED
    BY <1>4, <2>1, Fermat
<1>10. gf_inv(a) # 0
  BY <1>5, <1>8, <1>9, FieldTimes
<1>11. QED
  BY <1>4, <1>7, <1>8, <1>9, <1>10 DEF Field, NonZero

-------------------------------------------------------------------------------
(***************************************************************************)
(* The loops of reconstruct                                                *)
(***************************************************************************)

Adds(f, S, it) ==
    it = [q \in SUBSET S |->
             IF q = {} THEN 0
             ELSE Plus(f[CHOOSE j \in q : TRUE], it[q \ {CHOOSE j \in q : TRUE}])]

\* A loop of reconstruct that adds its elements one after the other ends with their
\* sum, and there is one.
LEMMA AddsIs ==
    ASSUME NEW f, NEW S, IsFiniteSet(S), \A x \in S : f[x] \in Field
    PROVE  /\ \E it : Adds(f, S, it)
           /\ \A it : Adds(f, S, it) => it[S] = SumOver(f, S)
<1>1. PICK h : /\ Accumulates(PlusOp, 0, f, S, h)
               /\ \A T \in SUBSET S : h[T] = Over(PlusOp, 0, f, T)
  BY OverAll
<1>2. ASSUME NEW q \in SUBSET S, NEW it, q # {},
             \A T \in SUBSET S : it[T] \in Field
      PROVE  App(PlusOp, f[CHOOSE j \in q : TRUE], it[q \ {CHOOSE j \in q : TRUE}])
             = Plus(f[CHOOSE j \in q : TRUE], it[q \ {CHOOSE j \in q : TRUE}])
  <2>1. PICK x, T : x = (CHOOSE j \in q : TRUE) /\ T = q \ {CHOOSE j \in q : TRUE}
    OBVIOUS
  <2>2. x \in S /\ T \in SUBSET S
    BY <1>2, <2>1
  <2>3. f[x] \in Int /\ it[T] \in Int
    BY <1>2, <2>2, FieldInts
  <2>4. App(PlusOp, f[x], it[T]) = Plus(f[x], it[T])
    BY <2>3, AppIs
  <2>5. QED
    BY <2>1, <2>4
<1>3. \A T \in SUBSET S : h[T] \in Field
  BY <1>1, FieldCommutes, OverType
<1>4. Adds(f, S, h)
  <2>1. \A q \in SUBSET S : q # {} =>
           App(PlusOp, f[CHOOSE j \in q : TRUE], h[q \ {CHOOSE j \in q : TRUE}])
           = Plus(f[CHOOSE j \in q : TRUE], h[q \ {CHOOSE j \in q : TRUE}])
    BY <1>2, <1>3
  <2>2. QED
    BY <1>1, <2>1 DEF Accumulates, Adds
<1>5. ASSUME NEW it, Adds(f, S, it) PROVE it[S] = SumOver(f, S)
  <2> DEFINE B == {T \in SUBSET S : it[T] \in Field}
  <2>1. {} \in B
    <3>1. {} \in SUBSET S
      OBVIOUS
    <3>2. it[{}] = 0
      BY <1>5, <3>1 DEF Adds
    <3>3. QED
      BY <3>1, <3>2, FieldNumbers
  <2>2. ASSUME NEW T \in SUBSET S, T # {}, \A x \in T : T \ {x} \in B
        PROVE  T \in B
    <3>1. PICK x : x = CHOOSE j \in T : TRUE
      OBVIOUS
    <3>2. x \in T /\ it[T \ {x}] \in Field
      BY <2>2, <3>1
    <3>3. it[T] = Plus(f[x], it[T \ {x}])
      <4>1. it[T] = IF T = {} THEN 0
                    ELSE Plus(f[CHOOSE j \in T : TRUE], it[T \ {CHOOSE j \in T : TRUE}])
        BY <1>5 DEF Adds
      <4>2. QED
        BY <2>2, <3>1, <4>1
    <3>4. it[T] \in Field
      BY <3>2, <3>3, FieldPlus
    <3>5. QED
      BY <3>4
  <2> HIDE DEF B
  <2>3. SUBSET S \subseteq B
    BY <2>1, <2>2, SubsetInduction
  <2>4. \A T \in SUBSET S : it[T] \in Field
    BY <2>3 DEF B
  <2>5. Accumulates(PlusOp, 0, f, S, it)
    <3>1. \A q \in SUBSET S : q # {} =>
             App(PlusOp, f[CHOOSE j \in q : TRUE], it[q \ {CHOOSE j \in q : TRUE}])
             = Plus(f[CHOOSE j \in q : TRUE], it[q \ {CHOOSE j \in q : TRUE}])
      BY <1>2, <2>4
    <3>2. QED
      BY <1>5, <3>1 DEF Accumulates, Adds
  <2>6. S \in SUBSET S
    OBVIOUS
  <2>7. it[S] = Over(PlusOp, 0, f, S)
    BY <2>5, <2>6, OverIs
  <2>8. QED
    BY <2>7 DEF SumOver
<1>6. QED
  BY <1>4, <1>5

Multiplies(f, S, it) ==
    it = [q \in SUBSET S |->
             IF q = {} THEN 1
             ELSE Times(f[CHOOSE j \in q : TRUE], it[q \ {CHOOSE j \in q : TRUE}])]

\* A loop of reconstruct that multiplies its elements one after the other ends with their
\* product, and there is one.
LEMMA MultipliesIs ==
    ASSUME NEW f, NEW S, IsFiniteSet(S), \A x \in S : f[x] \in Field
    PROVE  /\ \E it : Multiplies(f, S, it)
           /\ \A it : Multiplies(f, S, it) => it[S] = ProductOver(f, S)
<1>1. PICK h : /\ Accumulates(TimesOp, 1, f, S, h)
               /\ \A T \in SUBSET S : h[T] = Over(TimesOp, 1, f, T)
  BY OverAll
<1>2. ASSUME NEW q \in SUBSET S, NEW it, q # {},
             \A T \in SUBSET S : it[T] \in Field
      PROVE  App(TimesOp, f[CHOOSE j \in q : TRUE], it[q \ {CHOOSE j \in q : TRUE}])
             = Times(f[CHOOSE j \in q : TRUE], it[q \ {CHOOSE j \in q : TRUE}])
  <2>1. PICK x, T : x = (CHOOSE j \in q : TRUE) /\ T = q \ {CHOOSE j \in q : TRUE}
    OBVIOUS
  <2>2. x \in S /\ T \in SUBSET S
    BY <1>2, <2>1
  <2>3. f[x] \in Int /\ it[T] \in Int
    BY <1>2, <2>2, FieldInts
  <2>4. App(TimesOp, f[x], it[T]) = Times(f[x], it[T])
    BY <2>3, AppIs
  <2>5. QED
    BY <2>1, <2>4
<1>3. \A T \in SUBSET S : h[T] \in Field
  BY <1>1, FieldCommutes, OverType
<1>4. Multiplies(f, S, h)
  <2>1. \A q \in SUBSET S : q # {} =>
           App(TimesOp, f[CHOOSE j \in q : TRUE], h[q \ {CHOOSE j \in q : TRUE}])
           = Times(f[CHOOSE j \in q : TRUE], h[q \ {CHOOSE j \in q : TRUE}])
    BY <1>2, <1>3
  <2>2. QED
    BY <1>1, <2>1 DEF Accumulates, Multiplies
<1>5. ASSUME NEW it, Multiplies(f, S, it) PROVE it[S] = ProductOver(f, S)
  <2> DEFINE B == {T \in SUBSET S : it[T] \in Field}
  <2>1. {} \in B
    <3>1. {} \in SUBSET S
      OBVIOUS
    <3>2. it[{}] = 1
      BY <1>5, <3>1 DEF Multiplies
    <3>3. QED
      BY <3>1, <3>2, FieldNumbers
  <2>2. ASSUME NEW T \in SUBSET S, T # {}, \A x \in T : T \ {x} \in B
        PROVE  T \in B
    <3>1. PICK x : x = CHOOSE j \in T : TRUE
      OBVIOUS
    <3>2. x \in T /\ it[T \ {x}] \in Field
      BY <2>2, <3>1
    <3>3. it[T] = Times(f[x], it[T \ {x}])
      <4>1. it[T] = IF T = {} THEN 1
                    ELSE Times(f[CHOOSE j \in T : TRUE], it[T \ {CHOOSE j \in T : TRUE}])
        BY <1>5 DEF Multiplies
      <4>2. QED
        BY <2>2, <3>1, <4>1
    <3>4. it[T] \in Field
      BY <3>2, <3>3, FieldTimes
    <3>5. QED
      BY <3>4
  <2> HIDE DEF B
  <2>3. SUBSET S \subseteq B
    BY <2>1, <2>2, SubsetInduction
  <2>4. \A T \in SUBSET S : it[T] \in Field
    BY <2>3 DEF B
  <2>5. Accumulates(TimesOp, 1, f, S, it)
    <3>1. \A q \in SUBSET S : q # {} =>
             App(TimesOp, f[CHOOSE j \in q : TRUE], it[q \ {CHOOSE j \in q : TRUE}])
             = Times(f[CHOOSE j \in q : TRUE], it[q \ {CHOOSE j \in q : TRUE}])
      BY <1>2, <2>4
    <3>2. QED
      BY <1>5, <3>1 DEF Accumulates, Multiplies
  <2>6. S \in SUBSET S
    OBVIOUS
  <2>7. it[S] = Over(TimesOp, 1, f, S)
    BY <2>5, <2>6, OverIs
  <2>8. QED
    BY <2>7 DEF ProductOver
<1>6. QED
  BY <1>4, <1>5

\* Positions of shares with indices of the field, in their order.
Joinable(shares) == shares \in Seq(NonZero)

\* What the loops of reconstruct go through: finitely many positions, indices from 1 to P - 1.
LEMMA JoinableIs ==
    ASSUME NEW shares, Joinable(shares)
    PROVE  /\ IsFiniteSet(DOMAIN shares)
           /\ DOMAIN shares = 1..Len(shares) /\ Len(shares) \in Nat
           /\ \A i \in DOMAIN shares : shares[i] \in NonZero /\ shares[i] \in Field
<1>1. Len(shares) \in Nat /\ DOMAIN shares = 1..Len(shares)
  BY DEF Joinable
<1>2. \A n \in Nat : IsFiniteSet(1..n)
  BY FS_Interval
<1>3. IsFiniteSet(DOMAIN shares)
  BY <1>1, <1>2
<1>4. \A i \in DOMAIN shares : shares[i] \in NonZero
  BY <1>1 DEF Joinable
<1>5. \A x \in NonZero : x \in Field
  <2>1. P \in Nat
    BY FieldNumbers
  <2>2. QED
    BY <2>1 DEF NonZero, Field
<1>6. QED
  BY <1>1, <1>3, <1>4, <1>5

Negatives(shares) == [j \in DOMAIN shares |-> Negated(shares[j])]

\* The loop over the other shares for the numerator of L_i(0).
LEMMA NumeratorIs ==
    ASSUME NEW shares, Joinable(shares), NEW i \in DOMAIN shares
    PROVE  numerator(shares, i) = ProductOver(Negatives(shares), DOMAIN shares \ {i})
<1>1. PICK f, S : f = Negatives(shares) /\ S = DOMAIN shares \ {i}
  OBVIOUS
<1>2. IsFiniteSet(S) /\ S \subseteq DOMAIN shares
  BY <1>1, JoinableIs, FS_Subset
<1>3. \A j \in S : f[j] = (P - shares[j]) % P /\ f[j] \in Field
  BY <1>1, <1>2, JoinableIs, FieldMinus DEF Negatives, Negated
<1> DEFINE Loop(it) ==
        it = [q \in SUBSET S |->
                 IF q = {} THEN 1
                 ELSE LET j == CHOOSE j \in q : TRUE
                      IN  Times((P - shares[j]) % P, it[q \ {j}])]
<1>4. \A it : Loop(it) <=> Multiplies(f, S, it)
  <2>1. ASSUME NEW it PROVE Loop(it) <=> Multiplies(f, S, it)
    <3>1. \A q \in SUBSET S : q # {} => (CHOOSE j \in q : TRUE) \in S
      OBVIOUS
    <3>2. \A q \in SUBSET S :
             (IF q = {} THEN 1
              ELSE LET j == CHOOSE j \in q : TRUE
                   IN  Times((P - shares[j]) % P, it[q \ {j}]))
             = (IF q = {} THEN 1
                ELSE Times(f[CHOOSE j \in q : TRUE], it[q \ {CHOOSE j \in q : TRUE}]))
      BY <1>3, <3>1
    <3>3. QED
      BY <3>2 DEF Multiplies
  <2>2. QED
    BY <2>1
<1>5. numerator(shares, i) = (CHOOSE it : Loop(it))[S]
  BY <1>1 DEF numerator, MapThenFoldSet
<1> HIDE DEF Loop
<1>6. (\E it : Multiplies(f, S, it)) /\ \A it : Multiplies(f, S, it) => it[S] = ProductOver(f, S)
  BY <1>2, <1>3, MultipliesIs
<1>7. Loop(CHOOSE it : Loop(it))
  BY <1>4, <1>6
<1>8. QED
  BY <1>1, <1>4, <1>5, <1>6, <1>7

Differences(shares, i) == [j \in DOMAIN shares |-> Minus(shares[i], shares[j])]

\* The loop over the other shares for the denominator of L_i(0).
LEMMA DenominatorIs ==
    ASSUME NEW shares, Joinable(shares), NEW i \in DOMAIN shares
    PROVE  denominator(shares, i) = ProductOver(Differences(shares, i), DOMAIN shares \ {i})
<1>1. PICK f, S : f = Differences(shares, i) /\ S = DOMAIN shares \ {i}
  OBVIOUS
<1>2. IsFiniteSet(S) /\ S \subseteq DOMAIN shares
  BY <1>1, JoinableIs, FS_Subset
<1>3. \A j \in S : f[j] = (shares[i] + P - shares[j]) % P /\ f[j] \in Field
  BY <1>1, <1>2, JoinableIs, FieldMinus DEF Differences, Minus
<1> DEFINE Loop(it) ==
        it = [q \in SUBSET S |->
                 IF q = {} THEN 1
                 ELSE LET j == CHOOSE j \in q : TRUE
                      IN  Times((shares[i] + P - shares[j]) % P, it[q \ {j}])]
<1>4. \A it : Loop(it) <=> Multiplies(f, S, it)
  <2>1. ASSUME NEW it PROVE Loop(it) <=> Multiplies(f, S, it)
    <3>1. \A q \in SUBSET S : q # {} => (CHOOSE j \in q : TRUE) \in S
      OBVIOUS
    <3>2. \A q \in SUBSET S :
             (IF q = {} THEN 1
              ELSE LET j == CHOOSE j \in q : TRUE
                   IN  Times((shares[i] + P - shares[j]) % P, it[q \ {j}]))
             = (IF q = {} THEN 1
                ELSE Times(f[CHOOSE j \in q : TRUE], it[q \ {CHOOSE j \in q : TRUE}]))
      BY <1>3, <3>1
    <3>3. QED
      BY <3>2 DEF Multiplies
  <2>2. QED
    BY <2>1
<1>5. denominator(shares, i) = (CHOOSE it : Loop(it))[S]
  BY <1>1 DEF denominator, MapThenFoldSet
<1> HIDE DEF Loop
<1>6. (\E it : Multiplies(f, S, it)) /\ \A it : Multiplies(f, S, it) => it[S] = ProductOver(f, S)
  BY <1>2, <1>3, MultipliesIs
<1>7. Loop(CHOOSE it : Loop(it))
  BY <1>4, <1>6
<1>8. QED
  BY <1>1, <1>4, <1>5, <1>6, <1>7

-------------------------------------------------------------------------------
(***************************************************************************)
(* Interpolation: divided differences over distinct points                 *)
(***************************************************************************)

\* Points of the field, no two the same.
Distinct(X) ==
    /\ IsFiniteSet(DOMAIN X)
    /\ \A i \in DOMAIN X : X[i] \in Field
    /\ \A i, j \in DOMAIN X : X[i] = X[j] => i = j

Gap(X, i) == [j \in DOMAIN X |-> Minus(X[i], X[j])]
Weight(X, S, i) == gf_inv(ProductOver(Gap(X, i), S \ {i}))
Parts(X, m, S) == [i \in DOMAIN X |-> Times(Power(X[i], m), Weight(X, S, i))]
Divided(X, m, S) == SumOver(Parts(X, m, S), S)

\* No gap between distinct points is zero.
LEMMA GapProduct ==
    ASSUME NEW X, Distinct(X), NEW i \in DOMAIN X, NEW S, S \subseteq DOMAIN X, i \notin S
    PROVE  /\ IsFiniteSet(S)
           /\ \A j \in S : Gap(X, i)[j] = Minus(X[i], X[j]) /\ Gap(X, i)[j] \in Field
           /\ ProductOver(Gap(X, i), S) \in NonZero
<1>1. IsFiniteSet(S)
  BY FS_Subset DEF Distinct
<1>2. \A j \in S : Gap(X, i)[j] = Minus(X[i], X[j])
  BY DEF Gap
<1>3. \A j \in S : X[i] \in Field /\ X[j] \in Field /\ X[i] # X[j]
  BY DEF Distinct
<1>4. \A j \in S : Gap(X, i)[j] \in Field /\ Gap(X, i)[j] # 0
  <2>1. \A a, b \in Field : Minus(a, b) \in Field /\ (Minus(a, b) = 0 => a = b)
    BY FieldMinus
  <2>2. QED
    BY <1>2, <1>3, <2>1
<1>5. ProductOver(Gap(X, i), S) \in Field /\ ProductOver(Gap(X, i), S) # 0
  BY <1>1, <1>4, ProductIn, ProductZero
<1>6. \A x \in Field : x # 0 => x \in NonZero
  <2>1. P \in Nat
    BY FieldNumbers
  <2>2. QED
    BY <2>1 DEF Field, NonZero
<1>7. QED
  BY <1>1, <1>2, <1>4, <1>5, <1>6

\* The indices and coefficients of split are the elements of the field but 0.
LEMMA NonZeroField == \A x : x \in NonZero <=> x \in Field /\ x # 0
<1>1. P \in Nat
  BY FieldNumbers
<1>2. QED
  BY <1>1 DEF Field, NonZero

\* The weight of a point inverts the product of its gaps.
LEMMA WeightIs ==
    ASSUME NEW X, Distinct(X), NEW S, S \subseteq DOMAIN X, NEW i \in S
    PROVE  /\ Weight(X, S, i) \in NonZero
           /\ Times(ProductOver(Gap(X, i), S \ {i}), Weight(X, S, i)) = 1
<1>1. PICK T : T = S \ {i}
  OBVIOUS
<1>2. i \in DOMAIN X /\ T \subseteq DOMAIN X /\ i \notin T
  BY <1>1
<1>3. ProductOver(Gap(X, i), T) \in NonZero
  BY <1>2, GapProduct
<1>4. QED
  BY <1>1, <1>3, InverseIs DEF Weight

\* Without a point, the weight of another lacks its gap to that point.
LEMMA WeightWithout ==
    ASSUME NEW X, Distinct(X), NEW S, S \subseteq DOMAIN X, NEW i \in S, NEW a \in S, i # a
    PROVE  Times(Minus(X[i], X[a]), Weight(X, S, i)) = Weight(X, S \ {a}, i)
<1>1. PICK T, U, V : T = S \ {i} /\ U = T \ {a} /\ V = S \ {a}
  OBVIOUS
<1>2. /\ i \in DOMAIN X /\ a \in DOMAIN X
      /\ T \subseteq DOMAIN X /\ i \notin T /\ a \in T
      /\ U \subseteq DOMAIN X /\ i \notin U
      /\ V \subseteq DOMAIN X /\ i \in V /\ V \ {i} = U
  BY <1>1
<1>3. PICK d, e, g, w, v : /\ d = ProductOver(Gap(X, i), T)
                           /\ e = ProductOver(Gap(X, i), U)
                           /\ g = Minus(X[i], X[a])
                           /\ w = Weight(X, S, i)
                           /\ v = Weight(X, V, i)
  OBVIOUS
<1>4. w \in NonZero /\ Times(d, w) = 1
  BY <1>1, <1>3, WeightIs
<1>5. v \in NonZero /\ Times(e, v) = 1
  BY <1>2, <1>3, WeightIs
<1>6. d \in NonZero /\ e \in NonZero
  BY <1>2, <1>3, GapProduct
<1>7. g \in Field
  BY <1>2, <1>3, FieldMinus DEF Distinct
<1>8. d = Times(g, e)
  <2>1. IsFiniteSet(T) /\ \A j \in T : Gap(X, i)[j] \in Field
    BY <1>2, GapProduct
  <2>2. Gap(X, i)[a] = g
    BY <1>2, <1>3 DEF Gap
  <2>3. ProductOver(Gap(X, i), T) = Times(Gap(X, i)[a], ProductOver(Gap(X, i), T \ {a}))
    <3>1. PICK f : f = Gap(X, i)
      OBVIOUS
    <3>2. ProductOver(f, T) = Times(f[a], ProductOver(f, T \ {a}))
      BY <1>2, <2>1, <3>1, ProductTake
    <3>3. QED
      BY <3>1, <3>2
  <2>4. QED
    BY <1>1, <1>3, <2>2, <2>3
<1>9. e # 0 /\ e \in Field /\ w \in Field /\ v \in Field
  BY <1>4, <1>5, <1>6, NonZeroField
<1>10. Times(Times(g, w), e) = 1
  <2>1. Times(Times(g, w), e) = Times(g, Times(w, e))
    BY <1>7, <1>9, FieldTimes
  <2>2. Times(w, e) = Times(e, w)
    BY <1>9, FieldTimes
  <2>3. Times(g, Times(e, w)) = Times(Times(g, e), w)
    BY <1>7, <1>9, FieldTimes
  <2>4. QED
    BY <1>4, <1>8, <2>1, <2>2, <2>3
<1>11. Times(v, e) = 1 /\ Times(g, w) \in Field
  BY <1>5, <1>7, <1>9, FieldTimes
<1>12. Times(g, w) = v
  BY <1>9, <1>10, <1>11, TimesCancel
<1>13. QED
  BY <1>1, <1>3, <1>12

\* The parts of a divided difference.
LEMMA PartsIn ==
    ASSUME NEW X, Distinct(X), NEW S, S \subseteq DOMAIN X, NEW m \in Nat
    PROVE  /\ IsFiniteSet(S)
           /\ \A i \in S : /\ Parts(X, m, S)[i] = Times(Power(X[i], m), Weight(X, S, i))
                           /\ Power(X[i], m) \in Field
                           /\ Weight(X, S, i) \in Field
                           /\ Parts(X, m, S)[i] \in Field
           /\ Divided(X, m, S) \in Field
<1>1. IsFiniteSet(S)
  BY FS_Subset DEF Distinct
<1>2. \A i \in S : Parts(X, m, S)[i] = Times(Power(X[i], m), Weight(X, S, i))
  BY DEF Parts
<1>3. \A i \in S : Power(X[i], m) \in Field
  BY PowerSteps DEF Distinct
<1>4. \A i \in S : Weight(X, S, i) \in Field
  <2>1. \A i \in S : Weight(X, S, i) \in NonZero
    BY WeightIs
  <2>2. QED
    BY <2>1, NonZeroField
<1>5. \A i \in S : Parts(X, m, S)[i] \in Field
  <2>1. \A k, l \in Field : Times(k, l) \in Field
    BY FieldTimes
  <2>2. QED
    BY <1>2, <1>3, <1>4, <2>1
<1>6. Divided(X, m, S) \in Field
  BY <1>1, <1>5, SumIn DEF Divided
<1>7. QED
  BY <1>1, <1>2, <1>3, <1>4, <1>5, <1>6

\* The next power, from this one and from the points without one of them.
LEMMA DividedStep ==
    ASSUME NEW X, Distinct(X), NEW S, S \subseteq DOMAIN X, NEW m \in Nat, NEW a \in S
    PROVE  Divided(X, m + 1, S) = Plus(Times(X[a], Divided(X, m, S)), Divided(X, m, S \ {a}))
<1>1. PICK n, V : n = m + 1 /\ V = S \ {a}
  OBVIOUS
<1>2. n \in Nat /\ V \subseteq DOMAIN X /\ V \subseteq S
  BY <1>1
<1>3. PICK f, g, h : f = Parts(X, n, S) /\ g = Parts(X, m, S) /\ h = Parts(X, m, V)
  OBVIOUS
<1>4. IsFiniteSet(S) /\ IsFiniteSet(V)
  BY <1>2, PartsIn
<1>5. \A i \in S : /\ f[i] = Times(Power(X[i], n), Weight(X, S, i)) /\ f[i] \in Field
                   /\ g[i] = Times(Power(X[i], m), Weight(X, S, i)) /\ g[i] \in Field
                   /\ Power(X[i], m) \in Field /\ Weight(X, S, i) \in Field
                   /\ X[i] \in Field
  <2>1. \A i \in S : f[i] = Times(Power(X[i], n), Weight(X, S, i)) /\ f[i] \in Field
    BY <1>2, <1>3, PartsIn
  <2>2. \A i \in S : /\ g[i] = Times(Power(X[i], m), Weight(X, S, i)) /\ g[i] \in Field
                     /\ Power(X[i], m) \in Field /\ Weight(X, S, i) \in Field
    BY <1>3, PartsIn
  <2>3. \A i \in S : X[i] \in Field
    BY DEF Distinct
  <2>4. QED
    BY <2>1, <2>2, <2>3
<1>6. \A i \in V : h[i] = Times(Power(X[i], m), Weight(X, V, i)) /\ h[i] \in Field
  BY <1>2, <1>3, PartsIn
<1> DEFINE u == [i \in S |-> IF i = a THEN 0 ELSE h[i]]
           v == [i \in S |-> Times(X[a], g[i])]
<1>7. \A i \in S : u[i] \in Field /\ v[i] \in Field /\ v[i] = Times(X[a], g[i])
  <2>1. \A i \in S : i # a => i \in V
    BY <1>1
  <2>2. \A i \in S : Times(X[a], g[i]) \in Field
    BY <1>5, FieldTimes
  <2>3. QED
    BY <1>6, <2>1, <2>2, FieldNumbers
<1>8. u[a] = 0 /\ \A i \in V : u[i] = h[i]
  BY <1>1
<1> HIDE DEF u, v
<1>9. ASSUME NEW i \in S PROVE f[i] = Plus(v[i], u[i])
  <2>1. PICK x, y, p, w : x = X[i] /\ y = X[a] /\ p = Power(X[i], m) /\ w = Weight(X, S, i)
    OBVIOUS
  <2>2. x \in Field /\ y \in Field /\ p \in Field /\ w \in Field
    BY <1>5, <2>1
  <2>3. PICK d : d = Minus(x, y)
    OBVIOUS
  <2>4. d \in Field /\ Plus(d, y) = x
    BY <2>2, <2>3, FieldMinus
  <2>5. Power(X[i], n) = Times(x, p)
    BY <1>1, <2>1, <2>2, PowerSteps
  <2>6. PICK t \in Field : t = Times(p, w)
    BY <2>2, FieldTimes
  <2>7. f[i] = Times(x, t)
    BY <1>5, <2>1, <2>2, <2>5, <2>6, FieldTimes
  <2>8. v[i] = Times(y, t)
    BY <1>5, <1>7, <2>1, <2>6
  <2>9. Times(x, t) = Plus(Times(y, t), Times(d, t))
    <3>1. Times(t, Plus(y, d)) = Plus(Times(t, y), Times(t, d))
      BY <2>2, <2>4, <2>6, FieldTimes
    <3>2. Plus(y, d) = x
      BY <2>2, <2>4, FieldPlus
    <3>3. Times(t, x) = Times(x, t) /\ Times(t, y) = Times(y, t) /\ Times(t, d) = Times(d, t)
      BY <2>2, <2>4, <2>6, FieldTimes
    <3>4. QED
      BY <3>1, <3>2, <3>3
  <2>10. u[i] = Times(d, t)
    <3>1. CASE i = a
      <4>1. d = 0
        BY <2>1, <2>2, <2>3, <3>1, FieldMinus
      <4>2. Times(0, t) = 0
        BY <2>6, FieldTimes
      <4>3. QED
        BY <1>8, <3>1, <4>1, <4>2
    <3>2. CASE i # a
      <4>1. Times(d, w) = Weight(X, V, i)
        BY <1>1, <2>1, <2>3, <3>2, WeightWithout
      <4>2. u[i] = Times(p, Times(d, w))
        BY <1>1, <1>6, <1>8, <2>1, <3>2, <4>1
      <4>3. Times(p, Times(d, w)) = Times(Times(p, d), w)
        BY <2>2, <2>4, FieldTimes
      <4>4. Times(p, d) = Times(d, p)
        BY <2>2, <2>4, FieldTimes
      <4>5. Times(d, Times(p, w)) = Times(Times(d, p), w)
        BY <2>2, <2>4, FieldTimes
      <4>6. QED
        BY <2>6, <4>2, <4>3, <4>4, <4>5
    <3>3. QED
      BY <3>1, <3>2
  <2>11. QED
    BY <2>7, <2>8, <2>9, <2>10
<1>10. SumOver(f, S) = Plus(SumOver(v, S), SumOver(u, S))
  BY <1>4, <1>7, <1>9, SumBoth
<1>11. SumOver(v, S) = Times(X[a], SumOver(g, S))
  BY <1>4, <1>5, <1>7, SumScaled
<1>12. SumOver(u, S) = SumOver(h, V)
  <2>1. SumOver(u, S) = Plus(u[a], SumOver(u, V))
    BY <1>1, <1>4, <1>7, SumTake
  <2>2. \A i \in V : u[i] \in Field
    BY <1>2, <1>7
  <2>3. SumOver(u, V) = SumOver(h, V) /\ SumOver(u, V) \in Field
    BY <1>4, <1>8, <2>2, SumSame, SumIn
  <2>4. QED
    BY <1>8, <2>1, <2>3, FieldPlus
<1>13. QED
  BY <1>1, <1>3, <1>10, <1>11, <1>12 DEF Divided

\* One point alone has the weight 1.
LEMMA DividedOne ==
    ASSUME NEW X, Distinct(X), NEW a \in DOMAIN X
    PROVE  Divided(X, 0, {a}) = 1
<1>1. PICK S : S = {a}
  OBVIOUS
<1>2. S \subseteq DOMAIN X /\ a \in S /\ S \ {a} = {}
  BY <1>1
<1>3. PICK f, w : f = Parts(X, 0, S) /\ w = Weight(X, S, a)
  OBVIOUS
<1>4. /\ IsFiniteSet(S) /\ w \in Field /\ f[a] \in Field
      /\ \A i \in S : f[i] \in Field
      /\ f[a] = Times(Power(X[a], 0), w)
  BY <1>2, <1>3, PartsIn
<1>5. Power(X[a], 0) = 1
  BY <1>2, PowerSteps DEF Distinct
<1>6. w = 1
  <2>1. Times(ProductOver(Gap(X, a), S \ {a}), w) = 1
    BY <1>2, <1>3, WeightIs
  <2>2. ProductOver(Gap(X, a), S \ {a}) = 1
    BY <1>2, ProductEmpty
  <2>3. QED
    BY <1>4, <2>1, <2>2, FieldTimes
<1>7. f[a] = 1
  BY <1>4, <1>5, <1>6, FieldTimes
<1>8. SumOver(f, S) = Plus(f[a], SumOver(f, S \ {a}))
  BY <1>2, <1>4, SumTake
<1>9. SumOver(f, S \ {a}) = 0
  BY <1>2, SumEmpty
<1>10. SumOver(f, S) = 1
  BY <1>4, <1>7, <1>8, <1>9, FieldPlus
<1>11. QED
  BY <1>1, <1>3, <1>10 DEF Divided

\* Two points or more have weights that add up to zero.
LEMMA DividedConstant ==
    ASSUME NEW X, Distinct(X)
    PROVE  \A S \in SUBSET DOMAIN X : \A a, b \in S : a # b => Divided(X, 0, S) = 0
<1> DEFINE B == {S \in SUBSET DOMAIN X : \A a, b \in S : a # b => Divided(X, 0, S) = 0}
<1>1. {} \in B
  OBVIOUS
<1>2. ASSUME NEW T \in SUBSET DOMAIN X, T # {}, \A x \in T : T \ {x} \in B
      PROVE  T \in B
  <2> SUFFICES ASSUME NEW a \in T, NEW b \in T, a # b PROVE Divided(X, 0, T) = 0
    OBVIOUS
  <2>1. PICK A, C : A = T \ {a} /\ C = T \ {b}
    OBVIOUS
  <2>2. A \subseteq DOMAIN X /\ C \subseteq DOMAIN X /\ b \in A /\ a \in C /\ A \in B /\ C \in B
    BY <1>2, <2>1
  <2>3. Divided(X, 0, A) = Divided(X, 0, C)
    <3>1. CASE \A c \in T : c = a \/ c = b
      <4>1. A = {b} /\ C = {a}
        BY <2>1, <2>2, <3>1
      <4>2. Divided(X, 0, {a}) = 1 /\ Divided(X, 0, {b}) = 1
        BY DividedOne
      <4>3. QED
        BY <4>1, <4>2
    <3>2. ASSUME NEW c \in T, c # a, c # b PROVE Divided(X, 0, A) = Divided(X, 0, C)
      <4>1. c \in A /\ c \in C
        BY <2>1, <3>2
      <4>2. QED
        BY <2>2, <3>2, <4>1
    <3>3. QED
      BY <3>1, <3>2
  <2>4. PICK d, e : d = Divided(X, 0, T) /\ e = Divided(X, 0, A)
    OBVIOUS
  <2>5. d \in Field /\ e \in Field
    <3>1. 0 \in Nat
      OBVIOUS
    <3>2. QED
      BY <2>2, <2>4, <3>1, PartsIn
  <2>6. Plus(Times(X[a], d), e) = Plus(Times(X[b], d), e)
    <3>0. 0 \in Nat
      OBVIOUS
    <3>1. Divided(X, 0 + 1, T) = Plus(Times(X[a], d), Divided(X, 0, A))
      BY <2>1, <2>4, <3>0, DividedStep
    <3>2. Divided(X, 0 + 1, T) = Plus(Times(X[b], d), Divided(X, 0, C))
      BY <2>1, <2>4, <3>0, DividedStep
    <3>3. QED
      BY <2>3, <2>4, <3>1, <3>2
  <2>7. X[a] \in Field /\ X[b] \in Field /\ X[a] # X[b]
    BY DEF Distinct
  <2>8. Times(X[a], d) = Times(X[b], d)
    <3>1. Times(X[a], d) \in Field /\ Times(X[b], d) \in Field
      BY <2>5, <2>7, FieldTimes
    <3>2. \A x, y, z \in Field : Plus(x, z) = Plus(y, z) => x = y
      BY FieldMinus
    <3>3. QED
      BY <2>5, <2>6, <3>1, <3>2
  <2>9. d = 0
    BY <2>5, <2>7, <2>8, TimesCancel
  <2>10. QED
    BY <2>4, <2>9
<1> HIDE DEF B
<1>3. SUBSET (DOMAIN X) \subseteq B
  BY <1>1, <1>2, SubsetInduction DEF Distinct
<1>4. QED
  BY <1>3 DEF B

\* A power is interpolated away by more points than its exponent and one.
LEMMA DividedPower ==
    ASSUME NEW X, Distinct(X)
    PROVE  \A m \in Nat : \A S \in SUBSET DOMAIN X :
              Cardinality(S) >= m + 2 => Divided(X, m, S) = 0
<1> DEFINE B == {m \in Nat : \A S \in SUBSET DOMAIN X :
                    Cardinality(S) >= m + 2 => Divided(X, m, S) = 0}
<1>0. \A S \in SUBSET DOMAIN X : IsFiniteSet(S) /\ Cardinality(S) \in Nat
  BY FS_Subset, FS_CardinalityType DEF Distinct
<1>1. 0 \in B
  <2> SUFFICES ASSUME NEW S \in SUBSET DOMAIN X, Cardinality(S) >= 0 + 2
               PROVE  Divided(X, 0, S) = 0
    OBVIOUS
  <2>1. Cardinality(S) # 0 /\ Cardinality(S) # 1
    BY <1>0
  <2>2. PICK a \in S : TRUE
    BY <1>0, <2>1, FS_EmptySet
  <2>3. S # {a}
    BY <2>1, FS_Singleton
  <2>4. PICK b \in S : a # b
    BY <2>2, <2>3
  <2>5. QED
    BY <2>2, <2>4, DividedConstant
<1>2. ASSUME NEW m \in Nat, m \in B PROVE m + 1 \in B
  <2> SUFFICES ASSUME NEW S \in SUBSET DOMAIN X, Cardinality(S) >= (m + 1) + 2
               PROVE  Divided(X, m + 1, S) = 0
    OBVIOUS
  <2>1. Cardinality(S) \in Nat /\ Cardinality(S) # 0
    BY <1>0
  <2>2. PICK a \in S : TRUE
    BY <1>0, <2>1, FS_EmptySet
  <2>3. PICK V : V = S \ {a}
    OBVIOUS
  <2>4. V \in SUBSET DOMAIN X /\ Cardinality(V) = Cardinality(S) - 1
    BY <1>0, <2>2, <2>3, FS_RemoveElement
  <2>5. Cardinality(S) >= m + 2 /\ Cardinality(V) >= m + 2
    BY <2>1, <2>4
  <2>6. Divided(X, m, S) = 0 /\ Divided(X, m, V) = 0
    BY <1>2, <2>4, <2>5
  <2>7. Divided(X, m + 1, S) = Plus(Times(X[a], Divided(X, m, S)), Divided(X, m, V))
    BY <2>2, <2>3, DividedStep
  <2>8. Times(X[a], 0) = 0 /\ Plus(0, 0) = 0
    <3>1. X[a] \in Field /\ 0 \in Field
      BY <2>2, FieldNumbers DEF Distinct
    <3>2. QED
      BY <3>1, FieldTimes, FieldPlus
  <2>9. QED
    BY <2>6, <2>7, <2>8
<1> HIDE DEF B
<1>3. Nat \subseteq B
  BY <1>1, <1>2, NumberInduction
<1>4. QED
  BY <1>3 DEF B

\* The shares' points, and the secret's at 0.
Points(shares) == [i \in 0..Len(shares) |-> IF i = 0 THEN 0 ELSE shares[i]]

\* Shares whose denominators are not zero have different indices, none of them 0.
LEMMA InvertsDistinct ==
    ASSUME NEW shares, Joinable(shares), Inverts(shares)
    PROVE  IsInjective(shares)
<1> SUFFICES ASSUME NEW i \in DOMAIN shares, NEW j \in DOMAIN shares,
                    shares[i] = shares[j], i # j
             PROVE  FALSE
  BY DEF IsInjective
<1>1. PICK f, S : f = Differences(shares, i) /\ S = DOMAIN shares \ {i}
  OBVIOUS
<1>2. IsFiniteSet(S) /\ j \in S
  BY <1>1, JoinableIs, FS_Subset
<1>3. \A a \in DOMAIN shares : shares[a] \in Field
  BY JoinableIs
<1>4. \A a \in S : f[a] = Minus(shares[i], shares[a]) /\ f[a] \in Field
  BY <1>1, <1>3, FieldMinus DEF Differences
<1>5. f[j] = 0
  <2>1. Minus(shares[i], shares[i]) = 0
    BY <1>3, FieldMinus
  <2>2. QED
    BY <1>2, <1>4, <2>1
<1>6. ProductOver(f, S) = 0
  BY <1>2, <1>4, <1>5, ProductZero
<1>7. denominator(shares, i) = 0
  BY <1>1, <1>6, DenominatorIs
<1>8. QED
  BY <1>7 DEF Inverts

\* The points of different shares and the point 0 of the secret are distinct.
LEMMA PointsDistinct ==
    ASSUME NEW shares, Joinable(shares), IsInjective(shares)
    PROVE  /\ Distinct(Points(shares))
           /\ DOMAIN Points(shares) = 0..Len(shares)
           /\ DOMAIN shares = (0..Len(shares)) \ {0}
           /\ Points(shares)[0] = 0
           /\ \A i \in DOMAIN shares : Points(shares)[i] = shares[i]
           /\ Cardinality(0..Len(shares)) = Len(shares) + 1
<1>1. Len(shares) \in Nat /\ DOMAIN shares = 1..Len(shares)
  BY JoinableIs
<1>2. \A n \in Nat : IsFiniteSet(0..n) /\ Cardinality(0..n) = n + 1
  <2>1. ASSUME NEW n \in Nat PROVE IsFiniteSet(0..n) /\ Cardinality(0..n) = n + 1
    <3>1. IsFiniteSet(0..n) /\ Cardinality(0..n) = IF 0 > n THEN 0 ELSE n - 0 + 1
      BY FS_Interval
    <3>2. QED
      BY <3>1
  <2>2. QED
    BY <2>1
<1>3. PICK X : X = Points(shares)
  OBVIOUS
<1>4. DOMAIN X = 0..Len(shares) /\ X[0] = 0 /\ \A i \in DOMAIN shares : X[i] = shares[i]
  BY <1>1, <1>3 DEF Points
<1>5. \A i \in 0..Len(shares) : i # 0 => i \in DOMAIN shares
  BY <1>1
<1>6. \A i \in DOMAIN shares : shares[i] \in Field /\ shares[i] # 0
  BY JoinableIs, NonZeroField
<1>7. \A i \in DOMAIN X : X[i] \in Field
  BY <1>4, <1>5, <1>6, FieldNumbers
<1>8. \A i, j \in DOMAIN X : X[i] = X[j] => i = j
  BY <1>4, <1>5, <1>6 DEF IsInjective
<1>9. IsFiniteSet(DOMAIN X)
  BY <1>1, <1>2, <1>4
<1>10. DOMAIN shares = (0..Len(shares)) \ {0}
  BY <1>1
<1>11. QED
  BY <1>1, <1>2, <1>3, <1>4, <1>7, <1>8, <1>9, <1>10 DEF Distinct

\* The products of reconstruct, and its L_i(0).
LEMMA CoefIs ==
    ASSUME NEW shares, Joinable(shares), Inverts(shares), NEW i \in DOMAIN shares
    PROVE  /\ numerator(shares, i) \in Field
           /\ denominator(shares, i) \in NonZero
           /\ lagrange_coef(shares, i) \in Field
<1>1. PICK S : S = DOMAIN shares \ {i}
  OBVIOUS
<1>2. IsFiniteSet(S) /\ S \subseteq DOMAIN shares
  BY <1>1, JoinableIs, FS_Subset
<1>3. \A a \in DOMAIN shares : shares[a] \in Field
  BY JoinableIs
<1>4. \A a \in S : /\ Negatives(shares)[a] \in Field
                   /\ Differences(shares, i)[a] \in Field
  BY <1>2, <1>3, FieldMinus DEF Negatives, Differences
<1>5. numerator(shares, i) \in Field
  BY <1>1, <1>2, <1>4, NumeratorIs, ProductIn
<1>6. denominator(shares, i) \in Field
  BY <1>1, <1>2, <1>4, DenominatorIs, ProductIn
<1>7. denominator(shares, i) \in NonZero
  BY <1>6, NonZeroField DEF Inverts
<1>8. gf_inv(denominator(shares, i)) \in Field
  BY <1>7, InverseIs, NonZeroField
<1>9. lagrange_coef(shares, i) \in Field
  BY <1>5, <1>8, FieldTimes DEF lagrange_coef
<1>10. QED
  BY <1>5, <1>7, <1>9

\* a * -b = -(a * b), so that the two cancel.
LEMMA TimesNegated ==
    ASSUME NEW a \in Field, NEW b \in Field, NEW c \in Field
    PROVE  Plus(Times(Times(Negated(a), b), c), Times(a, Times(c, b))) = 0
<1>1. PICK n \in Field : n = Negated(a) /\ Plus(n, a) = 0
  BY FieldMinus, FieldNumbers
<1>2. PICK t \in Field : t = Times(c, b)
  BY FieldTimes
<1>3. Times(Times(n, b), c) = Times(n, t)
  <2>1. Times(Times(n, b), c) = Times(n, Times(b, c)) /\ Times(b, c) = Times(c, b)
    BY FieldTimes
  <2>2. QED
    BY <1>2, <2>1
<1>4. Times(t, Plus(n, a)) = Plus(Times(t, n), Times(t, a))
  BY FieldTimes
<1>5. Times(t, n) = Times(n, t) /\ Times(t, a) = Times(a, t) /\ Times(t, 0) = 0
  BY FieldTimes
<1>6. QED
  BY <1>1, <1>2, <1>3, <1>4, <1>5

\* A sum of nothing but zeros.
LEMMA SumZero ==
    ASSUME NEW f, NEW S, IsFiniteSet(S), \A x \in S : f[x] = 0
    PROVE  SumOver(f, S) = 0
<1>1. 0 \in Field
  BY FieldNumbers
<1>2. Times(0, 0) = 0
  BY <1>1, FieldTimes
<1>3. \A x \in S : f[x] \in Field /\ f[x] = Times(0, f[x])
  BY <1>1, <1>2
<1>4. SumOver(f, S) = Times(0, SumOver(f, S)) /\ SumOver(f, S) \in Field
  BY <1>1, <1>3, SumScaled, SumIn
<1>5. QED
  BY <1>4, FieldTimes

\* Two factors that change places.
LEMMA Shuffle ==
    ASSUME NEW x \in Field, NEW w \in Field, NEW p \in Field, NEW n \in Field
    PROVE  Times(x, Times(Times(p, w), n)) = Times(Times(n, Times(x, w)), p)
<1>1. PICK s \in Field : s = Times(x, w)
  BY FieldTimes
<1>2. PICK t \in Field : t = Times(p, w)
  BY FieldTimes
<1>3. Times(x, Times(t, n)) = Times(Times(x, t), n)
  BY FieldTimes
<1>4. Times(x, t) = Times(s, p)
  <2>1. t = Times(w, p)
    BY <1>2, FieldTimes
  <2>2. Times(x, Times(w, p)) = Times(Times(x, w), p)
    BY FieldTimes
  <2>3. QED
    BY <1>1, <2>1, <2>2
<1>5. Times(Times(s, p), n) = Times(n, Times(s, p)) /\ Times(n, Times(s, p)) = Times(Times(n, s), p)
  <2>1. Times(s, p) \in Field
    BY FieldTimes
  <2>2. QED
    BY <2>1, FieldTimes
<1>6. QED
  BY <1>1, <1>2, <1>3, <1>4, <1>5

\* Against its weight among the shares and the secret's point, each L_i(0) cancels.
LEMMA CoefCancels ==
    ASSUME NEW shares, Joinable(shares), Inverts(shares), NEW m \in Nat, NEW i \in DOMAIN shares
    PROVE  Plus(Times(ProductOver(Negatives(shares), DOMAIN shares),
                      Parts(Points(shares), m, 0..Len(shares))[i]),
                Times(lagrange_coef(shares, i), Power(shares[i], m))) = 0
<1>1. PICK X, Z, K : X = Points(shares) /\ Z = 0..Len(shares) /\ K = DOMAIN shares
  OBVIOUS
<1>2. /\ Distinct(X) /\ DOMAIN X = Z /\ K = Z \ {0} /\ X[0] = 0 /\ 0 \in Z
      /\ \A j \in K : X[j] = shares[j]
  <2>1. IsInjective(shares)
    BY InvertsDistinct
  <2>2. 0 \in 0..Len(shares)
    BY JoinableIs
  <2>3. QED
    BY <1>1, <2>1, <2>2, PointsDistinct
<1>3. IsFiniteSet(K) /\ \A j \in K : shares[j] \in Field /\ shares[j] \in NonZero
  BY <1>1, JoinableIs
<1>4. i \in K /\ i \in Z /\ i # 0
  BY <1>1, <1>2
<1>5. PICK x, w, p, n : /\ x = shares[i] /\ w = Weight(X, Z, i)
                        /\ p = Power(shares[i], m) /\ n = numerator(shares, i)
  OBVIOUS
<1>6. x \in Field /\ w \in Field /\ p \in Field /\ n \in Field
  <2>1. w \in NonZero
    BY <1>2, <1>4, <1>5, WeightIs
  <2>2. n \in Field
    BY <1>5, CoefIs
  <2>3. x \in Field /\ p \in Field
    BY <1>3, <1>4, <1>5, PowerSteps
  <2>4. QED
    BY <2>1, <2>2, <2>3, NonZeroField
<1>7. ProductOver(Negatives(shares), K) = Times(Negated(x), n)
  <2>1. PICK f : f = Negatives(shares)
    OBVIOUS
  <2>2. \A j \in K : f[j] = Negated(shares[j]) /\ f[j] \in Field
    BY <1>1, <1>3, <2>1, FieldMinus DEF Negatives
  <2>3. ProductOver(f, K) = Times(f[i], ProductOver(f, K \ {i}))
    BY <1>3, <1>4, <2>2, ProductTake
  <2>4. n = ProductOver(f, K \ {i})
    BY <1>1, <1>5, <2>1, NumeratorIs
  <2>5. QED
    BY <1>4, <1>5, <2>1, <2>2, <2>3, <2>4
<1>8. Parts(X, m, Z)[i] = Times(p, w)
  <2>1. Z \subseteq DOMAIN X /\ X[i] = x
    BY <1>2, <1>4, <1>5
  <2>2. Parts(X, m, Z)[i] = Times(Power(X[i], m), Weight(X, Z, i))
    BY <1>2, <1>4, <2>1, PartsIn
  <2>3. QED
    BY <1>5, <2>1, <2>2
<1>9. lagrange_coef(shares, i) = Times(n, Times(x, w))
  <2>1. Times(Minus(X[i], X[0]), w) = Weight(X, K, i)
    BY <1>2, <1>4, <1>5, WeightWithout
  <2>2. Minus(x, 0) = x
    <3>1. 0 \in Field /\ Minus(x, 0) \in Field /\ Plus(Minus(x, 0), 0) = x
      BY <1>6, FieldMinus, FieldNumbers
    <3>2. QED
      BY <3>1, FieldPlus
  <2>3. Weight(X, K, i) = gf_inv(denominator(shares, i))
    <3>1. PICK f, g, S : f = Differences(shares, i) /\ g = Gap(X, i) /\ S = K \ {i}
      OBVIOUS
    <3>2. IsFiniteSet(S) /\ S \subseteq K
      BY <1>3, <3>1, FS_Subset
    <3>3. \A j \in S : f[j] = g[j] /\ f[j] \in Field
      <4>1. \A j \in S : f[j] = Minus(shares[i], shares[j])
        BY <1>1, <3>1, <3>2 DEF Differences
      <4>2. \A j \in S : g[j] = Minus(shares[i], shares[j])
        BY <1>2, <1>4, <3>1, <3>2 DEF Gap
      <4>3. \A j \in S : Minus(shares[i], shares[j]) \in Field
        BY <1>3, <1>4, <3>2, FieldMinus
      <4>4. QED
        BY <4>1, <4>2, <4>3
    <3>4. ProductOver(f, S) = ProductOver(g, S)
      BY <3>2, <3>3, ProductSame
    <3>5. denominator(shares, i) = ProductOver(f, S)
      BY <1>1, <3>1, DenominatorIs
    <3>6. QED
      BY <3>1, <3>4, <3>5 DEF Weight
  <2>4. X[i] = x
    BY <1>2, <1>4, <1>5
  <2>5. QED
    BY <1>2, <1>5, <2>1, <2>2, <2>3, <2>4 DEF lagrange_coef
<1>10. PICK c \in Field : c = Times(p, w)
  BY <1>6, FieldTimes
<1>11. Plus(Times(Times(Negated(x), n), c), Times(x, Times(c, n))) = 0
  BY <1>6, TimesNegated
<1>12. Times(x, Times(Times(p, w), n)) = Times(Times(n, Times(x, w)), p)
  BY <1>6, Shuffle
<1>13. QED
  BY <1>1, <1>5, <1>7, <1>8, <1>9, <1>10, <1>11, <1>12

\* Interpolated at 0, a power with more shares than its exponent is what it is at 0.
THEOREM Lagrange ==
    ASSUME NEW shares, Joinable(shares), Inverts(shares),
           NEW m \in Nat, Len(shares) >= m + 1
    PROVE  SumOver([i \in DOMAIN shares |-> Times(lagrange_coef(shares, i), Power(shares[i], m))],
                   DOMAIN shares) = Power(0, m)
<1>1. PICK X, Z, K : X = Points(shares) /\ Z = 0..Len(shares) /\ K = DOMAIN shares
  OBVIOUS
<1>2. /\ Distinct(X) /\ DOMAIN X = Z /\ K = Z \ {0} /\ X[0] = 0 /\ 0 \in Z
      /\ Cardinality(Z) = Len(shares) + 1
      /\ \A j \in K : X[j] = shares[j]
  <2>1. IsInjective(shares)
    BY InvertsDistinct
  <2>2. 0 \in 0..Len(shares)
    BY JoinableIs
  <2>3. QED
    BY <1>1, <2>1, <2>2, PointsDistinct
<1>3. IsFiniteSet(K) /\ Len(shares) \in Nat /\ \A j \in K : shares[j] \in Field
  BY <1>1, JoinableIs
<1>4. PICK g, h, N : /\ g = Parts(X, m, Z)
                     /\ h = [i \in K |-> Times(lagrange_coef(shares, i), Power(shares[i], m))]
                     /\ N = ProductOver(Negatives(shares), K)
  OBVIOUS
<1>5. SumOver(g, Z) = 0
  <2>1. Cardinality(Z) >= m + 2 /\ Z \in SUBSET DOMAIN X
    BY <1>2, <1>3
  <2>2. Divided(X, m, Z) = 0
    BY <1>2, <2>1, DividedPower
  <2>3. QED
    BY <1>4, <2>2 DEF Divided
<1>6. IsFiniteSet(Z) /\ \A i \in Z : g[i] \in Field
  BY <1>2, <1>4, PartsIn
<1>7. Plus(g[0], SumOver(g, K)) = 0
  <2>1. SumOver(g, Z) = Plus(g[0], SumOver(g, Z \ {0}))
    BY <1>2, <1>6, SumTake
  <2>2. QED
    BY <1>2, <1>5, <2>1
<1>8. N \in Field /\ N = ProductOver(Gap(X, 0), K)
  <2>1. PICK f, e : f = Negatives(shares) /\ e = Gap(X, 0)
    OBVIOUS
  <2>2. \A j \in K : f[j] = Negated(shares[j]) /\ f[j] \in Field
    BY <1>1, <1>3, <2>1, FieldMinus DEF Negatives
  <2>3. \A j \in K : e[j] = Minus(0, shares[j])
    BY <1>2, <2>1 DEF Gap
  <2>4. \A j \in K : f[j] = e[j]
    BY <1>3, <2>2, <2>3, FieldMinus
  <2>5. ProductOver(f, K) = ProductOver(e, K) /\ ProductOver(f, K) \in Field
    BY <1>3, <2>2, <2>4, ProductSame, ProductIn
  <2>6. QED
    BY <1>4, <2>1, <2>5
<1>9. Times(N, g[0]) = Power(0, m)
  <2>1. PICK w, p : w = Weight(X, Z, 0) /\ p = Power(0, m)
    OBVIOUS
  <2>2. w \in Field /\ p \in Field /\ g[0] = Times(p, w)
    BY <1>2, <1>4, <2>1, PartsIn
  <2>3. Times(N, w) = 1
    BY <1>2, <1>8, <2>1, WeightIs
  <2>4. Times(N, Times(p, w)) = Times(p, Times(N, w))
    <3>1. Times(N, Times(p, w)) = Times(Times(N, p), w) /\ Times(N, p) = Times(p, N)
          /\ Times(p, Times(N, w)) = Times(Times(p, N), w)
      BY <1>8, <2>2, FieldTimes
    <3>2. QED
      BY <3>1
  <2>5. QED
    BY <2>1, <2>2, <2>3, <2>4, FieldTimes
<1> DEFINE s == [i \in K |-> Times(N, g[i])]
           z == [i \in K |-> 0]
<1>10. \A i \in K : g[i] \in Field /\ s[i] = Times(N, g[i]) /\ s[i] \in Field /\ z[i] = 0
  BY <1>2, <1>6, <1>8, FieldTimes
<1> HIDE DEF s, z
<1>11. SumOver(s, K) = Times(N, SumOver(g, K)) /\ SumOver(g, K) \in Field /\ SumOver(s, K) \in Field
  BY <1>3, <1>8, <1>10, SumScaled, SumIn
<1>12. Plus(Power(0, m), SumOver(s, K)) = 0
  <2>1. g[0] \in Field
    BY <1>2, <1>6
  <2>2. Times(N, Plus(g[0], SumOver(g, K))) = Plus(Times(N, g[0]), Times(N, SumOver(g, K)))
    <3>1. \A k, l, n \in Field : Times(k, Plus(l, n)) = Plus(Times(k, l), Times(k, n))
      BY FieldTimes
    <3>2. QED
      BY <1>8, <1>11, <2>1, <3>1
  <2>3. Times(N, 0) = 0
    BY <1>8, FieldTimes
  <2>4. QED
    BY <1>7, <1>9, <1>11, <2>2, <2>3
<1>13. \A i \in K : h[i] = Times(lagrange_coef(shares, i), Power(shares[i], m)) /\ h[i] \in Field
  <2>1. \A i \in K : lagrange_coef(shares, i) \in Field
    BY <1>1, CoefIs
  <2>2. \A i \in K : Power(shares[i], m) \in Field
    BY <1>3, PowerSteps
  <2>3. QED
    BY <1>4, <2>1, <2>2, FieldTimes
<1>14. \A i \in K : z[i] = Plus(s[i], h[i])
  <2>1. ASSUME NEW i \in K PROVE z[i] = Plus(s[i], h[i])
    <3>1. Plus(Times(N, g[i]), Times(lagrange_coef(shares, i), Power(shares[i], m))) = 0
      BY <1>1, <1>4, CoefCancels
    <3>2. QED
      BY <1>10, <1>13, <3>1
  <2>2. QED
    BY <2>1
<1>15. SumOver(z, K) = Plus(SumOver(s, K), SumOver(h, K)) /\ SumOver(h, K) \in Field
  BY <1>3, <1>10, <1>13, <1>14, SumBoth, SumIn
<1>16. SumOver(z, K) = 0
  BY <1>3, <1>10, SumZero
<1>17. Power(0, m) \in Field
  BY PowerSteps, FieldNumbers
<1>18. Plus(SumOver(h, K), SumOver(s, K)) = Plus(Power(0, m), SumOver(s, K))
  <2>1. Plus(SumOver(s, K), SumOver(h, K)) = Plus(SumOver(h, K), SumOver(s, K))
    BY <1>11, <1>15, FieldPlus
  <2>2. QED
    BY <1>12, <1>15, <1>16, <2>1
<1>19. SumOver(h, K) = Power(0, m)
  <2>1. \A a, b, c \in Field : Plus(a, c) = Plus(b, c) => a = b
    BY FieldMinus
  <2>2. QED
    BY <1>11, <1>15, <1>17, <1>18, <2>1
<1>20. QED
  BY <1>1, <1>4, <1>19

-------------------------------------------------------------------------------
(***************************************************************************)
(* Polynomials: what evaluate computes                                     *)
(***************************************************************************)

Start == [y |-> 0, x_pow |-> 1]
Added(acc, c, x) == [y |-> Plus(acc.y, Times(c, acc.x_pow)), x_pow |-> Times(acc.x_pow, x)]

\* The fold that evaluate is, spelt out: it visits the indices in q from the greatest down.
Evaluates(coeffs, x, n, it) ==
    it = [q \in SUBSET (1..n) |->
             IF q = {} THEN Start ELSE Added(it[q \ {Max(q)}], coeffs[Max(q)], x)]

\* The loop itself, over the positions D of the coefficients.
EvaluateLoop(coeffs, x, D) ==
    CHOOSE h : h = [q \in SUBSET D |->
                       IF q = {} THEN Start ELSE Added(h[q \ {Max(q)}], coeffs[Max(q)], x)]

\* The greatest index of a stretch of the sequence that ends there.
LEMMA MaxTop ==
    ASSUME NEW n \in Nat, NEW q \in SUBSET (1..(n + 1)), n + 1 \in q
    PROVE  Max(q) = n + 1 /\ q \ {Max(q)} \in SUBSET (1..n)
<1>1. \A y \in q : n + 1 >= y
  OBVIOUS
<1>2. \A x \in q : (\A y \in q : x >= y) => x = n + 1
  OBVIOUS
<1>3. Max(q) = n + 1
  BY <1>1, <1>2 DEF Max
<1>4. QED
  BY <1>3

\* Such an evaluation exists for every length.
LEMMA EvaluatesExists ==
    ASSUME NEW coeffs, NEW x
    PROVE  \A n \in Nat : \E it : Evaluates(coeffs, x, n, it)
<1> DEFINE Bad == {n \in Nat : ~(\E it : Evaluates(coeffs, x, n, it))}
<1>1. \E it : Evaluates(coeffs, x, 0, it)
  <2> DEFINE it == [q \in SUBSET (1..0) |-> Start]
  <2>1. \A q \in SUBSET (1..0) : q = {}
    OBVIOUS
  <2>2. it = [q \in SUBSET (1..0) |->
                 IF q = {} THEN Start ELSE Added(it[q \ {Max(q)}], coeffs[Max(q)], x)]
    BY <2>1
  <2>3. QED
    BY <2>2 DEF Evaluates
<1>2. ASSUME NEW n \in Nat, NEW it, Evaluates(coeffs, x, n, it)
      PROVE  \E h : Evaluates(coeffs, x, n + 1, h)
  <2> DEFINE h == [q \in SUBSET (1..(n + 1)) |->
                      IF n + 1 \in q THEN Added(it[q \ {n + 1}], coeffs[n + 1], x) ELSE it[q]]
             Value(q) == IF q = {} THEN Start ELSE Added(h[q \ {Max(q)}], coeffs[Max(q)], x)
  <2>1. \A q \in SUBSET (1..n) : q \in SUBSET (1..(n + 1)) /\ n + 1 \notin q
    OBVIOUS
  <2>2. \A q \in SUBSET (1..n) : h[q] = it[q]
    BY <2>1
  <2>3. ASSUME NEW q \in SUBSET (1..(n + 1)), n + 1 \in q
        PROVE  h[q] = Value(q)
    <3>1. Max(q) = n + 1 /\ q \ {n + 1} \in SUBSET (1..n)
      BY <2>3, MaxTop
    <3>2. h[q] = Added(it[q \ {n + 1}], coeffs[n + 1], x)
      BY <2>3
    <3>3. h[q \ {n + 1}] = it[q \ {n + 1}]
      BY <2>2, <3>1
    <3> HIDE DEF h
    <3>4. QED
      BY <2>3, <3>1, <3>2, <3>3
  <2>4. ASSUME NEW q \in SUBSET (1..(n + 1)), n + 1 \notin q
        PROVE  h[q] = Value(q)
    <3>1. q \in SUBSET (1..n) /\ q \ {Max(q)} \in SUBSET (1..n)
      <4>1. \A j \in q : j \in 1..n
        BY <2>4
      <4>2. QED
        BY <4>1
    <3>2. it[q] = IF q = {} THEN Start ELSE Added(it[q \ {Max(q)}], coeffs[Max(q)], x)
      BY <1>2, <3>1 DEF Evaluates
    <3>3. h[q] = it[q] /\ h[q \ {Max(q)}] = it[q \ {Max(q)}]
      BY <2>2, <3>1
    <3> HIDE DEF h
    <3>4. QED
      BY <3>2, <3>3
  <2>5. h = [q \in SUBSET (1..(n + 1)) |-> Value(q)]
    <3>1. \A q \in SUBSET (1..(n + 1)) : h[q] = Value(q)
      BY <2>3, <2>4
    <3>2. h = [q \in SUBSET (1..(n + 1)) |-> h[q]]
      OBVIOUS
    <3> HIDE DEF h, Value
    <3>3. QED
      BY <3>1, <3>2
  <2>6. QED
    BY <2>5 DEF Evaluates
<1>3. Bad = {}
  <2> SUFFICES ASSUME Bad # {} PROVE FALSE
    OBVIOUS
  <2>1. PICK n \in Bad : \A m \in Bad : ~(m < n)
    BY LeastNumber
  <2>2. n # 0 /\ n \in Nat
    BY <1>1
  <2>3. n - 1 \in Nat /\ n - 1 < n /\ (n - 1) + 1 = n
    BY <2>2
  <2>4. n - 1 \notin Bad
    BY <2>1, <2>3
  <2>5. PICK it : Evaluates(coeffs, x, n - 1, it)
    BY <2>3, <2>4
  <2>6. \E h : Evaluates(coeffs, x, (n - 1) + 1, h)
    BY <1>2, <2>3, <2>5
  <2>7. QED
    BY <2>1, <2>3, <2>6
<1>4. QED
  BY <1>3

\* An accumulator that takes the first n coefficients in their order.
OneByOne(coeffs, x, n, it) ==
    /\ it[1..0] = Start
    /\ \A m \in 1..n : it[1..m] = Added(it[1..(m - 1)], coeffs[m], x)

\* The evaluation takes one coefficient after the other.
LEMMA EvaluatesStep ==
    ASSUME NEW coeffs, NEW x, NEW n \in Nat, NEW it, Evaluates(coeffs, x, n, it)
    PROVE  OneByOne(coeffs, x, n, it)
<1>1. it[1..0] = Start
  <2>1. 1..0 = {} /\ {} \in SUBSET (1..n)
    OBVIOUS
  <2>2. it[{}] = Start
    BY <2>1 DEF Evaluates
  <2>3. QED
    BY <2>1, <2>2
<1>2. ASSUME NEW m \in 1..n PROVE it[1..m] = Added(it[1..(m - 1)], coeffs[m], x)
  <2>1. m - 1 \in Nat /\ (m - 1) + 1 = m /\ m \in 1..m /\ 1..m \in SUBSET (1..n)
    OBVIOUS
  <2>2. Max(1..m) = m
    BY <2>1, MaxTop
  <2>3. (1..m) \ {m} = 1..(m - 1)
    BY <2>1
  <2>4. it[1..m] = IF 1..m = {} THEN Start
                   ELSE Added(it[(1..m) \ {Max(1..m)}], coeffs[Max(1..m)], x)
    BY <2>1 DEF Evaluates
  <2>5. QED
    BY <2>1, <2>2, <2>3, <2>4
<1>3. QED
  BY <1>1, <1>2 DEF OneByOne

PolyAt(c, x, n) == SumOver([j \in 1..n |-> Times(c[j], Power(x, j - 1))], 1..n)

\* The polynomial at a point of the field.
LEMMA PolyAtIn ==
    ASSUME NEW c, NEW x \in Field, NEW n \in Nat, \A j \in 1..n : c[j] \in Field
    PROVE  PolyAt(c, x, n) \in Field
<1>1. PICK f : f = [j \in 1..n |-> Times(c[j], Power(x, j - 1))]
  OBVIOUS
<1>2. \A j \in 1..n : j - 1 \in Nat
  OBVIOUS
<1>3. \A j \in 1..n : f[j] \in Field
  BY <1>1, <1>2, PowerSteps, FieldTimes
<1>4. IsFiniteSet(1..n)
  BY FS_Interval
<1>5. QED
  BY <1>1, <1>3, <1>4, SumIn DEF PolyAt

\* The polynomial with one more coefficient.
LEMMA PolyAtStep ==
    ASSUME NEW c, NEW x \in Field, NEW n \in Nat, \A j \in 1..(n + 1) : c[j] \in Field
    PROVE  /\ PolyAt(c, x, n) \in Field
           /\ PolyAt(c, x, n + 1) = Plus(PolyAt(c, x, n), Times(c[n + 1], Power(x, n)))
<1>1. PICK m : m = n + 1
  OBVIOUS
<1>2. /\ IsFiniteSet(1..m) /\ IsFiniteSet(1..n) /\ m \in 1..m /\ (1..m) \ {m} = 1..n
      /\ m - 1 = n /\ 1..n \subseteq 1..m
  BY <1>1, FS_Interval
<1>3. PICK f, g : /\ f = [j \in 1..m |-> Times(c[j], Power(x, j - 1))]
                  /\ g = [j \in 1..n |-> Times(c[j], Power(x, j - 1))]
  OBVIOUS
<1>4. \A j \in 1..m : f[j] = Times(c[j], Power(x, j - 1)) /\ f[j] \in Field
  <2>1. \A j \in 1..m : j - 1 \in Nat
    BY <1>1
  <2>2. \A j \in 1..m : c[j] \in Field /\ Power(x, j - 1) \in Field
    BY <1>1, <2>1, PowerSteps
  <2>3. QED
    BY <1>3, <2>2, FieldTimes
<1>5. \A j \in 1..n : f[j] = g[j] /\ f[j] \in Field
  BY <1>2, <1>3, <1>4
<1>6. SumOver(f, 1..n) = SumOver(g, 1..n) /\ SumOver(f, 1..n) \in Field
  BY <1>2, <1>5, SumSame, SumIn
<1>7. SumOver(f, 1..m) = Plus(f[m], SumOver(f, 1..n))
  <2>1. PICK S : S = 1..m
    OBVIOUS
  <2>2. IsFiniteSet(S) /\ m \in S /\ \A j \in S : f[j] \in Field
    BY <1>2, <1>4, <2>1
  <2>3. SumOver(f, S) = Plus(f[m], SumOver(f, S \ {m}))
    BY <2>2, SumTake
  <2>4. QED
    BY <1>2, <2>1, <2>3
<1>8. f[m] = Times(c[m], Power(x, n)) /\ f[m] \in Field
  BY <1>2, <1>4
<1>9. Plus(f[m], SumOver(f, 1..n)) = Plus(SumOver(f, 1..n), f[m])
  BY <1>6, <1>8, FieldPlus
<1>10. PolyAt(c, x, n) = SumOver(g, 1..n) /\ PolyAt(c, x, m) = SumOver(f, 1..m)
  BY <1>3 DEF PolyAt
<1>11. QED
  BY <1>1, <1>6, <1>7, <1>8, <1>9, <1>10

\* Without coefficients evaluate stays at 0.
LEMMA PolyAtNone == ASSUME NEW c, NEW x PROVE PolyAt(c, x, 0) = 0
<1>1. 1..0 = {}
  OBVIOUS
<1>2. QED
  BY <1>1, SumEmpty DEF PolyAt

\* evaluate computes the polynomial (split, shamir.rs:84-96).
LEMMA EvaluateIs ==
    ASSUME NEW coeffs \in Seq(Field), NEW x \in Field
    PROVE  evaluate(coeffs, x) = PolyAt(coeffs, x, Len(coeffs))
<1>1. PICK n : n = Len(coeffs)
  OBVIOUS
<1>2. n \in Nat /\ DOMAIN coeffs = 1..n /\ \A j \in 1..n : coeffs[j] \in Field
  BY <1>1
<1>3. PICK it : it = CHOOSE h : Evaluates(coeffs, x, n, h)
  OBVIOUS
<1>4. Evaluates(coeffs, x, n, it)
  BY <1>2, <1>3, EvaluatesExists
<1>5. evaluate(coeffs, x) = it[1..n].y
  <2>1. evaluate(coeffs, x) = EvaluateLoop(coeffs, x, DOMAIN coeffs)[DOMAIN coeffs].y
    BY DEF evaluate, FoldLeft, MapThenFoldSet, EvaluateLoop, Start, Added
  <2>2. PICK D : D = 1..n
    OBVIOUS
  <2>3. evaluate(coeffs, x) = EvaluateLoop(coeffs, x, D)[D].y
    BY <1>2, <2>1, <2>2
  <2>4. EvaluateLoop(coeffs, x, 1..n) = it
    BY <1>3 DEF EvaluateLoop, Evaluates
  <2>5. QED
    BY <2>2, <2>3, <2>4
<1>6. it[1..0] = Start /\ \A m \in 1..n : it[1..m] = Added(it[1..(m - 1)], coeffs[m], x)
  <2>1. OneByOne(coeffs, x, n, it)
    BY <1>2, <1>4, EvaluatesStep, Zenon
  <2>2. QED
    BY <2>1 DEF OneByOne
<1> DEFINE Holds(m) == it[1..m] = [y |-> PolyAt(coeffs, x, m), x_pow |-> Power(x, m)]
           B == {m \in Nat : m <= n => Holds(m)}
<1>7. 0 \in B
  <2>1. PolyAt(coeffs, x, 0) = 0 /\ Power(x, 0) = 1
    BY PolyAtNone, PowerSteps
  <2>2. QED
    BY <1>6, <2>1 DEF Start
<1>8. ASSUME NEW m \in Nat, m \in B PROVE m + 1 \in B
  <2> SUFFICES ASSUME m + 1 <= n PROVE Holds(m + 1)
    OBVIOUS
  <2>1. m <= n /\ m + 1 \in 1..n /\ (m + 1) - 1 = m
    BY <1>2
  <2>2. PICK k : k = m + 1
    OBVIOUS
  <2>3. it[1..k] = Added(it[1..m], coeffs[k], x)
    BY <1>6, <2>1, <2>2
  <2>4. it[1..m] = [y |-> PolyAt(coeffs, x, m), x_pow |-> Power(x, m)]
    BY <1>8, <2>1
  <2>5. it[1..k] = [y |-> Plus(PolyAt(coeffs, x, m), Times(coeffs[k], Power(x, m))),
                    x_pow |-> Times(Power(x, m), x)]
    BY <2>3, <2>4 DEF Added
  <2>6. PolyAt(coeffs, x, m + 1) = Plus(PolyAt(coeffs, x, m), Times(coeffs[m + 1], Power(x, m)))
    <3>1. \A j \in 1..(m + 1) : coeffs[j] \in Field
      BY <1>2, <2>1
    <3>2. QED
      BY <3>1, PolyAtStep
  <2>7. Power(x, m + 1) = Times(Power(x, m), x)
    BY PowerSteps, FieldTimes
  <2>8. QED
    BY <2>2, <2>5, <2>6, <2>7
<1> HIDE DEF B
<1>9. Nat \subseteq B
  BY <1>7, <1>8, NumberInduction
<1>10. Holds(n)
  BY <1>2, <1>9 DEF B
<1>11. QED
  BY <1>1, <1>5, <1>10

-------------------------------------------------------------------------------
(***************************************************************************)
(* Recovery: what shamir-join prints                                       *)
(***************************************************************************)

\* The loop of reconstruct over the shares (shamir.rs:122-146).
LEMMA ReconstructIs ==
    ASSUME NEW shares, Joinable(shares), Inverts(shares), NEW data,
           \A i \in DOMAIN shares : data[shares[i]] \in Field
    PROVE  reconstruct(shares, data) =
           SumOver([i \in DOMAIN shares |-> Times(lagrange_coef(shares, i), data[shares[i]])],
                   DOMAIN shares)
<1>1. PICK f, S : /\ f = [i \in DOMAIN shares |-> Times(lagrange_coef(shares, i), data[shares[i]])]
                  /\ S = DOMAIN shares
  OBVIOUS
<1>2. IsFiniteSet(S)
  BY <1>1, JoinableIs
<1>3. \A j \in S : f[j] = Times(lagrange_coef(shares, j), data[shares[j]]) /\ f[j] \in Field
  <2>1. \A j \in S : lagrange_coef(shares, j) \in Field
    BY <1>1, CoefIs
  <2>2. QED
    BY <1>1, <2>1, FieldTimes
<1> DEFINE Loop(it) ==
        it = [q \in SUBSET S |->
                 IF q = {} THEN 0
                 ELSE LET j == CHOOSE i \in q : TRUE
                      IN  Plus(Times(lagrange_coef(shares, j), data[shares[j]]), it[q \ {j}])]
<1>4. \A it : Loop(it) <=> Adds(f, S, it)
  <2>1. ASSUME NEW it PROVE Loop(it) <=> Adds(f, S, it)
    <3>1. \A q \in SUBSET S : q # {} => (CHOOSE j \in q : TRUE) \in S
      OBVIOUS
    <3>2. \A q \in SUBSET S :
             (IF q = {} THEN 0
              ELSE LET j == CHOOSE i \in q : TRUE
                   IN  Plus(Times(lagrange_coef(shares, j), data[shares[j]]), it[q \ {j}]))
             = (IF q = {} THEN 0
                ELSE Plus(f[CHOOSE j \in q : TRUE], it[q \ {CHOOSE j \in q : TRUE}]))
      BY <1>3, <3>1
    <3>3. QED
      BY <3>2 DEF Adds
  <2>2. QED
    BY <2>1
<1>5. reconstruct(shares, data) = (CHOOSE it : Loop(it))[S]
  BY <1>1 DEF reconstruct, MapThenFoldSet
<1> HIDE DEF Loop
<1>6. (\E it : Adds(f, S, it)) /\ \A it : Adds(f, S, it) => it[S] = SumOver(f, S)
  BY <1>2, <1>3, AddsIs
<1>7. Loop(CHOOSE it : Loop(it))
  BY <1>4, <1>6
<1>8. QED
  BY <1>1, <1>4, <1>5, <1>6, <1>7

\* The part of the coefficients up to n in what reconstruct adds up.
Interpolated(shares, c, n) ==
    SumOver([i \in DOMAIN shares |-> Times(lagrange_coef(shares, i), PolyAt(c, shares[i], n))],
            DOMAIN shares)

\* Interpolation at 0 forgets every coefficient but the first.
LEMMA InterpolatedStep ==
    ASSUME NEW shares, Joinable(shares), Inverts(shares), NEW n \in Nat, Len(shares) >= n + 1,
           NEW c, \A j \in 1..(n + 1) : c[j] \in Field
    PROVE  /\ Interpolated(shares, c, n) \in Field
           /\ Interpolated(shares, c, n + 1)
              = Plus(Interpolated(shares, c, n), Times(c[n + 1], Power(0, n)))
<1>1. PICK K, m, a : K = DOMAIN shares /\ m = n + 1 /\ a = c[n + 1]
  OBVIOUS
<1>2. IsFiniteSet(K) /\ (\A i \in K : shares[i] \in Field) /\ a \in Field
  BY <1>1, JoinableIs
<1> DEFINE f == [i \in K |-> Times(lagrange_coef(shares, i), PolyAt(c, shares[i], n))]
           h == [i \in K |-> Times(lagrange_coef(shares, i), PolyAt(c, shares[i], m))]
           w == [i \in K |-> Times(lagrange_coef(shares, i), Power(shares[i], n))]
           g == [i \in K |-> Times(a, w[i])]
<1>3. /\ SumOver(f, K) = Interpolated(shares, c, n)
      /\ SumOver(h, K) = Interpolated(shares, c, m)
      /\ SumOver(w, K) = Power(0, n)
  <2>1. SumOver(w, K) = Power(0, n)
    BY <1>1, Lagrange
  <2>2. QED
    BY <1>1, <2>1 DEF Interpolated
<1>4. ASSUME NEW i \in K
      PROVE  /\ f[i] \in Field /\ w[i] \in Field /\ g[i] = Times(a, w[i]) /\ g[i] \in Field
             /\ h[i] = Plus(f[i], g[i])
  <2>1. PICK L, x, p, q : /\ L = lagrange_coef(shares, i) /\ x = shares[i]
                          /\ p = PolyAt(c, x, n) /\ q = Power(x, n)
    OBVIOUS
  <2>2. L \in Field /\ x \in Field
    BY <1>1, <1>2, <2>1, CoefIs
  <2>3. p \in Field /\ PolyAt(c, x, m) = Plus(p, Times(a, q))
    BY <1>1, <2>1, <2>2, PolyAtStep
  <2>4. q \in Field
    BY <2>1, <2>2, PowerSteps
  <2>5. Times(a, q) \in Field
    BY <1>2, <2>4, FieldTimes
  <2>6. Times(L, Plus(p, Times(a, q))) = Plus(Times(L, p), Times(L, Times(a, q)))
    BY <2>2, <2>3, <2>5, FieldTimes
  <2>7. Times(L, Times(a, q)) = Times(a, Times(L, q))
    <3>1. Times(L, Times(a, q)) = Times(Times(L, a), q) /\ Times(L, a) = Times(a, L)
          /\ Times(a, Times(L, q)) = Times(Times(a, L), q)
      BY <1>2, <2>2, <2>4, FieldTimes
    <3>2. QED
      BY <3>1
  <2>8. f[i] = Times(L, p) /\ w[i] = Times(L, q) /\ h[i] = Times(L, PolyAt(c, x, m))
        /\ g[i] = Times(a, w[i])
    BY <2>1
  <2> HIDE DEF f, g, h, w
  <2>9. Times(L, p) \in Field /\ Times(L, q) \in Field
    BY <2>2, <2>3, <2>4, FieldTimes
  <2>10. Times(a, w[i]) \in Field
    BY <1>2, <2>8, <2>9, FieldTimes
  <2>11. QED
    BY <2>3, <2>6, <2>7, <2>8, <2>9, <2>10
<1> HIDE DEF f, g, h, w
<1>5. SumOver(h, K) = Plus(SumOver(f, K), SumOver(g, K)) /\ SumOver(f, K) \in Field
  BY <1>2, <1>4, SumBoth, SumIn
<1>6. SumOver(g, K) = Times(a, SumOver(w, K))
  BY <1>2, <1>4, SumScaled
<1>7. QED
  BY <1>1, <1>3, <1>5, <1>6

\* At least as many different shares as there are coefficients give the first of them,
\* which is the secret (reconstruct, shamir.rs:108-150).
THEOREM Recovery ==
    ASSUME NEW shares, Joinable(shares), Inverts(shares),
           NEW coeffs \in Seq(Field), Len(coeffs) >= 1, Len(shares) >= Len(coeffs),
           NEW data, \A i \in DOMAIN shares : data[shares[i]] = evaluate(coeffs, shares[i])
    PROVE  reconstruct(shares, data) = coeffs[1]
<1>1. PICK t, K : t = Len(coeffs) /\ K = DOMAIN shares
  OBVIOUS
<1>2. t \in Nat /\ Len(shares) \in Nat /\ \A j \in 1..t : coeffs[j] \in Field
  BY <1>1, JoinableIs
<1>3. IsFiniteSet(K) /\ \A i \in K : shares[i] \in Field
  BY <1>1, JoinableIs
<1>4. \A i \in K : data[shares[i]] = PolyAt(coeffs, shares[i], t)
  BY <1>1, <1>3, EvaluateIs
<1>5. \A i \in K : PolyAt(coeffs, shares[i], t) \in Field
  BY <1>2, <1>3, PolyAtIn
<1>6. reconstruct(shares, data) = Interpolated(shares, coeffs, t)
  <2>1. reconstruct(shares, data)
        = SumOver([i \in K |-> Times(lagrange_coef(shares, i), data[shares[i]])], K)
    BY <1>1, <1>4, <1>5, ReconstructIs
  <2>2. [i \in K |-> Times(lagrange_coef(shares, i), data[shares[i]])]
        = [i \in K |-> Times(lagrange_coef(shares, i), PolyAt(coeffs, shares[i], t))]
    BY <1>4
  <2>3. QED
    BY <1>1, <2>1, <2>2 DEF Interpolated
<1> DEFINE Told(n) == Interpolated(shares, coeffs, n + 1) = coeffs[1]
           B == {n \in Nat : n + 1 <= t => Told(n)}
<1>7. 0 \in B
  <2>1. /\ Interpolated(shares, coeffs, 0) \in Field
        /\ Interpolated(shares, coeffs, 0 + 1)
           = Plus(Interpolated(shares, coeffs, 0), Times(coeffs[0 + 1], Power(0, 0)))
    <3>1. 0 \in Nat /\ Len(shares) >= 0 + 1 /\ \A j \in 1..(0 + 1) : coeffs[j] \in Field
      BY <1>1, <1>2
    <3>2. QED
      BY <3>1, InterpolatedStep
  <2>2. Interpolated(shares, coeffs, 0) = 0
    <3>1. PICK z : z = [i \in K |-> Times(lagrange_coef(shares, i), PolyAt(coeffs, shares[i], 0))]
      OBVIOUS
    <3>2. \A i \in K : z[i] = 0
      <4>1. \A i \in K : lagrange_coef(shares, i) \in Field /\ PolyAt(coeffs, shares[i], 0) = 0
        BY <1>1, CoefIs, PolyAtNone
      <4>2. QED
        BY <3>1, <4>1, FieldTimes
    <3>3. SumOver(z, K) = 0
      BY <1>3, <3>2, SumZero
    <3>4. QED
      BY <1>1, <3>1, <3>3 DEF Interpolated
  <2>3. Power(0, 0) = 1 /\ coeffs[1] \in Field /\ 0 + 1 = 1
    BY <1>1, <1>2, FieldNumbers, PowerSteps
  <2>4. Plus(0, Times(coeffs[1], 1)) = coeffs[1]
    BY <2>3, FieldTimes, FieldPlus
  <2>5. Told(0)
    BY <2>1, <2>2, <2>3, <2>4
  <2> HIDE DEF Told
  <2>6. QED
    BY <2>5
<1>8. ASSUME NEW n \in Nat, n \in B PROVE n + 1 \in B
  <2> SUFFICES ASSUME (n + 1) + 1 <= t PROVE Told(n + 1)
    OBVIOUS
  <2>1. PICK m \in Nat : m = n + 1
    OBVIOUS
  <2>2. Interpolated(shares, coeffs, m) = coeffs[1]
    BY <1>2, <1>8, <2>1
  <2>3. /\ Interpolated(shares, coeffs, m) \in Field
        /\ Interpolated(shares, coeffs, m + 1)
           = Plus(Interpolated(shares, coeffs, m), Times(coeffs[m + 1], Power(0, m)))
    <3>1. Len(shares) >= m + 1 /\ \A j \in 1..(m + 1) : coeffs[j] \in Field
      BY <1>1, <1>2, <2>1
    <3>2. QED
      BY <3>1, InterpolatedStep
  <2>4. Power(0, m) = 0
    <3>1. 0 \in Field
      BY FieldNumbers
    <3>2. Power(0, n + 1) = Times(0, Power(0, n)) /\ Power(0, n) \in Field
      BY <3>1, PowerSteps
    <3>3. QED
      BY <2>1, <3>2, FieldTimes
  <2>5. coeffs[m + 1] \in Field
    BY <1>2, <2>1
  <2>6. Plus(coeffs[1], Times(coeffs[m + 1], 0)) = coeffs[1]
    BY <2>2, <2>3, <2>5, FieldTimes, FieldPlus
  <2>7. QED
    BY <2>1, <2>2, <2>3, <2>4, <2>6
<1> HIDE DEF B, Told
<1>9. Nat \subseteq B
  BY <1>7, <1>8, NumberInduction
<1>10. t - 1 \in Nat /\ (t - 1) + 1 = t
  BY <1>1, <1>2
<1>11. Told(t - 1)
  BY <1>9, <1>10 DEF B
<1>12. QED
  BY <1>6, <1>10, <1>11 DEF Told

-------------------------------------------------------------------------------
(***************************************************************************)
(* Secrecy: what fewer shares leave possible                               *)
(***************************************************************************)

\* A number that cancels against 1 when a is multiplied by it.
LEMMA Cancels ==
    ASSUME NEW a \in NonZero
    PROVE  \E c \in Field : Plus(1, Times(c, a)) = 0
<1>1. PICK b, n : b = gf_inv(a) /\ n = Negated(1)
  OBVIOUS
<1>2. a \in Field /\ b \in Field /\ Times(a, b) = 1 /\ 1 \in Field
  BY <1>1, InverseIs, NonZeroField, FieldNumbers
<1>3. n \in Field /\ Plus(n, 1) = 0
  <2>1. n \in Field /\ n = Minus(0, 1)
    BY <1>1, <1>2, FieldMinus
  <2>2. 0 \in Field /\ \A x, y \in Field : Plus(Minus(x, y), y) = x
    BY FieldNumbers, FieldMinus
  <2>3. QED
    BY <1>2, <2>1, <2>2
<1>4. PICK c \in Field : c = Times(n, b)
  BY <1>2, <1>3, FieldTimes
<1>5. Times(c, a) = n
  <2>1. Times(n, Times(b, a)) = Times(Times(n, b), a) /\ Times(b, a) = Times(a, b)
        /\ Times(n, 1) = n
    BY <1>2, <1>3, FieldTimes
  <2>2. QED
    BY <1>2, <1>4, <2>1
<1>6. Plus(1, n) = Plus(n, 1)
  BY <1>2, <1>3, FieldPlus
<1>7. QED
  BY <1>3, <1>4, <1>5, <1>6

Regroups(A, B, c, u, w, x, q) ==
    Plus(Plus(A, Times(Times(c, x), B)), Times(Plus(u, Times(c, w)), Times(x, q)))
    = Plus(Plus(A, Times(u, Times(x, q))), Times(Times(c, x), Plus(B, Times(w, q))))

\* Terms put in the order that a product of polynomials needs.
LEMMA Regroup ==
    ASSUME NEW A \in Field, NEW B \in Field, NEW c \in Field, NEW u \in Field, NEW w \in Field,
           NEW x \in Field, NEW q \in Field
    PROVE  Regroups(A, B, c, u, w, x, q)
<1>1. PICK e, y, z : e = Times(c, x) /\ y = Times(x, q) /\ z = Times(w, q)
  OBVIOUS
<1>2. e \in Field /\ y \in Field /\ z \in Field /\ Times(c, w) \in Field
  BY <1>1, FieldTimes
<1>3. Times(Times(c, w), y) = Times(e, z)
  <2>1. Times(Times(c, w), y) = Times(c, Times(w, y))
    BY <1>2, FieldTimes
  <2>2. Times(w, y) = Times(x, z)
    <3>1. Times(w, Times(x, q)) = Times(Times(w, x), q) /\ Times(w, x) = Times(x, w)
          /\ Times(x, Times(w, q)) = Times(Times(x, w), q)
      BY FieldTimes
    <3>2. QED
      BY <1>1, <3>1
  <2>3. Times(c, Times(x, z)) = Times(Times(c, x), z)
    BY <1>2, FieldTimes
  <2>4. QED
    BY <1>1, <2>1, <2>2, <2>3
<1>4. PICK eB, uy, ez : eB = Times(e, B) /\ uy = Times(u, y) /\ ez = Times(e, z)
  OBVIOUS
<1>5. eB \in Field /\ uy \in Field /\ ez \in Field
  BY <1>2, <1>4, FieldTimes
<1>6. Times(Plus(u, Times(c, w)), y) = Plus(uy, ez)
  <2>1. Plus(u, Times(c, w)) \in Field
    BY <1>2, FieldPlus
  <2>2. Times(Plus(u, Times(c, w)), y) = Times(y, Plus(u, Times(c, w)))
    BY <1>2, <2>1, FieldTimes
  <2>3. Times(y, Plus(u, Times(c, w))) = Plus(Times(y, u), Times(y, Times(c, w)))
    BY <1>2, FieldTimes
  <2>4. Times(y, u) = uy /\ Times(y, Times(c, w)) = Times(Times(c, w), y)
    BY <1>2, <1>4, FieldTimes
  <2>5. QED
    BY <1>3, <1>4, <2>2, <2>3, <2>4
<1>7. Times(e, Plus(B, z)) = Plus(eB, ez)
  BY <1>2, <1>4, FieldTimes
<1>8. Plus(Plus(A, eB), Plus(uy, ez)) = Plus(Plus(A, uy), Plus(eB, ez))
  <2>1. Plus(A, eB) \in Field /\ Plus(A, uy) \in Field /\ Plus(eB, uy) \in Field
    BY <1>5, FieldPlus
  <2>2. Plus(Plus(A, eB), Plus(uy, ez)) = Plus(Plus(Plus(A, eB), uy), ez)
    BY <1>5, <2>1, FieldPlus
  <2>3. Plus(Plus(A, uy), Plus(eB, ez)) = Plus(Plus(Plus(A, uy), eB), ez)
    BY <1>5, <2>1, FieldPlus
  <2>4. Plus(Plus(A, eB), uy) = Plus(A, Plus(eB, uy)) /\ Plus(eB, uy) = Plus(uy, eB)
        /\ Plus(A, Plus(uy, eB)) = Plus(Plus(A, uy), eB)
    BY <1>5, FieldPlus
  <2>5. QED
    BY <2>2, <2>3, <2>4
<1>9. QED
  BY <1>1, <1>4, <1>6, <1>7, <1>8 DEF Regroups

\* The coefficients of a polynomial times 1 + c * x.
Factored(v, c) == [j \in Nat |-> IF j = 0 THEN 0 ELSE Plus(v[j], Times(c, v[j - 1]))]

\* Its values are those of the product.
LEMMA FactoredAt ==
    ASSUME NEW v \in [Nat -> Field], v[0] = 0, NEW c \in Field, NEW x \in Field
    PROVE  /\ Factored(v, c) \in [Nat -> Field]
           /\ \A n \in Nat : PolyAt(Factored(v, c), x, n + 1)
                             = Plus(PolyAt(v, x, n + 1), Times(Times(c, x), PolyAt(v, x, n)))
<1>1. PICK w : w = Factored(v, c)
  OBVIOUS
<1>2. \A j \in Nat : w[j + 1] = Plus(v[j + 1], Times(c, v[j]))
  <2>1. ASSUME NEW j \in Nat PROVE w[j + 1] = Plus(v[j + 1], Times(c, v[j]))
    <3>1. j + 1 \in Nat /\ j + 1 # 0 /\ (j + 1) - 1 = j
      OBVIOUS
    <3>2. w[j + 1] = Plus(v[j + 1], Times(c, v[(j + 1) - 1]))
      BY <1>1, <3>1 DEF Factored
    <3>3. QED
      BY <3>1, <3>2
  <2>2. QED
    BY <2>1
<1>3. w \in [Nat -> Field]
  <2>1. \A j \in Nat : j # 0 => j - 1 \in Nat
    OBVIOUS
  <2>2. \A j \in Nat : j # 0 => Plus(v[j], Times(c, v[j - 1])) \in Field
    BY <2>1, FieldPlus, FieldTimes
  <2>3. 0 \in Field
    BY FieldNumbers
  <2>4. QED
    BY <1>1, <2>2, <2>3 DEF Factored
<1>4. \A n \in Nat : /\ PolyAt(v, x, n) \in Field
                     /\ PolyAt(v, x, n + 1) = Plus(PolyAt(v, x, n), Times(v[n + 1], Power(x, n)))
                     /\ PolyAt(w, x, n + 1) = Plus(PolyAt(w, x, n), Times(w[n + 1], Power(x, n)))
  <2>1. ASSUME NEW n \in Nat
        PROVE  /\ PolyAt(v, x, n) \in Field
               /\ PolyAt(v, x, n + 1) = Plus(PolyAt(v, x, n), Times(v[n + 1], Power(x, n)))
               /\ PolyAt(w, x, n + 1) = Plus(PolyAt(w, x, n), Times(w[n + 1], Power(x, n)))
    <3>1. (\A j \in 1..(n + 1) : v[j] \in Field) /\ (\A j \in 1..(n + 1) : w[j] \in Field)
      BY <1>3
    <3>2. QED
      BY <3>1, PolyAtStep
  <2>2. QED
    BY <2>1
<1> DEFINE Holds(n) == PolyAt(w, x, n + 1)
                       = Plus(PolyAt(v, x, n + 1), Times(Times(c, x), PolyAt(v, x, n)))
           B == {n \in Nat : Holds(n)}
<1>5. 0 \in B
  <2>1. /\ PolyAt(v, x, 0) = 0 /\ PolyAt(w, x, 0) = 0
        /\ PolyAt(v, x, 0 + 1) = Plus(PolyAt(v, x, 0), Times(v[0 + 1], Power(x, 0)))
        /\ PolyAt(w, x, 0 + 1) = Plus(PolyAt(w, x, 0), Times(w[0 + 1], Power(x, 0)))
        /\ w[0 + 1] = Plus(v[0 + 1], Times(c, v[0]))
    <3>1. 0 \in Nat
      OBVIOUS
    <3>2. QED
      BY <1>2, <1>4, <3>1, PolyAtNone
  <2>2. Power(x, 0) = 1 /\ Times(c, 0) = 0 /\ Times(c, x) \in Field /\ Times(Times(c, x), 0) = 0
    BY PowerSteps, FieldTimes
  <2>3. v[0 + 1] \in Field /\ Plus(v[0 + 1], 0) = v[0 + 1] /\ Times(v[0 + 1], 1) = v[0 + 1]
        /\ Plus(0, v[0 + 1]) = v[0 + 1]
    <3>1. v[0 + 1] \in Field
      OBVIOUS
    <3>2. QED
      BY <3>1, FieldPlus, FieldTimes
  <2>4. Holds(0)
    BY <2>1, <2>2, <2>3
  <2>5. QED
    BY <2>4
<1>6. ASSUME NEW n \in Nat, n \in B PROVE n + 1 \in B
  <2>1. PICK m \in Nat : m = n + 1
    OBVIOUS
  <2>2. PolyAt(w, x, m) = Plus(PolyAt(v, x, m), Times(Times(c, x), PolyAt(v, x, n)))
    BY <1>6, <2>1
  <2>3. PolyAt(w, x, m + 1) = Plus(PolyAt(w, x, m), Times(w[m + 1], Power(x, m)))
    BY <1>4, <2>1
  <2>4. PolyAt(v, x, m + 1) = Plus(PolyAt(v, x, m), Times(v[m + 1], Power(x, m)))
    BY <1>4, <2>1
  <2>5. PolyAt(v, x, m) = Plus(PolyAt(v, x, n), Times(v[m], Power(x, n)))
    BY <1>4, <2>1
  <2>6. w[m + 1] = Plus(v[m + 1], Times(c, v[m]))
    BY <1>2, <2>1
  <2>7. Power(x, m) = Times(x, Power(x, n)) /\ Power(x, n) \in Field
    BY <2>1, PowerSteps
  <2>8. PICK A, C, u, y, q : /\ A = PolyAt(v, x, m) /\ C = PolyAt(v, x, n)
                             /\ u = v[m + 1] /\ y = v[m] /\ q = Power(x, n)
    OBVIOUS
  <2>9. A \in Field /\ C \in Field /\ u \in Field /\ y \in Field /\ q \in Field
    BY <1>4, <2>1, <2>7, <2>8
  <2>10. Plus(Plus(A, Times(Times(c, x), C)), Times(Plus(u, Times(c, y)), Times(x, q)))
         = Plus(Plus(A, Times(u, Times(x, q))), Times(Times(c, x), Plus(C, Times(y, q))))
    <3>1. Regroups(A, C, c, u, y, x, q)
      BY <2>9, Regroup, Zenon
    <3>2. QED
      BY <3>1 DEF Regroups
  <2>11. PolyAt(w, x, m + 1)
         = Plus(PolyAt(v, x, m + 1), Times(Times(c, x), PolyAt(v, x, m)))
    BY <2>2, <2>3, <2>4, <2>5, <2>6, <2>7, <2>8, <2>10
  <2>12. QED
    BY <2>1, <2>11
<1> HIDE DEF B, Holds
<1>7. Nat \subseteq B
  BY <1>5, <1>6, NumberInduction
<1>8. \A n \in Nat : Holds(n)
  BY <1>7 DEF B
<1>9. QED
  BY <1>1, <1>3, <1>8 DEF Holds

\* The coefficients of a polynomial that is 1 at 0 and 0 at every point of xs, no longer
\* than it has to be.
Vanishing(v, xs) ==
    /\ v \in [Nat -> Field]
    /\ v[0] = 0 /\ v[1] = 1
    /\ \A j \in Nat : j > Cardinality(xs) + 1 => v[j] = 0
    /\ \A x \in xs : PolyAt(v, x, Cardinality(xs) + 1) = 0

\* One more share to vanish at costs one more coefficient.
LEMMA VanishingMore ==
    ASSUME NEW xs, xs \subseteq NonZero, IsFiniteSet(xs), NEW a \in xs,
           NEW v, Vanishing(v, xs \ {a})
    PROVE  \E w : Vanishing(w, xs)
<1>1. PICK U, k : U = xs \ {a} /\ k = Cardinality(U)
  OBVIOUS
<1>2. IsFiniteSet(U) /\ k \in Nat /\ Cardinality(xs) = k + 1
  <2>1. IsFiniteSet(U) /\ Cardinality(xs) = Cardinality(U) + 1
    <3>1. IsFiniteSet(U) /\ Cardinality(U) = Cardinality(xs) - 1 /\ Cardinality(xs) \in Nat
      BY <1>1, FS_RemoveElement, FS_CardinalityType
    <3>2. QED
      BY <3>1
  <2>2. QED
    BY <1>1, <2>1, FS_CardinalityType
<1>3. /\ v \in [Nat -> Field] /\ v[0] = 0 /\ v[1] = 1
      /\ \A j \in Nat : j > k + 1 => v[j] = 0
      /\ \A x \in U : PolyAt(v, x, k + 1) = 0
  BY <1>1 DEF Vanishing
<1>4. a \in NonZero /\ \A x \in xs : x \in Field
  BY NonZeroField
<1>5. PICK c \in Field : Plus(1, Times(c, a)) = 0
  BY <1>4, Cancels
<1>6. PICK w : w = Factored(v, c)
  OBVIOUS
<1>7. w \in [Nat -> Field]
  BY <1>3, <1>4, <1>6, FactoredAt
<1>8. w[0] = 0 /\ w[1] = 1
  <2>1. w[0] = 0 /\ w[1] = Plus(v[1], Times(c, v[1 - 1]))
    BY <1>6 DEF Factored
  <2>2. 1 - 1 = 0 /\ 1 \in Field
    BY FieldNumbers
  <2>3. QED
    BY <1>3, <2>1, <2>2, FieldPlus, FieldTimes
<1>9. ASSUME NEW j \in Nat, j > (k + 1) + 1 PROVE w[j] = 0
  <2>1. j - 1 \in Nat /\ j # 0 /\ j > k + 1 /\ j - 1 > k + 1
    BY <1>2, <1>9
  <2>2. w[j] = Plus(v[j], Times(c, v[j - 1]))
    BY <1>6, <2>1 DEF Factored
  <2>3. v[j] = 0 /\ v[j - 1] = 0
    BY <1>3, <2>1
  <2>4. 0 \in Field
    BY FieldNumbers
  <2>5. QED
    BY <2>2, <2>3, <2>4, FieldPlus, FieldTimes
<1>10. ASSUME NEW x \in xs PROVE PolyAt(w, x, (k + 1) + 1) = 0
  <2>1. PICK m, p : m = k + 1 /\ p = PolyAt(v, x, m)
    OBVIOUS
  <2>2. m \in Nat /\ x \in Field
    BY <1>2, <1>4, <2>1
  <2>3. PolyAt(w, x, m + 1) = Plus(PolyAt(v, x, m + 1), Times(Times(c, x), p))
    BY <1>3, <1>6, <2>1, <2>2, FactoredAt
  <2>4. p \in Field /\ PolyAt(v, x, m + 1) = Plus(p, Times(v[m + 1], Power(x, m)))
    <3>1. \A j \in 1..(m + 1) : v[j] \in Field
      BY <1>3, <2>2
    <3>2. QED
      BY <2>1, <2>2, <3>1, PolyAtStep
  <2>5. PolyAt(v, x, m + 1) = p
    <3>1. m + 1 \in Nat /\ m + 1 > k + 1
      BY <1>2, <2>1
    <3>2. v[m + 1] = 0
      BY <1>3, <3>1
    <3>3. Power(x, m) \in Field
      BY <2>2, PowerSteps
    <3>4. QED
      BY <2>4, <3>2, <3>3, FieldPlus, FieldTimes
  <2>6. PolyAt(w, x, m + 1) = Plus(p, Times(Times(c, x), p))
    BY <2>3, <2>5
  <2>7. CASE x = a
    <3>1. Times(c, a) \in Field /\ 1 \in Field /\ Times(p, 1) = p
      BY <1>4, <2>4, FieldTimes, FieldNumbers
    <3>2. Times(p, Plus(1, Times(c, a))) = Plus(Times(p, 1), Times(p, Times(c, a)))
      BY <2>4, <3>1, FieldTimes
    <3>3. Times(p, Times(c, a)) = Times(Times(c, a), p) /\ Times(p, 0) = 0
      BY <2>4, <3>1, FieldTimes
    <3>4. QED
      BY <1>5, <2>1, <2>6, <2>7, <3>1, <3>2, <3>3
  <2>8. CASE x # a
    <3>1. p = 0
      BY <1>1, <1>3, <2>1, <2>8
    <3>2. Times(c, x) \in Field /\ 0 \in Field
      BY <2>2, FieldTimes, FieldNumbers
    <3>3. QED
      BY <2>1, <2>6, <3>1, <3>2, FieldTimes, FieldPlus
  <2>9. QED
    BY <2>7, <2>8
<1>11. QED
  BY <1>2, <1>7, <1>8, <1>9, <1>10 DEF Vanishing

\* There is one for every set of shares.
LEMMA VanishingExists ==
    ASSUME NEW xs, xs \subseteq NonZero, IsFiniteSet(xs)
    PROVE  \E v : Vanishing(v, xs)
<1> DEFINE B == {T \in SUBSET xs : \E v : Vanishing(v, T)}
<1>1. {} \in B
  <2> DEFINE v == [j \in Nat |-> IF j = 1 THEN 1 ELSE 0]
  <2>1. v \in [Nat -> Field] /\ v[0] = 0 /\ v[1] = 1
    <3>1. 0 \in Field /\ 1 \in Field
      BY FieldNumbers
    <3>2. QED
      BY <3>1
  <2>2. Cardinality({}) = 0 /\ \A j \in Nat : j > 0 + 1 => v[j] = 0
    BY FS_EmptySet
  <2>3. \A x \in {} : PolyAt(v, x, 0 + 1) = 0
    OBVIOUS
  <2> HIDE DEF v
  <2>4. Vanishing(v, {})
    BY <2>1, <2>2, <2>3 DEF Vanishing
  <2>5. QED
    BY <2>4
<1>2. ASSUME NEW T \in SUBSET xs, T # {}, \A x \in T : T \ {x} \in B
      PROVE  T \in B
  <2>1. PICK a \in T : TRUE
    BY <1>2
  <2>2. T \ {a} \in B
    BY <1>2
  <2>3. PICK v : Vanishing(v, T \ {a})
    BY <2>2
  <2>4. T \subseteq NonZero /\ IsFiniteSet(T)
    BY FS_Subset
  <2>5. \E w : Vanishing(w, T)
    BY <2>3, <2>4, VanishingMore
  <2>6. QED
    BY <2>5
<1> HIDE DEF B
<1>3. SUBSET xs \subseteq B
  BY <1>1, <1>2, SubsetInduction
<1>4. xs \in B
  BY <1>3
<1>5. QED
  BY <1>4 DEF B

\* A multiple of one polynomial added to another.
Blend(p, d, v, n) == [j \in 1..n |-> Plus(p[j], Times(d, v[j]))]

\* Its values are blended alike.
LEMMA BlendAt ==
    ASSUME NEW n \in Nat, NEW p, NEW v, \A j \in 1..n : p[j] \in Field /\ v[j] \in Field,
           NEW d \in Field, NEW x \in Field
    PROVE  PolyAt(Blend(p, d, v, n), x, n) = Plus(PolyAt(p, x, n), Times(d, PolyAt(v, x, n)))
<1> DEFINE f == [j \in 1..n |-> Times(p[j], Power(x, j - 1))]
           g == [j \in 1..n |-> Times(v[j], Power(x, j - 1))]
           e == [j \in 1..n |-> Times(d, g[j])]
           h == [j \in 1..n |-> Times(Blend(p, d, v, n)[j], Power(x, j - 1))]
<1>1. ASSUME NEW j \in 1..n
      PROVE  /\ f[j] \in Field /\ g[j] \in Field /\ e[j] = Times(d, g[j]) /\ e[j] \in Field
             /\ h[j] = Plus(f[j], e[j])
  <2>1. PICK a, b, q : a = p[j] /\ b = v[j] /\ q = Power(x, j - 1)
    OBVIOUS
  <2>2. a \in Field /\ b \in Field /\ q \in Field
    <3>1. j - 1 \in Nat
      OBVIOUS
    <3>2. q \in Field
      BY <2>1, <3>1, PowerSteps
    <3>3. QED
      BY <2>1, <3>2
  <2>3. f[j] = Times(a, q) /\ g[j] = Times(b, q) /\ e[j] = Times(d, g[j])
        /\ h[j] = Times(Plus(a, Times(d, b)), q)
    BY <2>1 DEF Blend
  <2>4. Times(a, q) \in Field /\ Times(b, q) \in Field /\ Times(d, b) \in Field
    BY <2>2, FieldTimes
  <2>5. Times(d, Times(b, q)) \in Field /\ Plus(a, Times(d, b)) \in Field
    BY <2>2, <2>4, FieldTimes, FieldPlus
  <2>6. Times(Plus(a, Times(d, b)), q) = Times(q, Plus(a, Times(d, b)))
    BY <2>2, <2>5, FieldTimes
  <2>7. Times(q, Plus(a, Times(d, b))) = Plus(Times(q, a), Times(q, Times(d, b)))
    BY <2>2, <2>4, FieldTimes
  <2>8. Times(q, a) = Times(a, q) /\ Times(q, Times(d, b)) = Times(Times(d, b), q)
        /\ Times(d, Times(b, q)) = Times(Times(d, b), q)
    BY <2>2, <2>4, FieldTimes
  <2> HIDE DEF f, g, e, h
  <2>9. QED
    BY <2>3, <2>4, <2>5, <2>6, <2>7, <2>8
<1>2. /\ SumOver(f, 1..n) = PolyAt(p, x, n)
      /\ SumOver(g, 1..n) = PolyAt(v, x, n)
      /\ SumOver(h, 1..n) = PolyAt(Blend(p, d, v, n), x, n)
  BY DEF PolyAt
<1> HIDE DEF f, g, e, h
<1>3. IsFiniteSet(1..n)
  BY FS_Interval
<1>4. SumOver(h, 1..n) = Plus(SumOver(f, 1..n), SumOver(e, 1..n))
  BY <1>1, <1>3, SumBoth
<1>5. SumOver(e, 1..n) = Times(d, SumOver(g, 1..n))
  BY <1>1, <1>3, SumScaled
<1>6. QED
  BY <1>2, <1>4, <1>5

\* Coefficients as split draws them: the secret, then none that is zero.
Drawn(coeffs) ==
    /\ coeffs \in Seq(Field) /\ Len(coeffs) >= 2
    /\ \A m \in 2..Len(coeffs) : coeffs[m] # 0

\* A polynomial that agrees on the shares xs, with another secret.
Other(p, s, v) == Blend(p, Minus(s, p[1]), v, Len(p))

\* The shares xs cannot tell the other polynomial from the one that split drew.
LEMMA OtherIs ==
    ASSUME NEW p, Drawn(p), NEW xs, xs \subseteq NonZero, IsFiniteSet(xs),
           Cardinality(xs) = Len(p) - 1, NEW v, Vanishing(v, xs), NEW s \in Field
    PROVE  /\ Other(p, s, v) \in [1..Len(p) -> Field]
           /\ Other(p, s, v)[1] = s
           /\ \A x \in xs : evaluate(Other(p, s, v), x) = evaluate(p, x)
<1>1. PICK t, d, w : t = Len(p) /\ d = Minus(s, p[1]) /\ w = Other(p, s, v)
  OBVIOUS
<1>2. /\ t \in Nat /\ t >= 2 /\ \A j \in 1..t : p[j] \in Field /\ v[j] \in Field
      /\ v[1] = 1 /\ Cardinality(xs) + 1 = t
  BY <1>1 DEF Drawn, Vanishing
<1>3. p[1] \in Field /\ d \in Field /\ Plus(d, p[1]) = s
  <2>1. p[1] \in Field
    BY <1>2
  <2>2. \A a, b \in Field : Minus(a, b) \in Field /\ Plus(Minus(a, b), b) = a
    BY FieldMinus
  <2>3. QED
    BY <1>1, <2>1, <2>2
<1>4. w = [j \in 1..t |-> Plus(p[j], Times(d, v[j]))]
  BY <1>1 DEF Other, Blend
<1>5. w \in [1..t -> Field]
  <2>1. \A j \in 1..t : Plus(p[j], Times(d, v[j])) \in Field
    BY <1>2, <1>3, FieldTimes, FieldPlus
  <2>2. QED
    BY <1>4, <2>1
<1>6. w[1] = s
  <2>1. w[1] = Plus(p[1], Times(d, 1))
    BY <1>2, <1>4
  <2>2. Times(d, 1) = d /\ Plus(p[1], d) = Plus(d, p[1])
    BY <1>3, FieldTimes, FieldPlus
  <2>3. QED
    BY <1>3, <2>1, <2>2
<1>7. ASSUME NEW x \in xs PROVE evaluate(w, x) = evaluate(p, x)
  <2>1. x \in Field
    BY NonZeroField
  <2>2. w \in Seq(Field) /\ Len(w) = t /\ p \in Seq(Field)
    BY <1>2, <1>5 DEF Drawn
  <2>3. evaluate(w, x) = PolyAt(w, x, t) /\ evaluate(p, x) = PolyAt(p, x, t)
    BY <1>1, <2>1, <2>2, EvaluateIs
  <2>4. PolyAt(w, x, t) = Plus(PolyAt(p, x, t), Times(d, PolyAt(v, x, t)))
    <3>1. w = Blend(p, d, v, t)
      BY <1>4 DEF Blend
    <3>2. QED
      BY <1>2, <1>3, <2>1, <3>1, BlendAt
  <2>5. PolyAt(v, x, t) = 0
    BY <1>2 DEF Vanishing
  <2>6. PolyAt(p, x, t) \in Field
    BY <1>2, <2>1, PolyAtIn
  <2>7. QED
    BY <1>3, <2>3, <2>4, <2>5, <2>6, FieldTimes, FieldPlus
<1>8. QED
  BY <1>1, <1>5, <1>6, <1>7

\* No coefficient after the secret is zero for more than one secret.
LEMMA OtherZero ==
    ASSUME NEW p, Drawn(p), NEW v \in [Nat -> Field], NEW s \in Field, NEW r \in Field,
           NEW m \in 2..Len(p), Other(p, s, v)[m] = 0, Other(p, r, v)[m] = 0
    PROVE  s = r
<1>1. PICK a, b, c, y : a = p[m] /\ b = v[m] /\ c = Minus(s, p[1]) /\ y = Minus(r, p[1])
  OBVIOUS
<1>2. Len(p) \in Nat /\ m \in 1..Len(p) /\ 1 \in 1..Len(p) /\ m \in Nat
      /\ \A j \in 1..Len(p) : p[j] \in Field
  BY DEF Drawn
<1>3. a \in Field /\ a # 0 /\ b \in Field /\ p[1] \in Field
  BY <1>1, <1>2 DEF Drawn
<1>4. c \in Field /\ y \in Field /\ Plus(c, p[1]) = s /\ Plus(y, p[1]) = r
  <2>1. \A e, f \in Field : Minus(e, f) \in Field /\ Plus(Minus(e, f), f) = e
    BY FieldMinus
  <2>2. QED
    BY <1>1, <1>3, <2>1
<1>5. Plus(a, Times(c, b)) = 0 /\ Plus(a, Times(y, b)) = 0
  BY <1>1, <1>2 DEF Other, Blend
<1>6. Times(c, b) \in Field /\ Times(y, b) \in Field
  BY <1>3, <1>4, FieldTimes
<1>7. Times(c, b) = Times(y, b)
  <2>1. Plus(Times(c, b), a) = Plus(Times(y, b), a)
    BY <1>3, <1>5, <1>6, FieldPlus
  <2>2. \A e, f, g \in Field : Plus(e, g) = Plus(f, g) => e = f
    BY FieldMinus
  <2>3. QED
    BY <1>3, <1>6, <2>1, <2>2
<1>8. b # 0
  BY <1>3, <1>4, <1>5, FieldTimes, FieldPlus
<1>9. c = y
  BY <1>3, <1>4, <1>7, <1>8, TimesCancel
<1>10. QED
  BY <1>4, <1>9

\* Fewer shares than the threshold leave every secret possible but one for each coefficient
\* after the first (split, shamir.rs:77-80).
THEOREM Secrecy ==
    ASSUME Drawn(poly), NEW xs, xs \subseteq NonZero, IsFiniteSet(xs),
           Cardinality(xs) = threshold - 1,
           \A x \in xs : dealt[x] = evaluate(poly, x)
    PROVE  Cardinality(Possible(xs)) >= P - (threshold - 1)
<1>1. PICK v : Vanishing(v, xs)
  BY VanishingExists
<1>2. PICK t : t = threshold
  OBVIOUS
<1>3. t = Len(poly) /\ t \in Nat /\ t >= 2
  BY <1>2 DEF threshold, Drawn
<1>4. v \in [Nat -> Field]
  BY <1>1 DEF Vanishing
<1>5. \A s \in Field : /\ Other(poly, s, v) \in [1..t -> Field]
                       /\ Other(poly, s, v)[1] = s
                       /\ \A x \in xs : evaluate(Other(poly, s, v), x) = dealt[x]
  BY <1>1, <1>2, <1>3, OtherIs
<1>6. ASSUME NEW s \in Field, \A m \in 2..t : Other(poly, s, v)[m] # 0
      PROVE  s \in Possible(xs)
  <2>1. PICK w : w = Other(poly, s, v)
    OBVIOUS
  <2>2. PICK random : random = [j \in 1..(t - 1) |-> w[j + 1]]
    OBVIOUS
  <2>3. random \in [1..(t - 1) -> 1..(P - 1)]
    <3>1. \A j \in 1..(t - 1) : j + 1 \in 2..t /\ j + 1 \in 1..t
      BY <1>3
    <3>2. \A j \in 1..(t - 1) : w[j + 1] \in Field /\ w[j + 1] # 0
      BY <1>5, <1>6, <2>1, <3>1
    <3>3. \A j \in 1..(t - 1) : w[j + 1] \in 1..(P - 1)
      BY <3>2, NonZeroField DEF NonZero
    <3>4. QED
      BY <2>2, <3>3
  <2>4. <<s>> \o random = w
    <3>1. w \in [1..t -> Field] /\ w[1] = s
      BY <1>5, <2>1
    <3>2. random \in Seq(Int) /\ Len(random) = t - 1 /\ \A j \in 1..(t - 1) : random[j] = w[j + 1]
      <4>1. PICK n \in Nat : n = t - 1
        BY <1>3
      <4>2. P \in Nat
        BY FieldNumbers
      <4>3. random \in [1..n -> Int]
        BY <2>3, <4>1, <4>2
      <4>4. random \in Seq(Int) /\ Len(random) = n
        BY <4>1, <4>3
      <4>5. \A j \in 1..(t - 1) : random[j] = w[j + 1]
        BY <2>2
      <4>6. QED
        BY <4>1, <4>4, <4>5
    <3>3. DOMAIN (<<s>> \o random) = 1..t /\ <<s>> \o random = [j \in 1..t |-> (<<s>> \o random)[j]]
      BY <1>3, <3>2
    <3>4. \A j \in 1..t : (<<s>> \o random)[j] = w[j]
      BY <1>3, <3>1, <3>2
    <3>5. QED
      BY <3>1, <3>3, <3>4
  <2>5. \A x \in xs : evaluate(<<s>> \o random, x) = dealt[x]
    <3>1. \A x \in xs : evaluate(w, x) = dealt[x]
      BY <1>5, <2>1
    <3>2. QED
      BY <2>4, <3>1, Zenon
  <2>6. QED
    BY <1>2, <2>3, <2>5 DEF Possible, Field
<1>7. PICK Bad, pos : /\ Bad = Field \ Possible(xs)
                      /\ pos = [s \in Bad |-> CHOOSE m \in 2..t : Other(poly, s, v)[m] = 0]
  OBVIOUS
<1>8. \A s \in Bad : pos[s] \in 2..t /\ Other(poly, s, v)[pos[s]] = 0
  BY <1>6, <1>7
<1>9. pos \in Injection(Bad, 2..t)
  <2>1. pos \in [Bad -> 2..t]
    BY <1>7, <1>8
  <2>2. ASSUME NEW s \in Bad, NEW r \in Bad, pos[s] = pos[r] PROVE s = r
    <3>1. s \in Field /\ r \in Field
      BY <1>7
    <3>2. Other(poly, s, v)[pos[s]] = 0 /\ Other(poly, r, v)[pos[s]] = 0 /\ pos[s] \in 2..Len(poly)
      BY <1>3, <1>8, <2>2
    <3>3. QED
      BY <1>4, <3>1, <3>2, OtherZero
  <2>3. QED
    BY <2>1, <2>2 DEF Injection, IsInjective
<1>10. IsFiniteSet(2..t) /\ Cardinality(2..t) = t - 1
  BY <1>3, FS_Interval
<1>11. IsFiniteSet(Bad) /\ Cardinality(Bad) <= t - 1 /\ Cardinality(Bad) \in Nat
  BY <1>9, <1>10, FS_Injection, FS_CardinalityType
<1>12. IsFiniteSet(Field) /\ Cardinality(Field) = P
  BY FieldNumbers, FS_Interval DEF Field
<1>13. Possible(xs) = Field \ Bad /\ Field \cap Bad = Bad
  <2>1. Possible(xs) \subseteq Field
    BY DEF Possible, Field
  <2>2. QED
    BY <1>7, <2>1
<1>14. Cardinality(Possible(xs)) = P - Cardinality(Bad)
  <2>1. Cardinality(Field \ Bad) = Cardinality(Field) - Cardinality(Field \cap Bad)
    BY <1>12, FS_Difference, Zenon
  <2>2. QED
    BY <1>12, <1>13, <2>1
<1>15. QED
  BY <1>2, <1>3, <1>11, <1>14, FieldNumbers

-------------------------------------------------------------------------------
(***************************************************************************)
(* The commands: an inductive invariant                                    *)
(***************************************************************************)

\* The shares are the values of the polynomial that hides the secret, at points other than 0.
Shared ==
    /\ Drawn(poly) /\ poly[1] = secret
    /\ \E n \in Nat : n < P /\ dealt = [x \in 1..n |-> evaluate(poly, x)]

\* Between the commands: nothing was split yet or all shares are at hand, those joined are
\* some of them or stray, and what was recovered was computed from dealt ones alone.
ShamirIInv ==
    /\ (poly = <<>> /\ dealt = <<>>) \/ Shared
    /\ joined \in Seq(DOMAIN dealt \union {Stray})
    /\ outcome \in {"started", "split", "gathering", "recovered", "stray", "exit 1", "panic"}
    /\ outcome \in {"split", "gathering", "recovered"} => Shared
    /\ outcome = "recovered" =>
          Genuine /\ Inverts(joined) /\ recovered = <<reconstruct(joined, dealt)>>

\* Nothing was split when the program starts.
LEMMA ShamirInitIInv == ShamirInit => ShamirIInv
  BY DEF ShamirInit, ShamirIInv

\* What split draws and deals (shamir.rs:49-104).
LEMMA SplitShares ==
    ASSUME NEW b \in Byte, NEW t \in Nat, NEW n \in Nat, Split(b, t, n)
    PROVE  Shared'
<1>1. t >= 2 /\ n >= t /\ n <= MaxShares /\ b < P /\ secret' = b
  BY DEF Split
<1>2. P \in Nat /\ MaxShares \in Nat /\ MaxShares < P
  BY FieldNumbers, ShareBoundAssumption
<1>3. b \in Field
  BY <1>1, <1>2 DEF Byte, Field
<1>4. PICK random \in [1..(t - 1) -> 1..(P - 1)] :
         /\ poly' = <<b>> \o random
         /\ dealt' = [x \in 1..n |-> evaluate(<<b>> \o random, x)]
  BY DEF Split
<1>5. random \in Seq(Field) /\ Len(random) = t - 1 /\ \A j \in 1..(t - 1) : random[j] # 0
  <2>1. PICK k \in Nat : k = t - 1
    BY <1>1
  <2>2. random \in [1..k -> Field] /\ \A j \in 1..k : random[j] # 0
    BY <1>2, <1>4, <2>1 DEF Field
  <2>3. random \in Seq(Field) /\ Len(random) = k
    BY <2>1, <2>2
  <2>4. QED
    BY <2>1, <2>2, <2>3
<1>6. PICK c : c = <<b>> \o random
  OBVIOUS
<1>7. c \in Seq(Field) /\ Len(c) = t /\ c[1] = b /\ \A m \in 2..t : c[m] # 0
  <2>1. <<b>> \in Seq(Field) /\ Len(<<b>>) = 1
    BY <1>3
  <2>2. c \in Seq(Field) /\ Len(c) = 1 + (t - 1)
    BY <1>5, <1>6, <2>1
  <2>3. c[1] = b
    BY <1>5, <1>6
  <2>4. ASSUME NEW m \in 2..t PROVE c[m] # 0
    <3>1. m - 1 \in 1..(t - 1) /\ m > 1 /\ m <= 1 + (t - 1) /\ m \in Nat
      OBVIOUS
    <3>2. c[m] = random[m - 1]
      BY <1>5, <1>6, <2>1, <3>1
    <3>3. QED
      BY <1>5, <3>1, <3>2
  <2>5. QED
    BY <2>2, <2>3, <2>4
<1>8. Drawn(poly') /\ poly'[1] = secret'
  BY <1>1, <1>4, <1>6, <1>7 DEF Drawn
<1>9. n < P /\ dealt' = [x \in 1..n |-> evaluate(poly', x)]
  BY <1>1, <1>2, <1>4
<1>10. QED
  BY <1>8, <1>9 DEF Shared

\* Every command keeps the invariant (main.rs:217-291).
LEMMA ShamirNextIInv == ShamirIInv /\ [ShamirNext]_shamirVars => ShamirIInv'
<1> SUFFICES ASSUME ShamirIInv, [ShamirNext]_shamirVars PROVE ShamirIInv'
  OBVIOUS
<1> DEFINE Kept == UNCHANGED <<secret, poly, dealt>>
<1>1. Kept => ((Shared' <=> Shared) /\ DOMAIN dealt' = DOMAIN dealt)
  BY DEF Shared
<1>2. ASSUME Stopped("exit 1") \/ Stopped("panic") PROVE ShamirIInv'
  BY <1>1, <1>2 DEF Stopped, ShamirIInv
<1>3. ASSUME NEW b \in Byte, NEW t \in ThresholdArgs, NEW n \in ShareArgs, Split(b, t, n)
      PROVE  ShamirIInv'
  <2>1. t \in Nat /\ n \in Nat
    BY ArgsAssumption
  <2>2. Shared'
    BY <1>3, <2>1, SplitShares
  <2>3. joined' = <<>> /\ outcome' = "split"
    BY <1>3 DEF Split
  <2>4. \A S : <<>> \in Seq(S)
    OBVIOUS
  <2>5. joined' \in Seq(DOMAIN dealt' \union {Stray})
    BY <2>3, <2>4, Zenon
  <2>6. QED
    BY <2>2, <2>3, <2>5 DEF ShamirIInv
<1>4. ASSUME NEW x \in DOMAIN dealt \union {Stray}, Gather(x) PROVE ShamirIInv'
  <2>1. Kept /\ outcome' = "gathering" /\ joined' = Append(joined, x) /\ Shared
    BY <1>4 DEF Gather, ShamirIInv
  <2>2. joined' \in Seq(DOMAIN dealt \union {Stray})
    <3>1. PICK S : S = DOMAIN dealt \union {Stray}
      OBVIOUS
    <3>2. joined \in Seq(S) /\ x \in S
      BY <3>1 DEF ShamirIInv
    <3>3. Append(joined, x) \in Seq(S)
      BY <3>2
    <3>4. QED
      BY <2>1, <3>1, <3>3
  <2>3. QED
    BY <1>1, <2>1, <2>2 DEF ShamirIInv
<1>5. ASSUME Join PROVE ShamirIInv'
  <2>1. /\ Kept /\ joined' = joined /\ outcome' = "recovered" /\ Shared
        /\ Genuine /\ Inverts(joined) /\ recovered' = <<reconstruct(joined, dealt)>>
    BY <1>5 DEF Join, ShamirIInv
  <2>2. joined' \in Seq(DOMAIN dealt' \union {Stray})
    BY <1>1, <2>1 DEF ShamirIInv
  <2>3. Genuine' /\ Inverts(joined') /\ recovered' = <<reconstruct(joined', dealt')>>
    BY <2>1 DEF Genuine
  <2>4. QED
    BY <1>1, <2>1, <2>2, <2>3 DEF ShamirIInv
<1>6. CASE UNCHANGED shamirVars
  <2>1. /\ Kept /\ joined' = joined /\ outcome' = outcome /\ recovered' = recovered
    BY <1>6 DEF shamirVars
  <2>2. outcome' = "recovered" =>
           Genuine' /\ Inverts(joined') /\ recovered' = <<reconstruct(joined', dealt')>>
    BY <2>1 DEF ShamirIInv, Genuine
  <2>3. QED
    BY <1>1, <2>1, <2>2 DEF ShamirIInv
<1>7. CASE JoinStray
  <2>1. CASE outcome' = "stray" /\ UNCHANGED <<secret, poly, dealt, joined>>
    BY <1>1, <2>1 DEF ShamirIInv
  <2>2. QED
    BY <1>2, <1>7, <2>1 DEF JoinStray
<1>8. QED
  BY <1>2, <1>3, <1>4, <1>5, <1>6, <1>7
     DEF ShamirNext, SplitRefused, SplitPanics, JoinRefused, JoinPanics

\* Genuine shares are shares that were dealt.
LEMMA GenuineJoined == ShamirIInv /\ Genuine => joined \in Seq(DOMAIN dealt)
<1> SUFFICES ASSUME ShamirIInv, Genuine PROVE joined \in Seq(DOMAIN dealt)
  OBVIOUS
<1>1. PICK S, T : S = DOMAIN dealt /\ T = DOMAIN dealt \union {Stray}
  OBVIOUS
<1>2. joined \in Seq(T) /\ \A i \in DOMAIN joined : joined[i] \in S
  BY <1>1 DEF ShamirIInv, Genuine
<1>3. joined \in Seq(S)
  BY <1>2
<1>4. QED
  BY <1>1, <1>3

\* The invariant holds throughout: the shares at hand are always the values of the
\* polynomial drawn last (split and reconstruct, as main.rs calls them).
THEOREM ShamirIInvHolds == ShamirSpec => []ShamirIInv
  BY ShamirInitIInv, ShamirNextIInv, PTL DEF ShamirSpec

\* For any prime, secret, threshold and number of shares, whichever shares are joined, in
\* whatever order and however often one is repeated: at least the threshold of them recover
\* the secret or the command panics, and one fewer leave every secret possible but at most
\* one for each coefficient (shamir.rs:49-150, main.rs:241).
THEOREM ThresholdSchemeHolds == ShamirSpec => []ThresholdScheme
<1>1. ShamirIInv => ThresholdScheme
  <2> SUFFICES ASSUME ShamirIInv PROVE ThresholdScheme
    OBVIOUS
  <2>1. Shared => /\ Drawn(poly) /\ poly[1] = secret /\ threshold = Len(poly)
                  /\ \A x \in DOMAIN dealt : x \in NonZero /\ dealt[x] = evaluate(poly, x)
                  /\ IsFiniteSet(DOMAIN dealt)
    <3> SUFFICES ASSUME Shared
                 PROVE  /\ \A x \in DOMAIN dealt : x \in NonZero /\ dealt[x] = evaluate(poly, x)
                        /\ IsFiniteSet(DOMAIN dealt)
      BY DEF Shared, threshold
    <3>1. PICK n \in Nat : n < P /\ dealt = [x \in 1..n |-> evaluate(poly, x)]
      BY DEF Shared
    <3>2. IsFiniteSet(1..n)
      BY FS_Interval
    <3>3. \A x \in 1..n : x \in NonZero
      BY <3>1, FieldNumbers DEF NonZero
    <3>4. QED
      BY <3>1, <3>2, <3>3
  <2>2. ASSUME outcome = "recovered"
        PROVE  /\ IsInjective(joined)
               /\ Len(joined) >= threshold => recovered = <<secret>>
    <3>1. /\ Drawn(poly) /\ poly[1] = secret /\ threshold = Len(poly)
          /\ \A x \in DOMAIN dealt : x \in NonZero /\ dealt[x] = evaluate(poly, x)
      BY <2>1, <2>2 DEF ShamirIInv
    <3>2. joined \in Seq(DOMAIN dealt) /\ Inverts(joined)
          /\ recovered = <<reconstruct(joined, dealt)>>
      BY <2>2, GenuineJoined DEF ShamirIInv
    <3>3. Joinable(joined)
      <4>1. DOMAIN dealt \subseteq NonZero
        BY <3>1
      <4>2. QED
        BY <3>2, <4>1 DEF Joinable
    <3>4. IsInjective(joined)
      BY <3>2, <3>3, InvertsDistinct
    <3>5. ASSUME Len(joined) >= threshold PROVE recovered = <<secret>>
      <4>1. poly \in Seq(Field) /\ Len(poly) >= 1 /\ Len(joined) >= Len(poly)
        BY <3>1, <3>5 DEF Drawn
      <4>2. \A i \in DOMAIN joined : dealt[joined[i]] = evaluate(poly, joined[i])
        BY <3>1, <3>2
      <4>3. reconstruct(joined, dealt) = poly[1]
        BY <3>2, <3>3, <4>1, <4>2, Recovery
      <4>4. QED
        BY <3>1, <3>2, <4>3
    <3>6. QED
      BY <3>4, <3>5
  <2>3. ASSUME outcome = "split", NEW xs \in SUBSET DOMAIN dealt, Cardinality(xs) = threshold - 1
        PROVE  Cardinality(Possible(xs)) >= P - (threshold - 1)
    <3>1. /\ Drawn(poly) /\ IsFiniteSet(DOMAIN dealt)
          /\ \A x \in DOMAIN dealt : x \in NonZero /\ dealt[x] = evaluate(poly, x)
      BY <2>1, <2>3 DEF ShamirIInv
    <3>2. xs \subseteq NonZero /\ IsFiniteSet(xs) /\ \A x \in xs : dealt[x] = evaluate(poly, x)
      BY <3>1, FS_Subset
    <3>3. QED
      BY <2>3, <3>1, <3>2, Secrecy
  <2>4. QED
    BY <2>2, <2>3 DEF ThresholdScheme
<1>2. QED
  BY <1>1, ShamirIInvHolds, PTL

-------------------------------------------------------------------------------
(***************************************************************************)
(* The widths of the numbers                                               *)
(***************************************************************************)
U16 == 0..(2^16 - 1)
U8 == 0..(2^8 - 1)

\* What the loop over the other shares j computes before each remainder, its product so far
\* being over any of them (shamir.rs:122-132).
FactorsFit(shares, i) ==
    \A j \in DOMAIN shares \ {i} :
        /\ P - shares[j] \in U16 /\ shares[i] + P - shares[j] \in U16
        /\ \A T \in SUBSET (DOMAIN shares \ {i}) :
              /\ ProductOver(Negatives(shares), T) * ((P - shares[j]) % P) \in U16
              /\ ProductOver(Differences(shares, i), T) * ((shares[i] + P - shares[j]) % P) \in U16

\* What is computed of share i after the loop, r being the remainder summed so far
\* (shamir.rs:134-136).
TermFits(shares, data, i) ==
    /\ denominator(shares, i) \in U8
    /\ Inverts(shares) =>
          /\ numerator(shares, i) * gf_inv(denominator(shares, i)) \in U16
          /\ lagrange_coef(shares, i) * data[shares[i]] \in U16
          /\ \A r \in Field : r + Times(lagrange_coef(shares, i), data[shares[i]]) \in U16

\* A product of two field elements fits 16 bits, and one of them 8.
LEMMA FieldFits == \A a, b \in Field : a \in U8 /\ a * b \in U16
<1>1. PICK m : m = P - 1
  OBVIOUS
<1>2. P \in Nat /\ m \in Nat /\ m * m < 65536 /\ 2^16 = 65536 /\ 2^8 = 256
  BY <1>1, FieldNumbers, PrimeAssumption
<1>3. m < 256
  <2>1. m >= 256 => m * m >= 65536
    BY <1>2
  <2>2. QED
    BY <1>2, <2>1
<1>4. ASSUME NEW a \in Field, NEW b \in Field PROVE a \in U8 /\ a * b \in U16
  <2>1. a \in Nat /\ b \in Nat /\ a <= m /\ b <= m
    BY <1>1, <1>2 DEF Field
  <2>2. a * b <= m * m /\ a * b \in Nat
    BY <1>2, <2>1
  <2>3. QED
    BY <1>2, <1>3, <2>1, <2>2 DEF U8, U16
<1>5. QED
  BY <1>4

\* The loop stays in 16 bits for indices from 1 to P - 1.  For an index above P it does not:
\* P less the index is below zero.
LEMMA LoopFits ==
    ASSUME NEW shares, Joinable(shares), NEW i \in DOMAIN shares
    PROVE  FactorsFit(shares, i)
<1> SUFFICES ASSUME NEW j \in DOMAIN shares \ {i}
             PROVE  /\ P - shares[j] \in U16 /\ shares[i] + P - shares[j] \in U16
                    /\ \A T \in SUBSET (DOMAIN shares \ {i}) :
                          /\ ProductOver(Negatives(shares), T) * ((P - shares[j]) % P) \in U16
                          /\ ProductOver(Differences(shares, i), T)
                                * ((shares[i] + P - shares[j]) % P) \in U16
  BY DEF FactorsFit
<1>1. PICK x, y : x = shares[i] /\ y = shares[j]
  OBVIOUS
<1>2. x \in NonZero /\ y \in NonZero /\ x \in Field /\ y \in Field
  BY <1>1, JoinableIs
<1>3. P \in Nat /\ P - 1 \in Field /\ 2^16 = 65536 /\ 2^8 = 256
  BY FieldNumbers DEF Field
<1>4. P - 1 < 256
  BY <1>3, FieldFits DEF U8
<1>5. P - y \in U16 /\ x + P - y \in U16
  BY <1>2, <1>3, <1>4 DEF NonZero, U16
<1>6. (P - y) % P \in Field /\ (x + P - y) % P \in Field
  BY <1>2, FieldMinus DEF Negated, Minus
<1>7. ASSUME NEW T \in SUBSET (DOMAIN shares \ {i})
      PROVE  /\ ProductOver(Negatives(shares), T) \in Field
             /\ ProductOver(Differences(shares, i), T) \in Field
  <2>1. IsFiniteSet(T) /\ T \subseteq DOMAIN shares
    BY JoinableIs, FS_Subset
  <2>2. \A k \in T : Negatives(shares)[k] \in Field /\ Differences(shares, i)[k] \in Field
    BY <2>1, JoinableIs, FieldMinus DEF Negatives, Differences
  <2>3. QED
    BY <2>1, <2>2, ProductIn
<1>8. QED
  BY <1>1, <1>5, <1>6, <1>7, FieldFits

\* The rest stays in 16 bits, and the denominator in the 8 it is cast to, when the data
\* are below P.
LEMMA TermsFit ==
    ASSUME NEW shares, Joinable(shares), NEW i \in DOMAIN shares, NEW data,
           data[shares[i]] \in Field
    PROVE  TermFits(shares, data, i)
<1>1. PICK n, d, S : /\ n = numerator(shares, i) /\ d = denominator(shares, i)
                     /\ S = DOMAIN shares \ {i}
  OBVIOUS
<1>2. IsFiniteSet(S) /\ S \subseteq DOMAIN shares
  BY <1>1, JoinableIs, FS_Subset
<1>3. \A k \in S : Negatives(shares)[k] \in Field /\ Differences(shares, i)[k] \in Field
  BY <1>2, JoinableIs, FieldMinus DEF Negatives, Differences
<1>4. n \in Field /\ d \in Field
  BY <1>1, <1>2, <1>3, ProductIn, NumeratorIs, DenominatorIs
<1>5. ASSUME Inverts(shares)
      PROVE  /\ n * gf_inv(d) \in U16 /\ lagrange_coef(shares, i) * data[shares[i]] \in U16
             /\ \A r \in Field : r + Times(lagrange_coef(shares, i), data[shares[i]]) \in U16
  <2>1. d \in NonZero
    BY <1>1, <1>4, <1>5, NonZeroField DEF Inverts
  <2>2. gf_inv(d) \in Field
    BY <2>1, InverseIs, NonZeroField
  <2>3. lagrange_coef(shares, i) \in Field
    BY <1>1, <1>4, <2>2, FieldTimes DEF lagrange_coef
  <2>4. PICK x : x = Times(lagrange_coef(shares, i), data[shares[i]])
    OBVIOUS
  <2>5. x \in U8 /\ \A r \in Field : r \in U8
    BY <2>3, <2>4, FieldTimes, FieldFits
  <2>6. \A r \in Field : r + x \in U16
    BY <2>5 DEF U8, U16
  <2>7. QED
    BY <1>4, <2>2, <2>3, <2>4, <2>6, FieldFits
<1>6. QED
  BY <1>1, <1>4, <1>5, FieldFits DEF TermFits

\* The loops of reconstruct over shares that were dealt compute nothing that u16 and u8 do
\* not hold, in whatever order and number the shares are given: no difference is below zero,
\* no product or sum is cut off (reconstruct, shamir.rs:107-139).  decode_shares takes other indices as well, of
\* which those above P do leave the range: JoinStray.
THEOREM JoinFits ==
    ShamirSpec => [](outcome \in {"gathering", "recovered"} /\ Genuine =>
                        \A i \in DOMAIN joined :
                            FactorsFit(joined, i) /\ TermFits(joined, dealt, i))
<1>1. ASSUME ShamirIInv, outcome \in {"gathering", "recovered"}, Genuine, NEW i \in DOMAIN joined
      PROVE  FactorsFit(joined, i) /\ TermFits(joined, dealt, i)
  <2>1. Shared /\ joined \in Seq(DOMAIN dealt)
    BY <1>1, GenuineJoined DEF ShamirIInv
  <2>2. PICK n \in Nat : n < P /\ dealt = [x \in 1..n |-> evaluate(poly, x)]
    BY <2>1 DEF Shared
  <2>3. poly \in Seq(Field)
    BY <2>1 DEF Shared, Drawn
  <2>4. \A x \in DOMAIN dealt : x \in NonZero /\ dealt[x] \in Field
    <3>1. ASSUME NEW x \in 1..n PROVE x \in NonZero /\ evaluate(poly, x) \in Field
      <4>1. x \in NonZero /\ x \in Field
        BY <2>2, FieldNumbers DEF NonZero, Field
      <4>2. PICK k \in Nat : k = Len(poly) /\ \A j \in 1..k : poly[j] \in Field
        BY <2>3
      <4>3. PolyAt(poly, x, k) \in Field
        BY <4>1, <4>2, PolyAtIn
      <4>4. evaluate(poly, x) = PolyAt(poly, x, k)
        BY <2>3, <4>1, <4>2, EvaluateIs
      <4>5. QED
        BY <4>1, <4>3, <4>4
    <3>2. QED
      BY <2>2, <3>1
  <2>5. Joinable(joined)
    <3>1. DOMAIN dealt \subseteq NonZero
      BY <2>4
    <3>2. QED
      BY <2>1, <3>1 DEF Joinable
  <2>6. dealt[joined[i]] \in Field
    BY <2>1, <2>4
  <2>7. QED
    BY <2>5, <2>6, LoopFits, TermsFit
<1>2. ShamirIInv => (outcome \in {"gathering", "recovered"} /\ Genuine =>
                        \A i \in DOMAIN joined :
                            FactorsFit(joined, i) /\ TermFits(joined, dealt, i))
  BY <1>1
<1>3. QED
  BY <1>2, ShamirIInvHolds, PTL
===============================================================================
