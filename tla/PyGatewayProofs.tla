---------------------------- MODULE PyGatewayProofs ----------------------------
(***************************************************************************)
(* For any threads, ids, canaries, secrets and limits: whatever two        *)
(* handlers of the Python gateway do in between each other's steps, the    *)
(* hash chain breaks, the two dictionaries part, a rotated key comes back  *)
(* and a usage limit is missed only where a race on the same id (or log)   *)
(* was noted, and no canary is missed that nobody took.                    *)
(*                                                                         *)
(* The argument.  A request is a plan: where its writes stand (Shape) and  *)
(* what its steps say of each other (Planned) when it is made; Formed says *)
(* what is left of that in every thread's todo.  Each step then is of one  *)
(* of three kinds (StepKinds): quiet, when it writes neither dictionary    *)
(* nor the log; a write, of which there are five; idle.  Every property    *)
(* has an invariant on how far the writes of an id have got (Chained,      *)
(* Guarded, Halfway, Retiring, Limited), kept by each kind.                *)
(***************************************************************************)
EXTENDS PyGateway, SequenceTheorems, TLAPS

Steps(s) == {s[i] : i \in DOMAIN s}
Pending(t) == Steps(todo[t])
Has(t, what, k) == \E x \in Pending(t) : x.do = what /\ x.id = k

Changing == {"newpair", "newsecret", "droppair", "dropsecret", "append"}
Kinds == Changing \cup
    {"register", "rotated", "plant", "check", "ensure", "rotate?", "seal", "usage", "attest",
     "open", "fips", "challenge", "sign", "log"}

Ciphertext == [id : Ids, secret : Secrets, fips : BOOLEAN]
With == {None} \cup Secrets \cup (SUBSET Secrets) \cup BOOLEAN \cup Nat \cup Ciphertext
Step == [do : Kinds, id : AllIds \cup {Log, None}, with : With]

\* Where steps that change the dictionaries or the log stand in a request.
Shape(s) ==
    \A i \in DOMAIN s :
        /\ s[i].do = "append" => i = 1
        /\ s[i].do = "newpair" =>
              /\ i = 1 \/ (i = 2 /\ s[1] = Do("dropsecret", s[i].id))
              /\ i + 1 \in DOMAIN s /\ s[i + 1] = Do("newsecret", s[i].id)
        /\ s[i].do = "newsecret" => i = 1 \/ s[i - 1] = Do("newpair", s[i].id)
        /\ s[i].do = "droppair" => i = 1 /\ 2 \in DOMAIN s /\ s[2] = Do("dropsecret", s[i].id)
        /\ s[i].do = "dropsecret" => i = 1 \/ (i = 2 /\ s[1] = Do("droppair", s[i].id))
        /\ s[i].do = "seal" => \A j \in DOMAIN s : s[j].do = "rotate?" => j < i

Changeless(s) == \A x \in Steps(s) : x.do \notin Changing

-------------------------------------------------------------------------------
(***************************************************************************)
(* Sequences of steps                                                      *)
(***************************************************************************)

\* The steps of a literal sequence, of a request's first step and the rest, and of two
\* sequences joined (what is left of a handler in __init__.py).
LEMMA StepsOfLiterals ==
    /\ Steps(<<>>) = {}
    /\ \A a : Steps(<<a>>) = {a}
    /\ \A a, b : Steps(<<a, b>>) = {a, b}
    /\ \A a, b, c : Steps(<<a, b, c>>) = {a, b, c}
<1>1. Steps(<<>>) = {}
  BY DEF Steps
<1>2. \A a : Steps(<<a>>) = {a}
  BY DEF Steps
<1>3. \A a, b : Steps(<<a, b>>) = {a, b}
  BY DEF Steps
<1>4. \A a, b, c : Steps(<<a, b, c>>) = {a, b, c}
  BY DEF Steps
<1>5. QED
  BY <1>1, <1>2, <1>3, <1>4

\* A request is its next step and what comes later (Head and Tail of todo).
LEMMA StepsSplit ==
    ASSUME NEW S, NEW s \in Seq(S), s # <<>>
    PROVE  /\ Tail(s) \in Seq(S) /\ Head(s) \in S
           /\ Steps(s) = {Head(s)} \cup Steps(Tail(s))
           /\ Head(s) = s[1] /\ 1 \in DOMAIN s
           /\ \A i \in DOMAIN Tail(s) : i + 1 \in DOMAIN s /\ Tail(s)[i] = s[i + 1]
           /\ \A i \in DOMAIN s : i = 1 \/ (i - 1 \in DOMAIN Tail(s) /\ Tail(s)[i - 1] = s[i])
           /\ 2 \in DOMAIN s => 1 \in DOMAIN Tail(s) /\ Tail(s)[1] = s[2]
           /\ 3 \in DOMAIN s => 2 \in DOMAIN Tail(s) /\ Tail(s)[2] = s[3]
<1> DEFINE n == Len(s)
<1>1. /\ n \in Nat /\ n > 0 /\ DOMAIN s = 1..n
      /\ Head(s) = s[1] /\ Head(s) \in S
      /\ Tail(s) \in Seq(S) /\ Len(Tail(s)) = n - 1 /\ DOMAIN Tail(s) = 1..(n - 1)
  OBVIOUS
<1>2. \A i \in 1..(n - 1) : Tail(s)[i] = s[i + 1]
  BY <1>1
<1> HIDE DEF n
<1>3. \A i \in 1..(n - 1) : i + 1 \in 1..n
  BY <1>1
<1>4. \A i \in 1..n : i = 1 \/ (i - 1 \in 1..(n - 1) /\ Tail(s)[i - 1] = s[i])
  BY <1>1, <1>2
<1>5. 1 \in DOMAIN s
  BY <1>1
<1>6. Steps(s) = {Head(s)} \cup Steps(Tail(s))
  <2>1. ASSUME NEW x \in Steps(s) PROVE x = Head(s) \/ x \in Steps(Tail(s))
    <3>1. PICK i \in 1..n : x = s[i]
      BY <1>1, <2>1 DEF Steps
    <3>2. i = 1 \/ (i - 1 \in DOMAIN Tail(s) /\ Tail(s)[i - 1] = x)
      BY <1>1, <1>4, <3>1
    <3>3. QED
      BY <1>1, <3>1, <3>2 DEF Steps
  <2>2. Head(s) \in Steps(s)
    BY <1>1, <1>5 DEF Steps
  <2>3. ASSUME NEW x \in Steps(Tail(s)) PROVE x \in Steps(s)
    <3>1. PICK i \in 1..(n - 1) : x = Tail(s)[i]
      BY <1>1, <2>3 DEF Steps
    <3>2. i + 1 \in DOMAIN s /\ x = s[i + 1]
      BY <1>1, <1>2, <1>3, <3>1
    <3>3. QED
      BY <3>2 DEF Steps
  <2>4. QED
    BY <2>1, <2>2, <2>3
<1>7. 2 \in 1..n => 1 \in 1..(n - 1) /\ Tail(s)[1] = s[2]
  <2>1. 2 \in 1..n => 1 \in 1..(n - 1) /\ Tail(s)[1] = s[1 + 1]
    BY <1>1, <1>2
  <2>2. 1 + 1 = 2
    OBVIOUS
  <2>3. QED
    BY <2>1, <2>2
<1>8. 3 \in 1..n => 2 \in 1..(n - 1) /\ Tail(s)[2] = s[3]
  <2>1. 3 \in 1..n => 2 \in 1..(n - 1) /\ Tail(s)[2] = s[2 + 1]
    BY <1>1, <1>2
  <2>2. 2 + 1 = 3
    OBVIOUS
  <2>3. QED
    BY <2>1, <2>2
<1>9. QED
  BY <1>1, <1>2, <1>3, <1>4, <1>5, <1>6, <1>7, <1>8

\* The steps of two sequences joined, and where they stand.
LEMMA StepsJoined ==
    ASSUME NEW S, NEW a \in Seq(S), NEW b \in Seq(S)
    PROVE  /\ a \o b \in Seq(S)
           /\ Len(a \o b) = Len(a) + Len(b) /\ Len(a) \in Nat /\ Len(b) \in Nat
           /\ DOMAIN (a \o b) = 1..(Len(a) + Len(b))
           /\ DOMAIN a = 1..Len(a) /\ DOMAIN b = 1..Len(b)
           /\ \A i \in 1..Len(a) : (a \o b)[i] = a[i]
           /\ \A i \in 1..Len(b) : (a \o b)[Len(a) + i] = b[i]
           /\ Steps(a \o b) = Steps(a) \cup Steps(b)
<1>1. /\ a \o b \in Seq(S)
      /\ Len(a \o b) = Len(a) + Len(b) /\ Len(a) \in Nat /\ Len(b) \in Nat
      /\ \A i \in 1..(Len(a) + Len(b)) :
            (a \o b)[i] = IF i <= Len(a) THEN a[i] ELSE b[i - Len(a)]
  BY ConcatProperties
<1>2. /\ DOMAIN (a \o b) = 1..(Len(a) + Len(b))
      /\ DOMAIN a = 1..Len(a) /\ DOMAIN b = 1..Len(b)
  BY <1>1
<1>3. \A i \in 1..Len(a) : (a \o b)[i] = a[i]
  BY <1>1
<1>4. \A i \in 1..Len(b) : (a \o b)[Len(a) + i] = b[i]
  BY <1>1
<1>5. ASSUME NEW x \in Steps(a \o b) PROVE x \in Steps(a) \cup Steps(b)
  <2>1. PICK i \in 1..(Len(a) + Len(b)) : x = (a \o b)[i]
    BY <1>2, <1>5 DEF Steps
  <2>2. CASE i <= Len(a)
    BY <1>1, <1>2, <2>1, <2>2 DEF Steps
  <2>3. CASE ~(i <= Len(a))
    <3>1. i - Len(a) \in 1..Len(b) /\ x = b[i - Len(a)]
      BY <1>1, <2>1, <2>3
    <3>2. QED
      BY <1>2, <3>1 DEF Steps
  <2>4. QED
    BY <2>2, <2>3
<1>6. ASSUME NEW x \in Steps(a) PROVE x \in Steps(a \o b)
  <2>1. PICK i \in 1..Len(a) : x = a[i]
    BY <1>2, <1>6 DEF Steps
  <2>2. i \in 1..(Len(a) + Len(b)) /\ (a \o b)[i] = x
    BY <1>1, <1>3, <2>1
  <2>3. QED
    BY <1>2, <2>2 DEF Steps
<1>7. ASSUME NEW x \in Steps(b) PROVE x \in Steps(a \o b)
  <2>1. PICK i \in 1..Len(b) : x = b[i]
    BY <1>2, <1>7 DEF Steps
  <2>2. Len(a) + i \in 1..(Len(a) + Len(b)) /\ (a \o b)[Len(a) + i] = x
    BY <1>1, <1>4, <2>1
  <2>3. QED
    BY <1>2, <2>2 DEF Steps
<1>8. QED
  BY <1>1, <1>2, <1>3, <1>4, <1>5, <1>6, <1>7

-------------------------------------------------------------------------------
(***************************************************************************)
(* Shapes of requests                                                      *)
(***************************************************************************)

\* Steps that change nothing shared may stand anywhere (log, usage, check and the
\* like of __init__.py).
LEMMA ChangelessShape ==
    ASSUME NEW s \in Seq(Step), Changeless(s), \A x \in Steps(s) : x.do # "seal"
    PROVE  Shape(s)
<1>1. \A i \in DOMAIN s : s[i] \in Steps(s)
  BY DEF Steps
<1>2. QED
  BY <1>1 DEF Shape, Changeless, Changing

\* What is left of a request when its next step is done has its shape still.
LEMMA TailShape ==
    ASSUME NEW s \in Seq(Step), s # <<>>, Shape(s)
    PROVE  Shape(Tail(s))
<1> DEFINE r == Tail(s)
<1>1. /\ r \in Seq(Step)
      /\ \A i \in DOMAIN r : i + 1 \in DOMAIN s /\ r[i] = s[i + 1]
      /\ 3 \in DOMAIN s => 2 \in DOMAIN r /\ r[2] = s[3]
      /\ \A i \in DOMAIN s : i = 1 \/ (i - 1 \in DOMAIN r /\ r[i - 1] = s[i])
  BY StepsSplit
<1> HIDE DEF r
<1>2. \A i \in DOMAIN r : i \in Nat /\ i + 1 # 1
  BY <1>1
<1>3. ASSUME NEW i \in DOMAIN r
      PROVE  /\ r[i].do # "append" /\ r[i].do # "droppair"
             /\ r[i].do = "dropsecret" => i = 1
  <2>1. i + 1 \in DOMAIN s /\ r[i] = s[i + 1] /\ i \in Nat
    BY <1>1, <1>2
  <2>2. i + 1 # 1 /\ (i + 1 = 2 => i = 1)
    BY <1>2, <2>1
  <2>3. QED
    BY <2>1, <2>2 DEF Shape
<1>4. ASSUME NEW i \in DOMAIN r, r[i].do = "newpair"
      PROVE  i = 1 /\ i + 1 \in DOMAIN r /\ r[i + 1] = Do("newsecret", r[i].id)
  <2>1. i + 1 \in DOMAIN s /\ r[i] = s[i + 1] /\ i \in Nat
    BY <1>1, <1>2
  <2>2. /\ i + 1 = 1 \/ i + 1 = 2
        /\ (i + 1) + 1 \in DOMAIN s /\ s[(i + 1) + 1] = Do("newsecret", r[i].id)
    BY <1>4, <2>1 DEF Shape
  <2>3. i = 1
    BY <1>2, <2>1, <2>2
  <2>4. 3 \in DOMAIN s /\ s[3] = Do("newsecret", r[i].id)
    BY <2>2, <2>3
  <2>5. 2 \in DOMAIN r /\ r[2] = s[3]
    BY <1>1, <2>4
  <2>6. QED
    BY <2>3, <2>4, <2>5
<1>5. ASSUME NEW i \in DOMAIN r, r[i].do = "newsecret", i # 1
      PROVE  r[i - 1] = Do("newpair", r[i].id)
  <2>1. i + 1 \in DOMAIN s /\ r[i] = s[i + 1] /\ i \in Nat /\ i - 1 \in DOMAIN r
    BY <1>1, <1>2, <1>5
  <2>2. s[(i + 1) - 1] = Do("newpair", r[i].id)
    BY <1>2, <1>5, <2>1 DEF Shape
  <2>3. r[i - 1] = s[(i - 1) + 1] /\ (i - 1) + 1 = (i + 1) - 1
    BY <1>1, <2>1
  <2>4. QED
    BY <2>2, <2>3
<1>6. ASSUME NEW i \in DOMAIN r, NEW j \in DOMAIN r, r[i].do = "seal", r[j].do = "rotate?"
      PROVE  j < i
  <2>1. j + 1 < i + 1
    BY <1>1, <1>6 DEF Shape
  <2>2. QED
    BY <1>2, <2>1
<1>7. Shape(r)
  BY <1>3, <1>4, <1>5, <1>6 DEF Shape
<1>8. QED
  BY <1>7 DEF r

\* Where the steps that change the dictionaries or the log can be: first, second after
\* the one they belong to, or third in a rotation (generate_keypair, _rotate_key,
\* remove_keypair, AuditLogger.log of __init__.py).
LEMMA ChangersFirst ==
    ASSUME NEW s \in Seq(Step), Shape(s), NEW i \in DOMAIN s, s[i].do \in Changing
    PROVE  /\ 1 \in DOMAIN s
           /\ \/ i = 1
              \/ i = 2 /\ s[1].do = "newpair" /\ s[2].do = "newsecret"
              \/ i = 2 /\ s[1].do = "droppair" /\ s[2].do = "dropsecret"
              \/ i = 2 /\ s[1].do = "dropsecret" /\ s[2].do = "newpair"
              \/ i = 3 /\ s[1].do = "dropsecret" /\ s[2].do = "newpair"
<1>1. i \in 1..Len(s) /\ Len(s) \in Nat /\ 1 \in DOMAIN s
  OBVIOUS
<1>2. CASE s[i].do \in {"append", "droppair"}
  BY <1>1, <1>2 DEF Shape
<1>3. CASE s[i].do = "dropsecret"
  <2>1. i = 1 \/ (i = 2 /\ s[1] = Do("droppair", s[i].id))
    BY <1>3 DEF Shape
  <2>2. QED
    BY <1>1, <1>3, <2>1 DEF Do
<1>4. ASSUME NEW j \in DOMAIN s, s[j].do = "newpair"
      PROVE  j = 1 \/ (j = 2 /\ s[1].do = "dropsecret")
  <2>1. j = 1 \/ (j = 2 /\ s[1] = Do("dropsecret", s[j].id))
    BY <1>4 DEF Shape
  <2>2. QED
    BY <2>1 DEF Do
<1>5. CASE s[i].do = "newsecret" /\ i # 1
  <2>1. i - 1 \in DOMAIN s /\ s[i - 1] = Do("newpair", s[i].id)
    BY <1>1, <1>5 DEF Shape
  <2>2. s[i - 1].do = "newpair"
    BY <2>1 DEF Do
  <2>3. i - 1 = 1 \/ (i - 1 = 2 /\ s[1].do = "dropsecret")
    BY <1>4, <2>1, <2>2
  <2>4. (i - 1 = 1 => i = 2) /\ (i - 1 = 2 => i = 3)
    BY <1>1
  <2>5. QED
    BY <1>1, <1>5, <2>2, <2>3, <2>4
<1>6. QED
  BY <1>1, <1>2, <1>3, <1>4, <1>5 DEF Changing

\* What is left when the next step changes nothing, or is the last of its changes.
LEMMA LastChange ==
    ASSUME NEW s \in Seq(Step), s # <<>>, Shape(s),
           \/ Head(s).do \notin {"newpair", "droppair", "dropsecret"}
           \/ Head(s).do = "dropsecret" /\ ~\E x \in Steps(s) : x.do = "newpair"
    PROVE  Changeless(Tail(s))
<1>1. /\ Tail(s) \in Seq(Step) /\ Head(s) = s[1] /\ 1 \in DOMAIN s
      /\ \A i \in DOMAIN Tail(s) : i + 1 \in DOMAIN s /\ Tail(s)[i] = s[i + 1]
  BY StepsSplit
<1>2. SUFFICES ASSUME NEW i \in DOMAIN Tail(s), Tail(s)[i].do \in Changing PROVE FALSE
  BY DEF Changeless, Steps
<1>3. i + 1 \in DOMAIN s /\ s[i + 1].do \in Changing /\ i + 1 # 1
  BY <1>1, <1>2
<1>4. s[1].do \in {"newpair", "droppair", "dropsecret"}
  BY <1>3, ChangersFirst
<1>5. s[1].do = "dropsecret" /\ ~\E x \in Steps(s) : x.do = "newpair"
  BY <1>1, <1>4
<1>6. s[2].do = "newpair" /\ (i + 1 = 2 \/ i + 1 = 3)
  BY <1>3, <1>5, ChangersFirst
<1>7. 2 \in DOMAIN s
  BY <1>3, <1>6
<1>8. QED
  BY <1>5, <1>6, <1>7 DEF Steps

\* When the next step changes nothing shared, no later one does.
LEMMA ChangelessTail ==
    ASSUME NEW s \in Seq(Step), s # <<>>, Shape(s), Head(s).do \notin Changing
    PROVE  Changeless(s) /\ Changeless(Tail(s))
<1>1. Changeless(Tail(s))
  BY LastChange DEF Changing
<1>2. Steps(s) = {Head(s)} \cup Steps(Tail(s))
  BY StepsSplit
<1>3. QED
  BY <1>1, <1>2 DEF Changeless

\* A second change follows: the secret key after the pair when both are new, and when
\* both go (generate_keypair, remove_keypair).
LEMMA PairThenSecret ==
    ASSUME NEW s \in Seq(Step), s # <<>>, Shape(s), Head(s).do \in {"newpair", "droppair"}
    PROVE  LET r == Tail(s)
               second == IF Head(s).do = "newpair" THEN "newsecret" ELSE "dropsecret"
           IN  /\ r \in Seq(Step) /\ r # <<>>
               /\ Head(r) = Do(second, Head(s).id)
               /\ Changeless(Tail(r))
<1> DEFINE r == Tail(s)
<1>1. /\ r \in Seq(Step) /\ Head(s) = s[1] /\ 1 \in DOMAIN s
      /\ \A i \in DOMAIN r : i + 1 \in DOMAIN s /\ r[i] = s[i + 1]
      /\ 2 \in DOMAIN s => 1 \in DOMAIN r /\ r[1] = s[2]
  BY StepsSplit
<1> HIDE DEF r
<1>2. /\ 2 \in DOMAIN s
      /\ s[2] = Do(IF Head(s).do = "newpair" THEN "newsecret" ELSE "dropsecret", Head(s).id)
  <2>1. CASE Head(s).do = "newpair"
    <3>1. 1 + 1 \in DOMAIN s /\ s[1 + 1] = Do("newsecret", s[1].id)
      BY <1>1, <2>1 DEF Shape
    <3>2. QED
      BY <1>1, <2>1, <3>1
  <2>2. CASE Head(s).do = "droppair"
    BY <1>1, <2>2 DEF Shape
  <2>3. QED
    BY <2>1, <2>2
<1>3. 1 \in DOMAIN r /\ r[1] = s[2]
  BY <1>1, <1>2
<1>4. r # <<>> /\ r[1] = s[2]
  BY <1>1, <1>3
<1>5. /\ Tail(r) \in Seq(Step) /\ Head(r) = r[1]
      /\ \A i \in DOMAIN Tail(r) : i + 1 \in DOMAIN r /\ Tail(r)[i] = r[i + 1]
  BY <1>1, <1>4, StepsSplit
<1>6. ASSUME NEW i \in DOMAIN Tail(r), Tail(r)[i].do \in Changing PROVE FALSE
  <2>1. /\ (i + 1) + 1 \in DOMAIN s /\ s[(i + 1) + 1].do \in Changing
        /\ i \in Nat /\ i # 0
    BY <1>1, <1>5, <1>6
  <2>2. (i + 1) + 1 # 1 /\ (i + 1) + 1 # 2
    BY <2>1
  <2>3. s[1].do = "dropsecret"
    BY <2>1, <2>2, ChangersFirst
  <2>4. QED
    BY <1>1, <2>3
<1>7. Changeless(Tail(r))
  BY <1>6 DEF Changeless, Steps
<1>8. QED
  BY <1>1, <1>2, <1>4, <1>5, <1>7 DEF r

\* A rotation drops the secret key and makes a new pair next (_rotate_key).
LEMMA DropThenPair ==
    ASSUME NEW s \in Seq(Step), s # <<>>, Shape(s), Head(s).do = "dropsecret",
           NEW x \in Steps(s), x.do = "newpair"
    PROVE  /\ Tail(s) \in Seq(Step) /\ Tail(s) # <<>>
           /\ Head(Tail(s)) = x /\ x.id = Head(s).id
<1> DEFINE r == Tail(s)
<1>1. /\ r \in Seq(Step) /\ Head(s) = s[1] /\ 1 \in DOMAIN s
      /\ 2 \in DOMAIN s => 1 \in DOMAIN r /\ r[1] = s[2]
  BY StepsSplit
<1> HIDE DEF r
<1>2. PICK i \in DOMAIN s : x = s[i]
  BY DEF Steps
<1>3. i = 2 /\ s[1] = Do("dropsecret", x.id)
  BY <1>1, <1>2 DEF Shape
<1>4. 1 \in DOMAIN r /\ r[1] = x
  BY <1>1, <1>2, <1>3
<1>5. r # <<>> /\ r[1] = x
  BY <1>1, <1>4
<1>6. Head(r) = r[1]
  BY <1>1, <1>5, StepsSplit
<1>7. QED
  BY <1>1, <1>3, <1>5, <1>6 DEF Do, r

\* The secret that was drawn is written into the next step (generate_keypair).
LEMMA SecretWritten ==
    ASSUME NEW r \in Seq(Step), r # <<>>, NEW k \in AllIds, Head(r) = Do("newsecret", k),
           Shape(r), Changeless(Tail(r)), NEW x \in Secrets
    PROVE  LET w == [r EXCEPT ![1].with = x] IN
           /\ w \in Seq(Step) /\ Shape(w)
           /\ Steps(w) = {DoWith("newsecret", k, x)} \cup Steps(Tail(r))
<1> DEFINE h == DoWith("newsecret", k, x)
           w == [r EXCEPT ![1].with = x]
           v == [r EXCEPT ![1] = h]
<1>1. /\ Head(r) = r[1] /\ 1 \in DOMAIN r /\ Tail(r) \in Seq(Step)
      /\ \A i \in DOMAIN Tail(r) : i + 1 \in DOMAIN r /\ Tail(r)[i] = r[i + 1]
      /\ \A i \in DOMAIN r : i = 1 \/ (i - 1 \in DOMAIN Tail(r) /\ Tail(r)[i - 1] = r[i])
  BY StepsSplit
<1>2. h \in Step
  BY DEF Step, DoWith, Kinds, Changing, With
<1>3. w = v
  <2>1. [r[1] EXCEPT !.with = x] = h
    BY <1>1 DEF Do, DoWith
  <2>2. QED
    BY <1>1, <2>1
<1>4. /\ v \in Seq(Step) /\ DOMAIN v = DOMAIN r
      /\ v[1] = h /\ \A i \in DOMAIN r : i # 1 => v[i] = r[i]
  BY <1>1, <1>2
<1>5. h.do = "newsecret"
  BY DEF DoWith
<1> HIDE DEF h, v, w
<1>6. \A i \in DOMAIN v : i # 1 => v[i].do \notin Changing
  BY <1>1, <1>4 DEF Changeless, Steps
<1>7. \A i, j \in DOMAIN v : v[i].do = "seal" /\ v[j].do = "rotate?" => j < i
  <2>1. r[1].do = "newsecret"
    BY <1>1 DEF Do
  <2>2. QED
    BY <1>4, <1>5, <2>1 DEF Shape
<1>8. Shape(v)
  BY <1>4, <1>5, <1>6, <1>7 DEF Shape, Changing
<1>9. Steps(v) = {h} \cup Steps(Tail(r))
  <2>1. ASSUME NEW y \in Steps(v) PROVE y = h \/ y \in Steps(Tail(r))
    <3>1. PICK i \in DOMAIN r : y = v[i]
      BY <1>4, <2>1 DEF Steps
    <3>2. i = 1 \/ (i - 1 \in DOMAIN Tail(r) /\ Tail(r)[i - 1] = y)
      BY <1>1, <1>4, <3>1
    <3>3. QED
      BY <1>4, <3>1, <3>2 DEF Steps
  <2>2. h \in Steps(v)
    BY <1>1, <1>4 DEF Steps
  <2>3. ASSUME NEW y \in Steps(Tail(r)) PROVE y \in Steps(v)
    <3>1. PICK i \in DOMAIN Tail(r) : y = Tail(r)[i]
      BY <2>3 DEF Steps
    <3>2. i + 1 \in DOMAIN r /\ y = r[i + 1] /\ i + 1 # 1
      BY <1>1, <3>1
    <3>3. QED
      BY <1>4, <3>2 DEF Steps
  <2>4. QED
    BY <2>1, <2>2, <2>3
<1>10. QED
  BY <1>3, <1>4, <1>8, <1>9 DEF h, w

\* Steps put before others that change nothing keep their places.
LEMMA JoinedShape ==
    ASSUME NEW a \in Seq(Step), NEW b \in Seq(Step), Shape(a), Shape(b), Changeless(b),
           (\A x \in Steps(a) : x.do # "seal") \/ (\A x \in Steps(b) : x.do # "rotate?")
    PROVE  Shape(a \o b)
<1> DEFINE s == a \o b
           m == Len(a)
           n == Len(b)
<1>1. /\ s \in Seq(Step) /\ m \in Nat /\ n \in Nat /\ DOMAIN s = 1..(m + n)
      /\ DOMAIN a = 1..m /\ DOMAIN b = 1..n
      /\ \A i \in 1..m : s[i] = a[i]
      /\ \A i \in 1..n : s[m + i] = b[i]
  BY StepsJoined
<1> HIDE DEF s, m, n
<1>2. ASSUME NEW i \in DOMAIN s
      PROVE  \/ i \in 1..m /\ s[i] = a[i]
             \/ i \notin 1..m /\ i - m \in 1..n /\ s[i] = b[i - m]
  <2>1. CASE i <= m
    BY <1>1, <2>1
  <2>2. CASE ~(i <= m)
    <3>1. i - m \in 1..n /\ m + (i - m) = i
      BY <1>1, <2>2
    <3>2. QED
      BY <1>1, <2>2, <3>1
  <2>3. QED
    BY <2>1, <2>2
<1>3. \A i \in 1..n : b[i].do \notin Changing
  BY <1>1 DEF Changeless, Steps
<1>4. ASSUME NEW i \in DOMAIN s, s[i].do \in Changing PROVE i \in 1..m /\ s[i] = a[i]
  BY <1>2, <1>3, <1>4
<1>5. 1 \in DOMAIN a => s[1] = a[1]
  BY <1>1
<1>6. ASSUME NEW i \in DOMAIN s
      PROVE  /\ s[i].do = "append" => i = 1
             /\ s[i].do = "newpair" =>
                   /\ i = 1 \/ (i = 2 /\ s[1] = Do("dropsecret", s[i].id))
                   /\ i + 1 \in DOMAIN s /\ s[i + 1] = Do("newsecret", s[i].id)
             /\ s[i].do = "newsecret" => i = 1 \/ s[i - 1] = Do("newpair", s[i].id)
             /\ s[i].do = "droppair" =>
                   i = 1 /\ 2 \in DOMAIN s /\ s[2] = Do("dropsecret", s[i].id)
             /\ s[i].do = "dropsecret" => i = 1 \/ (i = 2 /\ s[1] = Do("droppair", s[i].id))
  <2>1. CASE s[i].do \in Changing
    <3>1. i \in 1..m /\ s[i] = a[i] /\ s[1] = a[1] /\ i \in DOMAIN a
      BY <1>1, <1>4, <2>1
    <3>2. s[i].do = "newsecret" /\ i # 1 => i - 1 \in 1..m /\ s[i - 1] = a[i - 1]
      BY <1>1, <3>1
    <3>3. \A j \in DOMAIN a : j \in DOMAIN s /\ s[j] = a[j]
      BY <1>1
    <3>4. QED
      BY <3>1, <3>2, <3>3 DEF Shape
  <2>2. CASE s[i].do \notin Changing
    BY <2>2 DEF Changing
  <2>3. QED
    BY <2>1, <2>2
<1>7. ASSUME NEW i \in DOMAIN s, NEW j \in DOMAIN s, s[i].do = "seal", s[j].do = "rotate?"
      PROVE  j < i
  <2>1. CASE i \in 1..m /\ j \in 1..m
    BY <1>1, <1>7, <2>1 DEF Shape
  <2>2. CASE i \in 1..m /\ j \notin 1..m
    <3>1. a[i].do = "seal" /\ b[j - m].do = "rotate?" /\ a[i] \in Steps(a) /\ b[j - m] \in Steps(b)
      BY <1>1, <1>2, <1>7, <2>2 DEF Steps
    <3>2. QED
      BY <3>1
  <2>3. CASE i \notin 1..m /\ j \in 1..m
    BY <1>1, <2>3
  <2>4. CASE i \notin 1..m /\ j \notin 1..m
    <3>1. /\ i - m \in DOMAIN b /\ j - m \in DOMAIN b
          /\ b[i - m].do = "seal" /\ b[j - m].do = "rotate?"
      BY <1>1, <1>2, <1>7, <2>4
    <3>2. j - m < i - m
      BY <3>1 DEF Shape
    <3>3. QED
      BY <1>1, <3>2
  <2>5. QED
    BY <2>1, <2>2, <2>3, <2>4
<1>8. Shape(s)
  BY <1>6, <1>7 DEF Shape
<1>9. QED
  BY <1>8 DEF s

-------------------------------------------------------------------------------
(***************************************************************************)
(* What requests are made of                                               *)
(***************************************************************************)

WellSorted(x) ==
    /\ x.do \in {"newpair", "newsecret"} => x.id \in AllIds
    /\ x.do \in {"ensure", "rotate?", "seal", "usage", "register", "rotated", "droppair",
                 "dropsecret", "attest", "open"} => x.id \in Ids
    /\ x.do = "plant" => x.id \in Canaries
    /\ x.do \in {"newpair", "droppair", "dropsecret", "register"} => x.with = None
    /\ x.do = "newsecret" => x.with \in drawn \cup {None}
    /\ x.do \in {"seal", "rotated"} => x.with \subseteq drawn
    /\ x.do = "append" => x.id = Log /\ x.with \in Nat
    /\ x.do = "fips" => x.with \in BOOLEAN

\* What the steps a handler is about to take say of each other and of the moment they
\* are planned at: a secret key comes after its pair and before its registration, a
\* rotation carries what it replaces, a seal what was exhausted.
Planned(p) ==
    \A x \in p :
        /\ x \in Step /\ WellSorted(x)
        /\ x.do = "newsecret" => /\ x.with = None /\ Do("newpair", x.id) \in p
                                 /\ x.id \in Ids => Do("register", x.id) \in p
        /\ x.do = "dropsecret" => Do("newpair", x.id) \in p \/ Do("droppair", x.id) \in p
        /\ x.do = "plant" => Do("newpair", x.id) \in p
        /\ x.do = "rotated" => /\ x.with = InPlace(x.id)
                               /\ Do("newpair", x.id) \in p /\ Do("dropsecret", x.id) \in p
        /\ x.do = "register" => Do("newsecret", x.id) \in p
        /\ x.do = "seal" =>
              /\ x.with \subseteq InPlace(x.id)
              /\ x.with # {} => /\ NeedsRotation(x.id) /\ ~Registering(x.id)
                                /\ Do("rotate?", x.id) \in p
        /\ x.do = "append" => x.with = Len(audit)

Fits(s) == s \in Seq(Step) /\ Shape(s) /\ Planned(Steps(s))

Unsealing(s) == \A x \in Steps(s) : x.do # "seal"

TypeOK ==
    /\ keypairs \in [AllIds -> Secrets \cup {None}]
    /\ secret_keys \in [AllIds -> Secrets \cup {None}]
    /\ canaries \subseteq Canaries
    /\ meta \in [Ids -> [ops : Nat, max : Nat]]
    /\ fips \in BOOLEAN
    /\ audit \in Seq(Nat)
    /\ todo \in [Threads -> Seq(Step)]
    /\ drawn \subseteq Secrets
    /\ sealed \subseteq Ciphertext
    /\ retired \subseteq drawn

Formed ==
    /\ TypeOK
    /\ \A k \in AllIds : InPlace(k) \subseteq drawn
    /\ \A t \in Threads :
          /\ Shape(todo[t])
          /\ \A x \in Pending(t) :
                /\ WellSorted(x)
                /\ x.do = "newsecret" /\ x.id \in Ids => Has(t, "register", x.id)

\* A step of the program, as Do writes it.
LEMMA DoFields ==
    /\ \A what, k : Do(what, k).do = what /\ Do(what, k).id = k /\ Do(what, k).with = None
    /\ \A what, k, x : /\ DoWith(what, k, x).do = what /\ DoWith(what, k, x).id = k
                       /\ DoWith(what, k, x).with = x
    /\ \A what \in Kinds : \A k \in AllIds \cup {Log, None} :
          Do(what, k) \in Step /\ \A x \in With : DoWith(what, k, x) \in Step
<1>1. None \in With
  BY DEF With
<1>2. QED
  BY <1>1 DEF Do, DoWith, Step

\* Plans side by side are a plan (a handler's own log entry follows each result).
LEMMA FitsJoined ==
    ASSUME NEW a, NEW b, Fits(a), Fits(b), Changeless(b),
           Unsealing(a) \/ (\A x \in Steps(b) : x.do # "rotate?")
    PROVE  Fits(a \o b) /\ Steps(a \o b) = Steps(a) \cup Steps(b)
<1>1. a \o b \in Seq(Step) /\ Steps(a \o b) = Steps(a) \cup Steps(b)
  BY StepsJoined DEF Fits
<1>2. Shape(a \o b)
  BY JoinedShape DEF Fits, Unsealing
<1>3. Planned(Steps(a) \cup Steps(b))
  <2>1. Planned(Steps(a)) /\ Planned(Steps(b))
    BY DEF Fits
  <2>2. QED
    BY <2>1 DEF Planned
<1>4. QED
  BY <1>1, <1>2, <1>3 DEF Fits

\* The log entry that a method writes when it is done (AuditLogger.log).
LEMMA NoteFits ==
    /\ Fits(Note) /\ Changeless(Note) /\ Unsealing(Note)
    /\ Steps(Note) = {Do("log", Log)}
    /\ Fits(<<>>) /\ Changeless(<<>>) /\ Unsealing(<<>>)
<1>1. Steps(Note) = {Do("log", Log)} /\ Steps(<<>>) = {}
  BY StepsOfLiterals DEF Note
<1>2. Do("log", Log) \in Step /\ Do("log", Log).do = "log"
  BY DoFields DEF Kinds
<1>3. Changeless(Note) /\ Unsealing(Note) /\ Changeless(<<>>) /\ Unsealing(<<>>)
  BY <1>1, <1>2 DEF Changeless, Unsealing, Changing
<1>4. Note \in Seq(Step) /\ <<>> \in Seq(Step)
  BY <1>2 DEF Note
<1>5. Shape(Note) /\ Shape(<<>>)
  BY <1>3, <1>4, ChangelessShape DEF Unsealing
<1>6. Planned(Steps(Note)) /\ Planned(Steps(<<>>))
  BY <1>1, <1>2 DEF Planned, WellSorted
<1>7. QED
  BY <1>1, <1>3, <1>4, <1>5, <1>6 DEF Fits

\* A step that changes nothing shared, alone.
LEMMA SingleFits ==
    ASSUME NEW x \in Step, Planned({x}), x.do \notin Changing
    PROVE  Fits(<<x>>) /\ Changeless(<<x>>) /\ Steps(<<x>>) = {x}
<1>1. Steps(<<x>>) = {x} /\ <<x>> \in Seq(Step)
  BY StepsOfLiterals
<1>2. Changeless(<<x>>)
  BY <1>1 DEF Changeless
<1>3. Shape(<<x>>)
  BY DEF Shape, Changing
<1>4. QED
  BY <1>1, <1>2, <1>3 DEF Fits

\* generate_keypair: the pair, its secret key, a log entry, the registration.
LEMMA GeneratesFits ==
    ASSUME NEW k \in Ids
    PROVE  /\ Fits(Generates(k)) /\ Unsealing(Generates(k))
           /\ Generates(k) # <<>> /\ Generates(k)[1] = Do("newpair", k)
           /\ Steps(Generates(k)) =
                 {Do("newpair", k), Do("newsecret", k), Do("log", Log), Do("register", k)}
<1> DEFINE np == Do("newpair", k)
           ns == Do("newsecret", k)
           rg == Do("register", k)
           a  == <<np, ns>>
           g  == (a \o Note) \o <<rg>>
<1>1. /\ np \in Step /\ ns \in Step /\ rg \in Step
      /\ np.do = "newpair" /\ ns.do = "newsecret" /\ rg.do = "register"
      /\ np.id = k /\ ns.id = k /\ rg.id = k
      /\ np.with = None /\ ns.with = None /\ rg.with = None
  BY DoFields DEF AllIds, Kinds, Changing
<1>2. /\ a \in Seq(Step) /\ Steps(a) = {np, ns} /\ Len(a) = 2 /\ a[1] = np
      /\ <<rg>> \in Seq(Step) /\ Steps(<<rg>>) = {rg}
  BY <1>1, StepsOfLiterals
<1>3. Shape(a)
  BY <1>1 DEF Shape
<1>4. Note \in Seq(Step) /\ Shape(Note) /\ Changeless(Note) /\ Steps(Note) = {Do("log", Log)}
      /\ Do("log", Log).do = "log"
  BY NoteFits, DoFields DEF Fits
<1>5. Changeless(<<rg>>) /\ Shape(<<rg>>)
  <2>1. Changeless(<<rg>>) /\ Unsealing(<<rg>>)
    BY <1>1, <1>2 DEF Changeless, Changing, Unsealing
  <2>2. QED
    BY <1>2, <2>1, ChangelessShape DEF Unsealing
<1>6. Generates(k) = g
  BY DEF Generates
<1> HIDE DEF np, ns, rg, a
<1>7. /\ a \o Note \in Seq(Step) /\ Shape(a \o Note)
      /\ Steps(a \o Note) = {np, ns, Do("log", Log)}
      /\ Len(a \o Note) >= 2 /\ (a \o Note)[1] = np
  <2>1. Shape(a \o Note)
    BY <1>1, <1>2, <1>3, <1>4, JoinedShape
  <2>2. /\ a \o Note \in Seq(Step) /\ Steps(a \o Note) = Steps(a) \cup Steps(Note)
        /\ Len(a \o Note) = Len(a) + Len(Note) /\ Len(Note) \in Nat
        /\ \A i \in 1..Len(a) : (a \o Note)[i] = a[i]
    BY <1>2, <1>4, StepsJoined, SMTT(30)
  <2>3. Len(a \o Note) >= 2 /\ (a \o Note)[1] = np
    BY <1>2, <2>2
  <2>4. QED
    BY <1>2, <1>4, <2>1, <2>2, <2>3
<1>8. /\ g \in Seq(Step) /\ Steps(g) = {np, ns, Do("log", Log), rg}
      /\ Len(g) >= 2 /\ g[1] = np
  <2>1. /\ g \in Seq(Step) /\ Steps(g) = Steps(a \o Note) \cup Steps(<<rg>>)
        /\ Len(g) = Len(a \o Note) + Len(<<rg>>)
        /\ Len(a \o Note) \in Nat /\ Len(<<rg>>) \in Nat
        /\ \A i \in 1..Len(a \o Note) : g[i] = (a \o Note)[i]
    <3> DEFINE b == a \o Note
               c == <<rg>>
    <3>1. b \in Seq(Step) /\ c \in Seq(Step)
      BY <1>2, <1>7
    <3> HIDE DEF b, c
    <3>2. /\ b \o c \in Seq(Step) /\ Steps(b \o c) = Steps(b) \cup Steps(c)
          /\ Len(b \o c) = Len(b) + Len(c) /\ Len(b) \in Nat /\ Len(c) \in Nat
          /\ \A i \in 1..Len(b) : (b \o c)[i] = b[i]
      BY <3>1, StepsJoined
    <3>3. QED
      BY <3>2 DEF b, c
  <2>2. Len(g) >= 2 /\ g[1] = np
    BY <1>7, <2>1
  <2>3. QED
    BY <1>2, <1>7, <2>1, <2>2
<1>9. Shape(g)
  BY <1>1, <1>2, <1>4, <1>5, <1>7, JoinedShape
<1>10. Planned(Steps(g))
  <2>1. Do("log", Log) \in Step /\ k \in AllIds
    BY DoFields DEF Kinds, AllIds
  <2>2. np \in Steps(g) /\ rg \in Steps(g) /\ ns \in Steps(g)
    BY <1>8
  <2>3. np = Do("newpair", k) /\ rg = Do("register", k) /\ ns = Do("newsecret", k)
    BY DEF np, rg, ns
  <2> HIDE DEF g
  <2>4. ASSUME NEW x \in Steps(g)
        PROVE  x \in {np, ns, Do("log", Log), rg} /\ x \in Step /\ WellSorted(x)
    BY <1>1, <1>4, <1>8, <2>1 DEF WellSorted
  <2>5. QED
    BY <1>1, <1>4, <2>2, <2>3, <2>4 DEF Planned
<1>11. g # <<>>
  BY <1>8
<1>12. Unsealing(g)
  BY <1>1, <1>4, <1>8 DEF Unsealing
<1> HIDE DEF g
<1>13. QED
  BY <1>6, <1>8, <1>9, <1>10, <1>11, <1>12 DEF Fits, np, ns, rg

\* A rotation drops the secret key before it generates (_rotate_key).
LEMMA DropBefore ==
    ASSUME NEW k \in Ids, NEW g \in Seq(Step), g # <<>>, Shape(g), g[1] = Do("newpair", k)
    PROVE  Shape(<<Do("dropsecret", k)>> \o g)
<1> DEFINE ds == Do("dropsecret", k)
           s  == <<ds>> \o g
           n  == Len(g)
<1>1. /\ ds \in Step /\ ds.do = "dropsecret" /\ g[1].do = "newpair" /\ g[1].id = k
  BY DoFields DEF AllIds, Kinds, Changing
<1>2. <<ds>> \in Seq(Step) /\ Len(<<ds>>) = 1 /\ <<ds>>[1] = ds
  BY <1>1
<1> HIDE DEF ds
<1>3. /\ s \in Seq(Step) /\ n \in Nat /\ DOMAIN s = 1..(1 + n) /\ DOMAIN g = 1..n
      /\ s[1] = ds
      /\ \A i \in 1..n : s[1 + i] = g[i]
  BY <1>2, StepsJoined
<1>4. n >= 1 /\ 1 \in DOMAIN g
  BY <1>3
<1> HIDE DEF s, n
<1>5. /\ 2 \in DOMAIN g /\ g[2] = Do("newsecret", k)
  <2>1. 1 + 1 \in DOMAIN g /\ g[1 + 1] = Do("newsecret", g[1].id)
    BY <1>1, <1>4 DEF Shape
  <2>2. 1 + 1 = 2
    OBVIOUS
  <2>3. QED
    BY <1>1, <2>1, <2>2
<1>6. /\ 2 \in DOMAIN s /\ s[2] = g[1] /\ 3 \in DOMAIN s /\ s[3] = g[2]
  <2>1. 1 + 1 = 2 /\ 1 + 2 = 3
    OBVIOUS
  <2>2. 1 \in 1..n /\ 2 \in 1..n
    BY <1>3, <1>4, <1>5
  <2>3. QED
    BY <1>3, <2>1, <2>2
<1>7. ASSUME NEW i \in DOMAIN s, i # 1, s[i].do \in Changing
      PROVE  i = 2 \/ i = 3
  <2>1. i - 1 \in DOMAIN g /\ s[i] = g[i - 1]
    <3>1. i - 1 \in 1..n /\ 1 + (i - 1) = i
      BY <1>3, <1>7
    <3>2. QED
      BY <1>3, <3>1
  <2>2. i - 1 = 1 \/ i - 1 = 2
    BY <1>1, <1>7, <2>1, ChangersFirst
  <2>3. QED
    BY <1>3, <2>2
<1>8. g[2].do = "newsecret" /\ g[2].id = k
  BY <1>5, DoFields
<1>9. ASSUME NEW i \in DOMAIN s
      PROVE  /\ s[i].do = "append" => i = 1
             /\ s[i].do = "newpair" =>
                   /\ i = 1 \/ (i = 2 /\ s[1] = Do("dropsecret", s[i].id))
                   /\ i + 1 \in DOMAIN s /\ s[i + 1] = Do("newsecret", s[i].id)
             /\ s[i].do = "newsecret" => i = 1 \/ s[i - 1] = Do("newpair", s[i].id)
             /\ s[i].do = "droppair" =>
                   i = 1 /\ 2 \in DOMAIN s /\ s[2] = Do("dropsecret", s[i].id)
             /\ s[i].do = "dropsecret" => i = 1 \/ (i = 2 /\ s[1] = Do("droppair", s[i].id))
  <2>1. CASE i = 1
    BY <1>1, <1>3, <2>1
  <2>2. CASE i = 2
    <3>1. s[i].do = "newpair" /\ s[i].id = k /\ s[1] = Do("dropsecret", s[i].id)
      BY <1>1, <1>3, <1>6, <2>2 DEF ds
    <3>2. 2 + 1 = 3
      OBVIOUS
    <3>3. i + 1 \in DOMAIN s /\ s[i + 1] = Do("newsecret", s[i].id)
      BY <1>5, <1>6, <2>2, <3>1, <3>2
    <3>4. QED
      BY <2>2, <3>1, <3>3
  <2>3. CASE i = 3
    <3>1. s[i].do = "newsecret" /\ s[i].id = k
      BY <1>6, <1>8, <2>3
    <3>2. 3 - 1 = 2
      OBVIOUS
    <3>3. s[i - 1] = Do("newpair", s[i].id)
      BY <1>6, <2>3, <3>1, <3>2
    <3>4. QED
      BY <3>1, <3>3
  <2>4. CASE i # 1 /\ i # 2 /\ i # 3
    BY <1>7, <2>4 DEF Changing
  <2>5. QED
    BY <2>1, <2>2, <2>3, <2>4
<1>10. ASSUME NEW i \in DOMAIN s, NEW j \in DOMAIN s, s[i].do = "seal", s[j].do = "rotate?"
       PROVE  j < i
  <2>1. i # 1 /\ j # 1
    BY <1>1, <1>3, <1>10
  <2>2. i - 1 \in 1..n /\ 1 + (i - 1) = i /\ j - 1 \in 1..n /\ 1 + (j - 1) = j
    BY <1>3, <2>1
  <2>3. s[i] = g[i - 1] /\ s[j] = g[j - 1]
    BY <1>3, <2>2
  <2>4. j - 1 < i - 1
    BY <1>3, <1>10, <2>2, <2>3 DEF Shape
  <2>5. QED
    BY <1>3, <2>4
<1>11. Shape(s)
  BY <1>9, <1>10 DEF Shape
<1>12. QED
  BY <1>11 DEF s, ds

\* _rotate_key: the secret key goes, a key is generated, the rotation is complete.
LEMMA RotatesFits ==
    ASSUME Formed, NEW k \in Ids
    PROVE  /\ Fits(Rotates(k)) /\ Unsealing(Rotates(k))
           /\ Do("newpair", k) \in Steps(Rotates(k))
<1> DEFINE ds == Do("dropsecret", k)
           rt == DoWith("rotated", k, InPlace(k))
           g  == Generates(k)
           d  == <<ds>>
           r  == <<rt>>
           a  == d \o g
           b  == a \o r
           c  == b \o Note
<1>1. /\ ds \in Step /\ ds.do = "dropsecret" /\ ds.id = k /\ ds.with = None
      /\ rt.do = "rotated" /\ rt.id = k /\ rt.with = InPlace(k)
  BY DoFields DEF AllIds, Kinds, Changing
<1>2. InPlace(k) \subseteq drawn /\ drawn \subseteq Secrets
  BY DEF Formed, TypeOK, AllIds
<1>3. rt \in Step
  <2>1. rt.with \in With
    BY <1>1, <1>2 DEF With
  <2>2. QED
    BY <1>1, <2>1, DoFields DEF Kinds, AllIds
<1>4. /\ Fits(g) /\ Unsealing(g) /\ g # <<>> /\ g[1] = Do("newpair", k)
      /\ Steps(g) = {Do("newpair", k), Do("newsecret", k), Do("log", Log), Do("register", k)}
      /\ g \in Seq(Step) /\ Shape(g)
  BY GeneratesFits DEF Fits
<1>5. Rotates(k) = c
  BY DEF Rotates
<1>6. Shape(a)
  BY <1>4, DropBefore
<1> HIDE DEF g
<1>7. d \in Seq(Step) /\ Steps(d) = {ds} /\ r \in Seq(Step) /\ Steps(r) = {rt}
  BY <1>1, <1>3, StepsOfLiterals
<1>8. Changeless(r) /\ Unsealing(r) /\ Shape(r)
  <2>1. Changeless(r) /\ Unsealing(r)
    BY <1>1, <1>7 DEF Changeless, Changing, Unsealing
  <2>2. QED
    BY <1>7, <2>1, ChangelessShape DEF Unsealing
<1>9. /\ Note \in Seq(Step) /\ Shape(Note) /\ Changeless(Note) /\ Unsealing(Note)
      /\ Steps(Note) = {Do("log", Log)}
      /\ Do("log", Log).do = "log" /\ Do("log", Log) \in Step
  BY NoteFits, DoFields DEF Fits, Kinds
<1> HIDE DEF d, r
<1>10. a \in Seq(Step) /\ Steps(a) = {ds} \cup Steps(g)
  BY <1>4, <1>7, StepsJoined
<1> HIDE DEF a, ds, rt
<1>11. b \in Seq(Step) /\ Steps(b) = Steps(a) \cup {rt}
  BY <1>7, <1>10, StepsJoined
<1>12. Unsealing(a)
  BY <1>1, <1>4, <1>10 DEF Unsealing
<1>13. Shape(b)
  BY <1>6, <1>7, <1>8, <1>10, <1>12, JoinedShape DEF Unsealing
<1> HIDE DEF b
<1>14. c \in Seq(Step) /\ Steps(c) = Steps(b) \cup {Do("log", Log)}
  BY <1>9, <1>11, StepsJoined
<1>15. Unsealing(b) /\ Unsealing(c)
  BY <1>1, <1>9, <1>11, <1>12, <1>14 DEF Unsealing
<1>16. Shape(c)
  BY <1>9, <1>11, <1>13, <1>15, JoinedShape DEF Unsealing
<1> HIDE DEF c
<1>17. Planned(Steps(c))
  <2>1. Steps(c) = Steps(g) \cup {ds, rt, Do("log", Log)}
    BY <1>10, <1>11, <1>14
  <2>2. Planned(Steps(g)) /\ Do("newpair", k) \in Steps(c) /\ Do("dropsecret", k) \in Steps(c)
    BY <1>4, <2>1 DEF Fits, ds
  <2>3. ASSUME NEW x \in {ds, rt, Do("log", Log)} PROVE x \in Step /\ WellSorted(x)
    BY <1>1, <1>2, <1>3, <1>9, <2>3 DEF WellSorted
  <2>4. QED
    BY <1>1, <1>9, <2>1, <2>2, <2>3 DEF Planned
<1>18. Do("newpair", k) \in Steps(c)
  BY <1>4, <1>10, <1>11, <1>14
<1>19. QED
  BY <1>5, <1>14, <1>15, <1>16, <1>17, <1>18 DEF Fits

\* remove_keypair: the pair goes, then its secret key.
LEMMA RemovesFits ==
    ASSUME NEW k \in Ids
    PROVE  Fits(Removes(k)) /\ Unsealing(Removes(k))
<1> DEFINE dp == Do("droppair", k)
           ds == Do("dropsecret", k)
           a  == <<dp, ds>>
<1>1. /\ dp \in Step /\ dp.do = "droppair" /\ dp.id = k /\ dp.with = None
      /\ ds \in Step /\ ds.do = "dropsecret" /\ ds.id = k /\ ds.with = None
  BY DoFields DEF AllIds, Kinds, Changing
<1>2. a \in Seq(Step) /\ Steps(a) = {dp, ds}
  BY <1>1, StepsOfLiterals
<1>3. Shape(a)
  BY <1>1 DEF Shape
<1>4. Planned(Steps(a))
  <2>1. Do("droppair", k) \in Steps(a) /\ WellSorted(dp) /\ WellSorted(ds)
    BY <1>1, <1>2 DEF WellSorted
  <2> HIDE DEF dp, ds, a
  <2>2. QED
    BY <1>1, <1>2, <2>1 DEF Planned
<1>5. Unsealing(a)
  BY <1>1, <1>2 DEF Unsealing
<1>6. Removes(k) = a \o Note
  BY DEF Removes
<1> HIDE DEF a, dp, ds
<1>7. Fits(a \o Note) /\ Steps(a \o Note) = Steps(a) \cup Steps(Note)
  BY <1>2, <1>3, <1>4, <1>5, NoteFits, FitsJoined DEF Fits
<1>8. Unsealing(a \o Note)
  BY <1>5, <1>7, NoteFits DEF Unsealing
<1>9. QED
  BY <1>6, <1>7, <1>8

\* add_canary: a key is made, then its id becomes a canary.
LEMMA PlantsFits ==
    ASSUME NEW c \in Canaries
    PROVE  Fits(Plants(c)) /\ Unsealing(Plants(c))
<1> DEFINE np == Do("newpair", c)
           ns == Do("newsecret", c)
           pl == Do("plant", c)
           a  == <<np, ns, pl>>
<1>1. /\ np \in Step /\ np.do = "newpair" /\ np.id = c /\ np.with = None
      /\ ns \in Step /\ ns.do = "newsecret" /\ ns.id = c /\ ns.with = None
      /\ pl \in Step /\ pl.do = "plant" /\ pl.id = c /\ pl.with = None
  BY DoFields DEF AllIds, Kinds, Changing
<1>2. a \in Seq(Step) /\ Steps(a) = {np, ns, pl}
  BY <1>1, StepsOfLiterals
<1>3. Shape(a)
  BY <1>1 DEF Shape
<1>4. Planned(Steps(a))
  <2>1. /\ Do("newpair", c) \in Steps(a) /\ c \notin Ids
        /\ WellSorted(np) /\ WellSorted(ns) /\ WellSorted(pl)
    BY <1>1, <1>2, IdsAssumption DEF WellSorted, AllIds
  <2> HIDE DEF np, ns, pl, a
  <2>2. QED
    BY <1>1, <1>2, <2>1 DEF Planned
<1>5. Unsealing(a)
  BY <1>1, <1>2 DEF Unsealing
<1>6. Plants(c) = a \o Note
  BY DEF Plants
<1> HIDE DEF a, np, ns, pl
<1>7. Fits(a \o Note) /\ Steps(a \o Note) = Steps(a) \cup Steps(Note)
  BY <1>2, <1>3, <1>4, <1>5, NoteFits, FitsJoined DEF Fits
<1>8. Unsealing(a \o Note)
  BY <1>5, <1>7, NoteFits DEF Unsealing
<1>9. QED
  BY <1>6, <1>7, <1>8

\* A plan followed by a log entry is one (handle's own entry in the audit log).
LEMMA NoteJoined ==
    ASSUME NEW s, Fits(s)
    PROVE  /\ Fits(s \o Note) /\ Steps(s \o Note) = Steps(s) \cup {Do("log", Log)}
           /\ Unsealing(s) => Unsealing(s \o Note)
<1>1. Do("log", Log).do = "log"
  BY DoFields
<1>2. Fits(s \o Note) /\ Steps(s \o Note) = Steps(s) \cup {Do("log", Log)}
  BY <1>1, NoteFits, FitsJoined
<1>3. QED
  BY <1>1, <1>2 DEF Unsealing

\* A step with no more than an id, one that asks nothing of the others, is a plan
\* (check_canary, the usage counters, compute of the integrity proof).
LEMMA PlainFits ==
    ASSUME NEW what \in {"check", "ensure", "usage", "attest", "challenge", "sign"},
           NEW k \in AllIds \cup {None},
           what \in {"ensure", "usage", "attest"} => k \in Ids
    PROVE  /\ Do(what, k) \in Step /\ WellSorted(Do(what, k))
           /\ Fits(<<Do(what, k)>>) /\ Changeless(<<Do(what, k)>>)
           /\ Unsealing(<<Do(what, k)>>) /\ Steps(<<Do(what, k)>>) = {Do(what, k)}
<1> DEFINE x == Do(what, k)
<1>1. x.do = what /\ x.id = k /\ x \in Step
  BY DoFields DEF Kinds
<1> HIDE DEF x
<1>2. WellSorted(x)
  BY <1>1 DEF WellSorted
<1>3. Planned({x})
  BY <1>1, <1>2 DEF Planned
<1>4. Fits(<<x>>) /\ Changeless(<<x>>) /\ Steps(<<x>>) = {x}
  BY <1>1, <1>3, SingleFits DEF Changing
<1>5. Unsealing(<<x>>)
  BY <1>1, <1>4 DEF Unsealing
<1>6. QED
  BY <1>1, <1>2, <1>4, <1>5 DEF x

\* store: make the key if need be, rotate it if need be, seal, log, count (Vault.store).
LEMMA EncryptFits ==
    ASSUME Formed, NEW k \in Ids
    PROVE  Fits(<<Do("ensure", k), Do("rotate?", k), DoWith("seal", k, Exhausted(k))>>
                  \o Note \o <<Do("usage", k)>> \o Answer)
<1> DEFINE en == Do("ensure", k)
           ro == Do("rotate?", k)
           se == DoWith("seal", k, Exhausted(k))
           a  == <<en, ro, se>>
           u  == <<Do("usage", k)>>
<1>1. /\ en \in Step /\ en.do = "ensure" /\ en.id = k
      /\ ro \in Step /\ ro.do = "rotate?" /\ ro.id = k
      /\ se.do = "seal" /\ se.id = k /\ se.with = Exhausted(k)
  BY DoFields DEF AllIds, Kinds, Changing
<1>2. Exhausted(k) \subseteq InPlace(k) /\ InPlace(k) \subseteq drawn /\ drawn \subseteq Secrets
  BY DEF Exhausted, Formed, TypeOK, AllIds
<1>3. se \in Step
  <2>1. se.with \in With
    BY <1>1, <1>2 DEF With
  <2>2. QED
    BY <1>1, <2>1, DoFields DEF Kinds, AllIds
<1>4. a \in Seq(Step) /\ Steps(a) = {en, ro, se}
  BY <1>1, <1>3, StepsOfLiterals
<1>5. Shape(a)
  BY <1>1 DEF Shape
<1>6. Exhausted(k) # {} => NeedsRotation(k) /\ ~Registering(k)
  BY DEF Exhausted, NeedsRotation
<1>7. Planned(Steps(a))
  <2>1. /\ Do("rotate?", k) \in Steps(a)
        /\ WellSorted(en) /\ WellSorted(ro) /\ WellSorted(se)
    BY <1>1, <1>2, <1>4 DEF WellSorted
  <2> HIDE DEF en, ro, se, a
  <2>2. QED
    BY <1>1, <1>2, <1>3, <1>4, <1>6, <2>1 DEF Planned
<1> HIDE DEF a, en, ro, se
<1>8. Fits(a \o Note)
  BY <1>4, <1>5, <1>7, NoteJoined DEF Fits
<1>9. Fits(u) /\ Changeless(u) /\ Steps(u) = {Do("usage", k)} /\ Do("usage", k).do = "usage"
  BY PlainFits, DoFields DEF AllIds
<1> HIDE DEF u
<1>10. Fits(a \o Note \o u)
  <2> DEFINE b == a \o Note
  <2>1. Fits(b) /\ \A x \in Steps(u) : x.do # "rotate?"
    BY <1>8, <1>9
  <2> HIDE DEF b
  <2>2. Fits(b \o u)
    BY <1>9, <2>1, FitsJoined
  <2>3. QED
    BY <2>2 DEF b
<1>11. Fits((a \o Note \o u) \o Note)
  BY <1>10, NoteJoined
<1>12. QED
  BY <1>11 DEF Answer, a, u, en, ro, se

\* retrieve: check the proof, open, log, count (Vault.retrieve).
LEMMA DecryptFits ==
    ASSUME Formed, NEW c \in sealed
    PROVE  Fits(<<Do("attest", c.id), DoWith("open", c.id, c)>>
                  \o Note \o <<Do("usage", c.id)>> \o Answer)
<1> DEFINE at == Do("attest", c.id)
           op == DoWith("open", c.id, c)
           a  == <<at, op>>
           u  == <<Do("usage", c.id)>>
<1>1. c \in Ciphertext /\ c.id \in Ids
  BY DEF Formed, TypeOK, Ciphertext
<1>2. /\ at \in Step /\ at.do = "attest" /\ at.id = c.id
      /\ op.do = "open" /\ op.id = c.id /\ op \in Step
  <2>1. /\ at \in Step /\ at.do = "attest" /\ at.id = c.id
        /\ op.do = "open" /\ op.id = c.id
    BY <1>1, DoFields DEF AllIds, Kinds, Changing
  <2>2. op \in Step
    <3>1. c \in With
      BY <1>1 DEF With
    <3>2. "open" \in Kinds /\ c.id \in AllIds
      BY <1>1 DEF AllIds, Kinds
    <3>3. QED
      BY <3>1, <3>2, DoFields
  <2>3. QED
    BY <2>1, <2>2
<1>3. a \in Seq(Step) /\ Steps(a) = {at, op}
  BY <1>2, StepsOfLiterals
<1> HIDE DEF at, op
<1>4. Changeless(a) /\ Unsealing(a)
  BY <1>2, <1>3 DEF Changeless, Changing, Unsealing
<1>5. Shape(a)
  BY <1>3, <1>4, ChangelessShape DEF Unsealing
<1>6. Planned(Steps(a))
  <2>1. WellSorted(at) /\ WellSorted(op)
    BY <1>1, <1>2 DEF WellSorted
  <2>2. QED
    BY <1>2, <1>3, <2>1 DEF Planned
<1> HIDE DEF a
<1>7. Fits(a \o Note) /\ Unsealing(a \o Note)
  BY <1>3, <1>4, <1>5, <1>6, NoteJoined DEF Fits
<1>8. Fits(u) /\ Changeless(u)
  BY <1>1, PlainFits DEF AllIds
<1> HIDE DEF u
<1>9. Fits(a \o Note \o u)
  <2> DEFINE b == a \o Note
  <2>1. Fits(b) /\ Unsealing(b)
    BY <1>7
  <2> HIDE DEF b
  <2>2. Fits(b \o u)
    BY <1>8, <2>1, FitsJoined
  <2>3. QED
    BY <2>2 DEF b
<1>10. Fits((a \o Note \o u) \o Note)
  BY <1>9, NoteJoined
<1>11. QED
  BY <1>10 DEF Answer, a, u, at, op

\* A request is accepted with a plan (handle and _dispatch of McpServer).
LEMMA RequestPlanned ==
    ASSUME Formed, NEW t, Request(t)
    PROVE  \E s : Fits(s) /\ Accept(t, s)
<1>1. ASSUME Query(t) \/ ClearCache(t) PROVE \E s : Fits(s) /\ Accept(t, s)
  <2>1. Fits(Note) /\ Fits(Note \o Note)
    BY NoteFits, NoteJoined
  <2>2. QED
    BY <1>1, <2>1 DEF Query, ClearCache, Answer
<1>2. ASSUME CheckCanary(t) PROVE \E s : Fits(s) /\ Accept(t, s)
  <2>1. Fits(<<Do("check", None)>> \o Note)
    BY PlainFits, NoteJoined
  <2>2. QED
    BY <1>2, <2>1 DEF CheckCanary, Answer
<1>3. ASSUME VerifyIntegrity(t) PROVE \E s : Fits(s) /\ Accept(t, s)
  <2> DEFINE ch == Do("challenge", None)
             si == Do("sign", None)
             a  == <<ch, si>>
  <2>1. /\ ch \in Step /\ si \in Step /\ ch.do = "challenge" /\ si.do = "sign"
        /\ Planned({ch, si})
    <3>1. ch \in Step /\ si \in Step /\ WellSorted(ch) /\ WellSorted(si)
      BY PlainFits
    <3>2. ch.do = "challenge" /\ si.do = "sign"
      BY DoFields
    <3> HIDE DEF ch, si
    <3>3. QED
      BY <3>1, <3>2 DEF Planned
  <2>2. a \in Seq(Step) /\ Steps(a) = {ch, si}
    BY <2>1, StepsOfLiterals
  <2> HIDE DEF ch, si, a
  <2>3. Changeless(a) /\ Unsealing(a)
    BY <2>1, <2>2 DEF Changeless, Changing, Unsealing
  <2>4. Shape(a)
    BY <2>2, <2>3, ChangelessShape DEF Unsealing
  <2>5. Fits(a \o Note)
    BY <2>1, <2>2, <2>4, NoteJoined DEF Fits
  <2>6. QED
    BY <1>3, <2>5 DEF VerifyIntegrity, Answer, a, ch, si
<1>4. ASSUME NEW enable \in BOOLEAN, FipsMode(t, enable) PROVE \E s : Fits(s) /\ Accept(t, s)
  <2> DEFINE x == DoWith("fips", None, enable)
  <2>1. x.do = "fips" /\ x.with = enable /\ x \in Step
    <3>1. x.do = "fips" /\ x.with = enable
      BY DoFields
    <3>2. x \in Step
      <4>1. enable \in With
        BY DEF With
      <4>2. "fips" \in Kinds
        BY DEF Kinds
      <4>3. QED
        BY <4>1, <4>2, DoFields
    <3>3. QED
      BY <3>1, <3>2
  <2> HIDE DEF x
  <2>2. Planned({x})
    BY <2>1 DEF Planned, WellSorted
  <2>3. Fits(<<x>>)
    BY <2>1, <2>2, SingleFits DEF Changing
  <2>4. Fits(<<x>> \o Note)
    BY <2>3, NoteJoined
  <2>5. Fits((<<x>> \o Note) \o Note)
    BY <2>4, NoteJoined
  <2>6. QED
    BY <1>4, <2>5 DEF FipsMode, Answer, x
<1>5. ASSUME NEW k \in Ids, GenerateKey(t, k) PROVE \E s : Fits(s) /\ Accept(t, s)
  BY <1>5, GeneratesFits, NoteJoined DEF GenerateKey, Answer
<1>6. ASSUME NEW k \in Ids, DeleteKey(t, k) PROVE \E s : Fits(s) /\ Accept(t, s)
  BY <1>6, RemovesFits, NoteJoined DEF DeleteKey, Answer
<1>7. ASSUME NEW k \in Ids, RotateKey(t, k) PROVE \E s : Fits(s) /\ Accept(t, s)
  BY <1>7, RotatesFits, NoteJoined DEF RotateKey, Answer
<1>8. ASSUME NEW k \in Ids, Encrypt(t, k) PROVE \E s : Fits(s) /\ Accept(t, s)
  BY <1>8, EncryptFits DEF Encrypt
<1>9. ASSUME NEW c \in Canaries, AddCanary(t, c) PROVE \E s : Fits(s) /\ Accept(t, s)
  BY <1>9, PlantsFits, NoteJoined DEF AddCanary, Answer
<1>10. ASSUME NEW c \in sealed, Decrypt(t, c) PROVE \E s : Fits(s) /\ Accept(t, s)
  BY <1>10, DecryptFits DEF Decrypt
<1>11. QED
  BY <1>1, <1>2, <1>3, <1>4, <1>5, <1>6, <1>7, <1>8, <1>9, <1>10 DEF Request

-------------------------------------------------------------------------------
(***************************************************************************)
(* Steps that leave both dictionaries alone: thread t, whose todo has no   *)
(* change left, goes on with the plan p and some of what it had to do.     *)
(***************************************************************************)

Quiet(t, p) ==
    /\ Planned(p)
    /\ p \subseteq Pending(t)' /\ Pending(t)' \subseteq p \cup Pending(t)
    /\ Shape(todo'[t])
    /\ todo' \in [Threads -> Seq(Step)]
    /\ \A u \in Threads \ {t} : todo'[u] = todo[u]
    /\ Changeless(todo[t])
    /\ \A x \in Pending(t) : x.do = "rotate?" /\ NeedsRotation(x.id) =>
          x \in Pending(t)' \/ Unsealing(todo'[t]) \/ Do("newpair", x.id) \in p
    /\ raced \subseteq raced'
    /\ UNCHANGED <<keypairs, secret_keys, drawn, audit>>

\* A handler replaces what it had left, or had nothing left: a request is accepted, an
\* exception is raised, or store and retrieve return early.
LEMMA Replaced ==
    ASSUME Formed, NEW t \in Threads, NEW s, Fits(s), Changeless(todo[t]),
           Unsealing(s) \/ todo[t] = <<>>,
           todo' = [todo EXCEPT ![t] = s], raced \subseteq raced',
           UNCHANGED <<keypairs, secret_keys, drawn, audit>>
    PROVE  Quiet(t, Steps(s))
<1>1. todo \in [Threads -> Seq(Step)] /\ s \in Seq(Step) /\ Shape(s) /\ Planned(Steps(s))
  BY DEF Formed, TypeOK, Fits
<1>2. /\ todo' \in [Threads -> Seq(Step)] /\ todo'[t] = s
      /\ \A u \in Threads \ {t} : todo'[u] = todo[u]
  BY <1>1
<1>3. Pending(t)' = Steps(s)
  BY <1>2 DEF Pending
<1>4. todo[t] = <<>> => Pending(t) = {}
  BY StepsOfLiterals DEF Pending
<1>5. QED
  BY <1>1, <1>2, <1>3, <1>4 DEF Quiet

\* A handler puts steps before what it has left: store makes a missing key or rotates an
\* exhausted one, check_canary logs an alarm, retrieve logs a failed proof.
LEMMA Prefixed ==
    ASSUME Formed, NEW t \in Threads, todo[t] # <<>>, Now(t).do \notin Changing,
           NEW s, Fits(s), Unsealing(s),
           todo' = [todo EXCEPT ![t] = s \o Later(t)], raced \subseteq raced',
           UNCHANGED <<keypairs, secret_keys, drawn, audit>>,
           Now(t).do = "rotate?" /\ NeedsRotation(Now(t).id) => Do("newpair", Now(t).id) \in Steps(s)
    PROVE  Quiet(t, Steps(s))
<1> DEFINE r == Later(t)
<1>1. /\ todo \in [Threads -> Seq(Step)] /\ s \in Seq(Step) /\ Shape(s) /\ Planned(Steps(s))
      /\ todo[t] \in Seq(Step) /\ Shape(todo[t])
  BY DEF Formed, TypeOK, Fits
<1>2. r \in Seq(Step) /\ Pending(t) = {Now(t)} \cup Steps(r)
  BY <1>1, StepsSplit DEF Now, Later, Pending
<1>3. Changeless(todo[t]) /\ Changeless(r) /\ Shape(r)
  BY <1>1, ChangelessTail, TailShape DEF Now, Later
<1> HIDE DEF r
<1>4. s \o r \in Seq(Step) /\ Steps(s \o r) = Steps(s) \cup Steps(r)
  BY <1>1, <1>2, StepsJoined
<1>5. Shape(s \o r)
  BY <1>1, <1>2, <1>3, JoinedShape DEF Unsealing
<1>6. /\ todo' \in [Threads -> Seq(Step)] /\ todo'[t] = s \o r
      /\ \A u \in Threads \ {t} : todo'[u] = todo[u]
  BY <1>1, <1>4 DEF r
<1>7. Pending(t)' = Steps(s) \cup Steps(r)
  BY <1>4, <1>6 DEF Pending
<1>8. \A x \in Pending(t) : x.do = "rotate?" /\ NeedsRotation(x.id) =>
         x \in Pending(t)' \/ Do("newpair", x.id) \in Steps(s)
  BY <1>2, <1>7
<1>9. QED
  BY <1>1, <1>2, <1>3, <1>5, <1>6, <1>7, <1>8 DEF Quiet

\* A handler goes on with what it has left.
LEMMA Passed ==
    ASSUME Formed, NEW t \in Threads, todo[t] # <<>>,
           Now(t).do \notin Changing, Now(t).do # "rotate?",
           todo' = [todo EXCEPT ![t] = Later(t)], raced \subseteq raced',
           UNCHANGED <<keypairs, secret_keys, drawn, audit>>
    PROVE  Quiet(t, {})
<1>1. todo[t] \in Seq(Step)
  BY DEF Formed, TypeOK
<1>2. Later(t) \in Seq(Step)
  BY <1>1, StepsSplit DEF Later
<1>3. <<>> \o Later(t) = Later(t)
  BY <1>2, ConcatEmptySeq
<1>4. Fits(<<>>) /\ Unsealing(<<>>) /\ Steps(<<>>) = {}
  BY NoteFits, StepsOfLiterals
<1>5. todo' = [todo EXCEPT ![t] = <<>> \o Later(t)]
  BY <1>3
<1>6. Quiet(t, Steps(<<>>))
  BY <1>4, <1>5, Prefixed
<1>7. QED
  BY <1>4, <1>6

\* What else such a step does: it counts a canary that is planted, reports one that is
\* missing, retires what a rotation replaced, and forgets a usage limit only when it
\* registers the id.
Effects(t) ==
    /\ TypeOK'
    /\ \/ canaries' = canaries
       \/ \E x \in Pending(t) : x.do = "plant" /\ canaries' = canaries \cup {x.id}
    /\ breach' => breach \/ \E c \in canaries : keypairs[c] = None
    /\ \/ retired' = retired
       \/ \E x \in Pending(t) : x.do = "rotated" /\ retired' = retired \cup x.with
    /\ \A k \in Ids : NeedsRotation(k) =>
          NeedsRotation(k)' \/ \E x \in Pending(t) : x.do = "register" /\ x.id = k

\* The next step of a handler is pending, and sorted.
LEMMA NowPending ==
    ASSUME Formed, NEW t \in Threads, todo[t] # <<>>
    PROVE  Now(t) \in Pending(t) /\ Now(t) \in Step /\ WellSorted(Now(t))
<1>1. todo[t] \in Seq(Step)
  BY DEF Formed, TypeOK
<1>2. Now(t) \in Pending(t) /\ Now(t) \in Step
  BY <1>1, StepsSplit DEF Now, Pending
<1>3. QED
  BY <1>2 DEF Formed

\* Nothing but the todo and the other variables of TypeOK change their values by type.
LEMMA StillTyped ==
    ASSUME Formed, NEW t, NEW p, Quiet(t, p),
           canaries' \subseteq Canaries, meta' \in [Ids -> [ops : Nat, max : Nat]],
           fips' \in BOOLEAN, sealed' \subseteq Ciphertext, retired' \subseteq drawn
    PROVE  TypeOK'
  BY DEF Formed, TypeOK, Quiet

\* A quiet step with no effect but those on flags and ciphertexts.
LEMMA NoEffects ==
    ASSUME Formed, NEW t, NEW p, Quiet(t, p), UNCHANGED <<canaries, meta, breach, retired>>,
           fips' \in BOOLEAN, sealed' \subseteq Ciphertext
    PROVE  Effects(t)
<1>1. TypeOK'
  BY StillTyped DEF Formed, TypeOK
<1>2. \A k \in Ids : NeedsRotation(k) => NeedsRotation(k)'
  BY DEF NeedsRotation
<1>3. QED
  BY <1>1, <1>2 DEF Effects

\* A request and every step but the writes to the dictionaries and to the log is quiet
\* (handle, _dispatch and the methods of Vault).
LEMMA QuietSteps ==
    ASSUME Formed, NEW t \in Threads,
           \/ Request(t) \/ Register(t) \/ Rotated(t) \/ Plant(t) \/ Check(t) \/ Ensure(t)
           \/ RotateIfNeeded(t) \/ Seal(t) \/ Usage(t) \/ Attest(t) \/ Open(t) \/ SetFips(t)
           \/ Challenge(t) \/ Sign(t) \/ LogLink(t)
    PROVE  \E p : Quiet(t, p) /\ Effects(t)
<1> DEFINE Goal == \E p : Quiet(t, p) /\ Effects(t)
           x == Now(t)
<1>1. /\ canaries \subseteq Canaries /\ meta \in [Ids -> [ops : Nat, max : Nat]]
      /\ fips \in BOOLEAN /\ sealed \subseteq Ciphertext /\ retired \subseteq drawn
      /\ keypairs \in [AllIds -> Secrets \cup {None}]
      /\ secret_keys \in [AllIds -> Secrets \cup {None}]
      /\ todo[t] \in Seq(Step) /\ Shape(todo[t])
  BY DEF Formed, TypeOK
<1>2. ASSUME NEW s, Proceed(t, s)
      PROVE  todo' = [todo EXCEPT ![t] = s] /\ raced \subseteq raced'
  BY <1>2 DEF Proceed
<1>3. ASSUME NEW what \in Kinds \ Changing, Doing(t, what)
      PROVE  /\ todo[t] # <<>> /\ x.do = what /\ x.do \notin Changing
             /\ x \in Pending(t) /\ WellSorted(x) /\ x \in Step
             /\ Changeless(todo[t])
  <2>1. todo[t] # <<>> /\ x.do = what
    BY <1>3 DEF Doing, Now
  <2>2. QED
    BY <1>1, <2>1, NowPending, ChangelessTail DEF Now
<1>4. \A k \in Ids : k \in AllIds
  BY DEF AllIds
<1>5. /\ Fits(<<>>) /\ Unsealing(<<>>) /\ Fits(Note) /\ Unsealing(Note)
      /\ Fits(<<>> \o Note) /\ Unsealing(<<>> \o Note)
      /\ Fits(Note \o Note) /\ Unsealing(Note \o Note)
  BY NoteFits, NoteJoined
<1>6. CASE Request(t)
  <2>1. PICK s : Fits(s) /\ Accept(t, s)
    BY <1>6, RequestPlanned
  <2>2. /\ todo[t] = <<>> /\ todo' = [todo EXCEPT ![t] = s]
        /\ UNCHANGED <<vault, audit, drawn, sealed, history>>
    BY <2>1 DEF Accept
  <2>3. Changeless(todo[t])
    BY <2>2, NoteFits
  <2>4. /\ raced \subseteq raced' /\ UNCHANGED <<keypairs, secret_keys, drawn, audit>>
        /\ UNCHANGED <<canaries, meta, breach, retired, fips, sealed>>
    BY <2>2 DEF vault, history
  <2>5. Quiet(t, Steps(s))
    BY <2>1, <2>2, <2>3, <2>4, Replaced
  <2>6. QED
    BY <1>1, <2>4, <2>5, NoEffects
<1>7. CASE Register(t)
  <2>1. /\ Doing(t, "register") /\ Proceed(t, Later(t))
        /\ meta' = [meta EXCEPT ![x.id] = NoMeta]
        /\ UNCHANGED <<keypairs, secret_keys, canaries, fips, audit, drawn, sealed, breach, retired>>
    BY <1>7 DEF Register
  <2>2. /\ todo[t] # <<>> /\ x.do = "register" /\ x.do \notin Changing /\ x \in Pending(t)
        /\ x.id \in Ids
    BY <1>3, <2>1 DEF Kinds, Changing, WellSorted
  <2>3. Quiet(t, {})
    BY <1>2, <2>1, <2>2, Passed
  <2>4. meta' \in [Ids -> [ops : Nat, max : Nat]]
    BY <1>1, <2>1 DEF NoMeta
  <2>5. TypeOK'
    BY <1>1, <2>1, <2>3, <2>4, StillTyped
  <2>6. \A k \in Ids : k # x.id => meta'[k] = meta[k]
    BY <1>1, <2>1
  <2>7. \A k \in Ids : NeedsRotation(k) => NeedsRotation(k)' \/ k = x.id
    BY <2>6 DEF NeedsRotation
  <2>8. QED
    BY <2>1, <2>2, <2>3, <2>5, <2>7 DEF Effects
<1>8. CASE Rotated(t)
  <2>1. /\ Doing(t, "rotated") /\ Proceed(t, Later(t))
        /\ retired' = retired \cup x.with
        /\ UNCHANGED <<keypairs, secret_keys, canaries, meta, fips, audit, drawn, sealed, breach>>
    BY <1>8 DEF Rotated, vault
  <2>2. /\ todo[t] # <<>> /\ x.do = "rotated" /\ x.do \notin Changing /\ x \in Pending(t)
        /\ x.with \subseteq drawn
    BY <1>3, <2>1 DEF Kinds, Changing, WellSorted
  <2>3. Quiet(t, {})
    BY <1>2, <2>1, <2>2, Passed
  <2>4. TypeOK'
    BY <1>1, <2>1, <2>2, <2>3, StillTyped
  <2>5. \A k \in Ids : NeedsRotation(k) => NeedsRotation(k)'
    BY <2>1 DEF NeedsRotation
  <2>6. QED
    BY <2>1, <2>2, <2>3, <2>4, <2>5 DEF Effects
<1>9. CASE Plant(t)
  <2>1. /\ Doing(t, "plant") /\ Proceed(t, Later(t))
        /\ canaries' = canaries \cup {x.id}
        /\ UNCHANGED <<keypairs, secret_keys, meta, fips, audit, drawn, sealed, breach, retired>>
    BY <1>9 DEF Plant
  <2>2. /\ todo[t] # <<>> /\ x.do = "plant" /\ x.do \notin Changing /\ x \in Pending(t)
        /\ x.id \in Canaries
    BY <1>3, <2>1 DEF Kinds, Changing, WellSorted
  <2>3. Quiet(t, {})
    BY <1>2, <2>1, <2>2, Passed
  <2>4. TypeOK'
    BY <1>1, <2>1, <2>2, <2>3, StillTyped
  <2>5. \A k \in Ids : NeedsRotation(k) => NeedsRotation(k)'
    BY <2>1 DEF NeedsRotation
  <2>6. QED
    BY <2>1, <2>2, <2>3, <2>4, <2>5 DEF Effects
<1>10. CASE Check(t)
  <2> DEFINE gone == \E c \in canaries : keypairs[c] = None
             s == IF gone THEN Note ELSE <<>>
  <2>1. /\ Doing(t, "check") /\ Proceed(t, s \o Later(t))
        /\ breach' = (breach \/ gone)
        /\ UNCHANGED <<keypairs, secret_keys, canaries, meta, fips, audit, drawn, sealed, retired>>
    BY <1>10 DEF Check, vault
  <2>2. todo[t] # <<>> /\ x.do = "check" /\ x.do \notin Changing
    BY <1>3, <2>1 DEF Kinds, Changing
  <2>3. Fits(s) /\ Unsealing(s)
    BY <1>5
  <2> HIDE DEF s
  <2>4. Quiet(t, Steps(s))
    BY <1>2, <2>1, <2>2, <2>3, Prefixed
  <2>5. TypeOK'
    BY <1>1, <2>1, <2>4, StillTyped
  <2>6. \A k \in Ids : NeedsRotation(k) => NeedsRotation(k)'
    BY <2>1 DEF NeedsRotation
  <2>7. QED
    BY <2>1, <2>4, <2>5, <2>6 DEF Effects
<1>11. CASE Ensure(t)
  <2> DEFINE s == IF keypairs[x.id] = None THEN Generates(x.id) ELSE <<>>
  <2>1. /\ Doing(t, "ensure") /\ Proceed(t, s \o Later(t))
        /\ UNCHANGED <<keypairs, secret_keys, canaries, meta, fips, audit, drawn, sealed,
                       breach, retired>>
    BY <1>11 DEF Ensure, vault
  <2>2. todo[t] # <<>> /\ x.do = "ensure" /\ x.do \notin Changing /\ x.id \in Ids
    BY <1>3, <2>1 DEF Kinds, Changing, WellSorted
  <2>3. Fits(s) /\ Unsealing(s)
    BY <1>5, <2>2, GeneratesFits
  <2> HIDE DEF s
  <2>4. Quiet(t, Steps(s))
    BY <1>2, <2>1, <2>2, <2>3, Prefixed
  <2>5. QED
    BY <1>1, <2>1, <2>4, NoEffects
<1>12. CASE RotateIfNeeded(t)
  <2> DEFINE s == IF NeedsRotation(x.id) THEN Rotates(x.id) ELSE <<>>
  <2>1. /\ Doing(t, "rotate?") /\ Proceed(t, s \o Later(t))
        /\ UNCHANGED <<keypairs, secret_keys, canaries, meta, fips, audit, drawn, sealed,
                       breach, retired>>
    BY <1>12 DEF RotateIfNeeded, vault
  <2>2. todo[t] # <<>> /\ x.do = "rotate?" /\ x.do \notin Changing /\ x.id \in Ids
    BY <1>3, <2>1 DEF Kinds, Changing, WellSorted
  <2>3. /\ Fits(s) /\ Unsealing(s)
        /\ NeedsRotation(x.id) => Do("newpair", x.id) \in Steps(s)
    BY <1>5, <2>2, RotatesFits
  <2> HIDE DEF s
  <2>4. Quiet(t, Steps(s))
    BY <1>2, <2>1, <2>2, <2>3, Prefixed
  <2>5. QED
    BY <1>1, <2>1, <2>4, NoEffects
<1>13. CASE Seal(t)
  <2> DEFINE k == SealingKey(x.id)
  <2>1. /\ Doing(t, "seal")
        /\ UNCHANGED <<keypairs, secret_keys, canaries, meta, fips, audit, drawn, breach, retired>>
        /\ \/ Proceed(t, <<>> \o Note) /\ UNCHANGED sealed
           \/ /\ k # None
              /\ sealed' = sealed \cup {[id |-> x.id, secret |-> k, fips |-> fips]}
              /\ Proceed(t, Note) \/ Proceed(t, Later(t))
    BY <1>13 DEF Seal, vault, Raise, Answer
  <2>2. /\ todo[t] # <<>> /\ x.do = "seal" /\ x.do \notin Changing /\ x.id \in Ids
        /\ Changeless(todo[t])
    BY <1>3, <2>1 DEF Kinds, Changing, WellSorted
  <2>3. \E p : Quiet(t, p)
    <3>1. CASE Proceed(t, <<>> \o Note)
      BY <1>2, <1>5, <2>1, <2>2, <3>1, Replaced
    <3>2. CASE Proceed(t, Note)
      BY <1>2, <1>5, <2>1, <2>2, <3>2, Replaced
    <3>3. CASE Proceed(t, Later(t))
      BY <1>2, <2>1, <2>2, <3>3, Passed
    <3>4. QED
      BY <2>1, <3>1, <3>2, <3>3
  <2>4. sealed' \subseteq Ciphertext
    <3>1. k \in Secrets \cup {None}
      BY <1>1, <1>4, <2>2 DEF SealingKey
    <3> HIDE DEF k
    <3>2. k # None => [id |-> x.id, secret |-> k, fips |-> fips] \in Ciphertext
      BY <1>1, <2>2, <3>1 DEF Ciphertext
    <3>3. QED
      BY <1>1, <2>1, <3>2
  <2>5. QED
    BY <1>1, <2>1, <2>3, <2>4, NoEffects
<1>14. CASE Usage(t)
  <2>1. /\ Doing(t, "usage") /\ Proceed(t, Later(t))
        /\ meta' = [meta EXCEPT ![x.id].ops = @ + 1]
        /\ UNCHANGED <<keypairs, secret_keys, canaries, fips, audit, drawn, sealed, breach, retired>>
    BY <1>14 DEF Usage
  <2>2. /\ todo[t] # <<>> /\ x.do = "usage" /\ x.do \notin Changing /\ x.id \in Ids
    BY <1>3, <2>1 DEF Kinds, Changing, WellSorted
  <2>3. Quiet(t, {})
    BY <1>2, <2>1, <2>2, Passed
  <2>4. meta[x.id] \in [ops : Nat, max : Nat]
    BY <1>1, <2>2
  <2> DEFINE m == [meta[x.id] EXCEPT !.ops = @ + 1]
  <2>5. m \in [ops : Nat, max : Nat] /\ m.max = meta[x.id].max /\ m.ops = meta[x.id].ops + 1
    BY <2>4
  <2>6. meta' = [meta EXCEPT ![x.id] = m]
    BY <2>1
  <2> HIDE DEF m
  <2>7. /\ meta' \in [Ids -> [ops : Nat, max : Nat]]
        /\ meta'[x.id] = m /\ \A k \in Ids : k # x.id => meta'[k] = meta[k]
    BY <1>1, <2>2, <2>5, <2>6
  <2>8. TypeOK'
    BY <1>1, <2>1, <2>3, <2>7, StillTyped
  <2>9. ASSUME NEW k \in Ids, NeedsRotation(k) PROVE NeedsRotation(k)'
    <3>1. CASE k = x.id
      BY <2>4, <2>5, <2>7, <2>9, <3>1 DEF NeedsRotation
    <3>2. CASE k # x.id
      BY <2>7, <2>9, <3>2 DEF NeedsRotation
    <3>3. QED
      BY <3>1, <3>2
  <2>10. QED
    BY <2>1, <2>3, <2>8, <2>9 DEF Effects
<1>15. CASE Attest(t)
  <2> DEFINE s == IF proof THEN <<>> ELSE Note \o Note
  <2>1. /\ Doing(t, "attest")
        /\ Proceed(t, Note \o Note) \/ Proceed(t, s \o Later(t))
        /\ UNCHANGED <<keypairs, secret_keys, canaries, meta, fips, audit, drawn, sealed,
                       breach, retired>>
    BY <1>15 DEF Attest, vault, Raise, Answer
  <2>2. todo[t] # <<>> /\ x.do = "attest" /\ x.do \notin Changing /\ Changeless(todo[t])
    BY <1>3, <2>1 DEF Kinds, Changing
  <2>3. Fits(s) /\ Unsealing(s)
    BY <1>5
  <2> HIDE DEF s
  <2>4. \E p : Quiet(t, p)
    <3>1. CASE Proceed(t, Note \o Note)
      BY <1>2, <1>5, <2>1, <2>2, <3>1, Replaced
    <3>2. CASE Proceed(t, s \o Later(t))
      BY <1>2, <2>1, <2>2, <2>3, <3>2, Prefixed
    <3>3. QED
      BY <2>1, <3>1, <3>2
  <2>5. QED
    BY <1>1, <2>1, <2>4, NoEffects
<1>16. CASE Open(t)
  <2>1. /\ Doing(t, "open")
        /\ Proceed(t, Note \o Note) \/ Proceed(t, Later(t)) \/ Proceed(t, <<>> \o Note)
        /\ UNCHANGED <<keypairs, secret_keys, canaries, meta, fips, audit, drawn, sealed,
                       breach, retired>>
    BY <1>16 DEF Open, vault, Raise, Answer
  <2>2. todo[t] # <<>> /\ x.do = "open" /\ x.do \notin Changing /\ Changeless(todo[t])
    BY <1>3, <2>1 DEF Kinds, Changing
  <2>3. \E p : Quiet(t, p)
    <3>1. CASE Proceed(t, Note \o Note)
      BY <1>2, <1>5, <2>1, <2>2, <3>1, Replaced
    <3>2. CASE Proceed(t, Later(t))
      BY <1>2, <2>1, <2>2, <3>2, Passed
    <3>3. CASE Proceed(t, <<>> \o Note)
      BY <1>2, <1>5, <2>1, <2>2, <3>3, Replaced
    <3>4. QED
      BY <2>1, <3>1, <3>2, <3>3
  <2>4. QED
    BY <1>1, <2>1, <2>3, NoEffects
<1>17. CASE SetFips(t)
  <2>1. /\ Doing(t, "fips") /\ Proceed(t, Later(t)) /\ fips' = x.with
        /\ UNCHANGED <<keypairs, secret_keys, canaries, meta, audit, drawn, sealed, breach, retired>>
    BY <1>17 DEF SetFips
  <2>2. todo[t] # <<>> /\ x.do = "fips" /\ x.do \notin Changing /\ x.with \in BOOLEAN
    BY <1>3, <2>1 DEF Kinds, Changing, WellSorted
  <2>3. Quiet(t, {})
    BY <1>2, <2>1, <2>2, Passed
  <2>4. QED
    BY <1>1, <2>1, <2>2, <2>3, NoEffects
<1>18. ASSUME NEW what \in {"challenge", "sign"}, Doing(t, what), Proceed(t, Later(t)),
              UNCHANGED <<keypairs, secret_keys, canaries, meta, fips, audit, drawn, sealed,
                          breach, retired>>
       PROVE  Goal
  <2>1. todo[t] # <<>> /\ x.do = what /\ x.do \notin Changing
    BY <1>3, <1>18 DEF Kinds, Changing
  <2>2. Quiet(t, {})
    BY <1>2, <1>18, <2>1, Passed
  <2>3. QED
    BY <1>1, <1>18, <2>2, NoEffects
<1>19. CASE Challenge(t) \/ Sign(t)
  BY <1>18, <1>19 DEF Challenge, Sign
<1>20. CASE LogLink(t)
  <2> DEFINE y == DoWith("append", Log, Len(audit))
  <2>1. /\ Doing(t, "log") /\ Proceed(t, <<y>> \o Later(t))
        /\ UNCHANGED <<keypairs, secret_keys, canaries, meta, fips, audit, drawn, sealed,
                       breach, retired>>
    BY <1>20 DEF LogLink, vault
  <2>2. todo[t] # <<>> /\ x.do = "log" /\ x.do \notin Changing
    BY <1>3, <2>1 DEF Kinds, Changing
  <2>3. Len(audit) \in Nat
    BY DEF Formed, TypeOK
  <2>4. y \in Step /\ y.do = "append" /\ y.id = Log /\ y.with = Len(audit)
    BY <2>3, DoFields, SMTT(30) DEF Kinds, Changing, With
  <2> HIDE DEF y
  <2>5. <<y>> \in Seq(Step) /\ Steps(<<y>>) = {y}
    BY <2>4, StepsOfLiterals
  <2>6. Shape(<<y>>) /\ Unsealing(<<y>>) /\ Planned({y})
    <3>1. Shape(<<y>>)
      BY <2>4 DEF Shape
    <3>2. Unsealing(<<y>>)
      BY <2>4, <2>5 DEF Unsealing
    <3>3. WellSorted(y)
      BY <2>3, <2>4 DEF WellSorted
    <3>4. QED
      BY <2>4, <3>1, <3>2, <3>3 DEF Planned
  <2>7. Fits(<<y>>)
    BY <2>5, <2>6 DEF Fits
  <2>8. Quiet(t, Steps(<<y>>))
    <3> DEFINE s == <<y>>
    <3>1. Fits(s) /\ Unsealing(s) /\ Proceed(t, s \o Later(t))
      BY <2>1, <2>6, <2>7
    <3> HIDE DEF s
    <3>2. Quiet(t, Steps(s))
      BY <1>2, <2>1, <2>2, <3>1, Prefixed
    <3>3. QED
      BY <3>2 DEF s
  <2>9. QED
    BY <1>1, <2>1, <2>8, NoEffects
<1>21. QED
  BY <1>6, <1>7, <1>8, <1>9, <1>10, <1>11, <1>12, <1>13, <1>14, <1>15, <1>16, <1>17, <1>19, <1>20

-------------------------------------------------------------------------------
(***************************************************************************)
(* Steps that write a dictionary or the log, as what they do to the steps  *)
(* pending in t: q is the rest of its request, which changes nothing.      *)
(***************************************************************************)

\* No other handler is changing k, or k is known to be raced for.
Alone(t, k) ==
    k \in Ids \cup {Log} /\ k \notin raced' =>
        \A u \in Threads \ {t} : \A y \in Pending(u) : y.do \in Changing => y.id # k

GoesOn(t, k, q) ==
    /\ todo' \in [Threads -> Seq(Step)] /\ Shape(todo'[t])
    /\ \A u \in Threads \ {t} : todo'[u] = todo[u]
    /\ \A y \in q : y.do \notin Changing
    /\ raced \subseteq raced' /\ Alone(t, k)
    /\ UNCHANGED <<canaries, meta, fips, sealed, breach, retired>>

MakesPair(t, k, s, q) ==
    /\ GoesOn(t, k, q) /\ k \in AllIds /\ s \in Secrets \ drawn
    /\ Pending(t) = {Do("newpair", k), Do("newsecret", k)} \cup q
    /\ Pending(t)' = {DoWith("newsecret", k, s)} \cup q
    /\ keypairs' = [keypairs EXCEPT ![k] = s] /\ drawn' = drawn \cup {s}
    /\ UNCHANGED <<secret_keys, audit>>

MakesSecret(t, k, s, q) ==
    /\ GoesOn(t, k, q) /\ k \in AllIds /\ s \in drawn \cup {None}
    /\ Pending(t) = {DoWith("newsecret", k, s)} \cup q
    /\ Pending(t)' = q
    /\ secret_keys' = [secret_keys EXCEPT ![k] = s]
    /\ UNCHANGED <<keypairs, drawn, audit>>

DropsPair(t, k, q) ==
    /\ GoesOn(t, k, q) /\ k \in Ids
    /\ Pending(t) = {Do("droppair", k), Do("dropsecret", k)} \cup q
    /\ Pending(t)' = {Do("dropsecret", k)} \cup q
    /\ keypairs' = [keypairs EXCEPT ![k] = None]
    /\ UNCHANGED <<secret_keys, drawn, audit>>

DropsSecret(t, k, m, q) ==
    /\ GoesOn(t, k, q) /\ k \in Ids
    /\ m = {} \/ m = {Do("newpair", k), Do("newsecret", k)}
    /\ Pending(t) = {Do("dropsecret", k)} \cup m \cup q
    /\ Pending(t)' = m \cup q
    /\ secret_keys' = [secret_keys EXCEPT ![k] = None]
    /\ UNCHANGED <<keypairs, drawn, audit>>

Appends(t, n, q) ==
    /\ GoesOn(t, Log, q) /\ n \in Nat
    /\ Pending(t) = {DoWith("append", Log, n)} \cup q
    /\ Pending(t)' = q
    /\ audit' = Append(audit, n)
    /\ UNCHANGED <<keypairs, secret_keys, drawn>>

\* A handler that proceeds past a change of k notes whether another is changing k too.
LEMMA GoingOn ==
    ASSUME Formed, NEW t \in Threads, todo[t] # <<>>, Now(t).do \in Changing,
           NEW s \in Seq(Step), Proceed(t, s), Shape(s), NEW q, \A y \in q : y.do \notin Changing,
           UNCHANGED <<canaries, meta, fips, sealed, breach, retired>>
    PROVE  GoesOn(t, Now(t).id, q) /\ Pending(t)' = Steps(s)
<1>1. todo \in [Threads -> Seq(Step)] /\ todo[t] \in Seq(Step)
  BY DEF Formed, TypeOK
<1>2. /\ todo' = [todo EXCEPT ![t] = s]
      /\ raced' = raced \cup {x \in Ids \cup {Log} :
                                \E u \in Threads \ {t} : Changes(t, x) /\ Changes(u, x)}
  BY DEF Proceed
<1>3. /\ todo' \in [Threads -> Seq(Step)] /\ todo'[t] = s
      /\ \A u \in Threads \ {t} : todo'[u] = todo[u]
  BY <1>1, <1>2
<1>4. Changes(t, Now(t).id)
  <2>1. Now(t) = todo[t][1] /\ 1 \in DOMAIN todo[t]
    BY <1>1, StepsSplit DEF Now
  <2>2. QED
    BY <2>1 DEF Changes, Changing
<1>5. Alone(t, Now(t).id)
  <2>1. SUFFICES ASSUME Now(t).id \in Ids \cup {Log}, Now(t).id \notin raced',
                        NEW u \in Threads \ {t}, NEW y \in Pending(u),
                        y.do \in Changing, y.id = Now(t).id
                 PROVE  FALSE
    BY DEF Alone
  <2>2. Changes(u, Now(t).id)
    BY <2>1 DEF Changes, Changing, Pending, Steps
  <2>3. QED
    BY <1>2, <1>4, <2>1, <2>2
<1>6. Pending(t)' = Steps(s)
  BY <1>3 DEF Pending
<1>7. QED
  BY <1>2, <1>3, <1>5, <1>6 DEF GoesOn

\* The five writes of generate_keypair, _rotate_key, remove_keypair and AuditLogger.log.
LEMMA WriteSteps ==
    ASSUME Formed, NEW t \in Threads,
           NewPair(t) \/ NewSecret(t) \/ DropPair(t) \/ DropSecret(t) \/ LogAppend(t)
    PROVE  \/ \E k, s, q : MakesPair(t, k, s, q)
           \/ \E k, s, q : MakesSecret(t, k, s, q)
           \/ \E k, q : DropsPair(t, k, q)
           \/ \E k, m, q : DropsSecret(t, k, m, q)
           \/ \E n, q : Appends(t, n, q)
<1> DEFINE x == Now(t)
           k == x.id
           r == Later(t)
<1>1. todo[t] \in Seq(Step) /\ Shape(todo[t])
  BY DEF Formed, TypeOK
<1>2. ASSUME todo[t] # <<>>
      PROVE  /\ x \in Pending(t) /\ x \in Step /\ WellSorted(x)
             /\ x = Head(todo[t]) /\ r = Tail(todo[t])
             /\ r \in Seq(Step) /\ Pending(t) = {x} \cup Steps(r) /\ Shape(r)
  BY <1>1, <1>2, StepsSplit, TailShape, NowPending DEF Now, Later, Pending
<1>3. ASSUME NEW what, Doing(t, what) PROVE todo[t] # <<>> /\ x.do = what
  BY <1>3 DEF Doing, Now
<1>4. x \in Step => x = DoWith(x.do, x.id, x.with)
  BY DEF Step, DoWith
<1>5. x \in Step /\ x.with = None => x = Do(x.do, x.id)
  BY DEF Step, Do
<1>6. CASE NewPair(t)
  <2>1. PICK s \in Secrets \ drawn :
           /\ Doing(t, "newpair") /\ drawn' = drawn \cup {s}
           /\ keypairs' = [keypairs EXCEPT ![k] = s]
           /\ Proceed(t, [r EXCEPT ![1].with = s])
           /\ UNCHANGED <<secret_keys, canaries, meta, fips, audit, sealed, breach, retired>>
    BY <1>6 DEF NewPair
  <2>2. todo[t] # <<>> /\ x.do = "newpair" /\ x.do \in Changing
    BY <1>3, <2>1 DEF Changing
  <2>3. k \in AllIds /\ x = Do("newpair", k)
    BY <1>2, <1>5, <2>2 DEF WellSorted
  <2>4. r # <<>> /\ Head(r) = Do("newsecret", k) /\ Changeless(Tail(r))
    BY <1>1, <1>2, <2>2, PairThenSecret
  <2> DEFINE w == [r EXCEPT ![1].with = s]
             q == Steps(Tail(r))
  <2>5. w \in Seq(Step) /\ Shape(w) /\ Steps(w) = {DoWith("newsecret", k, s)} \cup q
    BY <1>2, <2>2, <2>3, <2>4, SecretWritten
  <2>6. Pending(t) = {Do("newpair", k), Do("newsecret", k)} \cup q
    <3>1. Steps(r) = {Do("newsecret", k)} \cup q
      BY <1>2, <2>2, <2>4, StepsSplit
    <3>2. QED
      BY <1>2, <2>2, <2>3, <3>1
  <2>7. Proceed(t, w)
    BY <2>1
  <2>8. \A y \in q : y.do \notin Changing
    BY <2>4 DEF Changeless
  <2> HIDE DEF w, q
  <2>9. GoesOn(t, k, q) /\ Pending(t)' = Steps(w)
    BY <2>1, <2>2, <2>5, <2>7, <2>8, GoingOn
  <2>10. MakesPair(t, k, s, q)
    BY <2>1, <2>3, <2>5, <2>6, <2>9 DEF MakesPair
  <2>11. QED
    BY <2>10
<1>7. CASE NewSecret(t)
  <2>1. /\ Doing(t, "newsecret") /\ secret_keys' = [secret_keys EXCEPT ![k] = x.with]
        /\ Proceed(t, r)
        /\ UNCHANGED <<keypairs, canaries, meta, fips, audit, drawn, sealed, breach, retired>>
    BY <1>7 DEF NewSecret
  <2>2. todo[t] # <<>> /\ x.do = "newsecret" /\ x.do \in Changing
    BY <1>3, <2>1 DEF Changing
  <2>3. k \in AllIds /\ x.with \in drawn \cup {None} /\ x = DoWith("newsecret", k, x.with)
    BY <1>2, <1>4, <2>2 DEF WellSorted
  <2>4. \A y \in Steps(r) : y.do \notin Changing
    BY <1>1, <1>2, <2>2, LastChange DEF Changeless
  <2>5. GoesOn(t, k, Steps(r)) /\ Pending(t)' = Steps(r)
    BY <1>2, <2>1, <2>2, <2>4, GoingOn
  <2>6. MakesSecret(t, k, x.with, Steps(r))
    BY <1>2, <2>1, <2>2, <2>3, <2>5 DEF MakesSecret
  <2>7. QED
    BY <2>6
<1>8. CASE DropPair(t)
  <2>1. /\ Doing(t, "droppair") /\ keypairs' = [keypairs EXCEPT ![k] = None]
        /\ Proceed(t, r)
        /\ UNCHANGED <<secret_keys, canaries, meta, fips, audit, drawn, sealed, breach, retired>>
    BY <1>8 DEF DropPair
  <2>2. todo[t] # <<>> /\ x.do = "droppair" /\ x.do \in Changing
    BY <1>3, <2>1 DEF Changing
  <2>3. k \in Ids /\ x = Do("droppair", k)
    BY <1>2, <1>5, <2>2 DEF WellSorted
  <2>4. r # <<>> /\ Head(r) = Do("dropsecret", k) /\ Changeless(Tail(r))
    BY <1>1, <1>2, <2>2, PairThenSecret
  <2> DEFINE q == Steps(Tail(r))
  <2>5. Steps(r) = {Do("dropsecret", k)} \cup q
    BY <1>2, <2>2, <2>4, StepsSplit
  <2>6. Pending(t) = {Do("droppair", k), Do("dropsecret", k)} \cup q
    BY <1>2, <2>2, <2>3, <2>5
  <2>7. \A y \in q : y.do \notin Changing
    BY <2>4 DEF Changeless
  <2> HIDE DEF q
  <2>8. GoesOn(t, k, q) /\ Pending(t)' = Steps(r)
    BY <1>2, <2>1, <2>2, <2>7, GoingOn
  <2>9. DropsPair(t, k, q)
    BY <2>1, <2>3, <2>5, <2>6, <2>8 DEF DropsPair
  <2>10. QED
    BY <2>9
<1>9. CASE DropSecret(t)
  <2>1. /\ Doing(t, "dropsecret") /\ secret_keys' = [secret_keys EXCEPT ![k] = None]
        /\ Proceed(t, r)
        /\ UNCHANGED <<keypairs, canaries, meta, fips, audit, drawn, sealed, breach, retired>>
    BY <1>9 DEF DropSecret
  <2>2. todo[t] # <<>> /\ x.do = "dropsecret" /\ x.do \in Changing
    BY <1>3, <2>1 DEF Changing
  <2>3. k \in Ids /\ x = Do("dropsecret", k)
    BY <1>2, <1>5, <2>2 DEF WellSorted
  <2>4. CASE ~\E y \in Pending(t) : y.do = "newpair"
    <3>1. \A y \in Steps(r) : y.do \notin Changing
      BY <1>1, <1>2, <2>2, <2>4, LastChange DEF Changeless, Pending
    <3>2. GoesOn(t, k, Steps(r)) /\ Pending(t)' = Steps(r)
      BY <1>2, <2>1, <2>2, <3>1, GoingOn
    <3>3. DropsSecret(t, k, {}, Steps(r))
      BY <1>2, <2>1, <2>2, <2>3, <3>2 DEF DropsSecret
    <3>4. QED
      BY <3>3
  <2>5. CASE \E y \in Pending(t) : y.do = "newpair"
    <3>1. PICK y \in Pending(t) : y.do = "newpair"
      BY <2>5
    <3>2. r # <<>> /\ Head(r) = y /\ y.id = k
      BY <1>1, <1>2, <2>2, <3>1, DropThenPair DEF Pending
    <3>3. y = Do("newpair", k)
      <4>1. y \in Step /\ WellSorted(y)
        BY <1>2, <2>2, <3>1, <3>2, StepsSplit DEF Formed
      <4>2. y.with = None
        BY <3>1, <4>1 DEF WellSorted
      <4>3. QED
        BY <3>1, <3>2, <4>1, <4>2 DEF Step, Do
    <3> DEFINE v == Tail(r)
               q == Steps(Tail(v))
               m == {Do("newpair", k), Do("newsecret", k)}
    <3>4. v \in Seq(Step) /\ v # <<>> /\ Head(v) = Do("newsecret", k) /\ Changeless(Tail(v))
      BY <1>2, <2>2, <3>1, <3>2, PairThenSecret
    <3>5. Steps(r) = m \cup q
      <4>1. Steps(v) = {Do("newsecret", k)} \cup q
        BY <3>4, StepsSplit
      <4>2. Steps(r) = {Do("newpair", k)} \cup Steps(v)
        BY <1>2, <2>2, <3>2, <3>3, StepsSplit
      <4>3. QED
        BY <4>1, <4>2
    <3>6. \A z \in q : z.do \notin Changing
      BY <3>4 DEF Changeless
    <3> HIDE DEF v, q
    <3>7. GoesOn(t, k, q) /\ Pending(t)' = Steps(r)
      BY <1>2, <2>1, <2>2, <3>6, GoingOn
    <3>8. Pending(t) = {Do("dropsecret", k)} \cup m \cup q
      BY <1>2, <2>2, <2>3, <3>5
    <3>9. DropsSecret(t, k, m, q)
      BY <2>1, <2>3, <3>5, <3>7, <3>8 DEF DropsSecret
    <3>10. QED
      BY <3>9
  <2>6. QED
    BY <2>4, <2>5
<1>10. CASE LogAppend(t)
  <2>1. /\ Doing(t, "append") /\ audit' = Append(audit, x.with) /\ Proceed(t, r)
        /\ UNCHANGED <<keypairs, secret_keys, canaries, meta, fips, drawn, sealed, breach, retired>>
    BY <1>10 DEF LogAppend, Appended, vault
  <2>2. todo[t] # <<>> /\ x.do = "append" /\ x.do \in Changing
    BY <1>3, <2>1 DEF Changing
  <2>3. k = Log /\ x.with \in Nat /\ x = DoWith("append", Log, x.with)
    BY <1>2, <1>4, <2>2 DEF WellSorted
  <2>4. \A y \in Steps(r) : y.do \notin Changing
    BY <1>1, <1>2, <2>2, LastChange DEF Changeless
  <2>5. GoesOn(t, k, Steps(r)) /\ Pending(t)' = Steps(r)
    BY <1>2, <2>1, <2>2, <2>4, GoingOn
  <2>6. Appends(t, x.with, Steps(r))
    BY <1>2, <2>1, <2>2, <2>3, <2>5 DEF Appends
  <2>7. QED
    BY <2>6
<1>11. QED
  BY <1>6, <1>7, <1>8, <1>9, <1>10

-------------------------------------------------------------------------------
(***************************************************************************)
(* Every step is of one of these kinds, and keeps the todos well formed    *)
(***************************************************************************)

\* A limit is given to an id that has none, or nothing happens.
Idle ==
    /\ TypeOK' /\ \A k \in Ids : NeedsRotation(k) => NeedsRotation(k)'
    /\ UNCHANGED <<keypairs, secret_keys, canaries, audit, todo, drawn, breach, retired, raced>>

Writes(t) ==
    \/ \E k, s, q : MakesPair(t, k, s, q)
    \/ \E k, s, q : MakesSecret(t, k, s, q)
    \/ \E k, q : DropsPair(t, k, q)
    \/ \E k, m, q : DropsSecret(t, k, m, q)
    \/ \E n, q : Appends(t, n, q)

\* Requests and quiet steps, writes, and the embedding program's register_key.
LEMMA StepKinds ==
    ASSUME Formed, [Next]_vars
    PROVE  \/ \E t \in Threads : \E p : Quiet(t, p) /\ Effects(t)
           \/ \E t \in Threads : Writes(t)
           \/ Idle
<1>1. ASSUME NEW t \in Threads, Request(t) \/ Execute(t)
      PROVE  (\E p : Quiet(t, p) /\ Effects(t)) \/ Writes(t)
  BY <1>1, QuietSteps, WriteSteps DEF Execute, Writes
<1>2. ASSUME NEW k \in Ids, Configure(k) PROVE Idle
  <2>1. /\ meta[k].max = 0 /\ meta' = [meta EXCEPT ![k] = [ops |-> 0, max |-> Limit]]
        /\ UNCHANGED <<keypairs, secret_keys, canaries, fips, audit, todo, drawn, sealed,
                       breach, retired, raced>>
    BY <1>2 DEF Configure, history
  <2>2. TypeOK'
    <3>1. [ops |-> 0, max |-> Limit] \in [ops : Nat, max : Nat]
      BY LimitAssumption
    <3>2. QED
      BY <2>1, <3>1 DEF Formed, TypeOK
  <2>3. \A j \in Ids : j # k => meta'[j] = meta[j]
    BY <2>1 DEF Formed, TypeOK
  <2>4. ~NeedsRotation(k)
    BY <2>1 DEF NeedsRotation
  <2>5. \A j \in Ids : NeedsRotation(j) => NeedsRotation(j)'
    BY <2>3, <2>4 DEF NeedsRotation
  <2>6. QED
    BY <2>1, <2>2, <2>5 DEF Idle
<1>3. ASSUME UNCHANGED vars PROVE Idle
  BY <1>3 DEF Idle, vars, vault, history, Formed, TypeOK, NeedsRotation
<1>4. QED
  BY <1>1, <1>2, <1>3 DEF Next

\* A write leaves what the types say (Vault and AuditLogger of __init__.py).
LEMMA WritesTyped ==
    ASSUME Formed, NEW t \in Threads, Writes(t)
    PROVE  /\ TypeOK' /\ \A k \in AllIds : InPlace(k)' \subseteq drawn'
           /\ drawn \subseteq drawn'
<1>1. /\ keypairs \in [AllIds -> Secrets \cup {None}]
      /\ secret_keys \in [AllIds -> Secrets \cup {None}]
      /\ canaries \subseteq Canaries /\ meta \in [Ids -> [ops : Nat, max : Nat]]
      /\ fips \in BOOLEAN /\ sealed \subseteq Ciphertext /\ retired \subseteq drawn
      /\ audit \in Seq(Nat) /\ drawn \subseteq Secrets
      /\ \A k \in AllIds : {keypairs[k], secret_keys[k]} \ {None} \subseteq drawn
  BY DEF Formed, TypeOK, InPlace
<1>2. Ids \subseteq AllIds
  BY DEF AllIds
<1>3. CASE \E k, s, q : MakesPair(t, k, s, q)
  <2>1. PICK k, s, q : MakesPair(t, k, s, q)
    BY <1>3
  <2>2. QED
    BY <1>1, <2>1 DEF MakesPair, GoesOn, TypeOK, InPlace
<1>4. CASE \E k, s, q : MakesSecret(t, k, s, q)
  <2>1. PICK k, s, q : MakesSecret(t, k, s, q)
    BY <1>4
  <2>2. QED
    BY <1>1, <2>1 DEF MakesSecret, GoesOn, TypeOK, InPlace
<1>5. CASE \E k, q : DropsPair(t, k, q)
  <2>1. PICK k, q : DropsPair(t, k, q)
    BY <1>5
  <2>2. QED
    BY <1>1, <1>2, <2>1 DEF DropsPair, GoesOn, TypeOK, InPlace
<1>6. CASE \E k, m, q : DropsSecret(t, k, m, q)
  <2>1. PICK k, m, q : DropsSecret(t, k, m, q)
    BY <1>6
  <2>2. QED
    BY <1>1, <1>2, <2>1 DEF DropsSecret, GoesOn, TypeOK, InPlace
<1>7. CASE \E n, q : Appends(t, n, q)
  <2>1. PICK n, q : Appends(t, n, q)
    BY <1>7
  <2>2. QED
    BY <1>1, <2>1 DEF Appends, GoesOn, TypeOK, InPlace
<1>8. QED
  BY <1>3, <1>4, <1>5, <1>6, <1>7 DEF Writes

\* After a write t has some of the steps it had, or the secret key just drawn for k.
LEMMA WritesPending ==
    ASSUME Formed, NEW t \in Threads, Writes(t)
    PROVE  /\ Shape(todo'[t]) /\ \A u \in Threads \ {t} : todo'[u] = todo[u]
           /\ raced \subseteq raced' /\ UNCHANGED <<canaries, meta, breach, retired>>
           /\ \A x \in Pending(t)' :
                 \/ x \in Pending(t)
                 \/ /\ x.do = "newsecret" /\ x.id \in AllIds /\ x.with \in drawn'
                    /\ Do("newsecret", x.id) \in Pending(t)
           /\ \A x \in Pending(t) : x.do \notin Changing => x \in Pending(t)'
<1>1. ASSUME NEW k, NEW q, GoesOn(t, k, q)
      PROVE  /\ Shape(todo'[t]) /\ \A u \in Threads \ {t} : todo'[u] = todo[u]
             /\ raced \subseteq raced' /\ UNCHANGED <<canaries, meta, breach, retired>>
  BY <1>1 DEF GoesOn
<1>2. "newpair" \in Changing /\ "newsecret" \in Changing /\ "droppair" \in Changing
      /\ "dropsecret" \in Changing /\ "append" \in Changing
  BY DEF Changing
<1>3. CASE \E k, s, q : MakesPair(t, k, s, q)
  <2>1. PICK k, s, q : MakesPair(t, k, s, q)
    BY <1>3
  <2>2. QED
    BY <1>1, <1>2, <2>1, DoFields DEF MakesPair
<1>4. CASE \E k, s, q : MakesSecret(t, k, s, q)
  <2>1. PICK k, s, q : MakesSecret(t, k, s, q)
    BY <1>4
  <2>2. QED
    BY <1>1, <1>2, <2>1, DoFields DEF MakesSecret
<1>5. CASE \E k, q : DropsPair(t, k, q)
  <2>1. PICK k, q : DropsPair(t, k, q)
    BY <1>5
  <2>2. QED
    BY <1>1, <1>2, <2>1, DoFields DEF DropsPair
<1>6. CASE \E k, m, q : DropsSecret(t, k, m, q)
  <2>1. PICK k, m, q : DropsSecret(t, k, m, q)
    BY <1>6
  <2>2. QED
    BY <1>1, <1>2, <2>1, DoFields DEF DropsSecret
<1>7. CASE \E n, q : Appends(t, n, q)
  <2>1. PICK n, q : Appends(t, n, q)
    BY <1>7
  <2>2. QED
    BY <1>1, <1>2, <2>1, DoFields DEF Appends
<1>8. QED
  BY <1>3, <1>4, <1>5, <1>6, <1>7 DEF Writes

\* The todos stay well formed.
LEMMA FormedKept ==
    ASSUME Formed, [Next]_vars
    PROVE  Formed'
<1>1. \A k \in AllIds : InPlace(k) \subseteq drawn
  BY DEF Formed
<1>2. \A u \in Threads : /\ Shape(todo[u])
                         /\ \A x \in Pending(u) :
                              /\ WellSorted(x)
                              /\ x.do = "newsecret" /\ x.id \in Ids => Has(u, "register", x.id)
  BY DEF Formed
<1>3. ASSUME NEW x, WellSorted(x), drawn \subseteq drawn' PROVE WellSorted(x)'
  BY <1>3 DEF WellSorted
<1>4. ASSUME NEW u \in Threads, todo'[u] = todo[u], drawn \subseteq drawn'
      PROVE  /\ Shape(todo'[u])
             /\ \A x \in Pending(u)' :
                   /\ WellSorted(x)'
                   /\ x.do = "newsecret" /\ x.id \in Ids => Has(u, "register", x.id)'
  <2>1. Pending(u)' = Pending(u)
    BY <1>4 DEF Pending
  <2>2. QED
    BY <1>2, <1>3, <1>4, <2>1 DEF Has
<1>5. ASSUME NEW t \in Threads, NEW p, Quiet(t, p), Effects(t) PROVE Formed'
  <2>1. drawn' = drawn /\ UNCHANGED <<keypairs, secret_keys>> /\ TypeOK'
    BY <1>5 DEF Quiet, Effects
  <2>2. \A k \in AllIds : InPlace(k)' \subseteq drawn'
    BY <1>1, <2>1 DEF InPlace
  <2>3. \A x \in Pending(t)' :
           /\ WellSorted(x)'
           /\ x.do = "newsecret" /\ x.id \in Ids => Has(t, "register", x.id)'
    <3>1. SUFFICES ASSUME NEW x \in Pending(t)'
                   PROVE  /\ WellSorted(x)'
                          /\ x.do = "newsecret" /\ x.id \in Ids => Has(t, "register", x.id)'
      OBVIOUS
    <3>2. CASE x \in p
      <4>1. /\ WellSorted(x)
            /\ x.do = "newsecret" /\ x.id \in Ids => Do("register", x.id) \in p
        BY <1>5, <3>2 DEF Quiet, Planned
      <4>2. p \subseteq Pending(t)'
        BY <1>5 DEF Quiet
      <4>3. QED
        BY <1>3, <2>1, <4>1, <4>2, DoFields DEF Has
    <3>3. CASE x \notin p
      <4>1. x \in Pending(t) /\ x.do # "newsecret"
        BY <1>5, <3>1, <3>3 DEF Quiet, Changeless, Changing, Pending
      <4>2. QED
        BY <1>2, <1>3, <2>1, <4>1
    <3>4. QED
      BY <3>2, <3>3
  <2>4. Shape(todo'[t]) /\ \A u \in Threads \ {t} : todo'[u] = todo[u]
    BY <1>5 DEF Quiet
  <2>5. QED
    BY <1>4, <2>1, <2>2, <2>3, <2>4 DEF Formed
<1>6. ASSUME NEW t \in Threads, Writes(t) PROVE Formed'
  <2>1. /\ TypeOK' /\ \A k \in AllIds : InPlace(k)' \subseteq drawn'
        /\ drawn \subseteq drawn'
    BY <1>6, WritesTyped
  <2>2. /\ Shape(todo'[t]) /\ \A u \in Threads \ {t} : todo'[u] = todo[u]
        /\ \A x \in Pending(t)' :
              \/ x \in Pending(t)
              \/ /\ x.do = "newsecret" /\ x.id \in AllIds /\ x.with \in drawn'
                 /\ Do("newsecret", x.id) \in Pending(t)
        /\ \A x \in Pending(t) : x.do \notin Changing => x \in Pending(t)'
    BY <1>6, WritesPending
  <2>3. \A k : Has(t, "register", k) => Has(t, "register", k)'
    BY <2>2 DEF Has, Changing
  <2>4. \A x \in Pending(t)' :
           /\ WellSorted(x)'
           /\ x.do = "newsecret" /\ x.id \in Ids => Has(t, "register", x.id)'
    <3>1. SUFFICES ASSUME NEW x \in Pending(t)'
                   PROVE  /\ WellSorted(x)'
                          /\ x.do = "newsecret" /\ x.id \in Ids => Has(t, "register", x.id)'
      OBVIOUS
    <3>2. CASE x \in Pending(t)
      BY <1>2, <1>3, <2>1, <2>3, <3>2
    <3>3. CASE x \notin Pending(t)
      <4>1. /\ x.do = "newsecret" /\ x.id \in AllIds /\ x.with \in drawn'
            /\ Do("newsecret", x.id) \in Pending(t)
        BY <2>2, <3>1, <3>3
      <4>2. WellSorted(x)'
        BY <4>1 DEF WellSorted
      <4>3. x.id \in Ids => Has(t, "register", x.id)
        BY <1>2, <4>1, DoFields
      <4>4. QED
        BY <2>3, <4>1, <4>2, <4>3
    <3>4. QED
      BY <3>2, <3>3
  <2>5. QED
    BY <1>4, <2>1, <2>2, <2>4 DEF Formed
<1>7. ASSUME Idle PROVE Formed'
  <2>1. /\ TypeOK' /\ UNCHANGED <<keypairs, secret_keys, todo, drawn>>
    BY <1>7 DEF Idle
  <2>2. \A k \in AllIds : InPlace(k)' \subseteq drawn'
    BY <1>1, <2>1 DEF InPlace
  <2>3. QED
    BY <1>4, <2>1, <2>2 DEF Formed
<1>8. QED
  BY <1>5, <1>6, <1>7, StepKinds

\* Nothing is pending at first.
LEMMA FormedInit ==
    ASSUME Init
    PROVE  Formed /\ \A t \in Threads : Pending(t) = {}
<1>1. \A t \in Threads : todo[t] = <<>> /\ Pending(t) = {} /\ Shape(todo[t])
  BY StepsOfLiterals DEF Init, Pending, Shape
<1>2. TypeOK
  <2>1. /\ [k \in AllIds |-> None] \in [AllIds -> Secrets \cup {None}]
        /\ [t \in Threads |-> <<>>] \in [Threads -> Seq(Step)]
    OBVIOUS
  <2>2. [k \in Ids |-> NoMeta] \in [Ids -> [ops : Nat, max : Nat]]
    BY DEF NoMeta
  <2>3. /\ keypairs = [k \in AllIds |-> None] /\ secret_keys = [k \in AllIds |-> None]
        /\ meta = [k \in Ids |-> NoMeta] /\ todo = [t \in Threads |-> <<>>]
        /\ canaries = {} /\ fips = FALSE /\ audit = <<>>
        /\ drawn = {} /\ sealed = {} /\ retired = {}
    BY Zenon DEF Init
  <2>4. fips \in BOOLEAN /\ audit \in Seq(Nat)
    <3>1. fips \in BOOLEAN
      BY Zenon DEF Init
    <3>2. <<>> \in Seq(Nat)
      OBVIOUS
    <3>3. QED
      BY <2>3, <3>1, <3>2, Zenon
  <2>5. keypairs \in [AllIds -> Secrets \cup {None}] /\ secret_keys \in [AllIds -> Secrets \cup {None}]
    BY <2>1, <2>3
  <2>6. meta \in [Ids -> [ops : Nat, max : Nat]] /\ todo \in [Threads -> Seq(Step)]
    BY <2>1, <2>2, <2>3, Zenon
  <2>7. canaries \subseteq Canaries /\ drawn \subseteq Secrets /\ sealed \subseteq Ciphertext
        /\ retired \subseteq drawn
    BY <2>3
  <2>8. QED
    BY <2>4, <2>5, <2>6, <2>7 DEF TypeOK
<1>3. \A k \in AllIds : InPlace(k) \subseteq drawn
  BY DEF Init, InPlace
<1>4. QED
  BY <1>1, <1>2, <1>3 DEF Formed

\* Two handlers may run side by side on one vault (serve_forever, mcp_http.py:336-349), yet
\* each request keeps its shape, whatever the other does: the writes of
\* generate_keypair, _rotate_key and remove_keypair follow each other, a rotated key is
\* registered anew, and no secret is in place that generate_keypair did not draw.
THEOREM FormedHolds == Spec => []Formed
<1>1. Init => Formed
  BY FormedInit
<1>2. Formed /\ [Next]_vars => Formed'
  BY FormedKept
<1>3. QED
  BY <1>1, <1>2, PTL DEF Spec

-------------------------------------------------------------------------------
(***************************************************************************)
(* The log                                                                 *)
(***************************************************************************)

Chained ==
    Log \notin raced =>
        /\ Linked
        /\ \A t \in Threads : \A x \in Pending(t) : x.do = "append" => x.with = Len(audit)

\* An entry that follows the last one extends the chain (AuditLogger.log).
LEMMA LinkedMore ==
    ASSUME audit \in Seq(Nat), Linked, audit' = Append(audit, Len(audit))
    PROVE  Linked'
<1>1. /\ Len(audit) \in Nat /\ DOMAIN audit = 1..Len(audit)
      /\ DOMAIN audit' = 1..(Len(audit) + 1)
      /\ audit'[Len(audit) + 1] = Len(audit)
      /\ \A i \in 1..Len(audit) : audit'[i] = audit[i]
  OBVIOUS
<1>2. ASSUME NEW i \in 1..(Len(audit) + 1) PROVE audit'[i] = i - 1
  <2>1. CASE i = Len(audit) + 1
    BY <1>1, <2>1
  <2>2. CASE i # Len(audit) + 1
    BY <1>1, <2>2 DEF Linked
  <2>3. QED
    BY <2>1, <2>2
<1>3. QED
  BY <1>1, <1>2 DEF Linked

\* Only a handler that appends moves the end of the log, and unless two were between
\* reading it and appending, it is where that handler read it.
LEMMA ChainedKept ==
    ASSUME Formed, Chained, [Next]_vars
    PROVE  Chained'
<1>1. SUFFICES ASSUME Log \notin raced'
               PROVE  /\ Linked'
                      /\ \A u \in Threads : \A x \in Pending(u)' :
                            x.do = "append" => x.with = Len(audit')
  BY DEF Chained
<1>2. ASSUME raced \subseteq raced'
      PROVE  /\ Linked
             /\ \A u \in Threads : \A x \in Pending(u) : x.do = "append" => x.with = Len(audit)
  BY <1>1, <1>2 DEF Chained
<1>3. \A u \in Threads : todo'[u] = todo[u] => Pending(u)' = Pending(u)
  BY DEF Pending
<1>4. ASSUME NEW t \in Threads, NEW p, Quiet(t, p) PROVE Chained'
  <2>1. /\ raced \subseteq raced' /\ audit' = audit
        /\ \A u \in Threads \ {t} : Pending(u)' = Pending(u)
    BY <1>3, <1>4 DEF Quiet
  <2>2. \A x \in Pending(t)' : x.do = "append" => x.with = Len(audit)
    <3>1. SUFFICES ASSUME NEW x \in Pending(t)', x.do = "append" PROVE x.with = Len(audit)
      OBVIOUS
    <3>2. x \in p \/ x \in Pending(t)
      BY <1>4, <3>1 DEF Quiet
    <3>3. QED
      BY <1>2, <1>4, <2>1, <3>1, <3>2 DEF Quiet, Planned
  <2>3. QED
    BY <1>2, <2>1, <2>2 DEF Chained, Linked
<1>5. ASSUME NEW t \in Threads, Writes(t) PROVE Chained'
  <2>1. /\ raced \subseteq raced'
        /\ \A u \in Threads \ {t} : Pending(u)' = Pending(u)
        /\ \A x \in Pending(t)' : x \in Pending(t) \/ x.do = "newsecret"
    BY <1>3, <1>5, WritesPending
  <2>2. CASE \E n, q : Appends(t, n, q)
    <3>1. PICK n, q : Appends(t, n, q)
      BY <2>2
    <3>2. DoWith("append", Log, n) \in Pending(t) /\ audit' = Append(audit, n)
      BY <3>1 DEF Appends
    <3>3. n = Len(audit) /\ Linked
      BY <1>2, <2>1, <3>2, DoFields
    <3>4. Linked'
      BY <3>2, <3>3, LinkedMore DEF Formed, TypeOK
    <3>5. \A x \in Pending(t)' : x.do # "append"
      BY <3>1 DEF Appends, GoesOn, Changing
    <3>6. \A u \in Threads \ {t} : \A x \in Pending(u) : x.do # "append"
      <4>1. \A u \in Threads \ {t} : \A x \in Pending(u) : x.do = "append" => x.id # Log
        BY <1>1, <3>1 DEF Appends, GoesOn, Alone, Changing
      <4>2. \A u \in Threads : \A x \in Pending(u) : x.do = "append" => x.id = Log
        BY DEF Formed, WellSorted
      <4>3. QED
        BY <4>1, <4>2
    <3>7. QED
      BY <2>1, <3>4, <3>5, <3>6 DEF Chained
  <2>3. CASE audit' = audit
    BY <1>2, <2>1, <2>3 DEF Chained, Linked
  <2>4. QED
    BY <1>5, <2>2, <2>3 DEF Writes, MakesPair, MakesSecret, DropsPair, DropsSecret
<1>6. ASSUME Idle PROVE Chained'
  <2>1. /\ raced \subseteq raced' /\ audit' = audit
        /\ \A u \in Threads : Pending(u)' = Pending(u)
    BY <1>3, <1>6 DEF Idle
  <2>2. Linked' /\ \A u \in Threads : \A x \in Pending(u) : x.do = "append" => x.with = Len(audit)
    BY <1>2, <2>1 DEF Linked
  <2>3. QED
    BY <2>1, <2>2 DEF Chained
<1>7. QED
  BY <1>1, <1>4, <1>5, <1>6, StepKinds DEF Chained

\* However many handlers log on one vault, and in whatever order their steps fall, the hash
\* chain of AuditLogger breaks only where two were both between reading its last entry and
\* appending (__init__.py:101-107).
THEOREM ChainIntactHolds == Spec => []ChainIntact
<1>1. ASSUME Init PROVE Formed /\ Chained
  <2>1. Formed /\ \A t \in Threads : Pending(t) = {}
    BY <1>1, FormedInit
  <2>2. Linked
    BY <1>1 DEF Init, Linked
  <2>3. QED
    BY <2>1, <2>2 DEF Chained
<1>2. Formed /\ Chained /\ [Next]_vars => Formed' /\ Chained'
  BY FormedKept, ChainedKept
<1>3. Chained => ChainIntact
  BY DEF Chained, ChainIntact
<1>4. QED
  BY <1>1, <1>2, <1>3, PTL DEF Spec

-------------------------------------------------------------------------------
(***************************************************************************)
(* Canaries                                                                *)
(***************************************************************************)

Guarded ==
    /\ ~breach
    /\ \A c \in canaries : keypairs[c] # None
    /\ \A t \in Threads : \A x \in Pending(t) :
          x.do = "plant" => keypairs[x.id] # None \/ Has(t, "newpair", x.id)

\* No pair that is in place under a canary's id goes, and a planned pair is made before
\* the id is counted as a canary (Vault of __init__.py).
LEMMA PairsStand ==
    ASSUME Formed, NEW t \in Threads, Writes(t), NEW c \in Canaries
    PROVE  /\ keypairs[c] # None => keypairs'[c] # None
           /\ Has(t, "newpair", c) => keypairs'[c] # None \/ Has(t, "newpair", c)'
<1>1. keypairs \in [AllIds -> Secrets \cup {None}] /\ c \in AllIds /\ c \notin Ids
  BY IdsAssumption DEF Formed, TypeOK, AllIds
<1>2. CASE \E k, s, q : MakesPair(t, k, s, q)
  <2>1. PICK k, s, q : MakesPair(t, k, s, q)
    BY <1>2
  <2>2. /\ k \in AllIds /\ s \in Secrets /\ keypairs' = [keypairs EXCEPT ![k] = s]
        /\ Pending(t) = {Do("newpair", k), Do("newsecret", k)} \cup q
        /\ \A y \in q : y.do \notin Changing
    BY <2>1 DEF MakesPair, GoesOn
  <2>3. s # None
    BY <2>2, NoneAssumption
  <2>4. Has(t, "newpair", c) => c = k
    BY <2>2, DoFields DEF Has, Changing
  <2>5. QED
    BY <1>1, <2>2, <2>3, <2>4
<1>3. CASE \E k, s, q : MakesSecret(t, k, s, q)
  BY <1>3, DoFields DEF MakesSecret, GoesOn, Has, Changing
<1>4. CASE \E k, q : DropsPair(t, k, q)
  <2>1. PICK k, q : DropsPair(t, k, q)
    BY <1>4
  <2>2. k # c
    BY <1>1, <2>1 DEF DropsPair
  <2>3. keypairs'[c] = keypairs[c]
    BY <1>1, <2>1, <2>2 DEF DropsPair
  <2>4. ~Has(t, "newpair", c)
    BY <2>1, DoFields DEF DropsPair, GoesOn, Has, Changing
  <2>5. QED
    BY <2>3, <2>4
<1>5. CASE \E k, m, q : DropsSecret(t, k, m, q)
  <2>1. PICK k, m, q : DropsSecret(t, k, m, q)
    BY <1>5
  <2>2. keypairs' = keypairs /\ \A x \in Pending(t) : x.do = "newpair" => x \in Pending(t)'
    BY <2>1, DoFields DEF DropsSecret
  <2>3. QED
    BY <2>2 DEF Has
<1>6. CASE \E n, q : Appends(t, n, q)
  BY <1>6, DoFields DEF Appends, GoesOn, Has, Changing
<1>7. QED
  BY <1>2, <1>3, <1>4, <1>5, <1>6 DEF Writes

\* A canary's pair stands from before it counts (add_canary).
LEMMA GuardedKept ==
    ASSUME Formed, Guarded, [Next]_vars
    PROVE  Guarded'
<1>1. \A u \in Threads : todo'[u] = todo[u] =>
         Pending(u)' = Pending(u) /\ \A c : Has(u, "newpair", c)' = Has(u, "newpair", c)
  BY DEF Pending, Has
<1>2. /\ canaries \subseteq Canaries
      /\ \A u \in Threads : \A x \in Pending(u) : x.do = "plant" => x.id \in Canaries
  BY DEF Formed, TypeOK, WellSorted
<1>3. ASSUME NEW t \in Threads, NEW p, Quiet(t, p), Effects(t) PROVE Guarded'
  <2>1. /\ keypairs' = keypairs /\ p \subseteq Pending(t)' /\ Pending(t)' \subseteq p \cup Pending(t)
        /\ \A u \in Threads \ {t} : todo'[u] = todo[u]
        /\ ~\E x \in Pending(t) : x.do = "newpair"
    BY <1>3 DEF Quiet, Changeless, Changing, Pending
  <2>2. \A x \in Pending(t) : x.do = "plant" => keypairs[x.id] # None
    BY <2>1 DEF Guarded, Has
  <2>3. ~breach' /\ \A c \in canaries' : keypairs'[c] # None
    BY <1>3, <2>1, <2>2 DEF Effects, Guarded
  <2>4. \A x \in Pending(t)' : x.do = "plant" => keypairs'[x.id] # None \/ Has(t, "newpair", x.id)'
    <3>1. SUFFICES ASSUME NEW x \in Pending(t)', x.do = "plant", x \in p
                   PROVE  Has(t, "newpair", x.id)'
      BY <2>1, <2>2
    <3>2. Do("newpair", x.id) \in p
      BY <1>3, <3>1 DEF Quiet, Planned
    <3>3. QED
      BY <2>1, <3>2, DoFields DEF Has
  <2>5. QED
    BY <1>1, <2>1, <2>3, <2>4 DEF Guarded
<1>4. ASSUME NEW t \in Threads, Writes(t) PROVE Guarded'
  <2>1. /\ \A u \in Threads \ {t} : todo'[u] = todo[u]
        /\ UNCHANGED <<canaries, breach>>
        /\ \A x \in Pending(t)' : x \in Pending(t) \/ x.do = "newsecret"
    BY <1>4, WritesPending
  <2>2. \A c \in Canaries :
           /\ keypairs[c] # None => keypairs'[c] # None
           /\ Has(t, "newpair", c) => keypairs'[c] # None \/ Has(t, "newpair", c)'
    BY <1>4, PairsStand
  <2>3. \A c \in canaries' : keypairs'[c] # None
    BY <1>2, <2>1, <2>2 DEF Guarded
  <2>4. \A x \in Pending(t)' : x.do = "plant" => keypairs'[x.id] # None \/ Has(t, "newpair", x.id)'
    BY <1>2, <2>1, <2>2 DEF Guarded
  <2>5. \A u \in Threads \ {t} : \A x \in Pending(u)' :
           x.do = "plant" => keypairs'[x.id] # None \/ Has(u, "newpair", x.id)'
    BY <1>1, <1>2, <2>1, <2>2 DEF Guarded
  <2>6. QED
    BY <2>1, <2>3, <2>4, <2>5 DEF Guarded
<1>5. ASSUME Idle PROVE Guarded'
  BY <1>1, <1>5 DEF Idle, Guarded
<1>6. QED
  BY <1>3, <1>4, <1>5, StepKinds

\* check_canary reports a breach only when a canary's key is gone, and no request that the
\* gateway serves takes one, whatever runs between the steps of add_canary
\* (tests/test_pentest.py:549).
THEOREM NoFalseBreachHolds == Spec => []NoFalseBreach
<1>1. Init => Formed /\ Guarded
  BY FormedInit DEF Init, Guarded
<1>2. Formed /\ Guarded /\ [Next]_vars => Formed' /\ Guarded'
  BY FormedKept, GuardedKept
<1>3. Guarded => NoFalseBreach
  BY DEF Guarded, NoFalseBreach
<1>4. QED
  BY <1>1, <1>2, <1>3, PTL DEF Spec

-------------------------------------------------------------------------------
(***************************************************************************)
(* The two dictionaries                                                    *)
(***************************************************************************)

\* What the dictionaries and the pending steps say of k is as it was.
SameAt(k) ==
    /\ keypairs'[k] = keypairs[k] /\ secret_keys'[k] = secret_keys[k]
    /\ \A u \in Threads : \A x : x.id = k => (x \in Pending(u)' <=> x \in Pending(u))

WritesAt(t, k) ==
    \/ \E s, q : MakesPair(t, k, s, q)
    \/ \E s, q : MakesSecret(t, k, s, q)
    \/ \E q : DropsPair(t, k, q)
    \/ \E m, q : DropsSecret(t, k, m, q)

\* A write concerns one id, and while no race for it is noted no other handler is changing
\* it (generate_keypair, _rotate_key and remove_keypair).
LEMMA WriteAtOne ==
    ASSUME Formed, NEW t \in Threads, Writes(t), NEW k \in Ids
    PROVE  /\ SameAt(k) \/ WritesAt(t, k)
           /\ WritesAt(t, k) /\ k \notin raced' =>
                 \A u \in Threads \ {t} : \A x \in Pending(u) : x.do \in Changing => x.id # k
<1>1. /\ keypairs \in [AllIds -> Secrets \cup {None}]
      /\ secret_keys \in [AllIds -> Secrets \cup {None}]
      /\ k \in AllIds /\ k # Log
  BY IdsAssumption DEF Formed, TypeOK, AllIds
<1>2. \A u \in Threads \ {t} : Pending(u)' = Pending(u)
  BY WritesPending DEF Pending
<1>3. ASSUME NEW j, j # k, WritesAt(t, j) PROVE SameAt(k)
  <2>1. CASE \E s, q : MakesPair(t, j, s, q)
    <3>1. PICK s, q : MakesPair(t, j, s, q)
      BY <2>1
    <3>2. \A x : x.id = k => (x \in Pending(t)' <=> x \in Pending(t))
      BY <1>3, <3>1, DoFields DEF MakesPair
    <3>3. keypairs'[k] = keypairs[k] /\ secret_keys'[k] = secret_keys[k]
      BY <1>1, <1>3, <3>1 DEF MakesPair
    <3>4. QED
      BY <1>2, <3>2, <3>3 DEF SameAt
  <2>2. CASE \E s, q : MakesSecret(t, j, s, q)
    <3>1. PICK s, q : MakesSecret(t, j, s, q)
      BY <2>2
    <3>2. \A x : x.id = k => (x \in Pending(t)' <=> x \in Pending(t))
      BY <1>3, <3>1, DoFields DEF MakesSecret
    <3>3. keypairs'[k] = keypairs[k] /\ secret_keys'[k] = secret_keys[k]
      BY <1>1, <1>3, <3>1 DEF MakesSecret
    <3>4. QED
      BY <1>2, <3>2, <3>3 DEF SameAt
  <2>3. CASE \E q : DropsPair(t, j, q)
    <3>1. PICK q : DropsPair(t, j, q)
      BY <2>3
    <3>2. \A x : x.id = k => (x \in Pending(t)' <=> x \in Pending(t))
      BY <1>3, <3>1, DoFields DEF DropsPair
    <3>3. keypairs'[k] = keypairs[k] /\ secret_keys'[k] = secret_keys[k]
      BY <1>1, <1>3, <3>1 DEF DropsPair
    <3>4. QED
      BY <1>2, <3>2, <3>3 DEF SameAt
  <2>4. CASE \E m, q : DropsSecret(t, j, m, q)
    <3>1. PICK m, q : DropsSecret(t, j, m, q)
      BY <2>4
    <3>2. \A x : x.id = k => (x \in Pending(t)' <=> x \in Pending(t))
      BY <1>3, <3>1, DoFields DEF DropsSecret
    <3>3. keypairs'[k] = keypairs[k] /\ secret_keys'[k] = secret_keys[k]
      BY <1>1, <1>3, <3>1 DEF DropsSecret
    <3>4. QED
      BY <1>2, <3>2, <3>3 DEF SameAt
  <2>5. QED
    BY <1>3, <2>1, <2>2, <2>3, <2>4 DEF WritesAt
<1>4. ASSUME NEW n, NEW q, Appends(t, n, q) PROVE SameAt(k)
  <2>1. \A x : x.id = k => (x \in Pending(t)' <=> x \in Pending(t))
    BY <1>1, <1>4, DoFields DEF Appends
  <2>2. QED
    BY <1>2, <1>4, <2>1 DEF Appends, SameAt
<1>5. SameAt(k) \/ WritesAt(t, k)
  <2>1. (\E j : WritesAt(t, j)) \/ \E n, q : Appends(t, n, q)
    BY DEF Writes, WritesAt
  <2>2. QED
    BY <1>3, <1>4, <2>1
<1>6. WritesAt(t, k) => Alone(t, k)
  BY DEF WritesAt, MakesPair, MakesSecret, DropsPair, DropsSecret, GoesOn
<1>7. QED
  BY <1>5, <1>6 DEF Alone

Busy(t, k) == \E x \in Pending(t) : x.id = k /\ x.do \in Changing

\* Where a change of k has got to: its secret key follows the pair that is in place, and
\* the one to be dropped the pair that is gone.
Halfway(k) ==
    /\ (\A t \in Threads : ~Busy(t, k)) => keypairs[k] = secret_keys[k]
    /\ \A t \in Threads :
          /\ \A x \in Pending(t) : x.do = "newsecret" /\ x.id = k =>
                Has(t, "newpair", k) \/ (x.with = keypairs[k] /\ x.with # None)
          /\ Has(t, "dropsecret", k) =>
                Has(t, "newpair", k) \/ Has(t, "droppair", k) \/ keypairs[k] = None

\* A write of k by a handler that is alone with it (generate_keypair, _rotate_key,
\* remove_keypair).
LEMMA HalfwayWrites ==
    ASSUME Formed, NEW t \in Threads, NEW k \in Ids, Halfway(k), WritesAt(t, k),
           \A u \in Threads \ {t} : Pending(u)' = Pending(u),
           \A u \in Threads \ {t} : \A x \in Pending(u) : x.do \in Changing => x.id # k
    PROVE  Halfway(k)'
<1>1. /\ keypairs \in [AllIds -> Secrets \cup {None}]
      /\ secret_keys \in [AllIds -> Secrets \cup {None}] /\ k \in AllIds
  BY DEF Formed, TypeOK, AllIds
<1>2. \A u \in Threads \ {t} : \A x \in Pending(u)' :
         x.id = k => x.do # "newsecret" /\ x.do # "dropsecret"
  BY DEF Changing
<1>3. \A u \in Threads \ {t} : ~Has(u, "dropsecret", k)'
  BY <1>2 DEF Has
<1>4. SUFFICES /\ Busy(t, k)' \/ keypairs'[k] = secret_keys'[k]
               /\ \A x \in Pending(t)' : x.do = "newsecret" /\ x.id = k =>
                     Has(t, "newpair", k)' \/ (x.with = keypairs'[k] /\ x.with # None)
               /\ Has(t, "dropsecret", k)' =>
                     Has(t, "newpair", k)' \/ Has(t, "droppair", k)' \/ keypairs'[k] = None
  BY <1>2, <1>3 DEF Halfway
<1>5. CASE \E s, q : MakesPair(t, k, s, q)
  <2>1. PICK s, q : MakesPair(t, k, s, q)
    BY <1>5
  <2>2. /\ s # None /\ keypairs'[k] = s /\ \A y \in q : y.do \notin Changing
        /\ Pending(t)' = {DoWith("newsecret", k, s)} \cup q
    BY <1>1, <2>1, NoneAssumption DEF MakesPair, GoesOn
  <2>3. Busy(t, k)'
    BY <2>2, DoFields DEF Busy, Changing
  <2>4. ~Has(t, "dropsecret", k)'
    BY <2>2, DoFields DEF Has, Changing
  <2>5. QED
    BY <2>2, <2>3, <2>4, DoFields DEF Changing
<1>6. CASE \E s, q : MakesSecret(t, k, s, q)
  <2>1. PICK s, q : MakesSecret(t, k, s, q)
    BY <1>6
  <2>2. /\ Pending(t) = {DoWith("newsecret", k, s)} \cup q /\ \A y \in q : y.do \notin Changing
        /\ Pending(t)' = q /\ secret_keys'[k] = s /\ keypairs' = keypairs
    BY <1>1, <2>1 DEF MakesSecret, GoesOn
  <2>3. ~Has(t, "newpair", k)
    BY <2>2, DoFields DEF Has, Changing
  <2>4. s = keypairs[k]
    BY <2>2, <2>3, DoFields DEF Halfway
  <2>5. ~Has(t, "dropsecret", k)'
    BY <2>2 DEF Has, Changing
  <2>6. QED
    BY <2>2, <2>4, <2>5 DEF Changing
<1>7. CASE \E q : DropsPair(t, k, q)
  <2>1. PICK q : DropsPair(t, k, q)
    BY <1>7
  <2>2. /\ keypairs'[k] = None /\ \A y \in q : y.do \notin Changing
        /\ Pending(t)' = {Do("dropsecret", k)} \cup q
    BY <1>1, <2>1 DEF DropsPair, GoesOn
  <2>3. Busy(t, k)'
    BY <2>2, DoFields DEF Busy, Changing
  <2>4. QED
    BY <2>2, <2>3, DoFields DEF Changing
<1>8. CASE \E m, q : DropsSecret(t, k, m, q)
  <2>1. PICK m, q : DropsSecret(t, k, m, q)
    BY <1>8
  <2>2. /\ m = {} \/ m = {Do("newpair", k), Do("newsecret", k)}
        /\ Pending(t) = {Do("dropsecret", k)} \cup m \cup q /\ \A y \in q : y.do \notin Changing
        /\ Pending(t)' = m \cup q /\ secret_keys'[k] = None /\ keypairs' = keypairs
    BY <1>1, <2>1 DEF DropsSecret, GoesOn
  <2>3. ~Has(t, "dropsecret", k)'
    BY <2>2, DoFields DEF Has, Changing
  <2>4. CASE m = {}
    <3>1. ~Has(t, "newpair", k) /\ ~Has(t, "droppair", k) /\ Has(t, "dropsecret", k)
      BY <2>2, <2>4, DoFields DEF Has, Changing
    <3>2. keypairs[k] = None
      BY <3>1 DEF Halfway
    <3>3. QED
      BY <2>2, <2>3, <2>4, <3>2 DEF Changing
  <2>5. CASE m = {Do("newpair", k), Do("newsecret", k)}
    <3>1. Has(t, "newpair", k)' /\ Busy(t, k)'
      BY <2>2, <2>5, DoFields DEF Has, Busy, Changing
    <3>2. QED
      BY <2>3, <3>1
  <2>6. QED
    BY <2>2, <2>4, <2>5
<1>9. QED
  BY <1>5, <1>6, <1>7, <1>8 DEF WritesAt

\* The other steps leave it where it is, or plan a change from the start.
LEMMA HalfwayQuiet ==
    ASSUME Formed, NEW t \in Threads, NEW p, Quiet(t, p), NEW k \in Ids, Halfway(k)
    PROVE  Halfway(k)'
<1>1. /\ keypairs' = keypairs /\ secret_keys' = secret_keys
      /\ p \subseteq Pending(t)' /\ Pending(t)' \subseteq p \cup Pending(t)
      /\ \A x \in Pending(t) : x.do \notin Changing
      /\ \A u \in Threads \ {t} : Pending(u)' = Pending(u)
  BY DEF Quiet, Changeless, Pending
<1>2. \A x \in Pending(t)' : x.do \in Changing => x \in p
  BY <1>1
<1>3. ~Busy(t, k)
  BY <1>1 DEF Busy
<1>4. \A u \in Threads \ {t} : /\ Busy(u, k)' <=> Busy(u, k)
                               /\ \A what : Has(u, what, k)' <=> Has(u, what, k)
  BY <1>1 DEF Busy, Has
<1>5. (\A u \in Threads : ~Busy(u, k)') => keypairs'[k] = secret_keys'[k]
  BY <1>1, <1>3, <1>4 DEF Halfway
<1>6. ASSUME NEW x \in Pending(t)', x.do \in {"newsecret", "dropsecret"}, x.id = k
      PROVE  Has(t, "newpair", k)' \/ (x.do = "dropsecret" /\ Has(t, "droppair", k)')
  <2>1. x \in p
    BY <1>2, <1>6 DEF Changing
  <2>2. Do("newpair", k) \in p \/ (x.do = "dropsecret" /\ Do("droppair", k) \in p)
    BY <1>6, <2>1 DEF Quiet, Planned
  <2>3. QED
    BY <1>1, <2>2, DoFields DEF Has
<1>7. /\ \A x \in Pending(t)' : x.do = "newsecret" /\ x.id = k => Has(t, "newpair", k)'
      /\ Has(t, "dropsecret", k)' => Has(t, "newpair", k)' \/ Has(t, "droppair", k)'
  BY <1>6 DEF Has
<1>8. \A u \in Threads \ {t} :
         /\ \A x \in Pending(u)' : x.do = "newsecret" /\ x.id = k =>
               Has(u, "newpair", k)' \/ (x.with = keypairs'[k] /\ x.with # None)
         /\ Has(u, "dropsecret", k)' =>
               Has(u, "newpair", k)' \/ Has(u, "droppair", k)' \/ keypairs'[k] = None
  BY <1>1, <1>4 DEF Halfway
<1>9. QED
  BY <1>5, <1>7, <1>8 DEF Halfway

\* Nor does what leaves k alone.
LEMMA HalfwaySame ==
    ASSUME NEW k, SameAt(k), Halfway(k)
    PROVE  Halfway(k)'
<1>1. \A u \in Threads : /\ Busy(u, k)' <=> Busy(u, k)
                         /\ \A what : Has(u, what, k)' <=> Has(u, what, k)
  BY DEF SameAt, Busy, Has
<1>2. \A u \in Threads : \A x \in Pending(u)' : x.id = k => x \in Pending(u)
  BY DEF SameAt
<1>3. keypairs'[k] = keypairs[k] /\ secret_keys'[k] = secret_keys[k]
  BY DEF SameAt
<1>4. QED
  BY <1>1, <1>2, <1>3 DEF Halfway

HalfDone == \A k \in Ids \ raced : Halfway(k)

\* Of an id no two handlers were changing at once, every step keeps how far it has got.
LEMMA HalfDoneKept ==
    ASSUME Formed, HalfDone, [Next]_vars
    PROVE  HalfDone'
<1>1. CASE \E t \in Threads : \E p : Quiet(t, p) /\ Effects(t)
  BY <1>1, HalfwayQuiet DEF HalfDone, Quiet
<1>2. CASE \E t \in Threads : Writes(t)
  <2>1. PICK t \in Threads : Writes(t)
    BY <1>2
  <2>2. raced \subseteq raced' /\ \A u \in Threads \ {t} : Pending(u)' = Pending(u)
    BY <2>1, WritesPending DEF Pending
  <2>3. QED
    BY <2>1, <2>2, WriteAtOne, HalfwayWrites, HalfwaySame DEF HalfDone
<1>3. CASE Idle
  <2>1. raced \subseteq raced' /\ \A k \in Ids : SameAt(k)
    BY <1>3 DEF Idle, SameAt, Pending
  <2>2. QED
    BY <2>1, HalfwaySame DEF HalfDone
<1>4. QED
  BY <1>1, <1>2, <1>3, StepKinds

\* Nothing is half done at first.
LEMMA HalfDoneInit ==
    ASSUME Init
    PROVE  HalfDone
<1>1. \A t \in Threads : Pending(t) = {}
  BY FormedInit
<1>2. \A k \in Ids : keypairs[k] = secret_keys[k]
  BY DEF Init, AllIds
<1>3. QED
  BY <1>1, <1>2 DEF HalfDone, Halfway, Has

\* What generate_keypair, _rotate_key and remove_keypair write in two dictionaries agrees
\* again once no handler has more of it to write (__init__.py:344-345, 361, 504-507), for
\* every id that two handlers were not changing at once: what store seals, retrieve opens.
THEOREM PairsMatchHolds == Spec => []PairsMatch
<1>1. Init => Formed /\ HalfDone
  BY FormedInit, HalfDoneInit
<1>2. Formed /\ HalfDone /\ [Next]_vars => Formed' /\ HalfDone'
  BY FormedKept, HalfDoneKept
<1>3. ASSUME HalfDone PROVE PairsMatch
  <2>1. \A t \in Threads : \A k \in Ids : Busy(t, k) => Changes(t, k)
    BY DEF Busy, Changes, Changing, Pending, Steps
  <2>2. QED
    BY <1>3, <2>1 DEF HalfDone, Halfway, PairsMatch
<1>4. QED
  BY <1>1, <1>2, <1>3, PTL DEF Spec

-------------------------------------------------------------------------------
(***************************************************************************)
(* Rotation                                                                *)
(***************************************************************************)

\* x is in place under k, about to be, or what a rotation of k will retire.
Owns(k, x) ==
    \/ x \in InPlace(k)
    \/ \E t \in Threads : \E y \in Pending(t) :
          y.id = k /\ \/ y.do = "newsecret" /\ y.with = x
                      \/ y.do = "rotated" /\ x \in y.with

OneOwner == \A j, k \in Ids : \A x \in drawn : Owns(j, x) /\ Owns(k, x) => j = k

\* Requests and quiet steps give an id no secret it did not have.
LEMMA OwnsQuiet ==
    ASSUME Formed, NEW t \in Threads, NEW p, Quiet(t, p), NEW k \in Ids,
           NEW x, x # None, Owns(k, x)'
    PROVE  Owns(k, x)
<1>1. /\ InPlace(k)' = InPlace(k) /\ Pending(t)' \subseteq p \cup Pending(t) /\ Planned(p)
      /\ \A u \in Threads \ {t} : Pending(u)' = Pending(u)
  BY DEF Quiet, Pending, InPlace
<1>2. CASE x \in InPlace(k)'
  BY <1>1, <1>2 DEF Owns
<1>3. ASSUME NEW u \in Threads, NEW y \in Pending(u)', y.id = k,
             (y.do = "newsecret" /\ y.with = x) \/ (y.do = "rotated" /\ x \in y.with)
      PROVE  Owns(k, x)
  <2>1. CASE y \in Pending(u)
    BY <1>3, <2>1 DEF Owns
  <2>2. CASE y \notin Pending(u)
    <3>1. y \in p
      BY <1>1, <1>3, <2>2
    <3>2. x \in InPlace(k)
      BY <1>1, <1>3, <3>1 DEF Planned
    <3>3. QED
      BY <3>2 DEF Owns
  <2>3. QED
    BY <2>1, <2>2
<1>4. QED
  BY <1>2, <1>3 DEF Owns

\* A write gives an id only the secret that generate_keypair has just drawn for it.
LEMMA OwnsWrites ==
    ASSUME Formed, NEW t \in Threads, Writes(t), NEW k \in Ids,
           NEW x, x # None, Owns(k, x)'
    PROVE  Owns(k, x) \/ \E q : MakesPair(t, k, x, q)
<1>1. /\ keypairs \in [AllIds -> Secrets \cup {None}]
      /\ secret_keys \in [AllIds -> Secrets \cup {None}] /\ k \in AllIds
  BY DEF Formed, TypeOK, AllIds
<1>2. \A u \in Threads \ {t} : Pending(u)' = Pending(u)
  BY WritesPending DEF Pending
<1>3. CASE SameAt(k)
  BY <1>3 DEF SameAt, Owns, InPlace
<1>4. CASE \E s, q : MakesPair(t, k, s, q)
  <2>1. PICK s, q : MakesPair(t, k, s, q)
    BY <1>4
  <2>2. CASE x = s
    BY <2>1, <2>2
  <2>3. CASE x # s
    <3>1. /\ InPlace(k)' \subseteq InPlace(k) \cup {s}
          /\ Pending(t)' = {DoWith("newsecret", k, s)} \cup q /\ q \subseteq Pending(t)
      BY <1>1, <2>1 DEF MakesPair, InPlace
    <3>2. QED
      BY <1>2, <2>3, <3>1, DoFields DEF Owns
  <2>4. QED
    BY <2>2, <2>3
<1>5. CASE \E s, q : MakesSecret(t, k, s, q)
  <2>1. PICK s, q : MakesSecret(t, k, s, q)
    BY <1>5
  <2>2. /\ InPlace(k)' \subseteq InPlace(k) \cup {s}
        /\ Pending(t) = {DoWith("newsecret", k, s)} \cup q /\ Pending(t)' = q
    BY <1>1, <2>1 DEF MakesSecret, InPlace
  <2>3. Owns(k, s)
    BY <2>2, DoFields DEF Owns
  <2>4. QED
    BY <1>2, <2>2, <2>3 DEF Owns
<1>6. CASE \E q : DropsPair(t, k, q)
  <2>1. PICK q : DropsPair(t, k, q)
    BY <1>6
  <2>2. InPlace(k)' \subseteq InPlace(k) /\ Pending(t)' \subseteq Pending(t)
    BY <1>1, <2>1 DEF DropsPair, InPlace
  <2>3. QED
    BY <1>2, <2>2 DEF Owns
<1>7. CASE \E m, q : DropsSecret(t, k, m, q)
  <2>1. PICK m, q : DropsSecret(t, k, m, q)
    BY <1>7
  <2>2. InPlace(k)' \subseteq InPlace(k) /\ Pending(t)' \subseteq Pending(t)
    BY <1>1, <2>1 DEF DropsSecret, InPlace
  <2>3. QED
    BY <1>2, <2>2 DEF Owns
<1>8. QED
  BY <1>3, <1>4, <1>5, <1>6, <1>7, WriteAtOne DEF WritesAt

\* Every secret anyone owns was drawn.
LEMMA OwnedDrawn ==
    ASSUME Formed, NEW k \in Ids, NEW x, x # None, Owns(k, x)
    PROVE  x \in drawn
<1>1. k \in AllIds
  BY DEF AllIds
<1>2. QED
  BY <1>1 DEF Formed, Owns, WellSorted

\* No secret is drawn twice, so no two ids share one (generate_keypair).
LEMMA OneOwnerKept ==
    ASSUME Formed, OneOwner, [Next]_vars
    PROVE  OneOwner'
<1>1. drawn \subseteq Secrets /\ None \notin Secrets
  BY NoneAssumption DEF Formed, TypeOK
<1>2. CASE \E t \in Threads : \E p : Quiet(t, p) /\ Effects(t)
  <2>1. PICK t \in Threads : \E p : Quiet(t, p)
    BY <1>2
  <2>2. drawn' = drawn
    BY <2>1 DEF Quiet
  <2>3. QED
    BY <1>1, <2>1, <2>2, OwnsQuiet DEF OneOwner
<1>3. CASE \E t \in Threads : Writes(t)
  <2>1. PICK t \in Threads : Writes(t)
    BY <1>3
  <2>2. SUFFICES ASSUME NEW j \in Ids, NEW k \in Ids, NEW x \in drawn', Owns(j, x)', Owns(k, x)'
                 PROVE  j = k
    BY DEF OneOwner
  <2>3. x # None
    BY <1>1, <2>1, <2>2, WritesTyped DEF TypeOK
  <2>4. /\ Owns(j, x) \/ \E q : MakesPair(t, j, x, q)
        /\ Owns(k, x) \/ \E q : MakesPair(t, k, x, q)
    BY <2>1, <2>2, <2>3, OwnsWrites
  <2>5. \A i \in Ids : Owns(i, x) => x \in drawn
    BY <2>3, OwnedDrawn
  <2>6. CASE x \in drawn
    BY <2>2, <2>4, <2>6 DEF OneOwner, MakesPair
  <2>7. CASE x \notin drawn
    <3>1. PICK q, r : MakesPair(t, j, x, q) /\ MakesPair(t, k, x, r)
      BY <2>4, <2>5, <2>7
    <3>2. Do("newpair", j) \in Pending(t)
      BY <3>1 DEF MakesPair
    <3>3. /\ Pending(t) = {Do("newpair", k), Do("newsecret", k)} \cup r
          /\ \A y \in r : y.do # "newpair"
      BY <3>1 DEF MakesPair, GoesOn, Changing
    <3>4. QED
      BY <3>2, <3>3, DoFields
  <2>8. QED
    BY <2>6, <2>7
<1>4. CASE Idle
  <2>1. /\ drawn' = drawn
        /\ \A k \in Ids : \A x : Owns(k, x)' => Owns(k, x)
    BY <1>4 DEF Idle, Owns, Pending, InPlace
  <2>2. QED
    BY <2>1 DEF OneOwner
<1>5. QED
  BY <1>2, <1>3, <1>4, StepKinds

\* What a rotation of k will retire is gone from k, or will be when its new pair is made.
Retiring(k) ==
    /\ InPlace(k) \intersect retired = {}
    /\ \A t \in Threads : \A x \in Pending(t) : x.do = "rotated" /\ x.id = k =>
          \/ x.with \intersect InPlace(k) = {}
          \/ Has(t, "newpair", k) /\ (Has(t, "dropsecret", k) \/ secret_keys[k] = None)

\* A write of k by a handler that is alone with it (_rotate_key).
LEMMA RetiringWrites ==
    ASSUME Formed, NEW t \in Threads, NEW k \in Ids, Halfway(k), Retiring(k), WritesAt(t, k),
           retired' = retired, \A u \in Threads \ {t} : Pending(u)' = Pending(u),
           \A u \in Threads \ {t} : \A x \in Pending(u) : x.do \in Changing => x.id # k
    PROVE  Retiring(k)'
<1>1. /\ keypairs \in [AllIds -> Secrets \cup {None}]
      /\ secret_keys \in [AllIds -> Secrets \cup {None}] /\ k \in AllIds
      /\ retired \subseteq drawn
      /\ \A u \in Threads : \A x \in Pending(u) : x.do = "rotated" => x.with \subseteq drawn
  BY DEF Formed, TypeOK, AllIds, WellSorted
<1>2. \A u \in Threads \ {t} : ~Has(u, "newpair", k)
  BY DEF Has, Changing
<1>3. \A u \in Threads \ {t} : \A x \in Pending(u)' : x.do = "rotated" /\ x.id = k =>
         x \in Pending(u) /\ x.with \intersect InPlace(k) = {}
  BY <1>2 DEF Retiring
<1>4. CASE \E s, q : MakesPair(t, k, s, q)
  <2>1. PICK s, q : MakesPair(t, k, s, q)
    BY <1>4
  <2>2. /\ s \notin drawn /\ \A y \in q : y.do \notin Changing
        /\ Pending(t) = {Do("newpair", k), Do("newsecret", k)} \cup q
        /\ Pending(t)' = {DoWith("newsecret", k, s)} \cup q
        /\ InPlace(k)' = {s, secret_keys[k]} \ {None}
        /\ InPlace(k)' \subseteq InPlace(k) \cup {s}
    BY <1>1, <2>1 DEF MakesPair, GoesOn, InPlace
  <2>3. ~Has(t, "dropsecret", k)
    BY <2>2, DoFields DEF Has, Changing
  <2>4. \A x \in Pending(t)' : x.do = "rotated" => x \in Pending(t)
    BY <2>2, DoFields
  <2>5. \A x \in Pending(t)' : x.do = "rotated" /\ x.id = k => x.with \intersect InPlace(k)' = {}
    BY <1>1, <2>2, <2>3, <2>4 DEF Retiring
  <2>6. \A u \in Threads \ {t} : \A x \in Pending(u)' : x.do = "rotated" /\ x.id = k =>
           x.with \intersect InPlace(k)' = {}
    BY <1>1, <1>3, <2>2
  <2>7. InPlace(k)' \intersect retired = {}
    BY <1>1, <2>2 DEF Retiring
  <2>8. QED
    BY <2>5, <2>6, <2>7 DEF Retiring
<1>5. ASSUME InPlace(k)' \subseteq InPlace(k),
             \A x \in Pending(t)' : x.do = "rotated" => x \in Pending(t),
             Has(t, "newpair", k) =>
                Has(t, "newpair", k)' /\ (Has(t, "dropsecret", k)' \/ secret_keys'[k] = None)
      PROVE  Retiring(k)'
  <2>1. InPlace(k)' \intersect retired = {}
    BY <1>5 DEF Retiring
  <2>2. \A u \in Threads \ {t} : \A x \in Pending(u)' : x.do = "rotated" /\ x.id = k =>
           x.with \intersect InPlace(k)' = {}
    BY <1>3, <1>5
  <2>3. \A x \in Pending(t)' : x.do = "rotated" /\ x.id = k =>
           \/ x.with \intersect InPlace(k)' = {}
           \/ Has(t, "newpair", k)' /\ (Has(t, "dropsecret", k)' \/ secret_keys'[k] = None)
    BY <1>5 DEF Retiring
  <2>4. QED
    BY <2>1, <2>2, <2>3 DEF Retiring
<1>6. CASE \E s, q : MakesSecret(t, k, s, q)
  <2>1. PICK s, q : MakesSecret(t, k, s, q)
    BY <1>6
  <2>2. /\ Pending(t) = {DoWith("newsecret", k, s)} \cup q /\ \A y \in q : y.do \notin Changing
        /\ Pending(t)' = q /\ secret_keys'[k] = s /\ keypairs' = keypairs
    BY <1>1, <2>1 DEF MakesSecret, GoesOn
  <2>3. ~Has(t, "newpair", k)
    BY <2>2, DoFields DEF Has, Changing
  <2>4. s = keypairs[k]
    BY <2>2, <2>3, DoFields DEF Halfway
  <2>5. InPlace(k)' \subseteq InPlace(k)
    BY <2>2, <2>4 DEF InPlace
  <2>6. QED
    BY <1>5, <2>2, <2>3, <2>5
<1>7. CASE \E q : DropsPair(t, k, q)
  <2>1. PICK q : DropsPair(t, k, q)
    BY <1>7
  <2>2. InPlace(k)' \subseteq InPlace(k) /\ Pending(t)' \subseteq Pending(t)
    BY <1>1, <2>1 DEF DropsPair, InPlace
  <2>3. ~Has(t, "newpair", k)
    BY <2>1, DoFields DEF DropsPair, GoesOn, Has, Changing
  <2>4. QED
    BY <1>5, <2>2, <2>3
<1>8. CASE \E m, q : DropsSecret(t, k, m, q)
  <2>1. PICK m, q : DropsSecret(t, k, m, q)
    BY <1>8
  <2>2. /\ InPlace(k)' \subseteq InPlace(k) /\ Pending(t)' \subseteq Pending(t)
        /\ secret_keys'[k] = None
    BY <1>1, <2>1 DEF DropsSecret, InPlace
  <2>3. \A x \in Pending(t) : x.do = "newpair" => x \in Pending(t)'
    BY <2>1, DoFields DEF DropsSecret
  <2>4. Has(t, "newpair", k) => Has(t, "newpair", k)'
    BY <2>3 DEF Has
  <2>5. QED
    BY <1>5, <2>2, <2>4
<1>9. QED
  BY <1>4, <1>6, <1>7, <1>8 DEF WritesAt

\* The other steps: the one that ends a rotation retires no secret that is in place, under
\* its own id or another (_rotate_key, register_key).
LEMMA RetiringQuiet ==
    ASSUME Formed, OneOwner, NEW t \in Threads, NEW p, Quiet(t, p), Effects(t),
           NEW k \in Ids, Retiring(k)
    PROVE  Retiring(k)'
<1>1. /\ secret_keys' = secret_keys /\ InPlace(k)' = InPlace(k) /\ Planned(p)
      /\ p \subseteq Pending(t)' /\ Pending(t)' \subseteq p \cup Pending(t)
      /\ \A x \in Pending(t) : x.do \notin Changing
      /\ \A u \in Threads \ {t} : Pending(u)' = Pending(u)
  BY DEF Quiet, Changeless, Pending, InPlace
<1>2. \A j : ~Has(t, "newpair", j)
  BY <1>1 DEF Has, Changing
<1>3. InPlace(k)' \intersect retired' = {}
  <2>1. CASE retired' = retired
    BY <1>1, <2>1 DEF Retiring
  <2>2. CASE \E x \in Pending(t) : x.do = "rotated" /\ retired' = retired \cup x.with
    <3>1. PICK x \in Pending(t) : x.do = "rotated" /\ retired' = retired \cup x.with
      BY <2>2
    <3>2. x.id \in Ids /\ x.with \subseteq drawn
      BY <3>1 DEF Formed, WellSorted
    <3>3. CASE x.id = k
      BY <1>1, <1>2, <3>1, <3>3 DEF Retiring
    <3>4. CASE x.id # k
      <4>1. \A s \in x.with : s \in drawn /\ Owns(x.id, s)
        BY <3>1, <3>2 DEF Owns
      <4>2. \A s \in InPlace(k) : Owns(k, s)
        BY DEF Owns
      <4>3. x.with \intersect InPlace(k) = {}
        BY <3>2, <3>4, <4>1, <4>2 DEF OneOwner
      <4>4. QED
        BY <1>1, <3>1, <4>3 DEF Retiring
    <3>5. QED
      BY <3>3, <3>4
  <2>3. QED
    BY <2>1, <2>2 DEF Effects
<1>4. \A x \in Pending(t)' : x.do = "rotated" /\ x.id = k =>
         \/ x.with \intersect InPlace(k)' = {}
         \/ Has(t, "newpair", k)' /\ Has(t, "dropsecret", k)'
  <2>1. SUFFICES ASSUME NEW x \in Pending(t)', x.do = "rotated", x.id = k
                 PROVE  \/ x.with \intersect InPlace(k)' = {}
                        \/ Has(t, "newpair", k)' /\ Has(t, "dropsecret", k)'
    OBVIOUS
  <2>2. CASE x \in p
    <3>1. Do("newpair", k) \in p /\ Do("dropsecret", k) \in p
      BY <1>1, <2>1, <2>2 DEF Planned
    <3>2. QED
      BY <1>1, <3>1, DoFields DEF Has
  <2>3. CASE x \in Pending(t)
    BY <1>1, <1>2, <2>1, <2>3 DEF Retiring
  <2>4. QED
    BY <1>1, <2>2, <2>3
<1>5. \A u \in Threads \ {t} : \A x \in Pending(u)' : x.do = "rotated" /\ x.id = k =>
         \/ x.with \intersect InPlace(k)' = {}
         \/ Has(u, "newpair", k)' /\ (Has(u, "dropsecret", k)' \/ secret_keys'[k] = None)
  BY <1>1 DEF Retiring, Has
<1>6. QED
  BY <1>3, <1>4, <1>5 DEF Retiring

\* What leaves k alone.
LEMMA RetiringSame ==
    ASSUME NEW k, SameAt(k), Retiring(k), retired' = retired
    PROVE  Retiring(k)'
<1>1. \A u \in Threads : \A what : Has(u, what, k)' <=> Has(u, what, k)
  BY DEF SameAt, Has
<1>2. \A u \in Threads : \A x \in Pending(u)' : x.id = k => x \in Pending(u)
  BY DEF SameAt
<1>3. InPlace(k)' = InPlace(k) /\ secret_keys'[k] = secret_keys[k]
  BY DEF SameAt, InPlace
<1>4. QED
  BY <1>1, <1>2, <1>3 DEF Retiring

Rotating == \A k \in Ids \ raced : Retiring(k)

\* Every step keeps retired secrets out of place, for an id no two handlers were changing.
LEMMA RotatingKept ==
    ASSUME Formed, HalfDone, OneOwner, Rotating, [Next]_vars
    PROVE  Rotating'
<1>1. CASE \E t \in Threads : \E p : Quiet(t, p) /\ Effects(t)
  BY <1>1, RetiringQuiet DEF Rotating, Quiet
<1>2. CASE \E t \in Threads : Writes(t)
  <2>1. PICK t \in Threads : Writes(t)
    BY <1>2
  <2>2. /\ raced \subseteq raced' /\ \A u \in Threads \ {t} : Pending(u)' = Pending(u)
        /\ retired' = retired
    BY <2>1, WritesPending DEF Pending
  <2>3. QED
    BY <2>1, <2>2, WriteAtOne, RetiringWrites, RetiringSame DEF HalfDone, Rotating
<1>3. CASE Idle
  <2>1. raced \subseteq raced' /\ retired' = retired /\ \A k \in Ids : SameAt(k)
    BY <1>3 DEF Idle, SameAt, Pending
  <2>2. QED
    BY <2>1, RetiringSame DEF Rotating
<1>4. QED
  BY <1>1, <1>2, <1>3, StepKinds

\* "Rotation must invalidate old keys" (tests/test_pentest.py:616): once a rotation has
\* completed, no handler, however it interleaves with the others, puts the replaced secret
\* back in either dictionary, for every id that two handlers were not changing at once.
THEOREM RotatedKeysGoneHolds == Spec => []RotatedKeysGone
<1>1. ASSUME Init PROVE Formed /\ HalfDone /\ OneOwner /\ Rotating
  <2>1. /\ \A t \in Threads : Pending(t) = {}
        /\ \A k \in Ids : InPlace(k) = {}
    BY <1>1, FormedInit DEF Init, InPlace, AllIds
  <2>2. OneOwner /\ Rotating
    BY <2>1 DEF OneOwner, Rotating, Retiring, Owns
  <2>3. QED
    BY <1>1, <2>2, FormedInit, HalfDoneInit
<1>2. /\ Formed /\ HalfDone /\ OneOwner /\ Rotating /\ [Next]_vars
      => (Formed /\ HalfDone /\ OneOwner /\ Rotating)'
  BY FormedKept, HalfDoneKept, OneOwnerKept, RotatingKept
<1>3. Rotating => RotatedKeysGone
  BY DEF Rotating, Retiring, RotatedKeysGone
<1>4. QED
  BY <1>1, <1>2, <1>3, PTL DEF Spec

-------------------------------------------------------------------------------
(***************************************************************************)
(* Usage limits                                                            *)
(***************************************************************************)

\* The secrets that requests taken at the usage limit of k are not to seal with.
Stale(k) == {s \in drawn : \E t \in Threads : \E x \in Pending(t) :
                              x.do = "seal" /\ x.id = k /\ s \in x.with}

\* Such a request has still to find the limit reached or to finish the rotation it began,
\* and no count is restarted while the secret it counted is in place.
Limited(k) ==
    /\ \A t \in Threads : \A x \in Pending(t) : x.do = "seal" /\ x.id = k =>
          \/ x.with \intersect InPlace(k) = {}
          \/ Has(t, "rotate?", k) /\ NeedsRotation(k)
          \/ Has(t, "newpair", k) \/ Has(t, "newsecret", k)
    /\ \A t \in Threads :
          /\ Has(t, "newsecret", k) => Has(t, "newpair", k) \/ keypairs[k] \notin Stale(k)
          /\ Has(t, "register", k) =>
                Has(t, "newsecret", k) \/ InPlace(k) \intersect Stale(k) = {}

\* A write of k by a handler that is alone with it (generate_keypair, _rotate_key).
LEMMA LimitedWrites ==
    ASSUME Formed, NEW t \in Threads, Writes(t), NEW k \in Ids, Halfway(k), Limited(k),
           WritesAt(t, k),
           \A u \in Threads \ {t} : \A x \in Pending(u) : x.do \in Changing => x.id # k
    PROVE  Limited(k)'
<1>1. /\ keypairs \in [AllIds -> Secrets \cup {None}]
      /\ secret_keys \in [AllIds -> Secrets \cup {None}] /\ k \in AllIds
      /\ drawn \subseteq Secrets /\ None \notin drawn
      /\ \A u \in Threads : \A x \in Pending(u) : x.do = "seal" => x.with \subseteq drawn
  BY NoneAssumption DEF Formed, TypeOK, AllIds, WellSorted
<1>2. /\ \A u \in Threads \ {t} : Pending(u)' = Pending(u)
      /\ \A x \in Pending(t)' : x \in Pending(t) \/ x.do = "newsecret"
      /\ \A x \in Pending(t) : x.do \notin Changing => x \in Pending(t)'
      /\ drawn \subseteq drawn' /\ meta' = meta
  BY WritesPending, WritesTyped DEF Pending
<1>3. NeedsRotation(k)' <=> NeedsRotation(k)
  BY <1>2 DEF NeedsRotation
<1>4. /\ \A u \in Threads : \A x \in Pending(u)' : x.do = "seal" => x \in Pending(u)
      /\ \A u \in Threads : \A what \in {"rotate?", "register"} :
            Has(u, what, k)' <=> Has(u, what, k)
  BY <1>2 DEF Has, Changing
<1>5. Stale(k)' \subseteq Stale(k) /\ Stale(k) \subseteq drawn
  BY <1>1, <1>4 DEF Stale
<1>6. \A u \in Threads \ {t} :
         /\ ~Has(u, "newpair", k) /\ ~Has(u, "newsecret", k)
         /\ ~Has(u, "newpair", k)' /\ ~Has(u, "newsecret", k)'
  BY <1>2 DEF Has, Changing
<1>7. \A u \in Threads \ {t} : \A x \in Pending(u) : x.do = "seal" /\ x.id = k =>
         x.with \intersect InPlace(k) = {} \/ (Has(u, "rotate?", k) /\ NeedsRotation(k))
  BY <1>6 DEF Limited
<1>8. \A u \in Threads \ {t} : Has(u, "register", k) => InPlace(k) \intersect Stale(k) = {}
  BY <1>6 DEF Limited
<1>9. ASSUME NEW f, f \notin drawn, InPlace(k)' \subseteq InPlace(k) \cup {f}
      PROVE  \A u \in Threads \ {t} :
                /\ \A x \in Pending(u)' : x.do = "seal" /\ x.id = k =>
                      \/ x.with \intersect InPlace(k)' = {}
                      \/ Has(u, "rotate?", k)' /\ NeedsRotation(k)'
                /\ Has(u, "register", k)' => InPlace(k)' \intersect Stale(k)' = {}
  <2>1. SUFFICES ASSUME NEW u \in Threads \ {t}
                 PROVE  /\ \A x \in Pending(u)' : x.do = "seal" /\ x.id = k =>
                              \/ x.with \intersect InPlace(k)' = {}
                              \/ Has(u, "rotate?", k)' /\ NeedsRotation(k)'
                        /\ Has(u, "register", k)' => InPlace(k)' \intersect Stale(k)' = {}
    OBVIOUS
  <2>2. ASSUME NEW x \in Pending(u)', x.do = "seal", x.id = k,
               x.with \intersect InPlace(k) = {}
        PROVE  x.with \intersect InPlace(k)' = {}
    <3>1. x.with \subseteq drawn
      BY <1>1, <1>4, <2>2
    <3>2. QED
      BY <1>9, <2>2, <3>1
  <2>3. Has(u, "register", k)' => InPlace(k)' \intersect Stale(k)' = {}
    BY <1>4, <1>5, <1>8, <1>9
  <2>4. QED
    BY <1>3, <1>4, <1>7, <2>2, <2>3
<1>10. CASE \E s, q : MakesPair(t, k, s, q)
  <2>1. PICK s, q : MakesPair(t, k, s, q)
    BY <1>10
  <2>2. /\ s \notin drawn /\ keypairs'[k] = s
        /\ Pending(t)' = {DoWith("newsecret", k, s)} \cup q
        /\ InPlace(k)' \subseteq InPlace(k) \cup {s}
    BY <1>1, <2>1 DEF MakesPair, InPlace
  <2>3. Has(t, "newsecret", k)'
    BY <2>2, DoFields DEF Has
  <2>4. keypairs'[k] \notin Stale(k)'
    BY <1>5, <2>2
  <2>5. QED
    BY <1>6, <1>9, <2>2, <2>3, <2>4 DEF Limited
<1>11. CASE \E s, q : MakesSecret(t, k, s, q)
  <2>1. PICK s, q : MakesSecret(t, k, s, q)
    BY <1>11
  <2>2. /\ Pending(t) = {DoWith("newsecret", k, s)} \cup q /\ \A y \in q : y.do \notin Changing
        /\ Pending(t)' = q /\ secret_keys'[k] = s /\ keypairs' = keypairs
    BY <1>1, <2>1 DEF MakesSecret, GoesOn
  <2>3. ~Has(t, "newpair", k) /\ Has(t, "newsecret", k)
    BY <2>2, DoFields DEF Has, Changing
  <2>4. s = keypairs[k]
    BY <2>2, <2>3, DoFields DEF Halfway
  <2>5. InPlace(k)' \subseteq InPlace(k) \cup {None} /\ InPlace(k)' \subseteq {s}
    BY <2>2, <2>4 DEF InPlace
  <2>6. s \notin Stale(k)
    BY <2>3, <2>4 DEF Limited
  <2>7. InPlace(k)' \intersect Stale(k)' = {}
    BY <1>5, <2>5, <2>6
  <2>8. \A x \in Pending(t)' : x.do = "seal" /\ x.id = k => x.with \intersect InPlace(k)' = {}
    <3>1. SUFFICES ASSUME NEW x \in Pending(t)', x.do = "seal", x.id = k, s \in x.with
                   PROVE  FALSE
      BY <2>5
    <3>2. x \in Pending(t) /\ s \in drawn
      BY <1>1, <1>4, <3>1
    <3>3. s \in Stale(k)
      BY <3>1, <3>2 DEF Stale
    <3>4. QED
      BY <2>6, <3>3
  <2>9. ~Has(t, "newsecret", k)'
    BY <2>2 DEF Has, Changing
  <2>10. QED
    BY <1>1, <1>6, <1>9, <2>5, <2>7, <2>8, <2>9 DEF Limited
<1>12. ASSUME InPlace(k)' \subseteq InPlace(k), keypairs'[k] \in {keypairs[k], None},
              Has(t, "newpair", k)' <=> Has(t, "newpair", k),
              Has(t, "newsecret", k)' <=> Has(t, "newsecret", k)
       PROVE  Limited(k)'
  <2>1. \A x \in Pending(t)' : x.do = "seal" /\ x.id = k =>
           \/ x.with \intersect InPlace(k)' = {}
           \/ Has(t, "rotate?", k)' /\ NeedsRotation(k)'
           \/ Has(t, "newpair", k)' \/ Has(t, "newsecret", k)'
    BY <1>3, <1>4, <1>12 DEF Limited
  <2>2. Has(t, "newsecret", k)' => Has(t, "newpair", k)' \/ keypairs'[k] \notin Stale(k)'
    BY <1>1, <1>5, <1>12 DEF Limited
  <2>3. Has(t, "register", k)' =>
           Has(t, "newsecret", k)' \/ InPlace(k)' \intersect Stale(k)' = {}
    BY <1>4, <1>5, <1>12 DEF Limited
  <2>4. QED
    BY <1>1, <1>6, <1>9, <1>12, <2>1, <2>2, <2>3 DEF Limited
<1>13. CASE \E q : DropsPair(t, k, q)
  <2>1. PICK q : DropsPair(t, k, q)
    BY <1>13
  <2>2. /\ InPlace(k)' \subseteq InPlace(k) /\ keypairs'[k] = None
        /\ Pending(t) = {Do("droppair", k), Do("dropsecret", k)} \cup q
        /\ Pending(t)' = {Do("dropsecret", k)} \cup q
    BY <1>1, <2>1 DEF DropsPair, InPlace
  <2>3. \A what \in {"newpair", "newsecret"} : Has(t, what, k)' <=> Has(t, what, k)
    BY <2>2, DoFields DEF Has
  <2>4. QED
    BY <1>12, <2>2, <2>3
<1>14. CASE \E m, q : DropsSecret(t, k, m, q)
  <2>1. PICK m, q : DropsSecret(t, k, m, q)
    BY <1>14
  <2>2. /\ InPlace(k)' \subseteq InPlace(k) /\ keypairs' = keypairs
        /\ Pending(t) = {Do("dropsecret", k)} \cup m \cup q
        /\ Pending(t)' = m \cup q
    BY <1>1, <2>1 DEF DropsSecret, InPlace
  <2>3. \A what \in {"newpair", "newsecret"} : Has(t, what, k)' <=> Has(t, what, k)
    BY <2>2, DoFields DEF Has
  <2>4. QED
    BY <1>12, <2>2, <2>3
<1>15. QED
  BY <1>10, <1>11, <1>13, <1>14 DEF WritesAt

\* The other steps: a request that finds the limit reached finds no registration under way
\* that would restart the count, and a registration restarts it only after its rotation
\* replaced the secret (store, _rotate_key, register_key).
LEMMA LimitedQuiet ==
    ASSUME Formed, NEW t \in Threads, NEW p, Quiet(t, p), Effects(t), NEW k \in Ids, Limited(k)
    PROVE  Limited(k)'
<1>1. /\ UNCHANGED <<keypairs, drawn>> /\ InPlace(k)' = InPlace(k) /\ Planned(p)
      /\ p \subseteq Pending(t)' /\ Pending(t)' \subseteq p \cup Pending(t)
      /\ \A x \in Pending(t) : x.do \notin Changing
      /\ \A u \in Threads \ {t} : Pending(u)' = Pending(u)
  BY DEF Quiet, Changeless, Pending, InPlace
<1>2. k \in AllIds /\ InPlace(k) \subseteq drawn
  BY DEF Formed, AllIds
<1>3. ~Has(t, "newpair", k) /\ ~Has(t, "newsecret", k)
  BY <1>1 DEF Has, Changing
<1>4. \A u \in Threads \ {t} : \A what : Has(u, what, k)' <=> Has(u, what, k)
  BY <1>1 DEF Has
<1>5. \A u \in Threads : \A x \in Pending(u) : x.do = "seal" /\ x.id = k =>
         x.with \intersect InPlace(k) \subseteq Stale(k)
  BY <1>2 DEF Stale
<1>6. NeedsRotation(k) => NeedsRotation(k)' \/ Has(t, "register", k)
  BY DEF Effects, Has
<1>7. Has(t, "register", k) => InPlace(k) \intersect Stale(k) = {}
  BY <1>3 DEF Limited
<1>8. ASSUME NEW x \in p, x.do = "seal", x.id = k, x.with # {}
      PROVE  /\ NeedsRotation(k)' /\ Do("rotate?", k) \in p
             /\ \A u \in Threads : ~Has(u, "register", k)
  <2>1. NeedsRotation(k) /\ ~Registering(k) /\ Do("rotate?", k) \in p
    BY <1>1, <1>8 DEF Planned
  <2>2. \A u \in Threads : ~Has(u, "register", k)
    <3>1. SUFFICES ASSUME NEW u \in Threads, NEW y \in Pending(u), y.do = "register", y.id = k
                   PROVE  FALSE
      BY DEF Has
    <3>2. y = Do("register", k)
      <4>1. y \in Step /\ WellSorted(y)
        BY <3>1 DEF Formed, TypeOK, Pending, Steps
      <4>2. y.with = None
        BY <3>1, <4>1 DEF WellSorted
      <4>3. QED
        BY <3>1, <4>1, <4>2 DEF Step, Do
    <3>3. QED
      BY <2>1, <3>1, <3>2 DEF Registering, Pending, Steps
  <2>3. QED
    BY <1>6, <2>1, <2>2
<1>9. \A u \in Threads : \A x \in Pending(u)' : x.do = "seal" /\ x.id = k =>
         \/ x.with \intersect InPlace(k)' = {}
         \/ Has(u, "rotate?", k)' /\ NeedsRotation(k)'
         \/ Has(u, "newpair", k)' \/ Has(u, "newsecret", k)'
  <2>1. SUFFICES ASSUME NEW u \in Threads, NEW x \in Pending(u)', x.do = "seal", x.id = k,
                        x.with \intersect InPlace(k) # {}
                 PROVE  \/ Has(u, "rotate?", k)' /\ NeedsRotation(k)'
                        \/ Has(u, "newpair", k)' \/ Has(u, "newsecret", k)'
    BY <1>1
  <2>2. CASE u # t
    <3>1. x \in Pending(u)
      BY <1>1, <2>1, <2>2
    <3>2. ~Has(t, "register", k)
      BY <1>5, <1>7, <2>1, <3>1
    <3>3. QED
      BY <1>4, <1>6, <2>1, <2>2, <3>1, <3>2 DEF Limited
  <2>3. CASE u = t /\ x \in p
    <3>1. NeedsRotation(k)' /\ Do("rotate?", k) \in p
      BY <1>8, <2>1, <2>3
    <3>2. QED
      BY <1>1, <2>3, <3>1, DoFields DEF Has
  <2>4. CASE u = t /\ x \notin p
    <3>1. x \in Pending(t)
      BY <1>1, <2>1, <2>4
    <3>2. ~Has(t, "register", k)
      BY <1>5, <1>7, <2>1, <3>1
    <3>3. Has(t, "rotate?", k) /\ NeedsRotation(k)
      BY <1>3, <2>1, <3>1 DEF Limited
    <3>4. PICK y \in Pending(t) : y.do = "rotate?" /\ y.id = k
      BY <3>3 DEF Has
    <3>5. y \in Pending(t)' \/ Unsealing(todo'[t]) \/ Do("newpair", k) \in p
      BY <3>3, <3>4 DEF Quiet
    <3>6. ~Unsealing(todo'[t])
      BY <2>1, <2>4 DEF Unsealing, Pending
    <3>7. QED
      BY <1>1, <1>6, <2>4, <3>2, <3>3, <3>4, <3>5, <3>6, DoFields DEF Has
  <2>5. QED
    BY <2>2, <2>3, <2>4
<1>10. /\ Has(t, "newsecret", k)' => Has(t, "newpair", k)'
       /\ \A x \in p : x.do = "register" /\ x.id = k => Has(t, "newsecret", k)'
  <2>1. ASSUME Has(t, "newsecret", k)' PROVE Has(t, "newpair", k)'
    <3>1. PICK x \in Pending(t)' : x.do = "newsecret" /\ x.id = k
      BY <2>1 DEF Has
    <3>2. x \in p
      BY <1>1, <3>1 DEF Changing
    <3>3. Do("newpair", k) \in p
      BY <1>1, <3>1, <3>2 DEF Planned
    <3>4. QED
      BY <1>1, <3>3, DoFields DEF Has
  <2>2. ASSUME NEW x \in p, x.do = "register", x.id = k PROVE Has(t, "newsecret", k)'
    <3>1. Do("newsecret", k) \in p
      BY <1>1, <2>2 DEF Planned
    <3>2. QED
      BY <1>1, <3>1, DoFields DEF Has
  <2>3. QED
    BY <2>1, <2>2
<1>11. Has(t, "register", k)' => Has(t, "newsecret", k)' \/ Has(t, "register", k)
  BY <1>1, <1>10 DEF Has
<1>12. CASE \E x \in p : x.do = "seal" /\ x.id = k /\ x.with # {}
  <2>1. \A u \in Threads : ~Has(u, "register", k)
    BY <1>8, <1>12
  <2>2. \A u \in Threads : ~Has(u, "newsecret", k)
    BY <2>1 DEF Formed, Has
  <2>3. QED
    BY <1>4, <1>9, <1>10, <1>11, <2>1, <2>2 DEF Limited
<1>13. CASE ~\E x \in p : x.do = "seal" /\ x.id = k /\ x.with # {}
  <2>1. \A u \in Threads : \A x \in Pending(u)' :
           x.do = "seal" /\ x.id = k /\ x.with # {} => x \in Pending(u)
    BY <1>1, <1>13
  <2>2. Stale(k)' \subseteq Stale(k)
    BY <1>1, <2>1 DEF Stale
  <2>3. \A u \in Threads \ {t} :
           /\ Has(u, "newsecret", k)' => Has(u, "newpair", k)' \/ keypairs'[k] \notin Stale(k)'
           /\ Has(u, "register", k)' =>
                 Has(u, "newsecret", k)' \/ InPlace(k)' \intersect Stale(k)' = {}
    BY <1>1, <1>4, <2>2 DEF Limited
  <2>4. Has(t, "register", k)' =>
           Has(t, "newsecret", k)' \/ InPlace(k)' \intersect Stale(k)' = {}
    BY <1>1, <1>7, <1>11, <2>2
  <2>5. QED
    BY <1>9, <1>10, <2>3, <2>4 DEF Limited
<1>14. QED
  BY <1>12, <1>13

\* What leaves k alone.
LEMMA LimitedSame ==
    ASSUME Formed, NEW k \in Ids, SameAt(k), Limited(k), NeedsRotation(k) => NeedsRotation(k)',
           drawn \subseteq drawn'
    PROVE  Limited(k)'
<1>1. \A u \in Threads : \A what : Has(u, what, k)' <=> Has(u, what, k)
  BY DEF SameAt, Has
<1>2. \A u \in Threads : \A x \in Pending(u)' : x.id = k => x \in Pending(u)
  BY DEF SameAt
<1>3. InPlace(k)' = InPlace(k) /\ keypairs'[k] = keypairs[k]
  BY DEF SameAt, InPlace
<1>4. Stale(k)' \subseteq Stale(k)
  <2>1. \A u \in Threads : \A x \in Pending(u) : x.do = "seal" => x.with \subseteq drawn
    BY DEF Formed, WellSorted
  <2>2. QED
    BY <1>2, <2>1 DEF Stale
<1>5. QED
  BY <1>1, <1>2, <1>3, <1>4 DEF Limited

Limiting == \A k \in Ids \ raced : Limited(k)

\* Every step keeps what the requests taken at a limit are bound to, for an id no two
\* handlers were changing at once.
LEMMA LimitingKept ==
    ASSUME Formed, HalfDone, Limiting, [Next]_vars
    PROVE  Limiting'
<1>1. CASE \E t \in Threads : \E p : Quiet(t, p) /\ Effects(t)
  BY <1>1, LimitedQuiet DEF Limiting, Quiet
<1>2. CASE \E t \in Threads : Writes(t)
  <2>1. PICK t \in Threads : Writes(t)
    BY <1>2
  <2>2. raced \subseteq raced' /\ meta' = meta /\ drawn \subseteq drawn'
    BY <2>1, WritesPending, WritesTyped
  <2>3. \A k : NeedsRotation(k) => NeedsRotation(k)'
    BY <2>2 DEF NeedsRotation
  <2>4. QED
    BY <2>1, <2>2, <2>3, WriteAtOne, LimitedWrites, LimitedSame DEF HalfDone, Limiting
<1>3. CASE Idle
  <2>1. /\ raced \subseteq raced' /\ drawn \subseteq drawn'
        /\ \A k \in Ids : SameAt(k) /\ (NeedsRotation(k) => NeedsRotation(k)')
    BY <1>3 DEF Idle, SameAt, Pending
  <2>2. QED
    BY <2>1, LimitedSame DEF Limiting
<1>4. QED
  BY <1>1, <1>2, <1>3, StepKinds

\* "Usage-based: Keys expire after N operations" (rotation.py:65): a request taken while an
\* id is at its usage limit never seals with the secret it found there, in FIPS mode or out
\* of it, whatever other handlers rotate, register, delete or count meanwhile, unless two
\* handlers were changing the id at once.
THEOREM LimitRotatesHolds == Spec => LimitRotates
<1>1. ASSUME Init PROVE Formed /\ HalfDone /\ Limiting
  <2>1. \A t \in Threads : Pending(t) = {}
    BY <1>1, FormedInit
  <2>2. Limiting
    BY <2>1 DEF Limiting, Limited, Has
  <2>3. QED
    BY <1>1, <2>2, FormedInit, HalfDoneInit
<1>2. Formed /\ HalfDone /\ Limiting /\ [Next]_vars => (Formed /\ HalfDone /\ Limiting)'
  BY FormedKept, HalfDoneKept, LimitingKept
<1>3. ASSUME Formed, Limiting, NEW t \in Threads, Doing(t, "seal")
      PROVE  SealingKey(Now(t).id) \notin Now(t).with \/ Now(t).id \in raced
  <2> DEFINE x == Now(t)
             k == x.id
  <2>1. /\ todo[t] \in Seq(Step) /\ Shape(todo[t]) /\ todo[t] # <<>> /\ x.do = "seal"
    BY <1>3 DEF Formed, TypeOK, Doing, Now
  <2>2. /\ x \in Pending(t) /\ WellSorted(x) /\ Changeless(todo[t])
        /\ x = todo[t][1] /\ 1 \in DOMAIN todo[t]
    BY <1>3, <2>1, NowPending, ChangelessTail, StepsSplit DEF Now, Changing
  <2>3. k \in Ids /\ x.with \subseteq drawn /\ None \notin drawn
    BY <1>3, <2>1, <2>2, NoneAssumption DEF WellSorted, Formed, TypeOK
  <2>4. ~Has(t, "newpair", k) /\ ~Has(t, "newsecret", k)
    BY <2>2 DEF Has, Changeless, Pending, Changing
  <2>5. ~Has(t, "rotate?", k)
    <3>1. SUFFICES ASSUME NEW i \in DOMAIN todo[t], todo[t][i].do = "rotate?" PROVE FALSE
      BY DEF Has, Pending, Steps
    <3>2. i < 1 /\ i \in 1..Len(todo[t])
      BY <2>1, <2>2, <3>1 DEF Shape
    <3>3. QED
      BY <2>1, <3>2
  <2>6. k \notin raced => x.with \intersect InPlace(k) = {}
    BY <1>3, <2>1, <2>2, <2>3, <2>4, <2>5 DEF Limiting, Limited
  <2>7. SealingKey(k) \in InPlace(k) \cup {None}
    BY DEF SealingKey, InPlace
  <2>8. QED
    BY <2>3, <2>6, <2>7
<1>4. Formed /\ Limiting /\ [Next]_vars =>
         [\A t \in Threads :
             (Doing(t, "seal") /\ todo'[t] # todo[t]) =>
                 \/ SealingKey(Now(t).id) \notin Now(t).with
                 \/ Now(t).id \in raced]_vars
  BY <1>3
<1>5. QED
  BY <1>1, <1>2, <1>4, PTL DEF Spec, LimitRotates
================================================================================
