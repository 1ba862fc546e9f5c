----------------------------- MODULE GoVaultProofs -----------------------------
(***************************************************************************)
(* Proofs about GoVault, for any goroutines, ids and calls.                *)
(*   - A revocation holds.  RevocationHolds is an action property, and it  *)
(*     needs to know of a call made on a revoked id that the id still is   *)
(*     (nothing leaves the revocation list), and that the call has not     *)
(*     come past its first section.                                        *)
(*   - The audit log, replayed, gives what the vault holds.  A decryption  *)
(*     stores a log it read before, so the invariant is about every log    *)
(*     that one is about to store: no two differ in more than entries of   *)
(*     decryptions.                                                        *)
(***************************************************************************)
EXTENDS GoVault, WellFoundedInduction, TLAPS

\* the methods a revocation is to stop
Stopped == {"generate", "encrypt", "decrypt"}

Labels == {"idle", "called", "unlocked", "relock", "counting", "logging"}
Calls ==
    {NoCall} \union [op : Ops \union {"decrypt"}, id : Ids, secret : Nat,
                     newId : Ids \union {None}, late : BOOLEAN]

Types ==
    /\ keys \in [Ids -> Nat]
    /\ drawn \in Nat
    /\ given \in SUBSET [id : Ids, secret : Nat]
    /\ pc \in [Threads -> Labels]
    /\ call \in [Threads -> Calls]

StillRevoked == \A t \in Threads : call[t].late => call[t].id \in revoked
AtTheDoor ==
    \A t \in Threads : call[t].late /\ call[t].op \in Stopped => pc[t] = "called"

IInv == Types /\ StillRevoked /\ AtTheDoor

\* what a step of one goroutine leaves alone: the calls of the others, and every
\* revocation
Apart(t) ==
    /\ \A u \in Threads \ {t} : call'[u] = call[u] /\ pc'[u] = pc[u]
    /\ revoked \subseteq revoked'

\* what the invariant says of calls, of one goroutine after a step
Settled(t) == call'[t].late => /\ call'[t].id \in revoked'
                               /\ call'[t].op \in Stopped => pc'[t] = "called"

\* A step that settles the call of one goroutine keeps what the invariant says of all.
LEMMA SettledKeeps ==
    ASSUME StillRevoked, AtTheDoor, NEW t \in Threads, Apart(t), Settled(t)
    PROVE  StillRevoked' /\ AtTheDoor'
  BY DEF StillRevoked, AtTheDoor, Apart, Settled

\* A goroutine outside the vault is in no late call.
LEMMA NoCallTyped == NoCall \in Calls /\ ~NoCall.late
  BY DEF NoCall, Calls

\* A method that returns leaves no call behind.
LEMMA ReturnKeeps ==
    ASSUME IInv, NEW t \in Threads, Return(t), revoked \subseteq revoked'
    PROVE  /\ pc' \in [Threads -> Labels] /\ call' \in [Threads -> Calls]
           /\ pc'[t] = "idle" /\ Apart(t) /\ Settled(t)
  BY NoCallTyped DEF IInv, Types, Return, Apart, Settled, Labels

\* A call of a stopped method on a revoked id never goes on to a next section; a call
\* that does was made before the revocation, or is one that revocation does not stop.
LEMMA GoKeeps ==
    ASSUME IInv, NEW t \in Threads, NEW label \in Labels, Go(t, label),
           call[t].late => call[t].op \notin Stopped, revoked \subseteq revoked'
    PROVE  /\ pc' \in [Threads -> Labels] /\ call' \in [Threads -> Calls]
           /\ Apart(t) /\ Settled(t)
  BY DEF IInv, Types, StillRevoked, Go, Apart, Settled

\* A new key pair gets the next secret, and no revocation is lifted by it.
LEMMA ReplacesKeeps ==
    ASSUME Types, NEW k, Replaces(k)
    PROVE  keys' \in [Ids -> Nat] /\ drawn' \in Nat /\ revoked' = revoked
<1>1. drawn + 1 \in Nat
  BY DEF Types
<1>2. keys' = [keys EXCEPT ![k] = drawn + 1] /\ drawn' = drawn + 1 /\ revoked' = revoked
  BY DEF Replaces
<1>3. QED
  BY <1>1, <1>2 DEF Types

\* What the property asks of the call of one goroutine in one step.
Stops(t) ==
    /\ call[t].late /\ call[t].op \in Stopped
    /\ pc[t] # pc'[t]
    => pc'[t] = "idle" /\ UNCHANGED <<vault, given>>
Kept(t) == Types' /\ Apart(t) /\ Settled(t) /\ Stops(t)

-------------------------------------------------------------------------------
\* A new call notes whether its id is revoked (every method takes the id first).
LEMMA InvokeKeeps == ASSUME IInv, NEW t \in Threads, InvokeAny(t) PROVE Kept(t)
<1>1. ASSUME NEW op \in Ops \union {"decrypt"}, NEW k \in Ids, NEW s \in Nat,
             Invoke(t, op, k, s)
      PROVE  Kept(t)
  <2> DEFINE c == [op |-> op, id |-> k, secret |-> s, newId |-> None, late |-> k \in revoked]
  <2>1. c \in Calls
    BY DEF Calls
  <2>2. /\ call' = [call EXCEPT ![t] = c] /\ pc' = [pc EXCEPT ![t] = "called"]
        /\ pc[t] = "idle"
        /\ UNCHANGED <<keys, drawn, given, revoked>>
    BY <1>1 DEF Invoke, vault
  <2>3. c.late => c.id \in revoked
    OBVIOUS
  <2> HIDE DEF c
  <2>4. Types'
    BY <2>1, <2>2 DEF IInv, Types, Labels
  <2>5. Apart(t) /\ Settled(t)
    BY <2>2, <2>3 DEF IInv, Types, Apart, Settled
  <2>6. Stops(t)
    BY <2>2 DEF IInv, AtTheDoor, Stops
  <2>7. QED
    BY <2>4, <2>5, <2>6 DEF Kept
<1>2. ASSUME NEW c \in given, Invoke(t, "decrypt", c.id, c.secret) PROVE Kept(t)
  <2>1. c.id \in Ids /\ c.secret \in Nat
    BY <1>2 DEF IInv, Types
  <2>2. QED
    BY <1>1, <1>2, <2>1
<1>3. ASSUME NEW op \in Ops, NEW k \in Ids, Invoke(t, op, k, 0) PROVE Kept(t)
  BY <1>1, <1>3
<1>4. QED
  BY <1>2, <1>3 DEF InvokeAny

\* GenerateKeypair refuses a revoked id (abirguard.go 104-136).
LEMMA GenerateKeeps == ASSUME IInv, NEW t \in Threads, GenerateKeypair(t) PROVE Kept(t)
<1>1. CASE Generates(call[t].id)
  <2>1. keys' \in [Ids -> Nat] /\ drawn' \in Nat /\ revoked' = revoked
    BY <1>1, ReplacesKeeps DEF IInv, Generates
  <2>2. ~call[t].late
    BY <1>1 DEF IInv, StillRevoked, Generates
  <2>3. QED
    BY <2>1, <2>2, ReturnKeeps DEF GenerateKeypair, Kept, Stops, IInv, Types
<1>2. CASE Refused(call[t].id)
  <2>1. UNCHANGED <<keys, drawn, revoked, vault, given>>
    BY <1>2 DEF Refused, vault, GenerateKeypair
  <2>2. QED
    BY <2>1, ReturnKeeps DEF GenerateKeypair, Kept, Stops, IInv, Types
<1>3. QED
  BY <1>1, <1>2 DEF GenerateKeypair

\* What Encrypt returns is typed as the ciphertexts given out (abirguard.go 159-193).
LEMMA EncryptUnderKeeps ==
    ASSUME IInv, NEW t \in Threads, EncryptUnder(t, call[t].id), ~call[t].late,
           call[t].op = "encrypt"
    PROVE  Kept(t)
<1>1. call[t].id \in Ids
  BY DEF IInv, Types, Calls, NoCall
<1>2. UNCHANGED <<keys, drawn, revoked>> /\ Return(t)
  BY DEF EncryptUnder
<1>3. given' \in SUBSET [id : Ids, secret : Nat]
  BY <1>1 DEF IInv, Types, EncryptUnder
<1>4. QED
  BY <1>2, <1>3, ReturnKeeps DEF Kept, Stops, IInv, Types

\* A first section of Encrypt refuses a revoked id, and seals or goes on for another.
LEMMA EncryptKeeps == ASSUME IInv, NEW t \in Threads, Encrypt(t) PROVE Kept(t)
<1> DEFINE k == call[t].id
<1>1. call[t].op = "encrypt"
  BY DEF Encrypt, Locked, At
<1>2. k \notin revoked => ~call[t].late
  BY DEF IInv, StillRevoked
<1>3. CASE k \in revoked /\ Return(t) /\ UNCHANGED <<vault, drawn, given>>
  BY <1>3, ReturnKeeps DEF Kept, Stops, IInv, Types, vault
<1>4. CASE k \notin revoked /\ EncryptUnder(t, k)
  BY <1>1, <1>2, <1>4, EncryptUnderKeeps
<1>5. CASE k \notin revoked /\ Go(t, "unlocked") /\ UNCHANGED <<vault, drawn, given>>
  BY <1>2, <1>5, GoKeeps DEF Kept, Stops, IInv, Types, vault, Labels
<1>6. QED
  BY <1>3, <1>4, <1>5 DEF Encrypt

\* Between the sections: a call that got this far was not late.
LEMMA AutoGenerateKeeps == ASSUME IInv, NEW t \in Threads, AutoGenerate(t) PROVE Kept(t)
<1>1. ~call[t].late
  BY DEF IInv, AtTheDoor, AutoGenerate, Locked, At, Stopped
<1>2. CASE Generates(call[t].id) /\ Go(t, "relock")
  <2>1. keys' \in [Ids -> Nat] /\ drawn' \in Nat /\ revoked' = revoked
    BY <1>2, ReplacesKeeps DEF IInv, Generates
  <2>2. QED
    BY <1>1, <1>2, <2>1, GoKeeps DEF AutoGenerate, Kept, Stops, IInv, Types, Labels
<1>3. CASE Refused(call[t].id) /\ Return(t)
  <2>1. UNCHANGED <<keys, drawn, revoked, given>>
    BY <1>3 DEF Refused, vault, AutoGenerate
  <2>2. QED
    BY <1>1, <1>3, <2>1, ReturnKeeps DEF Kept, Stops, IInv, Types
<1>4. QED
  BY <1>2, <1>3 DEF AutoGenerate

\* The last section of Encrypt does not look at the revocation list: the call was not late.
LEMMA EncryptRelockedKeeps == ASSUME IInv, NEW t \in Threads, EncryptRelocked(t) PROVE Kept(t)
<1>1. ~call[t].late /\ call[t].op = "encrypt"
  BY DEF IInv, AtTheDoor, EncryptRelocked, Locked, At, Stopped
<1>2. CASE EncryptUnder(t, call[t].id)
  BY <1>1, <1>2, EncryptUnderKeeps
<1>3. CASE UNCHANGED <<vault, pc, call, drawn, given>>
  BY <1>1, <1>3 DEF Kept, Apart, Settled, Stops, IInv, Types, vault
<1>4. QED
  BY <1>2, <1>3 DEF EncryptRelocked

\* Decrypt refuses a revoked id before it reads its counter (abirguard.go 205-212).
LEMMA DecryptKeeps == ASSUME IInv, NEW t \in Threads, Decrypt(t) PROVE Kept(t)
<1>1. UNCHANGED <<vault, drawn, given>>
  BY DEF Decrypt
<1>2. CASE call[t].id \notin revoked /\ Go(t, "counting")
  <2>1. ~call[t].late
    BY <1>2 DEF IInv, StillRevoked
  <2>2. QED
    BY <1>1, <1>2, <2>1, GoKeeps DEF Kept, Stops, IInv, Types, vault, Labels
<1>3. CASE Return(t)
  BY <1>1, <1>3, ReturnKeeps DEF Kept, Stops, IInv, Types, vault
<1>4. QED
  BY <1>2, <1>3 DEF Decrypt

\* A decryption that has opened its ciphertext was not late.
LEMMA DecryptCountsKeeps == ASSUME IInv, NEW t \in Threads, DecryptCounts(t) PROVE Kept(t)
<1>1. ~call[t].late
  BY DEF IInv, AtTheDoor, DecryptCounts, At, Stopped
<1>2. UNCHANGED <<keys, revoked, drawn, given>> /\ Go(t, "logging")
  BY DEF DecryptCounts
<1>3. QED
  BY <1>1, <1>2, GoKeeps DEF Kept, Stops, IInv, Types, Labels

\* Nor is it when it appends to the log, whatever entries that loses.
LEMMA DecryptLogsKeeps == ASSUME IInv, NEW t \in Threads, DecryptLogs(t) PROVE Kept(t)
<1>1. ~call[t].late
  BY DEF IInv, AtTheDoor, DecryptLogs, At, Stopped
<1>2. UNCHANGED <<keys, revoked, drawn, given>> /\ Return(t)
  BY DEF DecryptLogs
<1>3. QED
  BY <1>1, <1>2, ReturnKeeps DEF Kept, Stops, IInv, Types

-------------------------------------------------------------------------------
\* Revocation and removal are not among the methods it stops; neither shortens the
\* revocation list (abirguard.go RevokeKey, RemoveKeypair).
LEMMA RevokeKeeps == ASSUME IInv, NEW t \in Threads, RevokeKey(t) PROVE Kept(t)
<1>1. call[t].op \notin Stopped
  BY DEF RevokeKey, Locked, At, Stopped
<1>2. UNCHANGED <<keys, drawn, given>> /\ Return(t) /\ revoked \subseteq revoked'
  BY DEF RevokeKey
<1>3. QED
  BY <1>1, <1>2, ReturnKeeps DEF Kept, Stops, IInv, Types

\* Removing a key leaves the revocation of its id in place.
LEMMA RemoveKeeps == ASSUME IInv, NEW t \in Threads, RemoveKeypair(t) PROVE Kept(t)
<1>1. call[t].op \notin Stopped
  BY DEF RemoveKeypair, Locked, At, Stopped
<1>2. UNCHANGED <<revoked, drawn, given>> /\ Return(t)
  BY DEF RemoveKeypair
<1>3. keys' \in [Ids -> Nat]
  BY DEF RemoveKeypair, IInv, Types
<1>4. QED
  BY <1>1, <1>2, <1>3, ReturnKeeps DEF Kept, Stops, IInv, Types

\* RotateKey works on an id whether it is revoked or not, and makes its new key under
\* another (abirguard.go RotateKey).
LEMMA RotateKeeps == ASSUME IInv, NEW t \in Threads, RotateKey(t) PROVE Kept(t)
<1>1. call[t].op = "rotate" /\ UNCHANGED <<keys, revoked, drawn, given>>
  BY DEF RotateKey, Locked, At
<1>2. CASE Return(t)
  BY <1>1, <1>2, ReturnKeeps DEF Kept, Stops, Stopped, IInv, Types
<1>3. ASSUME NEW new \in NewIds[call[t].id],
             call' = [call EXCEPT ![t].newId = new], pc' = [pc EXCEPT ![t] = "unlocked"]
      PROVE  Kept(t)
  <2> DEFINE c == [call[t] EXCEPT !.newId = new]
  <2>1. call[t] \in Calls /\ call[t].op = "rotate"
    BY <1>1 DEF IInv, Types
  <2>2. call[t].id \in Ids /\ call[t] # NoCall
    BY <2>1 DEF Calls, NoCall
  <2>3. new \in Ids \union {None}
    BY <2>2, NewIdsAssumption
  <2>4. /\ c \in Calls /\ c.op = "rotate"
        /\ c.id = call[t].id /\ c.late = call[t].late
    BY <2>1, <2>2, <2>3 DEF Calls
  <2>5. call' = [call EXCEPT ![t] = c]
    BY <1>3
  <2> HIDE DEF c
  <2>6. Types'
    BY <1>1, <1>3, <2>4, <2>5 DEF IInv, Types, Labels
  <2>7. Apart(t) /\ Settled(t)
    BY <1>1, <1>3, <2>4, <2>5 DEF IInv, Types, StillRevoked, Apart, Settled, Stopped
  <2>8. QED
    BY <1>1, <2>6, <2>7 DEF Kept, Stops, Stopped
<1>4. QED
  BY <1>2, <1>3 DEF RotateKey

\* RotateKey makes the new key in a section of its own.
LEMMA RotateGenerateKeeps == ASSUME IInv, NEW t \in Threads, RotateGenerate(t) PROVE Kept(t)
<1>1. call[t].op \notin Stopped /\ UNCHANGED given
  BY DEF RotateGenerate, Locked, At, Stopped
<1>2. CASE Generates(call[t].newId) /\ Go(t, "relock")
  <2>1. keys' \in [Ids -> Nat] /\ drawn' \in Nat /\ revoked' = revoked
    BY <1>2, ReplacesKeeps DEF IInv, Generates
  <2>2. QED
    BY <1>1, <1>2, <2>1, GoKeeps DEF Kept, Stops, IInv, Types, Labels
<1>3. CASE Refused(call[t].newId) /\ Return(t)
  <2>1. UNCHANGED <<keys, drawn, revoked>>
    BY <1>3 DEF Refused, vault
  <2>2. QED
    BY <1>1, <1>3, <2>1, ReturnKeeps DEF Kept, Stops, IInv, Types
<1>4. QED
  BY <1>2, <1>3 DEF RotateGenerate

\* RotateKey ends with a log entry.
LEMMA RotateLogsKeeps == ASSUME IInv, NEW t \in Threads, RotateLogs(t) PROVE Kept(t)
<1>1. call[t].op \notin Stopped
  BY DEF RotateLogs, Locked, At, Stopped
<1>2. UNCHANGED <<keys, revoked, drawn, given>> /\ Return(t)
  BY DEF RotateLogs
<1>3. QED
  BY <1>1, <1>2, ReturnKeeps DEF Kept, Stops, IInv, Types

-------------------------------------------------------------------------------
\* One method's section at a time: what every step of a goroutine keeps.
LEMMA StepKeeps ==
    ASSUME IInv, NEW t \in Threads, InvokeAny(t) \/ Continue(t)
    PROVE  Kept(t)
  BY InvokeKeeps, GenerateKeeps, EncryptKeeps, AutoGenerateKeeps, EncryptRelockedKeeps,
     DecryptKeeps, DecryptCountsKeeps, DecryptLogsKeeps, RevokeKeeps, RemoveKeeps,
     RotateKeeps, RotateGenerateKeeps, RotateLogsKeeps
  DEF Continue

\* At first no call was made and no key is revoked (NewVault).
LEMMA InitIInv == Init => IInv
  BY NoCallTyped DEF Init, IInv, Types, Labels, Calls, StillRevoked, AtTheDoor

\* Every step keeps the inductive invariant.
LEMMA NextIInv == IInv /\ [Next]_vars => IInv'
<1> SUFFICES ASSUME IInv, [Next]_vars PROVE IInv'
  OBVIOUS
<1>1. ASSUME NEW t \in Threads, InvokeAny(t) \/ Continue(t) PROVE IInv'
  <2>1. Kept(t)
    BY <1>1, StepKeeps
  <2>2. QED
    BY <2>1, SettledKeeps DEF IInv, Kept
<1>2. CASE UNCHANGED vars
  BY <1>2 DEF IInv, Types, StillRevoked, AtTheDoor, vars, vault
<1>3. QED
  BY <1>1, <1>2 DEF Next

\* Secrets, calls and ciphertexts keep their types, a call made on a revoked id finds it
\* revoked whenever it gets the lock, and never gets past its first section
\* (abirguard.go 104-254).
THEOREM IInvHolds == Spec => []IInv
<1>1. QED
  BY InitIInv, NextIInv, PTL DEF Spec

\* However goroutines interleave, a call of GenerateKeypair, Encrypt or Decrypt made on
\* a revoked id returns without a change of the vault or a ciphertext (104-254).
THEOREM RevocationHoldsHolds == Spec => RevocationHolds
<1>1. ASSUME IInv, [Next]_vars
      PROVE  [\A t \in Threads :
                 /\ call[t].late /\ call[t].op \in {"generate", "encrypt", "decrypt"}
                 /\ pc[t] # pc'[t]
                 => pc'[t] = "idle" /\ UNCHANGED <<vault, given>>]_vars
  <2>1. ASSUME NEW u \in Threads, InvokeAny(u) \/ Continue(u), NEW t \in Threads
        PROVE  Stops(t)
    <3>1. Kept(u)
      BY <1>1, <2>1, StepKeeps
    <3>2. CASE t = u
      BY <3>1, <3>2 DEF Kept
    <3>3. CASE t # u
      BY <3>1, <3>3 DEF Kept, Apart, Stops
    <3>4. QED
      BY <3>2, <3>3
  <2>2. QED
    BY <1>1, <2>1 DEF Next, Stops, Stopped
<1>2. QED
  BY <1>1, IInvHolds, PTL DEF Spec, RevocationHolds

-------------------------------------------------------------------------------
(* What replaying a log gives, for logs of any length. *)

\* A set of numbers that is not empty has a least element.
LEMMA LeastNumber ==
    ASSUME NEW T, T \subseteq Nat, T # {}
    PROVE  \E n \in T : \A m \in T : ~(m < n)
<1>1. \E n \in T : \A m \in T : ~(<<m, n>> \in OpToRel(<, Nat))
  BY NatLessThanWellFounded, WFMin
<1>2. QED
  BY <1>1 DEF OpToRel

\* The fold that Replay is, spelt out: it visits the indices in s from the greatest down.
Folds(log, k, n, it) ==
    it = [s \in SUBSET (1..n) |->
             IF s = {} THEN Unused ELSE After(k, log[Max(s)], it[s \ {Max(s)}])]

\* The greatest index of a stretch of the log that ends there.
LEMMA MaxTop ==
    ASSUME NEW n \in Nat, NEW s \in SUBSET (1..(n + 1)), n + 1 \in s
    PROVE  Max(s) = n + 1 /\ s \ {Max(s)} \in SUBSET (1..n)
<1>1. \A y \in s : n + 1 >= y
  OBVIOUS
<1>2. \A x \in s : (\A y \in s : x >= y) => x = n + 1
  OBVIOUS
<1>3. Max(s) = n + 1
  BY <1>1, <1>2 DEF Max
<1>4. QED
  BY <1>3

\* Such a fold exists for every length.
LEMMA FoldExists ==
    ASSUME NEW log, NEW k
    PROVE  \A n \in Nat : \E it : Folds(log, k, n, it)
<1> DEFINE Bad == {n \in Nat : ~(\E it : Folds(log, k, n, it))}
<1>1. \E it : Folds(log, k, 0, it)
  <2> DEFINE it == [s \in SUBSET (1..0) |-> Unused]
  <2>1. \A s \in SUBSET (1..0) : s = {}
    OBVIOUS
  <2>2. it = [s \in SUBSET (1..0) |->
                 IF s = {} THEN Unused ELSE After(k, log[Max(s)], it[s \ {Max(s)}])]
    BY <2>1
  <2>3. QED
    BY <2>2 DEF Folds
<1>2. ASSUME NEW n \in Nat, NEW it, Folds(log, k, n, it)
      PROVE  \E h : Folds(log, k, n + 1, h)
  <2> DEFINE h == [s \in SUBSET (1..(n + 1)) |->
                      IF n + 1 \in s THEN After(k, log[n + 1], it[s \ {n + 1}]) ELSE it[s]]
             Value(s) == IF s = {} THEN Unused ELSE After(k, log[Max(s)], h[s \ {Max(s)}])
  <2>1. \A s \in SUBSET (1..n) : s \in SUBSET (1..(n + 1)) /\ n + 1 \notin s
    OBVIOUS
  <2>2. \A s \in SUBSET (1..n) : h[s] = it[s]
    BY <2>1
  <2>3. ASSUME NEW s \in SUBSET (1..(n + 1)), n + 1 \in s
        PROVE  h[s] = Value(s)
    <3>1. Max(s) = n + 1 /\ s \ {n + 1} \in SUBSET (1..n)
      BY <2>3, MaxTop
    <3>2. h[s] = After(k, log[n + 1], it[s \ {n + 1}])
      BY <2>3
    <3>3. h[s \ {n + 1}] = it[s \ {n + 1}]
      BY <2>2, <3>1
    <3> HIDE DEF h
    <3>4. QED
      BY <2>3, <3>1, <3>2, <3>3
  <2>4. ASSUME NEW s \in SUBSET (1..(n + 1)), n + 1 \notin s
        PROVE  h[s] = Value(s)
    <3>1. s \in SUBSET (1..n) /\ s \ {Max(s)} \in SUBSET (1..n)
      <4>1. \A x \in s : x \in 1..n
        BY <2>4
      <4>2. QED
        BY <4>1
    <3>2. it[s] = IF s = {} THEN Unused ELSE After(k, log[Max(s)], it[s \ {Max(s)}])
      BY <1>2, <3>1 DEF Folds
    <3>3. h[s] = it[s] /\ h[s \ {Max(s)}] = it[s \ {Max(s)}]
      BY <2>2, <3>1
    <3> HIDE DEF h
    <3>4. QED
      BY <3>2, <3>3
  <2>5. h = [s \in SUBSET (1..(n + 1)) |-> Value(s)]
    <3>1. \A s \in SUBSET (1..(n + 1)) : h[s] = Value(s)
      BY <2>3, <2>4
    <3>2. h = [s \in SUBSET (1..(n + 1)) |-> h[s]]
      OBVIOUS
    <3> HIDE DEF h, Value
    <3>3. QED
      BY <3>1, <3>2
  <2>6. QED
    BY <2>5 DEF Folds
<1>3. Bad = {}
  <2> SUFFICES ASSUME Bad # {} PROVE FALSE
    OBVIOUS
  <2>1. PICK n \in Bad : \A m \in Bad : ~(m < n)
    BY LeastNumber
  <2>2. n # 0 /\ n \in Nat
    BY <1>1
  <2>3. n - 1 \in Nat /\ n - 1 < n /\ (n - 1) + 1 = n
    BY <2>2
  <2>4. n - 1 \notin Bad
    BY <2>1, <2>3
  <2>5. PICK it : Folds(log, k, n - 1, it)
    BY <2>3, <2>4
  <2>6. \E h : Folds(log, k, (n - 1) + 1, h)
    BY <1>2, <2>3, <2>5
  <2>7. QED
    BY <2>1, <2>3, <2>6
<1>4. QED
  BY <1>3

\* Folds over logs that begin alike agree on what they have in common.
LEMMA FoldsAgree ==
    ASSUME NEW log1, NEW log2, NEW k, NEW n1 \in Nat, NEW n2 \in Nat, NEW it1, NEW it2,
           Folds(log1, k, n1, it1), Folds(log2, k, n2, it2),
           n1 <= n2, \A i \in 1..n1 : log1[i] = log2[i]
    PROVE  it1[1..n1] = it2[1..n1]
<1> DEFINE Bad == {m \in 0..n1 : it1[1..m] # it2[1..m]}
<1>1. \A m \in 1..n1 :
         /\ it1[1..m] = After(k, log1[m], it1[1..(m - 1)])
         /\ it2[1..m] = After(k, log2[m], it2[1..(m - 1)])
  <2>1. ASSUME NEW m \in 1..n1, NEW log, NEW n \in Nat, NEW it, Folds(log, k, n, it), n1 <= n
        PROVE  it[1..m] = After(k, log[m], it[1..(m - 1)])
    <3>1. m - 1 \in Nat /\ (m - 1) + 1 = m /\ m \in 1..m /\ 1..m \in SUBSET (1..n)
      BY <2>1
    <3>2. Max(1..m) = m
      BY <3>1, MaxTop
    <3>3. (1..m) \ {m} = 1..(m - 1)
      BY <3>1
    <3>4. it[1..m] = IF 1..m = {} THEN Unused
                     ELSE After(k, log[Max(1..m)], it[(1..m) \ {Max(1..m)}])
      BY <2>1, <3>1 DEF Folds
    <3>5. QED
      BY <3>1, <3>2, <3>3, <3>4
  <2>2. QED
    BY <2>1
<1>2. it1[1..0] = it2[1..0]
  <2>1. 1..0 = {} /\ {} \in SUBSET (1..n1) /\ {} \in SUBSET (1..n2)
    OBVIOUS
  <2>2. it1[{}] = Unused /\ it2[{}] = Unused
    BY <2>1 DEF Folds
  <2>3. QED
    BY <2>1, <2>2
<1>3. Bad = {}
  <2> SUFFICES ASSUME Bad # {} PROVE FALSE
    OBVIOUS
  <2>1. PICK m \in Bad : \A j \in Bad : ~(j < m)
    <3>1. Bad \subseteq Nat
      OBVIOUS
    <3> HIDE DEF Bad
    <3>2. QED
      BY <3>1, LeastNumber
  <2>2. m # 0 /\ m \in 0..n1
    BY <1>2
  <2>3. m \in 1..n1 /\ m - 1 \in 0..n1 /\ m - 1 < m
    BY <2>2
  <2>4. it1[1..(m - 1)] = it2[1..(m - 1)]
    BY <2>1, <2>3
  <2>5. it1[1..m] = it2[1..m]
    BY <1>1, <2>3, <2>4
  <2>6. QED
    BY <2>1, <2>5
<1>4. n1 \in 0..n1
  OBVIOUS
<1>5. QED
  BY <1>3, <1>4

\* Replay is its fold at the whole log.
LEMMA ReplayFolds ==
    ASSUME NEW log, NEW k, NEW n \in Nat, DOMAIN log = 1..n
    PROVE  \E it : Folds(log, k, n, it) /\ Replay(log, k) = it[1..n]
<1>1. Replay(log, k) = (CHOOSE it : Folds(log, k, n, it))[1..n]
  BY DEF Replay, FoldLeft, MapThenFoldSet, Folds
<1>2. QED
  BY <1>1, FoldExists

\* An empty log tells that an id is unused.
LEMMA ReplayEmpty == ASSUME NEW k PROVE Replay(<<>>, k) = Unused
<1>1. DOMAIN <<>> = 1..0 /\ 1..0 = {} /\ {} \in SUBSET (1..0)
  OBVIOUS
<1>2. PICK it : Folds(<<>>, k, 0, it) /\ Replay(<<>>, k) = it[1..0]
  BY <1>1, ReplayFolds
<1>3. it[{}] = Unused
  BY <1>1, <1>2 DEF Folds
<1>4. QED
  BY <1>1, <1>2, <1>3

\* A log with one more entry tells what that entry adds (log, 393-401).
LEMMA ReplayAppend ==
    ASSUME NEW S, NEW log \in Seq(S), NEW e \in S, NEW k
    PROVE  Replay(Append(log, e), k) = After(k, e, Replay(log, k))
<1> DEFINE n == Len(log)
           longer == Append(log, e)
<1>1. /\ n \in Nat /\ DOMAIN log = 1..n /\ DOMAIN longer = 1..(n + 1)
      /\ longer[n + 1] = e /\ \A i \in 1..n : log[i] = longer[i]
  OBVIOUS
<1> HIDE DEF n, longer
<1>2. PICK it1 : Folds(log, k, n, it1) /\ Replay(log, k) = it1[1..n]
  BY <1>1, ReplayFolds
<1>3. PICK it2 : Folds(longer, k, n + 1, it2) /\ Replay(longer, k) = it2[1..(n + 1)]
  BY <1>1, ReplayFolds
<1>4. it1[1..n] = it2[1..n]
  BY <1>1, <1>2, <1>3, FoldsAgree
<1>5. /\ 1..(n + 1) \in SUBSET (1..(n + 1)) /\ n + 1 \in 1..(n + 1)
      /\ (1..(n + 1)) \ {n + 1} = 1..n
  BY <1>1
<1>6. Max(1..(n + 1)) = n + 1
  BY <1>1, <1>5, MaxTop
<1>7. it2[1..(n + 1)] = IF 1..(n + 1) = {} THEN Unused
         ELSE After(k, longer[Max(1..(n + 1))], it2[(1..(n + 1)) \ {Max(1..(n + 1))}])
  BY <1>3, <1>5 DEF Folds
<1>8. it2[1..(n + 1)] = After(k, e, it2[1..n])
  BY <1>1, <1>5, <1>6, <1>7
<1>9. QED
  BY <1>2, <1>3, <1>4, <1>8 DEF longer

-------------------------------------------------------------------------------
(* The audit log, replayed, gives what the vault holds: AuditReplays.  A        *)
(* decryption that is about to log has read a log of its own, so the invariant  *)
(* is about all of these: they differ only in entries of decryptions.           *)

\* the entries of the audit log, and the metadata of a key
Actions == {"keygen", "delete_key", "encrypt", "revoke", "rotate", "decrypt"}
Entries == [action : Actions, id : Ids]
Metas == [encrypts : Nat, decrypts : Nat, expired : BOOLEAN, rotatedTo : Ids \union {None}]

LogTypes ==
    /\ meta \in [Ids -> Metas]
    /\ count \in [Threads -> Nat]
    /\ auditLog \in Seq(Entries)
    /\ tail \in [Threads -> Seq(Entries)]

\* the log of the vault, and those that decryptions will append to
Logs == {auditLog} \union {tail[t] : t \in {u \in Threads : pc[u] = "logging"}}

\* what one log has beyond another is decryptions, and they tell the same
Same(a, b) ==
    /\ \A i \in DOMAIN a : i > Len(b) => a[i].action = "decrypt"
    /\ \A k \in Ids : Replay(a, k) = Replay(b, k)
Alike == \A a, b \in Logs : Same(a, b)

\* what AuditReplays compares a replay with
Held(k) == [held |-> keys[k] # 0, revoked |-> k \in revoked, encrypts |-> meta[k].encrypts]

LogInv == LogTypes /\ Alike /\ AuditReplays

\* An entry about another id tells nothing of this one (log, 393-401).
LEMMA AfterOther ==
    ASSUME NEW k, NEW j, j # k, NEW action, NEW st
    PROVE  After(k, Entry(action, j), st) = st
  BY DEF After, Entry

\* A generated key is there, and unused (134).
LEMMA AfterKeygen ==
    ASSUME NEW k, NEW h, NEW r, NEW n
    PROVE  After(k, Entry("keygen", k), [held |-> h, revoked |-> r, encrypts |-> n])
              = [held |-> TRUE, revoked |-> r, encrypts |-> 0]
  BY DEF After, Entry

\* A removed key is not, and its uses are forgotten with it (365-368).
LEMMA AfterDelete ==
    ASSUME NEW k, NEW h, NEW r, NEW n
    PROVE  After(k, Entry("delete_key", k), [held |-> h, revoked |-> r, encrypts |-> n])
              = [held |-> FALSE, revoked |-> r, encrypts |-> 0]
  BY DEF After, Entry

\* An encryption is one more use (183-188).
LEMMA AfterEncrypt ==
    ASSUME NEW k, NEW h, NEW r, NEW n
    PROVE  After(k, Entry("encrypt", k), [held |-> h, revoked |-> r, encrypts |-> n])
              = [held |-> h, revoked |-> r, encrypts |-> n + 1]
  BY DEF After, Entry

\* A revocation is no use, and takes no key away (267-275).
LEMMA AfterRevoke ==
    ASSUME NEW k, NEW h, NEW r, NEW n
    PROVE  After(k, Entry("revoke", k), [held |-> h, revoked |-> r, encrypts |-> n])
              = [held |-> h, revoked |-> TRUE, encrypts |-> n]
  BY DEF After, Entry

\* A rotation and a decryption tell nothing of the key that is asked about (254, 336).
LEMMA AfterSilent ==
    ASSUME NEW k, NEW j, NEW action \in {"rotate", "decrypt"}, NEW st
    PROVE  After(k, Entry(action, j), st) = st
  BY DEF After, Entry

\* A step that changes neither the log nor what the vault holds, and adds no log.
LEMMA QuietLog ==
    ASSUME LogInv, LogTypes', auditLog' = auditLog, Logs' \subseteq Logs,
           \A k \in Ids : Held(k)' = Held(k)
    PROVE  LogInv'
<1>1. Alike'
  BY DEF LogInv, Alike, Same
<1>2. AuditReplays'
  BY DEF LogInv, AuditReplays, Held
<1>3. QED
  BY <1>1, <1>2 DEF LogInv

\* A step in a section under Lock: no decryption is under way, so that the log is the
\* only one; what it adds to the log is what it changes.
LEMMA LockedLog ==
    ASSUME IInv, LogInv, NEW t \in Threads, NEW label \in Labels \ {"counting", "logging"},
           Reading = {}, pc' = [pc EXCEPT ![t] = label], UNCHANGED <<count, tail>>,
           meta' \in [Ids -> Metas], NEW action \in Actions, NEW j \in Ids,
           \/ auditLog' = auditLog /\ \A k \in Ids : Held(k)' = Held(k)
           \/ /\ auditLog' = Append(auditLog, Entry(action, j))
              /\ \A k \in Ids : Held(k)' = After(k, Entry(action, j), Held(k))
    PROVE  LogInv'
<1>1. /\ pc \in [Threads -> Labels] /\ auditLog \in Seq(Entries)
      /\ Entry(action, j) \in Entries
  BY DEF IInv, Types, LogInv, LogTypes, Entry, Entries
<1>2. Logs' = {auditLog'}
  <2>1. \A u \in Threads : pc[u] # "logging"
    BY DEF Reading
  <2>2. \A u \in Threads : pc'[u] # "logging"
    BY <1>1, <2>1
  <2>3. {u \in Threads : pc'[u] = "logging"} = {}
    BY <2>2
  <2>4. QED
    BY <2>3 DEF Logs
<1>3. LogTypes'
  <2>1. Append(auditLog, Entry(action, j)) \in Seq(Entries)
    BY <1>1
  <2>2. auditLog' \in {auditLog, Append(auditLog, Entry(action, j))}
    OBVIOUS
  <2>3. auditLog' \in Seq(Entries)
    BY <1>1, <2>1, <2>2
  <2>4. QED
    BY <2>3 DEF LogInv, LogTypes
<1>4. Alike'
  <2>1. Len(auditLog') \in Nat /\ \A i \in DOMAIN auditLog' : ~(i > Len(auditLog'))
    BY <1>3 DEF LogTypes
  <2>2. QED
    BY <1>2, <2>1 DEF Alike, Same
<1>5. ASSUME NEW k \in Ids PROVE Replay(auditLog', k) = Held(k)'
  <2>1. Replay(auditLog, k) = Held(k)
    BY DEF LogInv, AuditReplays, Held
  <2>2. CASE auditLog' = auditLog /\ Held(k)' = Held(k)
    BY <2>1, <2>2
  <2>3. CASE /\ auditLog' = Append(auditLog, Entry(action, j))
             /\ Held(k)' = After(k, Entry(action, j), Held(k))
    <3>1. Replay(Append(auditLog, Entry(action, j)), k)
             = After(k, Entry(action, j), Replay(auditLog, k))
      BY <1>1, ReplayAppend
    <3>2. QED
      BY <2>1, <2>3, <3>1
  <2>4. QED
    BY <2>2, <2>3
<1>6. QED
  BY <1>3, <1>4, <1>5 DEF LogInv, AuditReplays, Held

\* What a call in flight is about is an id.
LEMMA CallId ==
    ASSUME IInv, NEW t \in Threads, call[t].op # "none"
    PROVE  call[t].id \in Ids /\ call[t].newId \in Ids \union {None}
  BY DEF IInv, Types, Calls, NoCall

\* A new call reads and writes nothing of the vault.
LEMMA InvokeLog == ASSUME IInv, LogInv, NEW t \in Threads, InvokeAny(t) PROVE LogInv'
<1>1. /\ UNCHANGED <<vault, count, tail>> /\ pc' = [pc EXCEPT ![t] = "called"]
  BY DEF InvokeAny, Invoke
<1>2. Logs' \subseteq Logs
  BY <1>1 DEF Logs, vault, IInv, Types
<1>3. QED
  BY <1>1, <1>2, QuietLog DEF LogInv, LogTypes, vault, Held

\* A new key pair starts without uses (GenerateKeypair, 127-134).
LEMMA GeneratesLog ==
    ASSUME IInv, LogInv, NEW t \in Threads, NEW label \in Labels \ {"counting", "logging"},
           Reading = {}, pc' = [pc EXCEPT ![t] = label], UNCHANGED <<count, tail>>,
           NEW k \in Ids \union {None}, Generates(k) \/ Refused(k)
    PROVE  LogInv'
<1>1. CASE Generates(k)
  <2>1. /\ k \in Ids /\ keys' = [keys EXCEPT ![k] = drawn + 1] /\ drawn + 1 # 0
        /\ meta' = [meta EXCEPT ![k] = FreshMeta] /\ revoked' = revoked
        /\ auditLog' = Append(auditLog, Entry("keygen", k))
    BY <1>1 DEF Generates, Replaces, Log, IInv, Types
  <2>2. FreshMeta \in Metas /\ FreshMeta.encrypts = 0
    BY DEF FreshMeta, Metas
  <2>3. meta' \in [Ids -> Metas]
    BY <2>1, <2>2 DEF LogInv, LogTypes
  <2>4. ASSUME NEW j \in Ids PROVE Held(j)' = After(j, Entry("keygen", k), Held(j))
    <3>1. CASE j = k
      <4>1. keys'[j] # 0 /\ meta'[j].encrypts = 0 /\ revoked' = revoked
        BY <2>1, <2>2, <3>1 DEF IInv, Types, LogInv, LogTypes
      <4>2. Held(j)' = [held |-> TRUE, revoked |-> j \in revoked, encrypts |-> 0]
        BY <4>1 DEF Held
      <4>3. After(j, Entry("keygen", j), Held(j))
               = [held |-> TRUE, revoked |-> j \in revoked, encrypts |-> 0]
        BY AfterKeygen DEF Held
      <4>4. QED
        BY <3>1, <4>2, <4>3
    <3>2. CASE j # k
      <4>1. Held(j)' = Held(j)
        BY <2>1, <3>2 DEF Held, IInv, Types, LogInv, LogTypes
      <4>2. QED
        BY <3>2, <4>1, AfterOther
    <3>3. QED
      BY <3>1, <3>2
  <2>5. "keygen" \in Actions
    BY DEF Actions
  <2>6. QED
    BY <2>1, <2>3, <2>4, <2>5, LockedLog
<1>2. CASE Refused(k)
  <2>1. UNCHANGED <<keys, meta, revoked, auditLog>>
    BY <1>2 DEF Refused, vault
  <2>2. Logs' \subseteq Logs
    BY <2>1 DEF Logs, IInv, Types
  <2>3. QED
    BY <2>1, <2>2, QuietLog DEF LogInv, LogTypes, Held
<1>3. QED
  BY <1>1, <1>2

\* GenerateKeypair, as a call of its own (104-136).
LEMMA GenerateLog == ASSUME IInv, LogInv, NEW t \in Threads, GenerateKeypair(t) PROVE LogInv'
<1>1. /\ Reading = {} /\ pc' = [pc EXCEPT ![t] = "idle"] /\ UNCHANGED <<count, tail>>
      /\ call[t].op # "none"
      /\ Generates(call[t].id) \/ Refused(call[t].id)
  BY DEF GenerateKeypair, Locked, At, Return
<1>2. call[t].id \in Ids
  BY <1>1, CallId
<1>3. QED
  BY <1>1, <1>2, GeneratesLog DEF Labels

\* GenerateKeypair, called by Encrypt for a missing key (151-156).
LEMMA AutoGenerateLog == ASSUME IInv, LogInv, NEW t \in Threads, AutoGenerate(t) PROVE LogInv'
<1>1. /\ Reading = {} /\ UNCHANGED <<count, tail>> /\ call[t].op # "none"
      /\ Generates(call[t].id) \/ Refused(call[t].id)
      /\ \E label \in {"idle", "relock"} : pc' = [pc EXCEPT ![t] = label]
  BY DEF AutoGenerate, Locked, At, Return, Go
<1>2. call[t].id \in Ids
  BY <1>1, CallId
<1>3. PICK label \in {"idle", "relock"} : pc' = [pc EXCEPT ![t] = label]
  BY <1>1
<1>4. label \in Labels \ {"counting", "logging"}
  BY <1>3 DEF Labels
<1>5. QED
  BY <1>1, <1>2, <1>3, <1>4, GeneratesLog

\* GenerateKeypair, called by RotateKey for the new id (330-333).
LEMMA RotateGenerateLog ==
    ASSUME IInv, LogInv, NEW t \in Threads, RotateGenerate(t) PROVE LogInv'
<1>1. /\ Reading = {} /\ UNCHANGED <<count, tail>> /\ call[t].op # "none"
      /\ Generates(call[t].newId) \/ Refused(call[t].newId)
      /\ \E label \in {"idle", "relock"} : pc' = [pc EXCEPT ![t] = label]
  BY DEF RotateGenerate, Locked, At, Return, Go
<1>2. call[t].newId \in Ids \union {None}
  BY <1>1, CallId
<1>3. PICK label \in {"idle", "relock"} : pc' = [pc EXCEPT ![t] = label]
  BY <1>1
<1>4. label \in Labels \ {"counting", "logging"}
  BY <1>3 DEF Labels
<1>5. QED
  BY <1>1, <1>2, <1>3, <1>4, GeneratesLog

\* Encrypt counts one use and logs it (160-188).
LEMMA EncryptUnderLog ==
    ASSUME IInv, LogInv, NEW t \in Threads, NEW k \in Ids, Reading = {}, EncryptUnder(t, k)
    PROVE  LogInv'
<1>1. /\ meta' = [meta EXCEPT ![k].encrypts = @ + 1] /\ UNCHANGED <<keys, revoked>>
      /\ auditLog' = Append(auditLog, Entry("encrypt", k))
      /\ pc' = [pc EXCEPT ![t] = "idle"] /\ UNCHANGED <<count, tail>>
  BY DEF EncryptUnder, Log, Return
<1>2. meta' \in [Ids -> Metas]
  <2>1. ASSUME NEW m \in Metas PROVE [m EXCEPT !.encrypts = @ + 1] \in Metas
    BY DEF Metas
  <2>2. meta[k] \in Metas /\ meta \in [Ids -> Metas]
    BY DEF LogInv, LogTypes
  <2>3. meta' = [meta EXCEPT ![k] = [meta[k] EXCEPT !.encrypts = @ + 1]]
    BY <1>1
  <2>4. QED
    BY <2>1, <2>2, <2>3
<1>3. ASSUME NEW j \in Ids PROVE Held(j)' = After(j, Entry("encrypt", k), Held(j))
  <2>1. CASE j = k
    <3>1. meta'[j].encrypts = meta[j].encrypts + 1
      BY <1>1, <2>1 DEF LogInv, LogTypes, Metas
    <3>2. Held(j)' = [held |-> keys[j] # 0, revoked |-> j \in revoked,
                      encrypts |-> meta[j].encrypts + 1]
      BY <1>1, <3>1 DEF Held
    <3>3. After(j, Entry("encrypt", j), Held(j))
             = [held |-> keys[j] # 0, revoked |-> j \in revoked,
                encrypts |-> meta[j].encrypts + 1]
      BY AfterEncrypt DEF Held
    <3>4. QED
      BY <2>1, <3>2, <3>3
  <2>2. CASE j # k
    <3>1. Held(j)' = Held(j)
      BY <1>1, <2>2 DEF Held, LogInv, LogTypes
    <3>2. QED
      BY <2>2, <3>1, AfterOther
  <2>3. QED
    BY <2>1, <2>2
<1>4. "encrypt" \in Actions /\ "idle" \in Labels \ {"counting", "logging"}
  BY DEF Actions, Labels
<1>5. QED
  BY <1>1, <1>2, <1>3, <1>4, LockedLog

\* A goroutine that goes on elsewhere than to logging has no log of its own.
LEMMA NoLogAdded ==
    ASSUME IInv, NEW t \in Threads, NEW label, label # "logging",
           pc' = [pc EXCEPT ![t] = label] \/ pc' = pc, UNCHANGED <<auditLog, tail>>
    PROVE  Logs' \subseteq Logs
<1>1. \A u \in Threads : pc'[u] = "logging" => pc[u] = "logging"
  BY DEF IInv, Types
<1>2. QED
  BY <1>1 DEF Logs

\* Encrypt, in its first section and after the key was made (139-188).
LEMMA EncryptLog == ASSUME IInv, LogInv, NEW t \in Threads, Encrypt(t) PROVE LogInv'
<1>1. /\ Reading = {} /\ call[t].op # "none"
      /\ \/ EncryptUnder(t, call[t].id)
         \/ /\ UNCHANGED <<vault, count, tail>>
            /\ \E label \in {"idle", "unlocked"} : pc' = [pc EXCEPT ![t] = label]
  BY DEF Encrypt, Locked, At, Return, Go
<1>2. call[t].id \in Ids
  BY <1>1, CallId
<1>3. CASE EncryptUnder(t, call[t].id)
  BY <1>1, <1>2, <1>3, EncryptUnderLog
<1>4. CASE /\ UNCHANGED <<vault, count, tail>>
           /\ \E label \in {"idle", "unlocked"} : pc' = [pc EXCEPT ![t] = label]
  <2>1. Logs' \subseteq Logs
    BY <1>4, NoLogAdded DEF vault
  <2>2. QED
    BY <1>4, <2>1, QuietLog DEF LogInv, LogTypes, vault, Held
<1>5. QED
  BY <1>1, <1>3, <1>4

\* Encrypt once it has the lock again, when the key may be gone (157-188).
LEMMA EncryptRelockedLog ==
    ASSUME IInv, LogInv, NEW t \in Threads, EncryptRelocked(t) PROVE LogInv'
<1>1. /\ Reading = {} /\ call[t].op # "none"
      /\ EncryptUnder(t, call[t].id) \/ UNCHANGED <<vault, count, tail, pc>>
  BY DEF EncryptRelocked, Locked, At
<1>2. call[t].id \in Ids
  BY <1>1, CallId
<1>3. CASE EncryptUnder(t, call[t].id)
  BY <1>1, <1>2, <1>3, EncryptUnderLog
<1>4. CASE UNCHANGED <<vault, count, tail, pc>>
  <2>1. Logs' \subseteq Logs
    BY <1>4 DEF Logs, vault
  <2>2. QED
    BY <1>4, <2>1, QuietLog DEF LogInv, LogTypes, vault, Held
<1>5. QED
  BY <1>1, <1>3, <1>4

\* Decrypt writes nothing of the vault while it opens the ciphertext (197-247).
LEMMA DecryptLog == ASSUME IInv, LogInv, NEW t \in Threads, Decrypt(t) PROVE LogInv'
<1>1. /\ UNCHANGED <<vault, tail>> /\ call[t].op # "none" /\ call[t].op = "decrypt"
      /\ \E label \in {"idle", "counting"} : pc' = [pc EXCEPT ![t] = label]
      /\ count' = [count EXCEPT ![t] = meta[call[t].id].decrypts] \/ count' = count
  BY DEF Decrypt, At, Return, Go
<1>2. call[t].id \in Ids
  BY <1>1, CallId
<1>3. meta[call[t].id].decrypts \in Nat
  BY <1>2 DEF LogInv, LogTypes, Metas
<1>4. count' \in [Threads -> Nat]
  BY <1>1, <1>3 DEF LogInv, LogTypes
<1>5. Logs' \subseteq Logs
  BY <1>1, NoLogAdded DEF vault
<1>6. QED
  BY <1>1, <1>4, <1>5, QuietLog DEF LogInv, LogTypes, vault, Held

\* DecryptCount is none of what the log tells; the log read is the vault's (249-254).
LEMMA DecryptCountsLog ==
    ASSUME IInv, LogInv, NEW t \in Threads, DecryptCounts(t) PROVE LogInv'
<1>1. /\ meta' = [meta EXCEPT ![call[t].id].decrypts = count[t] + 1]
      /\ tail' = [tail EXCEPT ![t] = auditLog]
      /\ pc' = [pc EXCEPT ![t] = "logging"]
      /\ UNCHANGED <<keys, revoked, auditLog, count>>
      /\ call[t].op # "none"
  BY DEF DecryptCounts, At, Go
<1>2. PICK k \in Ids : k = call[t].id
  BY <1>1, CallId
<1>3. PICK n \in Nat : n = count[t] + 1
  BY DEF LogInv, LogTypes
<1>4. /\ meta' = [meta EXCEPT ![k] = [meta[k] EXCEPT !.decrypts = n]]
      /\ meta \in [Ids -> Metas] /\ meta[k] \in Metas
  BY <1>1, <1>2, <1>3 DEF LogInv, LogTypes
<1>5. ASSUME NEW m \in Metas
      PROVE  /\ [m EXCEPT !.decrypts = n] \in Metas
             /\ [m EXCEPT !.decrypts = n].encrypts = m.encrypts
  BY DEF Metas
<1>6. meta' \in [Ids -> Metas] /\ \A j \in Ids : meta'[j].encrypts = meta[j].encrypts
  BY <1>4, <1>5
<1>7. LogTypes'
  BY <1>1, <1>6 DEF LogInv, LogTypes
<1>8. \A j \in Ids : Held(j)' = Held(j)
  BY <1>1, <1>6 DEF Held
<1>9. Logs' \subseteq Logs
  <2>1. \A u \in Threads \ {t} : pc'[u] = pc[u] /\ tail'[u] = tail[u]
    BY <1>1 DEF IInv, Types, LogInv, LogTypes
  <2>2. tail'[t] = auditLog /\ auditLog' = auditLog
    BY <1>1 DEF LogInv, LogTypes
  <2>3. QED
    BY <2>1, <2>2 DEF Logs
<1>10. QED
  BY <1>1, <1>7, <1>8, <1>9, QuietLog

\* The log that a decryption stores differs from any other in entries of decryptions,
\* whichever entries it loses (254, 394).
LEMMA DecryptLogsLog ==
    ASSUME IInv, LogInv, NEW t \in Threads, DecryptLogs(t) PROVE LogInv'
<1> DEFINE old == tail[t]
           own == Entry("decrypt", call[t].id)
<1>1. /\ pc[t] = "logging" /\ call[t].op # "none" /\ call[t].op = "decrypt"
      /\ \E e \in {own} \union {auditLog[i] : i \in DOMAIN auditLog \intersect {Len(old) + 1}} :
            auditLog' = Append(old, e)
      /\ tail' = [tail EXCEPT ![t] = <<>>] /\ count' = [count EXCEPT ![t] = 0]
      /\ pc' = [pc EXCEPT ![t] = "idle"] /\ UNCHANGED <<keys, meta, revoked>>
  BY DEF DecryptLogs, At, Return
<1>2. own \in Entries /\ own.action = "decrypt" /\ call[t].id \in Ids
  BY <1>1, CallId DEF Entry, Entries, Actions
<1>3. /\ old \in Seq(Entries) /\ auditLog \in Seq(Entries)
      /\ old \in Logs /\ auditLog \in Logs /\ tail \in [Threads -> Seq(Entries)]
      /\ pc \in [Threads -> Labels]
  BY <1>1 DEF LogInv, LogTypes, Logs, IInv, Types
<1> HIDE DEF old, own
<1>4. PICK e : /\ auditLog' = Append(old, e)
               /\ e \in {own} \union {auditLog[i] : i \in DOMAIN auditLog \intersect {Len(old) + 1}}
  BY <1>1
<1>5. e \in Entries /\ e.action = "decrypt"
  <2>1. CASE e = own
    BY <1>2, <2>1
  <2>2. ASSUME NEW i \in DOMAIN auditLog, i = Len(old) + 1, e = auditLog[i]
        PROVE  e \in Entries /\ e.action = "decrypt"
    <3>1. Len(old) \in Nat /\ i > Len(old)
      BY <1>3, <2>2
    <3>2. Same(auditLog, old)
      BY <1>3 DEF LogInv, Alike
    <3>3. QED
      BY <1>3, <2>2, <3>1, <3>2 DEF Same
  <2>3. QED
    BY <1>4, <2>1, <2>2
<1>6. PICK new : new = auditLog'
  OBVIOUS
<1>7. /\ new \in Seq(Entries) /\ Len(old) \in Nat /\ Len(new) = Len(old) + 1
      /\ DOMAIN new = 1..(Len(old) + 1) /\ DOMAIN old = 1..Len(old)
      /\ \A i \in 1..Len(old) : new[i] = old[i]
      /\ new[Len(old) + 1] = e
  BY <1>3, <1>4, <1>5, <1>6
<1>8. ASSUME NEW k \in Ids PROVE Replay(new, k) = Replay(old, k)
  <2>1. Replay(new, k) = After(k, e, Replay(old, k))
    BY <1>3, <1>4, <1>5, <1>6, ReplayAppend
  <2>2. \A st : After(k, e, st) = st
    BY <1>5 DEF After
  <2>3. QED
    BY <2>1, <2>2
<1>9. Logs' \subseteq Logs \union {new}
  <2>1. \A u \in Threads : pc'[u] = "logging" => pc[u] = "logging" /\ tail'[u] = tail[u]
    BY <1>1, <1>3
  <2>2. QED
    BY <1>6, <2>1 DEF Logs
<1>10. Same(new, new)
  BY <1>7 DEF Same
<1>11. ASSUME NEW a \in Logs PROVE Same(new, a) /\ Same(a, new)
  <2>1. Same(old, a) /\ Same(a, old)
    BY <1>3 DEF LogInv, Alike
  <2>2. \A i \in DOMAIN new : i > Len(a) => new[i].action = "decrypt"
    <3>1. ASSUME NEW i \in DOMAIN new, i > Len(a) PROVE new[i].action = "decrypt"
      <4>1. CASE i = Len(old) + 1
        BY <1>5, <1>7, <4>1
      <4>2. CASE i # Len(old) + 1
        <5>1. i \in 1..Len(old)
          BY <1>7, <4>2
        <5>2. QED
          BY <1>7, <2>1, <3>1, <5>1 DEF Same
      <4>3. QED
        BY <4>1, <4>2
    <3>2. QED
      BY <3>1
  <2>3. \A i \in DOMAIN a : i > Len(new) => a[i].action = "decrypt"
    <3>1. a \in Seq(Entries)
      BY DEF Logs, LogInv, LogTypes
    <3>2. \A i \in DOMAIN a : i > Len(new) => i > Len(old)
      BY <1>7, <3>1
    <3>3. QED
      BY <2>1, <3>2 DEF Same
  <2>4. QED
    BY <1>8, <2>1, <2>2, <2>3 DEF Same
<1>12. Alike'
  <2>1. \A a, b \in Logs' : Same(a, b)
    BY <1>9, <1>10, <1>11 DEF LogInv, Alike
  <2>2. QED
    BY <2>1 DEF Alike, Same
<1>13. LogTypes'
  <2>1. <<>> \in Seq(Entries) /\ 0 \in Nat
    OBVIOUS
  <2>2. QED
    BY <1>1, <1>6, <1>7, <2>1 DEF LogInv, LogTypes
<1>14. AuditReplays'
  <2>1. \A k \in Ids : Replay(new, k) = Replay(auditLog, k)
    BY <1>3, <1>8 DEF LogInv, Alike, Same
  <2>2. QED
    BY <1>1, <1>6, <2>1 DEF LogInv, AuditReplays
<1>15. QED
  BY <1>12, <1>13, <1>14 DEF LogInv

\* RevokeKey lists and logs a key that is there, and no other (259-277).
LEMMA RevokeLog == ASSUME IInv, LogInv, NEW t \in Threads, RevokeKey(t) PROVE LogInv'
<1>1. /\ Reading = {} /\ call[t].op # "none" /\ UNCHANGED <<keys, meta, count, tail>>
      /\ IF keys[call[t].id] = 0
         THEN UNCHANGED <<revoked, auditLog>>
         ELSE /\ revoked' = revoked \union {call[t].id}
              /\ auditLog' = Append(auditLog, Entry("revoke", call[t].id))
      /\ pc' = [pc EXCEPT ![t] = "idle"]
  BY DEF RevokeKey, Locked, At, Return, Log
<1>2. PICK k \in Ids : k = call[t].id
  BY <1>1, CallId
<1>3. CASE keys[k] = 0
  <2>1. Logs' \subseteq Logs
    BY <1>1, <1>2, <1>3, NoLogAdded
  <2>2. QED
    BY <1>1, <1>2, <1>3, <2>1, QuietLog DEF LogInv, LogTypes, Held
<1>4. CASE keys[k] # 0
  <2>1. ASSUME NEW j \in Ids PROVE Held(j)' = After(j, Entry("revoke", k), Held(j))
    <3>1. CASE j = k
      <4>1. j \in revoked'
        BY <1>1, <1>2, <1>4, <3>1
      <4>2. Held(j)' = [held |-> keys[j] # 0, revoked |-> TRUE, encrypts |-> meta[j].encrypts]
        BY <1>1, <4>1 DEF Held
      <4>3. After(j, Entry("revoke", j), Held(j))
               = [held |-> keys[j] # 0, revoked |-> TRUE, encrypts |-> meta[j].encrypts]
        BY AfterRevoke DEF Held
      <4>4. QED
        BY <3>1, <4>2, <4>3
    <3>2. CASE j # k
      <4>1. j \in revoked' <=> j \in revoked
        BY <1>1, <1>2, <1>4, <3>2
      <4>2. Held(j)' = Held(j)
        BY <1>1, <4>1 DEF Held
      <4>3. QED
        BY <3>2, <4>2, AfterOther
    <3>3. QED
      BY <3>1, <3>2
  <2>2. "revoke" \in Actions /\ "idle" \in Labels \ {"counting", "logging"}
    BY DEF Actions, Labels
  <2>3. meta' \in [Ids -> Metas]
    BY <1>1 DEF LogInv, LogTypes
  <2>4. QED
    BY <1>1, <1>2, <1>4, <2>1, <2>2, <2>3, LockedLog
<1>5. QED
  BY <1>3, <1>4

\* RemoveKeypair forgets the uses with the key, and keeps the revocation (361-369).
LEMMA RemoveLog == ASSUME IInv, LogInv, NEW t \in Threads, RemoveKeypair(t) PROVE LogInv'
<1>1. /\ Reading = {} /\ call[t].op # "none" /\ UNCHANGED <<revoked, count, tail>>
      /\ keys' = [keys EXCEPT ![call[t].id] = 0]
      /\ meta' = [meta EXCEPT ![call[t].id] = NoMeta]
      /\ auditLog' = Append(auditLog, Entry("delete_key", call[t].id))
      /\ pc' = [pc EXCEPT ![t] = "idle"]
  BY DEF RemoveKeypair, Locked, At, Return, Log
<1>2. PICK k \in Ids : k = call[t].id
  BY <1>1, CallId
<1>3. NoMeta \in Metas /\ NoMeta.encrypts = 0
  BY DEF NoMeta, Metas
<1>4. meta' \in [Ids -> Metas]
  BY <1>1, <1>2, <1>3 DEF LogInv, LogTypes
<1>5. ASSUME NEW j \in Ids PROVE Held(j)' = After(j, Entry("delete_key", k), Held(j))
  <2>1. CASE j = k
    <3>1. ~(keys'[j] # 0) /\ meta'[j].encrypts = 0
      BY <1>1, <1>2, <1>3, <2>1 DEF IInv, Types, LogInv, LogTypes
    <3>2. Held(j)' = [held |-> FALSE, revoked |-> j \in revoked, encrypts |-> 0]
      BY <1>1, <3>1 DEF Held
    <3>3. After(j, Entry("delete_key", j), Held(j))
             = [held |-> FALSE, revoked |-> j \in revoked, encrypts |-> 0]
      BY AfterDelete DEF Held
    <3>4. QED
      BY <2>1, <3>2, <3>3
  <2>2. CASE j # k
    <3>1. Held(j)' = Held(j)
      BY <1>1, <1>2, <2>2 DEF Held, IInv, Types, LogInv, LogTypes
    <3>2. QED
      BY <2>2, <3>1, AfterOther
  <2>3. QED
    BY <2>1, <2>2
<1>6. "delete_key" \in Actions /\ "idle" \in Labels \ {"counting", "logging"}
  BY DEF Actions, Labels
<1>7. QED
  BY <1>1, <1>2, <1>4, <1>5, <1>6, LockedLog

\* RotateKey marks the old key before it logs anything (313-328).
LEMMA RotateLog == ASSUME IInv, LogInv, NEW t \in Threads, RotateKey(t) PROVE LogInv'
<1>1. /\ call[t].op # "none" /\ UNCHANGED <<keys, revoked, auditLog, count, tail>>
      /\ \E label \in {"idle", "unlocked"} : pc' = [pc EXCEPT ![t] = label]
      /\ \/ meta' = meta
         \/ \E new \in NewIds[call[t].id] :
               meta' = [meta EXCEPT ![call[t].id].expired = TRUE,
                                    ![call[t].id].rotatedTo = new]
  BY DEF RotateKey, Locked, At, Return
<1>2. PICK k \in Ids : k = call[t].id
  BY <1>1, CallId
<1>3. meta' \in [Ids -> Metas] /\ \A j \in Ids : meta'[j].encrypts = meta[j].encrypts
  <2>1. CASE meta' = meta
    BY <2>1 DEF LogInv, LogTypes
  <2>2. ASSUME NEW new \in NewIds[k],
               meta' = [meta EXCEPT ![k].expired = TRUE, ![k].rotatedTo = new]
        PROVE  meta' \in [Ids -> Metas] /\ \A j \in Ids : meta'[j].encrypts = meta[j].encrypts
    <3>1. new \in Ids \union {None}
      BY NewIdsAssumption
    <3>2. ASSUME NEW m \in Metas
          PROVE  /\ [m EXCEPT !.expired = TRUE, !.rotatedTo = new] \in Metas
                 /\ [m EXCEPT !.expired = TRUE, !.rotatedTo = new].encrypts = m.encrypts
      BY <3>1 DEF Metas
    <3>3. meta \in [Ids -> Metas] /\ meta[k] \in Metas
      BY DEF LogInv, LogTypes
    <3>4. meta' = [meta EXCEPT ![k] = [meta[k] EXCEPT !.expired = TRUE, !.rotatedTo = new]]
      BY <2>2, <3>3
    <3>5. QED
      BY <3>2, <3>3, <3>4
  <2>3. QED
    BY <1>1, <1>2, <2>1, <2>2
<1>4. \A j \in Ids : Held(j)' = Held(j)
  BY <1>1, <1>3 DEF Held
<1>5. Logs' \subseteq Logs
  BY <1>1, NoLogAdded
<1>6. QED
  BY <1>1, <1>3, <1>4, <1>5, QuietLog DEF LogInv, LogTypes

\* The entry of a rotation tells nothing of the keys (335-337).
LEMMA RotateLogsLog == ASSUME IInv, LogInv, NEW t \in Threads, RotateLogs(t) PROVE LogInv'
<1>1. /\ Reading = {} /\ call[t].op # "none"
      /\ UNCHANGED <<keys, meta, revoked, count, tail>>
      /\ auditLog' = Append(auditLog, Entry("rotate", call[t].id))
      /\ pc' = [pc EXCEPT ![t] = "idle"]
  BY DEF RotateLogs, Locked, At, Return, Log
<1>2. PICK k \in Ids : k = call[t].id
  BY <1>1, CallId
<1>3. ASSUME NEW j \in Ids PROVE Held(j)' = After(j, Entry("rotate", k), Held(j))
  <2>1. Held(j)' = Held(j)
    BY <1>1 DEF Held
  <2>2. QED
    BY <2>1, AfterSilent
<1>4. "rotate" \in Actions /\ "idle" \in Labels \ {"counting", "logging"}
  BY DEF Actions, Labels
<1>5. meta' \in [Ids -> Metas]
  BY <1>1 DEF LogInv, LogTypes
<1>6. QED
  BY <1>1, <1>2, <1>3, <1>4, <1>5, LockedLog

\* A new vault has logged nothing and holds nothing (NewVault).
LEMMA InitLog == Init => LogInv
<1> SUFFICES ASSUME Init PROVE LogInv
  OBVIOUS
<1>1. NoMeta \in Metas /\ NoMeta.encrypts = 0
  BY DEF NoMeta, Metas
<1>2. LogTypes
  BY <1>1 DEF Init, LogTypes
<1>3. Logs = {<<>>}
  BY DEF Init, Logs
<1>4. Alike
  BY <1>3 DEF Alike, Same
<1>5. ASSUME NEW k \in Ids
      PROVE  Replay(auditLog, k) = [held |-> keys[k] # 0, revoked |-> k \in revoked,
                                    encrypts |-> meta[k].encrypts]
  <2>1. ~(keys[k] # 0) /\ k \notin revoked /\ meta[k].encrypts = 0 /\ auditLog = <<>>
    BY <1>1 DEF Init
  <2>2. (keys[k] # 0) = FALSE /\ (k \in revoked) = FALSE
    BY <2>1
  <2>5. [held |-> keys[k] # 0, revoked |-> k \in revoked, encrypts |-> meta[k].encrypts] = Unused
    BY <2>1, <2>2, Zenon DEF Unused
  <2>3. Replay(auditLog, k) = Unused
    BY <2>1, ReplayEmpty
  <2>4. QED
    BY <2>3, <2>5
<1>6. QED
  BY <1>2, <1>4, <1>5 DEF LogInv, AuditReplays

\* Every step of every goroutine keeps the log true to the vault.
LEMMA NextLog == IInv /\ LogInv /\ [Next]_vars => LogInv'
<1> SUFFICES ASSUME IInv, LogInv, [Next]_vars PROVE LogInv'
  OBVIOUS
<1>1. ASSUME NEW t \in Threads, InvokeAny(t) PROVE LogInv'
  BY <1>1, InvokeLog
<1>2. ASSUME NEW t \in Threads, Continue(t) PROVE LogInv'
  <2>1. CASE GenerateKeypair(t)
    BY <2>1, GenerateLog
  <2>2. CASE Encrypt(t)
    BY <2>2, EncryptLog
  <2>3. CASE AutoGenerate(t)
    BY <2>3, AutoGenerateLog
  <2>4. CASE EncryptRelocked(t)
    BY <2>4, EncryptRelockedLog
  <2>5. CASE Decrypt(t)
    BY <2>5, DecryptLog
  <2>6. CASE DecryptCounts(t)
    BY <2>6, DecryptCountsLog
  <2>7. CASE DecryptLogs(t)
    BY <2>7, DecryptLogsLog
  <2>8. CASE RevokeKey(t)
    BY <2>8, RevokeLog
  <2>9. CASE RemoveKeypair(t)
    BY <2>9, RemoveLog
  <2>10. CASE RotateKey(t)
    BY <2>10, RotateLog
  <2>11. CASE RotateGenerate(t)
    BY <2>11, RotateGenerateLog
  <2>12. CASE RotateLogs(t)
    BY <2>12, RotateLogsLog
  <2>13. QED
    BY <1>2, <2>1, <2>2, <2>3, <2>4, <2>5, <2>6, <2>7, <2>8, <2>9, <2>10, <2>11, <2>12
       DEF Continue
<1>3. CASE UNCHANGED vars
  <2>1. Logs' \subseteq Logs
    BY <1>3 DEF vars, vault, Logs
  <2>2. QED
    BY <1>3, <2>1, QuietLog DEF LogInv, LogTypes, vars, vault, Held
<1>4. QED
  BY <1>1, <1>2, <1>3 DEF Next

\* The audit log tells which keys the vault holds, which are revoked and how often each
\* was used to encrypt, although decryptions lose entries to each other
\* (sdk/go/abirguard.go 104-369, 393-401).
THEOREM AuditReplaysHolds == Spec => []AuditReplays
<1>1. LogInv => AuditReplays
  BY DEF LogInv
<1>2. QED
  BY <1>1, IInvHolds, InitLog, NextLog, PTL DEF Spec
===============================================================================
