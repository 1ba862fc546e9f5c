-------------------------------- MODULE GoVault --------------------------------
(***************************************************************************)
(* The Vault of the Go SDK (sdk/go/abirguard.go), called by several        *)
(* goroutines.  A section under v.mu.Lock is one step, which waits until   *)
(* no goroutine is inside Decrypt.  Three methods are not one section:     *)
(*   - Encrypt gives the lock up to generate a missing key, and takes it   *)
(*     again to encrypt;                                                   *)
(*   - RotateKey marks the old key, generates the new one and logs in      *)
(*     three sections;                                                     *)
(*   - Decrypt holds only the read lock while it updates the counters and  *)
(*     appends to the audit log, so two decryptions race.                  *)
(* A ciphertext is the id and the secret it was made with.  The race of    *)
(* two decryptions is resolved field by field and entry by entry; a slice  *)
(* header torn between its words is not modelled.                          *)
(***************************************************************************)
EXTENDS Integers, Sequences, FiniteSets, SequencesExt

CONSTANTS
    Threads,
    Ids,           \* ids that validateKeyID accepts
    None,
    NewIds,        \* for each id, those RotateKey may build from it and the clock's
                   \* second: None where the result is too long for validateKeyID
    MaxCalls       \* method calls made in all (a bound)

ASSUME NoneAssumption  == None \notin Ids
ASSUME BoundAssumption == MaxCalls \in Nat
ASSUME NewIdsAssumption == NewIds \in [Ids -> SUBSET (Ids \union {None})]

VARIABLES
    keys,      \* keypairs and secretKeys, always changed together: 0 when absent
    meta,      \* metadata, present exactly when the key is
    revoked,
    auditLog,
    pc, call,  \* where each goroutine is, and in which call
    count, tail,  \* what a Decrypt read of DecryptCount and of auditLog
    drawn,     \* how many secrets were drawn: a secret is its number
    given,     \* ciphertexts returned to callers (history)
    calls,
    panicked   \* a nil dereference stopped the program

vault == <<keys, meta, revoked, auditLog>>
vars == <<vault, pc, call, count, tail, drawn, given, calls, panicked>>

FreshMeta == [encrypts |-> 0, decrypts |-> 0, expired |-> FALSE, rotatedTo |-> None]
NoMeta == [encrypts |-> 0, decrypts |-> 0, expired |-> TRUE, rotatedTo |-> None]
Ops == {"generate", "encrypt", "revoke", "rotate", "remove"}
Entry(action, k) == [action |-> action, id |-> k]

\* late: the id was already revoked when the call was made
NoCall == [op |-> "none", id |-> None, secret |-> 0, newId |-> None, late |-> FALSE]

\* a caller that kept the lock across its unlocked step would wait for itself
Mutant_NeverUnlocks == {t \in Threads : pc[t] \in {"counting", "logging", "unlocked"}}
\* the goroutines that hold the read lock
Reading == {t \in Threads : pc[t] \in {"counting", "logging"}}

-------------------------------------------------------------------------------
Init ==
    /\ keys = [k \in Ids |-> 0]
    /\ meta = [k \in Ids |-> NoMeta]
    /\ revoked = {}
    /\ auditLog = <<>>
    /\ pc = [t \in Threads |-> "idle"]
    /\ call = [t \in Threads |-> NoCall]
    /\ count = [t \in Threads |-> 0]
    /\ tail = [t \in Threads |-> <<>>]
    /\ drawn = 0
    /\ given = {}
    /\ calls = 0
    /\ panicked = FALSE

Invoke(t, op, k, s) ==
    /\ ~panicked /\ pc[t] = "idle" /\ calls < MaxCalls
    /\ pc' = [pc EXCEPT ![t] = "called"]
    /\ call' = [call EXCEPT ![t] = [op |-> op, id |-> k, secret |-> s, newId |-> None,
                                    late |-> k \in revoked]]
    /\ calls' = calls + 1
    /\ UNCHANGED <<vault, count, tail, drawn, given, panicked>>

At(t, op, label) == ~panicked /\ pc[t] = label /\ call[t].op = op
Mutant_LockedWithReaders(t, op, label) == At(t, op, label)
Locked(t, op, label) == At(t, op, label) /\ Reading = {}
Go(t, label) ==
    /\ pc' = [pc EXCEPT ![t] = label]
    /\ UNCHANGED call
Return(t) ==
    /\ pc' = [pc EXCEPT ![t] = "idle"]
    /\ call' = [call EXCEPT ![t] = NoCall]
Log(action, k) == auditLog' = Append(auditLog, Entry(action, k))

-------------------------------------------------------------------------------
\* GenerateKeypair's section, as a method of its own or called by another:
\* it replaces the key and its metadata, unless the id is invalid or revoked
Replaces(k) ==
    /\ k # None
    /\ drawn' = drawn + 1
    /\ keys' = [keys EXCEPT ![k] = drawn + 1]
    /\ meta' = [meta EXCEPT ![k] = FreshMeta]
    /\ Log("keygen", k)
    /\ UNCHANGED revoked

Mutant_GeneratesRevoked(k) == Replaces(k)
Generates(k) == k \notin revoked /\ Replaces(k)

Refused(k) ==
    /\ k = None \/ k \in revoked
    /\ UNCHANGED <<vault, drawn>>

GenerateKeypair(t) ==
    /\ Locked(t, "generate", "called")
    /\ Generates(call[t].id) \/ Refused(call[t].id)
    /\ Return(t)
    /\ UNCHANGED <<count, tail, given, calls, panicked>>

\* the rest of Encrypt, once it holds the lock and a key
EncryptUnder(t, k) ==
    /\ given' = given \union {[id |-> k, secret |-> keys[k]]}
    /\ meta' = [meta EXCEPT ![k].encrypts = @ + 1]
    /\ Log("encrypt", k)
    /\ Return(t)
    /\ UNCHANGED <<keys, revoked, count, tail, drawn, calls, panicked>>

Encrypt(t) ==
    LET k == call[t].id IN
    /\ Locked(t, "encrypt", "called")
    /\ \/ /\ k \in revoked
          /\ Return(t)
          /\ UNCHANGED <<vault, count, tail, drawn, given, calls, panicked>>
       \/ /\ k \notin revoked /\ keys[k] # 0
          /\ EncryptUnder(t, k)
       \/ /\ k \notin revoked /\ keys[k] = 0
          /\ Go(t, "unlocked")
          /\ UNCHANGED <<vault, count, tail, drawn, given, calls, panicked>>

\* the lock is free between Unlock and GenerateKeypair's own Lock ...
AutoGenerate(t) ==
    /\ Locked(t, "encrypt", "unlocked")
    /\ \/ Generates(call[t].id) /\ Go(t, "relock")
       \/ Refused(call[t].id) /\ Return(t)
    /\ UNCHANGED <<count, tail, given, calls, panicked>>

\* ... and again before the second Lock: v.keypairs[keyID] may be nil by then
EncryptRelocked(t) ==
    /\ Locked(t, "encrypt", "relock")
    /\ \/ keys[call[t].id] # 0 /\ EncryptUnder(t, call[t].id)
       \/ /\ keys[call[t].id] = 0
          /\ panicked' = TRUE
          /\ UNCHANGED <<vault, pc, call, count, tail, drawn, given, calls>>

-------------------------------------------------------------------------------
\* Decrypt under RLock: open the ciphertext and load DecryptCount
Decrypt(t) ==
    LET c == call[t]
        opens == keys[c.id] = c.secret /\ c.id \notin revoked
    IN  /\ At(t, "decrypt", "called")
        /\ \/ /\ opens
              /\ count' = [count EXCEPT ![t] = meta[c.id].decrypts]
              /\ Go(t, "counting")
           \/ /\ ~opens
              /\ Return(t)
              /\ UNCHANGED count
        /\ UNCHANGED <<vault, tail, drawn, given, calls, panicked>>

\* store DecryptCount, load the audit log's length
DecryptCounts(t) ==
    /\ At(t, "decrypt", "counting")
    /\ meta' = [meta EXCEPT ![call[t].id].decrypts = count[t] + 1]
    /\ tail' = [tail EXCEPT ![t] = auditLog]
    /\ Go(t, "logging")
    /\ UNCHANGED <<keys, revoked, auditLog, count, drawn, given, calls, panicked>>

\* store the entry and the new length: a decryption that logged meanwhile loses its
\* entry, or keeps it in the place of this one
DecryptLogs(t) ==
    LET n == Len(tail[t]) + 1
        own == Entry("decrypt", call[t].id)
    IN  /\ At(t, "decrypt", "logging")
        /\ \E e \in {own} \union {auditLog[i] : i \in DOMAIN auditLog \intersect {n}} :
              auditLog' = Append(tail[t], e)
        /\ tail' = [tail EXCEPT ![t] = <<>>]
        /\ count' = [count EXCEPT ![t] = 0]
        /\ Return(t)
        /\ UNCHANGED <<keys, meta, revoked, drawn, given, calls, panicked>>

-------------------------------------------------------------------------------
RevokeKey(t) ==
    LET k == call[t].id IN
    /\ Locked(t, "revoke", "called")
    /\ IF keys[k] = 0
       THEN UNCHANGED <<revoked, auditLog>>
       ELSE revoked' = revoked \union {k} /\ Log("revoke", k)
    /\ Return(t)
    /\ UNCHANGED <<keys, meta, count, tail, drawn, given, calls, panicked>>

\* delete forgets the key and its metadata, and leaves the revocation list alone
RemoveKeypair(t) ==
    LET k == call[t].id IN
    /\ Locked(t, "remove", "called")
    /\ keys' = [keys EXCEPT ![k] = 0]
    /\ meta' = [meta EXCEPT ![k] = NoMeta]
    /\ Log("delete_key", k)
    /\ Return(t)
    /\ UNCHANGED <<revoked, count, tail, drawn, given, calls, panicked>>

\* the new id has the granularity of a second: two rotations may build the same one
RotateKey(t) ==
    LET k == call[t].id IN
    /\ Locked(t, "rotate", "called")
    /\ \/ /\ keys[k] = 0
          /\ Return(t)
          /\ UNCHANGED meta
       \/ \E new \in NewIds[k] :
          /\ keys[k] # 0
          /\ meta' = [meta EXCEPT ![k].expired = TRUE, ![k].rotatedTo = new]
          /\ call' = [call EXCEPT ![t].newId = new]
          /\ pc' = [pc EXCEPT ![t] = "unlocked"]
    /\ UNCHANGED <<keys, revoked, auditLog, count, tail, drawn, given, calls, panicked>>

RotateGenerate(t) ==
    /\ Locked(t, "rotate", "unlocked")
    /\ \/ Generates(call[t].newId) /\ Go(t, "relock")
       \/ Refused(call[t].newId) /\ Return(t)
    /\ UNCHANGED <<count, tail, given, calls, panicked>>

RotateLogs(t) ==
    /\ Locked(t, "rotate", "relock")
    /\ Log("rotate", call[t].id)
    /\ Return(t)
    /\ UNCHANGED <<keys, meta, revoked, count, tail, drawn, given, calls, panicked>>

InvokeAny(t) ==
    \/ \E op \in Ops, k \in Ids : Invoke(t, op, k, 0)
    \/ \E c \in given : Invoke(t, "decrypt", c.id, c.secret)

\* a goroutine goes on with its call
Continue(t) ==
    \/ GenerateKeypair(t)
    \/ Encrypt(t) \/ AutoGenerate(t) \/ EncryptRelocked(t)
    \/ Decrypt(t) \/ DecryptCounts(t) \/ DecryptLogs(t)
    \/ RevokeKey(t) \/ RemoveKeypair(t)
    \/ RotateKey(t) \/ RotateGenerate(t) \/ RotateLogs(t)

Next == \E t \in Threads : InvokeAny(t) \/ Continue(t)

Spec == Init /\ [][Next]_vars

\* Goroutines are scheduled, and sync.RWMutex lets no new reader in while a writer
\* waits: a section that is possible again and again is entered.
FairSpec == Spec /\ \A t \in Threads : SF_vars(Continue(t))

-------------------------------------------------------------------------------
\* The audit log, replayed from the start, gives what the vault holds: which keys
\* are there, which are revoked, and how often each was used to encrypt.  The
\* entries that decryptions lose to each other (DecryptLogs) are never among
\* those, because no section under Lock overlaps a decryption.
Unused == [held |-> FALSE, revoked |-> FALSE, encrypts |-> 0]
After(k, e, st) ==
    CASE e.id # k -> st
      [] e.id = k /\ e.action = "keygen"     -> [st EXCEPT !.held = TRUE, !.encrypts = 0]
      [] e.id = k /\ e.action = "delete_key" -> [st EXCEPT !.held = FALSE, !.encrypts = 0]
      [] e.id = k /\ e.action = "encrypt"    -> [st EXCEPT !.encrypts = @ + 1]
      [] e.id = k /\ e.action = "revoke"     -> [st EXCEPT !.revoked = TRUE]
      [] OTHER -> st
Replay(log, k) == FoldLeft(LAMBDA st, e : After(k, e, st), Unused, log)
AuditReplays ==
    \A k \in Ids :
        Replay(auditLog, k) = [held |-> keys[k] # 0, revoked |-> k \in revoked,
                               encrypts |-> meta[k].encrypts]

\* A call made on an id already revoked changes nothing and returns, whatever the
\* goroutines do around it: no encryption, no decryption, no new key for that id
\* even after the old one is removed (104-210; the revocation list outlives the key).
RevocationHolds ==
    [][\A t \in Threads :
          /\ call[t].late /\ call[t].op \in {"generate", "encrypt", "decrypt"}
          /\ pc[t] # pc'[t]
          => pc'[t] = "idle" /\ UNCHANGED <<vault, given>>]_vars

\* Every call returns, unless the nil dereference stops the program: Encrypt and
\* RotateKey call GenerateKeypair, which takes the same lock, only once they have given
\* it up (152-157, 316-337), and no goroutine waits for one that waits for it.
EveryCallReturns ==
    \A t \in Threads : pc[t] # "idle" ~> (pc[t] = "idle" \/ panicked)

\* "Encrypt should fail on revoked key" (abirguard_test.go:109): what Encrypt
\* returns is never made with a key that is revoked by then.
RevokedNeverEncrypts == [][\A c \in given' \ given : c.id \notin revoked]_vars
===============================================================================
