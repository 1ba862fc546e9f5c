------------------------------- MODULE PyGateway -------------------------------
(***************************************************************************)
(* The Python package's vault behind its MCP server: Vault, AuditLogger    *)
(* and McpServer of __init__.py, the usage counters of rotation.py and the *)
(* integrity proof of attestation.py.                                      *)
(*                                                                         *)
(* McpHttpServer.start(blocking=True) runs serve_forever in a daemon       *)
(* thread and in the main thread (mcp_http.py:336-349), so two handlers    *)
(* share one vault and nothing locks it.  A thread's todo is what is left  *)
(* of its request; a step is one read or write of the shared state, or a   *)
(* membership test with the access it guards.  A raised exception skips to *)
(* handle's own log entry.                                                 *)
(*                                                                         *)
(* Abstractions.  A key pair is its shared secret.  A log entry is the     *)
(* number of entries before the one its prev_hash follows: entries carry   *)
(* their time, so no two hash alike.  A ciphertext is the id, the secret   *)
(* and the mode it was made with.                                          *)
(***************************************************************************)
EXTENDS Integers, Sequences, FiniteSets

CONSTANTS
    Threads,    \* threads serving requests
    Ids,        \* ids that validate_key_id accepts
    Canaries,   \* ids add_canary draws, all starting with "__"
    Secrets,    \* shared secrets that can ever be drawn (the bound)
    None,
    Limit,      \* a max_operations policy
    MaxCalls    \* requests ever accepted (the bound)

Log == "audit"   \* AuditLogger._entries, as something two threads may change at once
AllIds == Ids \union Canaries

ASSUME NoneAssumption == None \notin Secrets
ASSUME IdsAssumption == Ids \intersect Canaries = {} /\ Log \notin AllIds
ASSUME LimitAssumption == Limit \in Nat \ {0} /\ MaxCalls \in Nat

VARIABLES
    keypairs, secret_keys,   \* the two dictionaries of Vault
    canaries,                \* _canary_ids
    meta,                    \* operations counted for each id, and the policy it has
    fips,                    \* fips_mode
    proof,                   \* whether the integrity proof's signature verifies
    audit,                   \* the entries of the audit log
    todo,                    \* the steps each thread has left
    drawn,                   \* secrets already drawn
    sealed,                  \* ciphertexts ever returned
    breach,                  \* check_canary reported one (history)
    retired,                 \* secrets whose rotation completed (history)
    raced,                   \* ids (or the log) two threads were changing at once (history)
    calls

vault == <<keypairs, secret_keys, canaries, meta, fips, proof>>
history == <<breach, retired, raced>>
vars == <<vault, audit, todo, drawn, sealed, history, calls>>

NoMeta == [ops |-> 0, max |-> 0]

\* one step: what it does, to which id, with what
Do(what, k) == [do |-> what, id |-> k, with |-> None]
DoWith(what, k, x) == [do |-> what, id |-> k, with |-> x]
Note == <<Do("log", Log)>>

-------------------------------------------------------------------------------
(* The steps of the methods. *)

\* generate_keypair
Generates(k) ==
    <<Do("newpair", k), Do("newsecret", k)>> \o Note \o <<Do("register", k)>>

InPlace(k) == {keypairs[k], secret_keys[k]} \ {None}

\* _rotate_key
Mutant_RotateCounters(k) == <<Do("register", k), DoWith("rotated", k, InPlace(k))>>
Rotates(k) ==
    <<Do("dropsecret", k)>> \o Generates(k) \o <<DoWith("rotated", k, InPlace(k))>> \o Note

\* remove_keypair, which tells the rotation manager nothing
Mutant_RemovesPairOnly(k) == <<Do("droppair", k)>> \o Note
Removes(k) == <<Do("droppair", k), Do("dropsecret", k)>> \o Note

\* add_canary: the key is in place before its id counts as a canary
Mutant_PlantsFirst(c) ==
    <<Do("plant", c), Do("newpair", c), Do("newsecret", c)>> \o Note
Plants(c) == <<Do("newpair", c), Do("newsecret", c), Do("plant", c)>> \o Note

\* should_expire for a usage limit (no age limit is set)
Mutant_NeedsRotationLate(k) == meta[k].max > 0 /\ meta[k].ops > meta[k].max
NeedsRotation(k) == meta[k].max > 0 /\ meta[k].ops >= meta[k].max

\* handle's own "mcp" entry, after a result or an exception
Answer == Note

-------------------------------------------------------------------------------
Init ==
    /\ keypairs = [k \in AllIds |-> None]
    /\ secret_keys = [k \in AllIds |-> None]
    /\ canaries = {}
    /\ meta = [k \in Ids |-> NoMeta]
    /\ fips = FALSE
    /\ proof = FALSE
    /\ audit = <<>>
    /\ todo = [t \in Threads |-> <<>>]
    /\ drawn = {} /\ sealed = {}
    /\ breach = FALSE /\ retired = {} /\ raced = {}
    /\ calls = 0

Accept(t, steps) ==
    /\ todo[t] = <<>> /\ calls < MaxCalls
    /\ todo' = [todo EXCEPT ![t] = steps]
    /\ calls' = calls + 1
    /\ UNCHANGED <<vault, audit, drawn, sealed, history>>

\* list_keys, audit_log, info; also what _dispatch refuses before it does anything
Query(t) == Accept(t, Answer)

ClearCache(t) == Accept(t, Note \o Answer)
GenerateKey(t, k) == Accept(t, Generates(k) \o Answer)
DeleteKey(t, k) == Accept(t, Removes(k) \o Answer)
RotateKey(t, k) == Accept(t, Rotates(k) \o Answer)
CheckCanary(t) == Accept(t, <<Do("check", None)>> \o Answer)
FipsMode(t, enable) == Accept(t, <<DoWith("fips", None, enable)>> \o Note \o Answer)
VerifyIntegrity(t) == Accept(t, <<Do("challenge", None), Do("sign", None)>> \o Answer)

\* the keys in place when a request finds the usage limit of k reached, unless a
\* registration under way is about to restart the count
Registering(k) ==
    \E t \in Threads : \E i \in DOMAIN todo[t] : todo[t][i] = Do("register", k)
Exhausted(k) ==
    {s \in InPlace(k) : meta[k].max > 0 /\ meta[k].ops >= meta[k].max /\ ~Registering(k)}

\* Vault.store
Encrypt(t, k) ==
    Accept(t, <<Do("ensure", k), Do("rotate?", k), DoWith("seal", k, Exhausted(k))>>
                \o Note \o <<Do("usage", k)>> \o Answer)

\* Vault.retrieve
Decrypt(t, c) ==
    Accept(t, <<Do("attest", c.id), DoWith("open", c.id, c)>>
                \o Note \o <<Do("usage", c.id)>> \o Answer)

\* the embedding program calls register_key(k, max_operations=Limit)
Configure(k) ==
    /\ meta[k].max = 0
    /\ meta' = [meta EXCEPT ![k] = [ops |-> 0, max |-> Limit]]
    /\ UNCHANGED <<keypairs, secret_keys, canaries, fips, proof, audit, todo, drawn, sealed,
                   history, calls>>

-------------------------------------------------------------------------------
Doing(t, what) == todo[t] # <<>> /\ Head(todo[t]).do = what
Now(t) == Head(todo[t])
Later(t) == Tail(todo[t])

Changes(t, x) ==
    \E i \in DOMAIN todo[t] :
        /\ todo[t][i].id = x
        /\ todo[t][i].do \in {"newpair", "newsecret", "droppair", "dropsecret", "append"}

AddCanary(t, c) ==
    /\ keypairs[c] = None /\ \A u \in Threads : ~Changes(u, c)
    /\ Accept(t, Plants(c) \o Answer)

Proceed(t, steps) ==
    /\ todo' = [todo EXCEPT ![t] = steps]
    /\ raced' = raced \union {x \in Ids \union {Log} :
                                \E u \in Threads \ {t} : Changes(t, x) /\ Changes(u, x)}
    /\ UNCHANGED calls

\* an exception leaves what handle logs
Raise(t, steps) == Proceed(t, steps \o Answer)

NewPair(t) ==
    /\ Doing(t, "newpair")
    /\ \E s \in Secrets \ drawn :
          /\ drawn' = drawn \union {s}
          /\ keypairs' = [keypairs EXCEPT ![Now(t).id] = s]
          /\ Proceed(t, [Later(t) EXCEPT ![1].with = s])
    /\ UNCHANGED <<secret_keys, canaries, meta, fips, proof, audit, sealed, breach, retired>>

NewSecret(t) ==
    /\ Doing(t, "newsecret")
    /\ secret_keys' = [secret_keys EXCEPT ![Now(t).id] = Now(t).with]
    /\ Proceed(t, Later(t))
    /\ UNCHANGED <<keypairs, canaries, meta, fips, proof, audit, drawn, sealed, breach, retired>>

\* register_key with the default policy: no limit, whatever limit k had
Register(t) ==
    /\ Doing(t, "register")
    /\ meta' = [meta EXCEPT ![Now(t).id] = NoMeta]
    /\ Proceed(t, Later(t))
    /\ UNCHANGED <<keypairs, secret_keys, canaries, fips, proof, audit, drawn, sealed, breach, retired>>

Rotated(t) ==
    /\ Doing(t, "rotated")
    /\ retired' = retired \union Now(t).with
    /\ Proceed(t, Later(t))
    /\ UNCHANGED <<vault, audit, drawn, sealed, breach>>

DropPair(t) ==
    /\ Doing(t, "droppair")
    /\ keypairs' = [keypairs EXCEPT ![Now(t).id] = None]
    /\ Proceed(t, Later(t))
    /\ UNCHANGED <<secret_keys, canaries, meta, fips, proof, audit, drawn, sealed, breach, retired>>

DropSecret(t) ==
    /\ Doing(t, "dropsecret")
    /\ secret_keys' = [secret_keys EXCEPT ![Now(t).id] = None]
    /\ Proceed(t, Later(t))
    /\ UNCHANGED <<keypairs, canaries, meta, fips, proof, audit, drawn, sealed, breach, retired>>

Plant(t) ==
    /\ Doing(t, "plant")
    /\ canaries' = canaries \union {Now(t).id}
    /\ Proceed(t, Later(t))
    /\ UNCHANGED <<keypairs, secret_keys, meta, fips, proof, audit, drawn, sealed, breach, retired>>

\* check_canary
Check(t) ==
    /\ Doing(t, "check")
    /\ LET gone == \E c \in canaries : keypairs[c] = None
       IN  /\ breach' = (breach \/ gone)
           /\ Proceed(t, (IF gone THEN Note ELSE <<>>) \o Later(t))
    /\ UNCHANGED <<vault, audit, drawn, sealed, retired>>

\* store generates a missing key
Ensure(t) ==
    /\ Doing(t, "ensure")
    /\ Proceed(t, (IF keypairs[Now(t).id] = None THEN Generates(Now(t).id) ELSE <<>>) \o Later(t))
    /\ UNCHANGED <<vault, audit, drawn, sealed, breach, retired>>

RotateIfNeeded(t) ==
    /\ Doing(t, "rotate?")
    /\ Proceed(t, (IF NeedsRotation(Now(t).id) THEN Rotates(Now(t).id) ELSE <<>>) \o Later(t))
    /\ UNCHANGED <<vault, audit, drawn, sealed, breach, retired>>

SealingKey(k) == IF fips THEN secret_keys[k] ELSE keypairs[k]

\* FIPS mode seals with the raw secret and returns at once, without log or usage
Seal(t) ==
    /\ Doing(t, "seal")
    /\ LET s == SealingKey(Now(t).id)
       IN  IF s = None
           THEN Raise(t, <<>>) /\ UNCHANGED sealed
           ELSE /\ sealed' = sealed \union {[id |-> Now(t).id, secret |-> s, fips |-> fips]}
                /\ Proceed(t, IF fips THEN Answer ELSE Later(t))
    /\ UNCHANGED <<vault, audit, drawn, breach, retired>>

Usage(t) ==
    /\ Doing(t, "usage")
    /\ meta' = [meta EXCEPT ![Now(t).id].ops = @ + 1]
    /\ Proceed(t, Later(t))
    /\ UNCHANGED <<keypairs, secret_keys, canaries, fips, proof, audit, drawn, sealed, breach, retired>>

\* retrieve: the missing key, then the proof, whose failure is logged twice and swallowed
Attest(t) ==
    /\ Doing(t, "attest")
    /\ IF secret_keys[Now(t).id] = None
       THEN Raise(t, Note)
       ELSE Proceed(t, (IF proof THEN <<>> ELSE Note \o Note) \o Later(t))
    /\ UNCHANGED <<vault, audit, drawn, sealed, breach, retired>>

Open(t) ==
    /\ Doing(t, "open")
    /\ LET c == Now(t).with
       IN  IF secret_keys[c.id] = c.secret /\ fips = c.fips
           THEN Proceed(t, IF fips THEN Note \o Answer ELSE Later(t))
           ELSE Raise(t, <<>>)
    /\ UNCHANGED <<vault, audit, drawn, sealed, breach, retired>>

\* enable_fips_mode, disable_fips_mode
SetFips(t) ==
    /\ Doing(t, "fips")
    /\ fips' = Now(t).with
    /\ Proceed(t, Later(t))
    /\ UNCHANGED <<keypairs, secret_keys, canaries, meta, proof, audit, drawn, sealed, breach, retired>>

\* IntegrityProof.compute: the challenge changes before the signature does
Challenge(t) ==
    /\ Doing(t, "challenge")
    /\ proof' = FALSE
    /\ Proceed(t, Later(t))
    /\ UNCHANGED <<keypairs, secret_keys, canaries, meta, fips, audit, drawn, sealed, breach, retired>>

Sign(t) ==
    /\ Doing(t, "sign")
    /\ proof' = TRUE
    /\ Proceed(t, Later(t))
    /\ UNCHANGED <<keypairs, secret_keys, canaries, meta, fips, audit, drawn, sealed, breach, retired>>

\* AuditLogger.log: hash the last entry, then append
LogLink(t) ==
    /\ Doing(t, "log")
    /\ Proceed(t, <<DoWith("append", Log, Len(audit))>> \o Later(t))
    /\ UNCHANGED <<vault, audit, drawn, sealed, breach, retired>>

Mutant_AppendStale(log, n) == Append(log, IF n > 1 THEN n - 1 ELSE n)
Appended(log, n) == Append(log, n)

LogAppend(t) ==
    /\ Doing(t, "append")
    /\ audit' = Appended(audit, Now(t).with)
    /\ Proceed(t, Later(t))
    /\ UNCHANGED <<vault, drawn, sealed, breach, retired>>

Request(t) ==
    \/ Query(t) \/ ClearCache(t) \/ CheckCanary(t) \/ VerifyIntegrity(t)
    \/ \E enable \in BOOLEAN : FipsMode(t, enable)
    \/ \E k \in Ids : GenerateKey(t, k) \/ DeleteKey(t, k) \/ RotateKey(t, k) \/ Encrypt(t, k)
    \/ \E c \in Canaries : AddCanary(t, c)
    \/ \E c \in sealed : Decrypt(t, c)

Execute(t) ==
    \/ NewPair(t) \/ NewSecret(t) \/ Register(t) \/ Rotated(t) \/ DropPair(t) \/ DropSecret(t)
    \/ Plant(t) \/ Check(t) \/ Ensure(t) \/ RotateIfNeeded(t) \/ Seal(t) \/ Usage(t)
    \/ Attest(t) \/ Open(t) \/ SetFips(t) \/ Challenge(t) \/ Sign(t)
    \/ LogLink(t) \/ LogAppend(t)

Next ==
    \/ \E t \in Threads : Request(t) \/ Execute(t)
    \/ \E k \in Ids : Configure(k)

Spec == Init /\ [][Next]_vars

-------------------------------------------------------------------------------
(* Properties. *)

\* verify_integrity
Linked == \A i \in DOMAIN audit : audit[i] = i - 1

\* The log nobody touched verifies: verify_integrity "Returns False if tampering
\* detected" (__init__.py:110).  Two handlers that log at once violate it.
UntouchedLogVerifies == Linked

\* The hash chain breaks only where two handlers were both between reading its last
\* entry and appending (__init__.py:101-107): no other interleaving of requests makes
\* verify_integrity fail.
ChainIntact == Log \notin raced => Linked

\* What generate_keypair, _rotate_key and remove_keypair write in two dictionaries
\* (__init__.py:344-345, 361, 504-507) agrees again once they are done, so what store
\* seals retrieve can open; only two handlers changing the same id at once break it.
PairsMatch ==
    \A k \in Ids \ raced :
        (\A t \in Threads : ~Changes(t, k)) => keypairs[k] = secret_keys[k]

\* "Rotation must invalidate old keys" (tests/test_pentest.py:616): no handler brings
\* back, or goes on sealing with, a key whose rotation completed.
RotatedKeysGone ==
    \A k \in Ids \ raced : InPlace(k) \intersect retired = {}

\* No request taken while an id is at its usage limit seals with the key it found
\* there: "Usage-based: Keys expire after N operations" (rotation.py:65).
LimitRotates ==
    [][\A t \in Threads :
          (Doing(t, "seal") /\ todo'[t] # todo[t]) =>
              \/ SealingKey(Now(t).id) \notin Now(t).with
              \/ Now(t).id \in raced]_vars

\* check_canary raises no alarm while nothing touches a canary, even when it runs
\* between the steps of add_canary (tests/test_pentest.py:549).
NoFalseBreach == ~breach
===============================================================================
