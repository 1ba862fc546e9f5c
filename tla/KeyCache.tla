-------------------------------- MODULE KeyCache --------------------------------
(***************************************************************************)
(* The bounded cache of derived keys (src/performance/key_cache.rs) in     *)
(* front of Argon2id (src/kdf.rs).  A cached key is found by the hashes of *)
(* the password and the salt and by its length, but derived from the       *)
(* password read as UTF-8, so two passwords may share their bytes.         *)
(*                                                                         *)
(* Derived bytes are what they were derived from, and how many there are.  *)
(* A panic is caught by the caller, which keeps using the cache.  The hit  *)
(* and miss counters, which no operation reads, are left out.              *)
(***************************************************************************)
EXTENDS Integers, Sequences, FiniteSets, Functions, SequencesExt, Vectors

CONSTANTS
    Passwords, Salts,
    ShortSalts,    \* salts that Argon2 rejects
    Lossy,         \* String::from_utf8_lossy of each password
    Lengths,       \* output lengths that callers ask for
    KeyLength,     \* ARGON2_KEY_LENGTH
    MaxLength,     \* 64, the largest output_len that is not an error
    capacity

ASSUME SaltsAssumption    == ShortSalts \subseteq Salts
ASSUME LengthsAssumption  == Lengths \subseteq Nat /\ KeyLength \in Nat /\ MaxLength \in Nat
ASSUME CapacityAssumption == capacity \in Nat \ {0}

VARIABLES
    entries,   \* from cache keys to derived bytes
    order,     \* cache keys, oldest first
    reply      \* the last call, and what it returned

cacheVars == <<entries, order, reply>>

\* CacheKey::new
Key(p, s, n) == [password |-> p, salt |-> s, len |-> n]

\* kdf::derive_key, then the first output_len bytes; either may panic
Derives(s, n) == s \notin ShortSalts /\ n <= KeyLength
Derived(p, s, n) == [text |-> Lossy[p], salt |-> s, len |-> n]

-------------------------------------------------------------------------------
CacheInit ==
    /\ entries = <<>>
    /\ order = <<>>
    /\ reply = [call |-> "new"]

Answer(p, s, n, bytes) ==
    reply' = [call |-> "get_or_derive", password |-> p, salt |-> s, len |-> n, key |-> bytes]

Fail(why) == reply' = [call |-> why] /\ UNCHANGED <<entries, order>>

InvalidLength(n) ==
    /\ n = 0 \/ n > MaxLength
    /\ Fail("InvalidOutputLength")

Hit(p, s, n) ==
    /\ n \in 1..MaxLength
    /\ Key(p, s, n) \in DOMAIN entries
    /\ Answer(p, s, n, entries[Key(p, s, n)])
    /\ UNCHANGED <<entries, order>>

Panic(p, s, n) ==
    /\ n \in 1..MaxLength /\ Key(p, s, n) \notin DOMAIN entries
    /\ ~Derives(s, n)
    /\ Fail("panic")

Full == Cardinality(DOMAIN entries) >= capacity

Miss(p, s, n) ==
    LET k == Key(p, s, n)
        evicted == IF Full /\ order # <<>> THEN {Head(order)} ELSE {}
        kept == Restrict(entries, DOMAIN entries \ evicted)
    IN  /\ n \in 1..MaxLength /\ k \notin DOMAIN entries
        /\ Derives(s, n)
        /\ entries' = [e \in DOMAIN kept \union {k} |->
                          IF e = k THEN Derived(p, s, n) ELSE kept[e]]
        /\ order' = Append(IF evicted = {} THEN order ELSE Tail(order), k)
        /\ Answer(p, s, n, Derived(p, s, n))

Mutant_InvalidateEntryOnly(p, s, n) ==
    /\ Key(p, s, n) \in DOMAIN entries
    /\ entries' = Restrict(entries, DOMAIN entries \ {Key(p, s, n)})
    /\ reply' = [call |-> "invalidate"]
    /\ UNCHANGED order

invalidate(p, s, n) ==
    LET k == Key(p, s, n) IN
    /\ entries' = Restrict(entries, DOMAIN entries \ {k})
    /\ order' = IF k \in DOMAIN entries THEN retain(order, {k}) ELSE order
    /\ reply' = [call |-> "invalidate"]

clear ==
    /\ entries' = <<>>
    /\ order' = <<>>
    /\ reply' = [call |-> "clear"]

CacheNext ==
    \/ \E p \in Passwords, s \in Salts, n \in Lengths :
          \/ InvalidLength(n) \/ Hit(p, s, n) \/ Panic(p, s, n) \/ Miss(p, s, n)
          \/ invalidate(p, s, n)
    \/ clear

CacheSpec == CacheInit /\ [][CacheNext]_cacheVars

-------------------------------------------------------------------------------
\* The two halves of the cache, which get_or_derive, invalidate and clear each update
\* separately, list the same keys, each once: otherwise an eviction would pop a key that
\* is long gone, and the cache would outgrow its capacity (132-145, 152-166).  So whatever
\* was cached, evicted or invalidated before, a caller is given the bytes and the length
\* that a fresh derivation would give it (94-99).
CacheSound ==
    /\ ToSet(order) = DOMAIN entries
    /\ IsInjective(order)
    /\ Len(order) <= capacity
    /\ reply.call = "get_or_derive" =>
          reply.key = Derived(reply.password, reply.salt, reply.len)
===============================================================================
