-------------------------- MODULE PersistentVaultProofs --------------------------
(***************************************************************************)
(* For every set of processes, ids, passphrases, secrets and faults:       *)
(* TypeOK, SealedUnderOwner and DuplicatesCollapse.  SealedUnderOwner is   *)
(* not inductive alone: a process between its load and its save holds a    *)
(* vault that will become the file, so IInv also says what its command is. *)
(*                                                                         *)
(* For one process with one passphrase and no faults (Sequential), any ids *)
(* and secrets: KemKeysKept, NothingRefused, and that the commands are     *)
(* those of a key store (StoreImplemented), each taking effect where its   *)
(* save replaces the file.  Two processes lose each other's saves, so none *)
(* of the three holds without the hypothesis (run pv_lost_save).           *)
(***************************************************************************)
EXTENDS PersistentVault, FiniteSetTheorems, TLAPS

\* A process that is not idle has a command, with a secret unless it deletes;
\* a decryption never saves.
CommandOK ==
    \A p \in Procs :
        /\ pc[p] = "idle" => cmd[p] = NoCommand
        /\ pc[p] # "idle" => cmd[p] \in Command
        /\ cmd[p] \in Command /\ cmd[p].op # "delete" => cmd[p].secret \in Secrets
        /\ cmd[p].op = "decrypt" => pc[p] = "loaded"
        /\ pc[p] = "idle" => vault[p] = Empty

\* What every keyring is, in a file or in a process's memory: loading leaves at most
\* one entry under an id, and a command pushes at most one.
AtMostTwo(ring) == \A k \in KeyIds : Len(ring[k]) <= 2
Good(own, ring, file, pass) ==
    /\ ring \in Keyring
    /\ HoldsOnly(own, ring, file, pass)
    /\ AtMostTwo(ring)

AllGood ==
    /\ \A f \in Files : Good(owner, disk[f].keys, f, disk[f].pass)
    /\ \A p \in Procs : Good(owner, vault[p], cmd[p].file, cmd[p].pass)

IInv == TypeOK /\ CommandOK /\ AllGood

-------------------------------------------------------------------------------
(* Facts about keyrings. *)

\* The keyring a command starts from when it has loaded nothing is good.
LEMMA EmptyGood ==
    ASSUME NEW own, NEW file, NEW pass
    PROVE  Good(own, Empty, file, pass)
  BY DEF Good, Empty, Keyring, HoldsOnly, AtMostTwo

\* Importing the stored entries keeps at most one of each id.
LEMMA ReloadGood ==
    ASSUME NEW own, NEW ring, NEW file, NEW pass, Good(own, ring, file, pass)
    PROVE  /\ Good(own, Reload(ring), file, pass)
           /\ \A k \in KeyIds : Len(Reload(ring)[k]) <= 1
  <1>1. ASSUME NEW k \in KeyIds
        PROVE  /\ Reload(ring)[k] \in Seq(Secrets)
               /\ Len(Reload(ring)[k]) <= 1
               /\ \A i \in DOMAIN Reload(ring)[k] :
                     own[Reload(ring)[k][i]] = [file |-> file, id |-> k, pass |-> pass]
    <2>1. ring[k] \in Seq(Secrets)
      BY DEF Good, Keyring
    <2>2. CASE ring[k] = <<>>
      BY <2>2 DEF Reload
    <2>3. CASE ring[k] # <<>>
      <3>1. Len(ring[k]) \in DOMAIN ring[k] /\ ring[k][Len(ring[k])] \in Secrets
        BY <2>1, <2>3
      <3>2. Reload(ring)[k] = <<ring[k][Len(ring[k])]>>
        BY <2>3 DEF Reload
      <3> QED
        BY <3>1, <3>2 DEF Good, HoldsOnly
    <2> QED
      BY <2>2, <2>3
  <1>2. Reload(ring) \in Keyring
    BY <1>1 DEF Reload, Keyring
  <1>3. HoldsOnly(own, Reload(ring), file, pass)
    BY <1>1 DEF HoldsOnly
  <1>4. AtMostTwo(Reload(ring))
    <2>1. ASSUME NEW k \in KeyIds PROVE Len(Reload(ring)[k]) <= 2
      <3>1. Reload(ring)[k] \in Seq(Secrets)
        BY <1>1, Zenon
      <3>2. Len(Reload(ring)[k]) <= 1
        BY <1>1, Zenon
      <3> QED
        BY <3>1, <3>2
    <2> QED
      BY <2>1 DEF AtMostTwo
  <1> QED
    BY <1>1, <1>2, <1>3, <1>4 DEF Good

\* Adding a key where at most one stands, as generate_keypair does, leaves a
\* good keyring.
LEMMA PushGood ==
    ASSUME NEW own, NEW ring, NEW file, NEW pass, NEW k \in KeyIds, NEW s \in Secrets,
           Good(own, ring, file, pass), Len(ring[k]) <= 1,
           own[s] = [file |-> file, id |-> k, pass |-> pass]
    PROVE  Good(own, Push(ring, k, s), file, pass)
  <1>1. \A j \in KeyIds : ring[j] \in Seq(Secrets)
    BY DEF Good, Keyring
  <1>2. Push(ring, k, s) \in Keyring
    BY <1>1 DEF Push, Keyring, Good
  <1>3. \A j \in KeyIds : Push(ring, k, s)[j] = IF j = k THEN Append(ring[k], s) ELSE ring[j]
    BY DEF Push, Keyring, Good
  <1>4. HoldsOnly(own, Push(ring, k, s), file, pass)
    <2>1. ASSUME NEW j \in KeyIds, NEW i \in DOMAIN Push(ring, k, s)[j]
          PROVE  own[Push(ring, k, s)[j][i]] = [file |-> file, id |-> j, pass |-> pass]
      <3>1. CASE j # k
        BY <1>3, <3>1 DEF HoldsOnly, Good
      <3>2. CASE j = k
        <4>1. \/ i \in DOMAIN ring[k] /\ Push(ring, k, s)[j][i] = ring[k][i]
              \/ Push(ring, k, s)[j][i] = s
          <5>1. Push(ring, k, s)[j] = Append(ring[k], s) /\ ring[k] \in Seq(Secrets)
            BY <1>1, <1>3, <3>2
          <5> QED
            BY <5>1
        <4> QED
          BY <4>1, <3>2 DEF HoldsOnly, Good
      <3> QED
        BY <3>1, <3>2
    <2> QED
      BY <2>1 DEF HoldsOnly
  <1>5. AtMostTwo(Push(ring, k, s))
    <2>1. ASSUME NEW j \in KeyIds PROVE Len(Push(ring, k, s)[j]) <= 2
      <3>1. CASE j = k
        <4>1. Len(Append(ring[k], s)) = Len(ring[k]) + 1 /\ Len(ring[k]) \in Nat
          BY <1>1
        <4>2. Push(ring, k, s)[j] = Append(ring[k], s)
          BY <1>3, <3>1
        <4> QED
          BY <4>1, <4>2
      <3>2. CASE j # k
        <4>1. Push(ring, k, s)[j] = ring[j]
          BY <1>3, <3>2
        <4> QED
          BY <4>1 DEF AtMostTwo, Good
      <3> QED
        BY <3>1, <3>2
    <2> QED
      BY <2>1 DEF AtMostTwo
  <1> QED
    BY <1>2, <1>4, <1>5 DEF Good

\* Removing an id, as remove_keypair does, leaves a good keyring.
LEMMA RemoveGood ==
    ASSUME NEW own, NEW ring, NEW file, NEW pass, NEW k \in KeyIds,
           Good(own, ring, file, pass)
    PROVE  Good(own, Remove(ring, k), file, pass)
  BY DEF Good, Remove, Keyring, HoldsOnly, AtMostTwo

\* A keyring stays good as long as no secret changes hands.
LEMMA SameOwnersGood ==
    ASSUME NEW own, NEW own2, NEW ring, NEW file \in Files \union {"none"}, NEW pass,
           Good(own, ring, file, pass), file # "none" \/ ring = Empty,
           \A s \in Secrets : own[s] = Nobody \/ own2[s] = own[s]
    PROVE  Good(own2, ring, file, pass)
  <1>1. CASE ring = Empty
    BY <1>1, EmptyGood
  <1>2. CASE file # "none"
    <2>1. ASSUME NEW k \in KeyIds, NEW i \in DOMAIN ring[k]
          PROVE  own2[ring[k][i]] = [file |-> file, id |-> k, pass |-> pass]
      <3>1. own[ring[k][i]] = [file |-> file, id |-> k, pass |-> pass]
        BY DEF Good, HoldsOnly
      <3>2. [file |-> file, id |-> k, pass |-> pass].file # Nobody.file
        BY <1>2 DEF Nobody, Files
      <3>3. ring[k][i] \in Secrets
        BY DEF Good, Keyring
      <3> QED
        BY <3>1, <3>2, <3>3
    <2> QED
      BY <2>1 DEF Good, HoldsOnly
  <1> QED
    BY <1>1, <1>2

\* The number of bytes a keyring is written as is a positive number.
LEMMA SizeType ==
    ASSUME NEW ring \in Keyring, AtMostTwo(ring)
    PROVE  Size(ring) \in Nat /\ Size(ring) >= 1
  <1> DEFINE entries == UNION {{k} \X DOMAIN ring[k] : k \in KeyIds}
  <1>1. \A k \in KeyIds : DOMAIN ring[k] \subseteq 1..2
    BY DEF Keyring, AtMostTwo
  <1>2. entries \subseteq KeyIds \X (1..2)
    BY <1>1
  <1>3. IsFiniteSet(1..2)
    <2>1. 1 \in Int /\ 2 \in Int
      OBVIOUS
    <2> QED
      BY <2>1, FS_Interval, Zenon
  <1>4. IsFiniteSet(entries)
    BY <1>2, <1>3, KeyIdsAssumption, FS_Product, FS_Subset
  <1> QED
    BY <1>4, FS_CardinalityType DEF Size

\* The keyring a command loads.
LEMMA LoadGood ==
    ASSUME IInv, NEW f \in Files, NEW pass \in Passphrases
    PROVE  /\ Good(owner, Load(f, pass), f, pass)
           /\ \A k \in KeyIds : Len(Load(f, pass)[k]) <= 1
  <1>1. CASE disk[f].pass = pass
    BY <1>1, ReloadGood DEF IInv, AllGood, Load
  <1>2. CASE disk[f].pass # pass
    BY <1>2, EmptyGood DEF Load, Empty
  <1> QED
    BY <1>1, <1>2

-------------------------------------------------------------------------------
(* Steps that several actions share. *)

\* Generating gives a secret that was nobody's to the command that generates it.
LEMMA GenerateOwners ==
    ASSUME TypeOK, NEW s \in Secrets, NEW f \in Files, NEW k \in KeyIds,
           NEW pass \in Passphrases, Generate(s, f, k, pass)
    PROVE  /\ owner' \in [Secrets -> Owner \union {Nobody}]
           /\ owner'[s] = [file |-> f, id |-> k, pass |-> pass]
           /\ \A t \in Secrets : owner[t] = Nobody \/ owner'[t] = owner[t]
  BY DEF TypeOK, Generate, Generated, Owner

\* A command starts: it has loaded, and changed its copy to a good keyring.
LEMMA StartKeeps ==
    ASSUME IInv, NEW p \in Procs, NEW c \in Command,
           pc[p] = "idle",
           pc' = [pc EXCEPT ![p] = "loaded"],
           cmd' = [cmd EXCEPT ![p] = c],
           c.op # "delete" => c.secret \in Secrets,
           \A q \in Procs \ {p} : vault'[q] = vault[q],
           vault' \in [Procs -> Keyring],
           Good(owner', vault'[p], c.file, c.pass),
           owner' \in [Secrets -> Owner \union {Nobody}],
           \A s \in Secrets : owner[s] = Nobody \/ owner'[s] = owner[s],
           acked' \subseteq Key, UNCHANGED <<disk, refused>>
    PROVE  IInv'
  <1>1. TypeOK'
    BY DEF IInv, TypeOK
  <1>2. CommandOK'
    BY DEF IInv, CommandOK, TypeOK
  <1>3. ASSUME NEW f \in Files
        PROVE  Good(owner', disk'[f].keys, f, disk'[f].pass)
    BY SameOwnersGood DEF IInv, AllGood, Files
  <1>4. ASSUME NEW q \in Procs
        PROVE  Good(owner', vault'[q], cmd'[q].file, cmd'[q].pass)
    <2>1. CASE q = p
      BY <2>1 DEF IInv, TypeOK
    <2>2. CASE q # p
      <3>1. vault'[q] = vault[q] /\ cmd'[q] = cmd[q]
        BY <2>2 DEF IInv, TypeOK
      <3>2. cmd[q].file \in Files \union {"none"} /\ (cmd[q].file # "none" \/ vault[q] = Empty)
        BY DEF IInv, CommandOK, Command, NoCommand, TypeOK, Files
      <3> QED
        BY <3>1, <3>2, SameOwnersGood DEF IInv, AllGood
    <2> QED
      BY <2>1, <2>2
  <1> QED
    BY <1>1, <1>2, <1>3, <1>4 DEF IInv, AllGood

\* A command ends, having left each file with a good keyring.
LEMMA FinishKeeps ==
    ASSUME IInv, NEW p \in Procs, Finish(p), UNCHANGED owner,
           disk' \in [Files -> [pass : Passphrases \union {Sealless},
                               keys : Keyring, len : Nat]],
           \A f \in Files : Good(owner, disk'[f].keys, f, disk'[f].pass),
           acked' \subseteq Key, refused' \subseteq Key
    PROVE  IInv'
  <1>1. Empty \in Keyring
    BY DEF Empty, Keyring
  <1>2. TypeOK'
    BY <1>1 DEF IInv, TypeOK, Finish
  <1>3. CommandOK'
    <2>1. NoCommand.op # "decrypt" /\ NoCommand \notin Command
      BY DEF NoCommand, Command, Ops
    <2> QED
      BY <2>1 DEF IInv, CommandOK, TypeOK, Finish
  <1>4. ASSUME NEW q \in Procs
        PROVE  Good(owner', vault'[q], cmd'[q].file, cmd'[q].pass)
    BY EmptyGood DEF IInv, AllGood, TypeOK, Finish
  <1> QED
    BY <1>2, <1>3, <1>4 DEF IInv, AllGood

\* Acknowledging a command of CommandOK records a key.
LEMMA AcknowledgeType ==
    ASSUME IInv, NEW p \in Procs, pc[p] # "idle", Acknowledge(p)
    PROVE  acked' \subseteq Key
  <1>1. cmd[p] \in Command /\ (cmd[p].op # "delete" => cmd[p].secret \in Secrets)
    BY DEF IInv, CommandOK
  <1>2. CASE cmd[p].op = "delete"
    BY <1>2 DEF Acknowledge, IInv, TypeOK
  <1>3. CASE cmd[p].op # "delete"
    <2>1. [file |-> cmd[p].file, id |-> cmd[p].id, pass |-> cmd[p].pass,
           secret |-> cmd[p].secret] \in Key
      BY <1>1, <1>3 DEF Key, Command
    <2> QED
      BY <2>1, <1>3 DEF Acknowledge, IInv, TypeOK
  <1> QED
    BY <1>2, <1>3

\* The invariant holds when no command has run.
LEMMA InitIInv == Init => IInv
  <1> SUFFICES ASSUME Init PROVE IInv
    OBVIOUS
  <1>1. TypeOK
    BY DEF Init, TypeOK, NoFile, Empty, Keyring
  <1>2. CommandOK
    <2>1. NoCommand.op # "decrypt" /\ NoCommand \notin Command
      BY DEF NoCommand, Command, Ops
    <2> QED
      BY <2>1 DEF Init, CommandOK
  <1>3. AllGood
    BY EmptyGood DEF Init, AllGood, NoFile
  <1> QED
    BY <1>1, <1>2, <1>3 DEF IInv

\* Every step of a command, every fault and every stutter preserves it.
LEMMA NextIInv == IInv /\ [Next]_vars => IInv'
  <1> SUFFICES ASSUME IInv, [Next]_vars PROVE IInv'
    OBVIOUS
  <1>. USE DEF Files
  <1>typ. /\ vault \in [Procs -> Keyring]
          /\ acked \subseteq Key /\ refused \subseteq Key
          /\ \A q \in Procs : pc[q] # "idle" => cmd[q] \in Command
          /\ owner \in [Secrets -> Owner \union {Nobody}]
    BY DEF IInv, TypeOK, CommandOK
  <1>1. ASSUME NEW p \in Procs, NEW k \in KeyIds, NEW pass \in Passphrases,
               NEW s \in Secrets, InitKey(p, k, pass, s)
        PROVE  IInv'
    <2>1. Good(owner, Load("kem", pass), "kem", pass) /\ Len(Load("kem", pass)[k]) <= 1
      BY LoadGood
    <2>2. /\ owner' \in [Secrets -> Owner \union {Nobody}]
          /\ owner'[s] = [file |-> "kem", id |-> k, pass |-> pass]
          /\ \A t \in Secrets : owner[t] = Nobody \/ owner'[t] = owner[t]
      BY <1>1, GenerateOwners DEF InitKey, IInv
    <2>3. Good(owner', Load("kem", pass), "kem", pass)
      BY <2>1, <2>2, SameOwnersGood
    <2>4. Good(owner', Push(Load("kem", pass), k, s), "kem", pass)
      BY <2>1, <2>2, <2>3, PushGood
    <2> DEFINE c == [op |-> "init", file |-> "kem", id |-> k, pass |-> pass, secret |-> s]
    <2>5. c \in Command
      BY DEF Command, Ops
    <2>6. vault'[p] = Push(Load("kem", pass), k, s) /\ vault' \in [Procs -> Keyring]
      BY <1>1, <1>typ, <2>4 DEF InitKey, Start, Good
    <2> QED
      BY <1>1, <1>typ, <2>2, <2>4, <2>5, <2>6, StartKeeps DEF InitKey, Start, GiveUp
  <1>2. ASSUME NEW p \in Procs, NEW k \in KeyIds, NEW pass \in Passphrases,
               Encrypt(p, k, pass)
        PROVE  IInv'
    <2>1. /\ Good(owner, Load("kem", pass), "kem", pass)
          /\ Len(Load("kem", pass)[k]) <= 1
          /\ Load("kem", pass)[k] \in Seq(Secrets)
      BY LoadGood DEF Good, Keyring
    <2>2. CASE First(Load("kem", pass), k) # NoSecret
      <3>1. First(Load("kem", pass), k) \in Secrets
        BY <2>1, <2>2 DEF First
      <3>2. PICK s \in Secrets : s = First(Load("kem", pass), k)
        BY <3>1
      <3> DEFINE c == [op |-> "encrypt", file |-> "kem", id |-> k, pass |-> pass,
                       secret |-> s]
      <3>3. c \in Command
        BY DEF Command, Ops
      <3>4. /\ Start(p, "encrypt", "kem", k, pass, s, Load("kem", pass))
            /\ UNCHANGED <<owner, acked>>
        BY <1>2, <2>2, <3>2 DEF Encrypt
      <3>5. vault'[p] = Load("kem", pass) /\ vault' \in [Procs -> Keyring]
        BY <1>typ, <2>1, <3>4 DEF Start, Good
      <3> QED
        BY <1>typ, <2>1, <3>3, <3>4, <3>5, StartKeeps DEF Start
    <2>3. CASE First(Load("kem", pass), k) = NoSecret
      <3>1. PICK s \in Secrets :
               /\ Generate(s, "kem", k, pass)
               /\ Start(p, "encrypt", "kem", k, pass, s, Push(Load("kem", pass), k, s))
        BY <1>2, <2>3 DEF Encrypt
      <3>2. /\ owner' \in [Secrets -> Owner \union {Nobody}]
            /\ owner'[s] = [file |-> "kem", id |-> k, pass |-> pass]
            /\ \A t \in Secrets : owner[t] = Nobody \/ owner'[t] = owner[t]
        BY <3>1, GenerateOwners DEF IInv
      <3>3. Good(owner', Load("kem", pass), "kem", pass)
        BY <2>1, <3>2, SameOwnersGood
      <3>4. Good(owner', Push(Load("kem", pass), k, s), "kem", pass)
        BY <2>1, <3>2, <3>3, PushGood
      <3> DEFINE c == [op |-> "encrypt", file |-> "kem", id |-> k, pass |-> pass,
                       secret |-> s]
      <3>5. c \in Command
        BY DEF Command, Ops
      <3>6. vault'[p] = Push(Load("kem", pass), k, s) /\ vault' \in [Procs -> Keyring]
        BY <1>typ, <3>1, <3>4 DEF Start, Good
      <3>7. UNCHANGED acked
        BY <1>2 DEF Encrypt
      <3> QED
        BY <1>typ, <3>1, <3>2, <3>4, <3>5, <3>6, <3>7, StartKeeps DEF Start
    <2> QED
      BY <2>2, <2>3
  <1>3. ASSUME NEW p \in Procs, NEW k \in KeyIds, NEW pass \in Passphrases,
               DeleteKey(p, k, pass)
        PROVE  IInv'
    <2>1. Good(owner, Load("kem", pass), "kem", pass)
      BY LoadGood
    <2>2. Good(owner, Remove(Load("kem", pass), k), "kem", pass)
      BY <2>1, RemoveGood
    <2> DEFINE c == [op |-> "delete", file |-> "kem", id |-> k, pass |-> pass,
                     secret |-> NoSecret]
    <2>3. c \in Command
      BY DEF Command, Ops
    <2>4. vault'[p] = Remove(Load("kem", pass), k) /\ vault' \in [Procs -> Keyring]
      BY <1>3, <1>typ, <2>2 DEF DeleteKey, Start, Good
    <2> QED
      BY <1>3, <1>typ, <2>2, <2>3, <2>4, StartKeeps DEF DeleteKey, Start, GiveUp
  <1>4. ASSUME NEW p \in Procs, NEW k \in KeyIds, NEW pass \in Passphrases,
               NEW s \in Secrets, MldsaInit(p, k, pass, s)
        PROVE  IInv'
    <2>1. /\ owner' \in [Secrets -> Owner \union {Nobody}]
          /\ owner'[s] = [file |-> "dsa", id |-> k, pass |-> pass]
          /\ \A t \in Secrets : owner[t] = Nobody \/ owner'[t] = owner[t]
      BY <1>4, GenerateOwners DEF MldsaInit, IInv
    <2>2. Good(owner', Empty, "dsa", pass) /\ Len(Empty[k]) <= 1
      BY EmptyGood DEF Empty
    <2>3. Good(owner', Push(Empty, k, s), "dsa", pass)
      BY <2>1, <2>2, PushGood
    <2> DEFINE c == [op |-> "mldsa-init", file |-> "dsa", id |-> k, pass |-> pass,
                     secret |-> s]
    <2>4. c \in Command
      BY DEF Command, Ops
    <2>5. vault'[p] = Push(Empty, k, s) /\ vault' \in [Procs -> Keyring]
      BY <1>4, <1>typ, <2>3 DEF MldsaInit, Start, Good
    <2> QED
      BY <1>4, <1>typ, <2>1, <2>3, <2>4, <2>5, StartKeeps DEF MldsaInit, Start, GiveUp
  <1>5. ASSUME NEW p \in Procs, NEW a \in acked, Decrypt(p, a)
        PROVE  IInv'
    <2>1. a \in Key /\ a.file = "kem"
      BY <1>5, <1>typ DEF Decrypt
    <2>2. PICK c \in Command : c = [op |-> "decrypt", file |-> "kem", id |-> a.id,
                                   pass |-> a.pass, secret |-> a.secret]
      BY <2>1 DEF Command, Ops, Key
    <2>3. Good(owner, Load("kem", c.pass), "kem", c.pass)
      BY <2>1, <2>2, LoadGood DEF Key
    <2>4. vault'[p] = Load("kem", c.pass) /\ vault' \in [Procs -> Keyring]
      BY <1>5, <1>typ, <2>2, <2>3 DEF Decrypt, Start, Good
    <2>5. c.secret \in Secrets
      BY <2>1, <2>2 DEF Key
    <2> QED
      BY <1>5, <1>typ, <2>2, <2>3, <2>4, <2>5, StartKeeps DEF Decrypt, Start
  <1>6. ASSUME NEW p \in Procs, FinishDecrypt(p)
        PROVE  IInv'
    <2>1. refused' \subseteq Key
      BY <1>6, <1>typ DEF FinishDecrypt
    <2> QED
      BY <1>6, <1>typ, <2>1, FinishKeeps DEF FinishDecrypt, IInv, TypeOK, AllGood
  <1>7. ASSUME NEW p \in Procs, Truncate(p)
        PROVE  IInv'
    <2>1. NoFile \in [pass : Passphrases \union {Sealless}, keys : Keyring, len : Nat]
      BY DEF NoFile, Empty, Keyring
    <2>2. TypeOK'
      BY <1>7, <2>1 DEF Truncate, IInv, TypeOK
    <2>3. CommandOK'
      BY <1>7 DEF Truncate, IInv, TypeOK, CommandOK
    <2>4. AllGood'
      BY <1>7, EmptyGood DEF Truncate, IInv, TypeOK, AllGood, NoFile
    <2> QED
      BY <2>2, <2>3, <2>4 DEF IInv
  <1>8. ASSUME NEW p \in Procs, CreateFails(p)
        PROVE  IInv'
    <2>1. acked' \subseteq Key
      BY <1>8, <1>typ, AcknowledgeType DEF CreateFails, IgnoreError
    <2> QED
      BY <1>8, <1>typ, <2>1, FinishKeeps DEF CreateFails, IInv, TypeOK, AllGood
  <1>9. ASSUME NEW p \in Procs, NEW content, NEW n \in Nat,
               pc[p] # "idle", content \in {Blob(p), Torn(n)},
               disk' = [disk EXCEPT ![cmd[p].file] = content],
               acked' \subseteq Key, Finish(p), UNCHANGED <<owner, refused>>
        PROVE  IInv'
    <2>1. cmd[p].file \in Files /\ cmd[p].pass \in Passphrases
      BY <1>9, <1>typ DEF Command
    <2>2. Good(owner, vault[p], cmd[p].file, cmd[p].pass)
      BY DEF IInv, AllGood
    <2>3. Size(vault[p]) \in Nat
      BY <2>2, SizeType DEF Good
    <2>4. /\ content \in [pass : Passphrases \union {Sealless}, keys : Keyring, len : Nat]
          /\ Good(owner, content.keys, cmd[p].file, content.pass)
      <3>1. CASE content = Blob(p)
        BY <3>1, <2>1, <2>2, <2>3 DEF Blob, Good
      <3>2. CASE content = Torn(n)
        BY <3>2, EmptyGood DEF Torn, Good
      <3> QED
        BY <1>9, <3>1, <3>2
    <2>5. disk' \in [Files -> [pass : Passphrases \union {Sealless},
                              keys : Keyring, len : Nat]]
      BY <1>9, <2>1, <2>4 DEF IInv, TypeOK
    <2>6. \A f \in Files : Good(owner, disk'[f].keys, f, disk'[f].pass)
      BY <1>9, <2>1, <2>4 DEF IInv, TypeOK, AllGood
    <2> QED
      BY <1>9, <1>typ, <2>5, <2>6, FinishKeeps
  <1>10. ASSUME NEW p \in Procs, Write(p)
         PROVE  IInv'
    <2>1. cmd[p].file \in Files /\ pc[p] # "idle" /\ acked' \subseteq Key
      BY <1>10, <1>typ, AcknowledgeType DEF Write, Command
    <2>2. disk[cmd[p].file].len \in Nat
      BY <2>1 DEF IInv, TypeOK
    <2>3. PICK content \in {Blob(p), Torn(disk[cmd[p].file].len)} :
               disk' = [disk EXCEPT ![cmd[p].file] = content]
      BY <1>10 DEF Write, Overlaid
    <2> QED
      BY <1>10, <2>1, <2>2, <2>3, <1>9 DEF Write
  <1>11. ASSUME NEW p \in Procs, ShortWrite(p)
         PROVE  IInv'
    <2>1. cmd[p].file \in Files /\ pc[p] # "idle" /\ acked' \subseteq Key
      BY <1>11, <1>typ, AcknowledgeType DEF ShortWrite, Command, IgnoreError
    <2>2. disk[cmd[p].file].len \in Nat
      BY <2>1 DEF IInv, TypeOK
    <2>3. Size(vault[p]) \in Nat
      BY SizeType DEF IInv, AllGood, Good
    <2>4. PICK n \in 1..(Size(vault[p]) - 1) :
             disk' = [disk EXCEPT ![cmd[p].file] =
                        Torn(IF n > disk[cmd[p].file].len
                             THEN n ELSE disk[cmd[p].file].len)]
      BY <1>11, <2>1 DEF ShortWrite, IInv, TypeOK
    <2>5. PICK m \in Nat : disk' = [disk EXCEPT ![cmd[p].file] = Torn(m)]
      <3> DEFINE l == disk[cmd[p].file].len
      <3>1. (IF n > l THEN n ELSE l) \in Nat
        BY <2>2, <2>3
      <3> QED
        BY <2>4, <3>1, Zenon
    <2> QED
      BY <1>11, <2>1, <2>5, <1>9 DEF ShortWrite
  <1>12. ASSUME NEW p \in Procs, OrphanWrite(p) \/ Crash(p)
         PROVE  IInv'
    <2>1. acked' \subseteq Key
      BY <1>12, <1>typ, AcknowledgeType DEF OrphanWrite, Crash
    <2> QED
      BY <1>12, <1>typ, <2>1, FinishKeeps DEF OrphanWrite, Crash, IInv, TypeOK, AllGood
  <1>13. ASSUME NEW p \in Procs, ClearCache(p)
         PROVE  IInv'
    <2>1. NoFile \in [pass : Passphrases \union {Sealless}, keys : Keyring, len : Nat]
      BY DEF NoFile, Empty, Keyring
    <2>2. TypeOK'
      BY <1>13, <2>1 DEF ClearCache, IInv, TypeOK
    <2>3. CommandOK'
      BY <1>13 DEF ClearCache, IInv, TypeOK, CommandOK
    <2>4. AllGood'
      BY <1>13, EmptyGood DEF ClearCache, IInv, TypeOK, AllGood, NoFile
    <2> QED
      BY <2>2, <2>3, <2>4 DEF IInv
  <1>14. CASE UNCHANGED vars
    BY <1>14 DEF vars, IInv, TypeOK, CommandOK, AllGood
  <1> QED
    BY <1>1, <1>2, <1>3, <1>4, <1>5, <1>6, <1>7, <1>8, <1>10, <1>11, <1>12, <1>13, <1>14
       DEF Next, Step

-------------------------------------------------------------------------------
\* The command line keeps its types and its inductive invariant.
THEOREM Invariance == Spec => []IInv
  BY InitIInv, NextIInv, PTL DEF Spec

\* Every reachable state is well typed.
THEOREM TypeCorrect == Spec => []TypeOK
  <1>1. IInv => TypeOK
    BY DEF IInv
  <1> QED
    BY <1>1, Invariance, PTL

\* No overlap of invocations, crash or failed write ever puts a secret in another
\* file, under another passphrase or under another id than it was generated for.
THEOREM SealedUnderOwnerHolds == Spec => []SealedUnderOwner
  <1>1. IInv => SealedUnderOwner
    BY DEF IInv, AllGood, Good, SealedUnderOwner
  <1> QED
    BY <1>1, Invariance, PTL

\* The key file never stores more than two entries under one id.
THEOREM DuplicatesCollapseHolds == Spec => []DuplicatesCollapse
  <1>1. IInv => DuplicatesCollapse
    BY DEF IInv, AllGood, Good, AtMostTwo, DuplicatesCollapse
  <1> QED
    BY <1>1, Invariance, PTL

-------------------------------------------------------------------------------
(* One invocation at a time, one passphrase and no fault: what pv_lost_save    *)
(* refutes for two invocations holds for one.                                  *)

\* One process slot, one passphrase, and nothing that goes wrong: the conditions
\* under which the command line is used as its help text describes it.
Sequential ==
    /\ \E p : Procs = {p}
    /\ \E u : Passphrases = {u}
    /\ Faults = {}

\* The secret an id has once a keyring was written to the file and loaded again.
Newest(ring, k) == First(Reload(ring), k)

\* The file as the user sees it while process p alone runs: a save counts from the
\* moment it has begun.
Shown(p, u, k) ==
    IF pc[p] = "truncated" /\ cmd[p].file = "kem"
    THEN Newest(vault[p], k) ELSE First(Load("kem", u), k)

\* What the user relies on is shown.
Relied(p, u) ==
    \A a \in acked : a.file = "kem" => Shown(p, u, a.id) = a.secret

\* A command in flight carries the secret it is about under the id it names and, when
\* it concerns keys.enc, what is shown under every other id; what the user still
\* relies on under its id is that secret.
Carries(p, u) ==
    pc[p] # "idle" =>
        /\ Newest(vault[p], cmd[p].id) = cmd[p].secret
        /\ cmd[p].file = "kem" =>
              /\ \A k \in KeyIds \ {cmd[p].id} : Newest(vault[p], k) = Shown(p, u, k)
              /\ \A a \in acked : a.file = "kem" /\ a.id = cmd[p].id => a.secret = cmd[p].secret
        /\ cmd[p].op = "decrypt" => /\ cmd[p].file = "kem"
                                    /\ First(vault[p], cmd[p].id) = cmd[p].secret
                                    /\ Shown(p, u, cmd[p].id) = cmd[p].secret

\* A save in progress has emptied its file, and no save has lost it.
Saving(p) ==
    /\ pc[p] # "orphaned"
    /\ pc[p] = "truncated" => disk[cmd[p].file] = NoFile

Alone(p, u) == Saving(p) /\ Carries(p, u) /\ Relied(p, u) /\ refused = {}

\* What loading finds of an id is the last entry that was pushed under it.
LEMMA NewestIs ==
    ASSUME NEW ring \in Keyring, NEW k \in KeyIds
    PROVE  Newest(ring, k) = IF ring[k] = <<>> THEN NoSecret ELSE ring[k][Len(ring[k])]
  <1>1. CASE ring[k] = <<>>
    BY <1>1 DEF Newest, First, Reload
  <1>2. CASE ring[k] # <<>>
    <2>1. Reload(ring)[k] = <<ring[k][Len(ring[k])]>>
      BY <1>2 DEF Reload
    <2> QED
      BY <1>2, <2>1 DEF Newest, First
  <1> QED
    BY <1>1, <1>2

\* Pushing a key, as generate_keypair does, makes it the one its id will load, and
\* concerns no other id.
LEMMA NewestPush ==
    ASSUME NEW ring \in Keyring, NEW k \in KeyIds, NEW s \in Secrets
    PROVE  /\ Push(ring, k, s) \in Keyring
           /\ Newest(Push(ring, k, s), k) = s
           /\ \A j \in KeyIds \ {k} : Newest(Push(ring, k, s), j) = Newest(ring, j)
  <1>1. \A j \in KeyIds : ring[j] \in Seq(Secrets)
    BY DEF Keyring
  <1>2. Push(ring, k, s) \in Keyring
    BY <1>1 DEF Push, Keyring
  <1>3. \A j \in KeyIds : Push(ring, k, s)[j] = IF j = k THEN Append(ring[k], s) ELSE ring[j]
    BY DEF Push, Keyring
  <1>4. Newest(Push(ring, k, s), k) = s
    <2>1. Append(ring[k], s) # <<>> /\ Append(ring[k], s)[Len(Append(ring[k], s))] = s
      BY <1>1
    <2> QED
      BY <1>2, <1>3, <2>1, NewestIs
  <1>5. ASSUME NEW j \in KeyIds \ {k}
        PROVE  Newest(Push(ring, k, s), j) = Newest(ring, j)
    BY <1>2, <1>3, NewestIs
  <1> QED
    BY <1>2, <1>4, <1>5

\* Removing an id, as remove_keypair does, leaves it without a key, and concerns no
\* other id.
LEMMA NewestRemove ==
    ASSUME NEW ring \in Keyring, NEW k \in KeyIds
    PROVE  /\ Newest(Remove(ring, k), k) = NoSecret
           /\ \A j \in KeyIds \ {k} : Newest(Remove(ring, k), j) = Newest(ring, j)
  <1>1. Remove(ring, k) \in Keyring
    BY DEF Remove, Keyring
  <1>2. \A j \in KeyIds : Remove(ring, k)[j] = IF j = k THEN <<>> ELSE ring[j]
    BY DEF Remove, Keyring
  <1> QED
    BY <1>1, <1>2, NewestIs

\* Saving what was just loaded changes nothing.
LEMMA NewestLoaded ==
    ASSUME IInv, NEW f \in Files, NEW u \in Passphrases, NEW k \in KeyIds
    PROVE  /\ Load(f, u) \in Keyring
           /\ Newest(Load(f, u), k) = First(Load(f, u), k)
  <1>1. Load(f, u) \in Keyring /\ Len(Load(f, u)[k]) <= 1 /\ Load(f, u)[k] \in Seq(Secrets)
    BY LoadGood DEF Good, Keyring
  <1>2. CASE Load(f, u)[k] = <<>>
    BY <1>1, <1>2, NewestIs DEF First
  <1>3. CASE Load(f, u)[k] # <<>>
    <2> DEFINE entries == Load(f, u)[k]
    <2>1. /\ Len(entries) \in Nat /\ Len(entries) <= 1 /\ entries \in Seq(Secrets)
          /\ entries # <<>>
      BY <1>1, <1>3
    <2> HIDE DEF entries
    <2>2. Len(entries) # 0
      BY <2>1
    <2>3. Len(entries) = 1
      <3>1. \A n \in Nat : n <= 1 /\ n # 0 => n = 1
        OBVIOUS
      <3> QED
        BY <2>1, <2>2, <3>1, Zenon
    <2>4. Head(entries) = entries[1]
      BY <2>1
    <2> USE DEF entries
    <2> QED
      BY <1>1, <1>3, <2>3, <2>4, NewestIs DEF First
  <1> QED
    BY <1>1, <1>2, <1>3

\* The secrets a good keyring will load were generated for the ids they stand under.
LEMMA NewestOwned ==
    ASSUME NEW ring, NEW f, NEW u, Good(owner, ring, f, u), NEW k \in KeyIds,
           Newest(ring, k) # NoSecret
    PROVE  /\ Newest(ring, k) \in Secrets
           /\ owner[Newest(ring, k)] = [file |-> f, id |-> k, pass |-> u]
  <1>1. ring \in Keyring /\ ring[k] \in Seq(Secrets)
    BY DEF Good, Keyring
  <1>2. ring[k] # <<>> /\ Newest(ring, k) = ring[k][Len(ring[k])]
    BY <1>1, NewestIs
  <1>3. Len(ring[k]) \in DOMAIN ring[k] /\ ring[k][Len(ring[k])] \in Secrets
    BY <1>1, <1>2
  <1> QED
    BY <1>2, <1>3 DEF Good, HoldsOnly

\* A secret that is shown was generated for keys.enc and the id it is shown under.
LEMMA ShownOwned ==
    ASSUME IInv, NEW p, Procs = {p}, NEW u, Passphrases = {u},
           NEW k \in KeyIds, Shown(p, u, k) # NoSecret
    PROVE  /\ Shown(p, u, k) \in Secrets
           /\ owner[Shown(p, u, k)] = [file |-> "kem", id |-> k, pass |-> u]
  <1>1. CASE pc[p] = "truncated" /\ cmd[p].file = "kem"
    <2>1. cmd[p] \in Command
      BY <1>1 DEF IInv, CommandOK
    <2>2. cmd[p].pass = u
      BY <2>1 DEF Command
    <2>3. Good(owner, vault[p], "kem", u)
      BY <1>1, <2>2 DEF IInv, AllGood
    <2> QED
      BY <1>1, <2>3, NewestOwned DEF Shown
  <1>2. CASE ~(pc[p] = "truncated" /\ cmd[p].file = "kem")
    <2>1. "kem" \in Files
      BY DEF Files
    <2>2. Good(owner, Load("kem", u), "kem", u)
      BY <2>1, LoadGood
    <2>3. Newest(Load("kem", u), k) = First(Load("kem", u), k)
      BY <2>1, NewestLoaded
    <2> QED
      BY <1>2, <2>2, <2>3, NewestOwned DEF Shown
  <1> QED
    BY <1>1, <1>2


\* The invariant holds before the first command.
LEMMA InitAlone ==
    ASSUME NEW p, Procs = {p}, NEW u, Init
    PROVE  Alone(p, u)
  BY DEF Init, Alone, Saving, Carries, Relied, NoFile

\* A command starts: nothing shown changes, and its vault carries what it is about.
LEMMA StartAlone ==
    ASSUME IInv, NEW p, Procs = {p}, NEW u, Passphrases = {u}, Alone(p, u),
           NEW c \in Command, NEW ring,
           Start(p, c.op, c.file, c.id, c.pass, c.secret, ring),
           acked' \subseteq acked,
           Newest(ring, c.id) = c.secret,
           c.file = "kem" =>
              /\ \A k \in KeyIds \ {c.id} : Newest(ring, k) = First(Load("kem", u), k)
              /\ \A a \in acked' : a.file = "kem" /\ a.id = c.id => a.secret = c.secret,
           c.op = "decrypt" => /\ c.file = "kem"
                               /\ ring = Load("kem", u) /\ First(ring, c.id) = c.secret
    PROVE  Alone(p, u)' /\ \A k \in KeyIds : Shown(p, u, k)' = Shown(p, u, k)
  <1>1. /\ p \in Procs /\ pc \in [Procs -> {"idle", "loaded", "truncated", "orphaned"}]
        /\ cmd \in [Procs -> Command \union {NoCommand}] /\ vault \in [Procs -> Keyring]
        /\ acked \subseteq Key
    BY DEF IInv, TypeOK
  <1>2. /\ pc[p] = "idle" /\ pc'[p] = "loaded" /\ vault'[p] = ring
        /\ disk' = disk /\ refused' = refused
    BY <1>1 DEF Start
  <1>3. cmd'[p] = c
    <2>1. c = [op |-> c.op, file |-> c.file, id |-> c.id, pass |-> c.pass, secret |-> c.secret]
      BY DEF Command
    <2> QED
      BY <1>1, <2>1 DEF Start
  <1>4. \A k \in KeyIds : /\ Shown(p, u, k) = First(Load("kem", u), k)
                          /\ Shown(p, u, k)' = First(Load("kem", u), k)
    BY <1>2 DEF Shown, Load
  <1>5. Saving(p)'
    BY <1>2 DEF Saving
  <1>6. Carries(p, u)'
    <2>1. c.id \in KeyIds
      BY DEF Command
    <2>2. Newest(vault[p], cmd[p].id)' = c.secret
      BY <1>2, <1>3 DEF Newest, First, Reload
    <2>3. ASSUME NEW k \in KeyIds \ {c.id}, c.file = "kem"
          PROVE  Newest(vault[p], k)' = Shown(p, u, k)'
      BY <1>2, <1>4, <2>3 DEF Newest, First, Reload
    <2>4. c.op = "decrypt" => /\ c.file = "kem" /\ First(vault[p], c.id)' = c.secret
                              /\ Shown(p, u, c.id)' = c.secret
      BY <1>2, <1>4, <2>1 DEF First
    <2> QED
      BY <1>3, <2>1, <2>2, <2>3, <2>4 DEF Carries, First
  <1>7. Relied(p, u)'
    BY <1>1, <1>4 DEF Relied, Alone, Key
  <1> QED
    BY <1>2, <1>4, <1>5, <1>6, <1>7 DEF Alone

\* Each command's first step keeps the invariant and changes nothing that is shown.
LEMMA CommandsAlone ==
    ASSUME IInv, NEW p, Procs = {p}, NEW u, Passphrases = {u}, Alone(p, u),
           \/ \E k \in KeyIds, s \in Secrets : InitKey(p, k, u, s) \/ MldsaInit(p, k, u, s)
           \/ \E k \in KeyIds : Encrypt(p, k, u) \/ DeleteKey(p, k, u)
           \/ \E a \in acked : Decrypt(p, a)
    PROVE  Alone(p, u)' /\ \A k \in KeyIds : Shown(p, u, k)' = Shown(p, u, k)
  <1> DEFINE ring == Load("kem", u)
             Goal == Alone(p, u)' /\ \A k \in KeyIds : Shown(p, u, k)' = Shown(p, u, k)
  <1>1. /\ "kem" \in Files /\ "dsa" \in Files /\ u \in Passphrases
        /\ acked \subseteq Key
    BY DEF Files, IInv, TypeOK
  <1>2. \A k \in KeyIds : ring \in Keyring /\ Newest(ring, k) = First(ring, k)
    BY <1>1, NewestLoaded
  <1>3. ASSUME NEW k \in KeyIds, NEW s \in Secrets, InitKey(p, k, u, s) PROVE Goal
    <2> DEFINE c == [op |-> "init", file |-> "kem", id |-> k, pass |-> u, secret |-> s]
    <2>1. c \in Command
      BY <1>1 DEF Command, Ops
    <2>2. /\ Start(p, c.op, c.file, c.id, c.pass, c.secret, Push(ring, k, s))
          /\ acked' \subseteq acked
          /\ \A a \in acked' : ~(a.file = "kem" /\ a.id = k)
      BY <1>1, <1>3 DEF InitKey, GiveUp, Key
    <2>3. /\ Newest(Push(ring, k, s), k) = s
          /\ \A j \in KeyIds \ {k} : Newest(Push(ring, k, s), j) = First(ring, j)
      BY <1>2, NewestPush
    <2> QED
      BY <2>1, <2>2, <2>3, StartAlone
  <1>4. ASSUME NEW k \in KeyIds, NEW s \in Secrets, MldsaInit(p, k, u, s) PROVE Goal
    <2> DEFINE c == [op |-> "mldsa-init", file |-> "dsa", id |-> k, pass |-> u, secret |-> s]
    <2>1. c \in Command
      BY <1>1 DEF Command, Ops
    <2>2. /\ Start(p, c.op, c.file, c.id, c.pass, c.secret, Push(Empty, k, s))
          /\ acked' \subseteq acked
      BY <1>1, <1>4 DEF MldsaInit, GiveUp, Key
    <2>3. Empty \in Keyring
      BY DEF Empty, Keyring
    <2>4. Newest(Push(Empty, k, s), k) = s
      BY <2>3, NewestPush
    <2> QED
      BY <2>1, <2>2, <2>4, StartAlone
  <1>5. ASSUME NEW k \in KeyIds, Encrypt(p, k, u) PROVE Goal
    <2>0. /\ \A a \in acked : a.file = "kem" /\ a.id = k => a.secret = First(ring, k)
          /\ NoSecret \notin Secrets
      <3>1. pc[p] = "idle"
        BY <1>5 DEF Encrypt, Start
      <3> QED
        BY <3>1, NoSecretAssumption DEF Alone, Relied, Shown
    <2>1. CASE First(ring, k) # NoSecret
      <3> DEFINE c == [op |-> "encrypt", file |-> "kem", id |-> k, pass |-> u,
                       secret |-> First(ring, k)]
      <3>1. First(ring, k) \in Secrets
        <4>1. ring[k] \in Seq(Secrets)
          BY <1>2 DEF Keyring
        <4> QED
          BY <2>1, <4>1 DEF First
      <3>2. c \in Command
        BY <1>1, <3>1 DEF Command, Ops
      <3>3. Start(p, c.op, c.file, c.id, c.pass, c.secret, ring) /\ acked' = acked
        BY <1>5, <2>1 DEF Encrypt
      <3> QED
        BY <1>2, <2>0, <3>2, <3>3, StartAlone
    <2>2. CASE First(ring, k) = NoSecret
      <3>1. PICK s \in Secrets : Start(p, "encrypt", "kem", k, u, s, Push(ring, k, s))
        BY <1>5, <2>2 DEF Encrypt
      <3> DEFINE c == [op |-> "encrypt", file |-> "kem", id |-> k, pass |-> u, secret |-> s]
      <3>2. c \in Command
        BY <1>1 DEF Command, Ops
      <3>3. Start(p, c.op, c.file, c.id, c.pass, c.secret, Push(ring, k, s)) /\ acked' = acked
        BY <1>5, <3>1 DEF Encrypt
      <3>4. /\ Newest(Push(ring, k, s), k) = s
            /\ \A j \in KeyIds \ {k} : Newest(Push(ring, k, s), j) = First(ring, j)
        BY <1>2, NewestPush
      <3>5. \A a \in acked' : ~(a.file = "kem" /\ a.id = k)
        BY <1>1, <2>0, <2>2, <3>3 DEF Key
      <3> QED
        BY <3>2, <3>3, <3>4, <3>5, StartAlone
    <2> QED
      BY <2>1, <2>2
  <1>6. ASSUME NEW k \in KeyIds, DeleteKey(p, k, u) PROVE Goal
    <2> DEFINE c == [op |-> "delete", file |-> "kem", id |-> k, pass |-> u, secret |-> NoSecret]
    <2>1. c \in Command
      BY <1>1 DEF Command, Ops
    <2>2. /\ Start(p, c.op, c.file, c.id, c.pass, c.secret, Remove(ring, k))
          /\ acked' \subseteq acked
          /\ \A a \in acked' : ~(a.file = "kem" /\ a.id = k)
      BY <1>1, <1>6 DEF DeleteKey, GiveUp, Key
    <2>3. /\ Newest(Remove(ring, k), k) = NoSecret
          /\ \A j \in KeyIds \ {k} : Newest(Remove(ring, k), j) = First(ring, j)
      BY <1>2, NewestRemove
    <2> QED
      BY <2>1, <2>2, <2>3, StartAlone
  <1>7. ASSUME NEW a \in acked, Decrypt(p, a) PROVE Goal
    <2> DEFINE c == [op |-> "decrypt", file |-> "kem", id |-> a.id, pass |-> u,
                     secret |-> a.secret]
    <2>1. a \in Key /\ a.file = "kem" /\ a.pass = u /\ pc[p] = "idle"
      BY <1>1, <1>7 DEF Decrypt, Key, Start
    <2>2. c \in Command
      BY <1>1, <2>1 DEF Command, Ops, Key
    <2>3. Start(p, c.op, c.file, c.id, c.pass, c.secret, ring) /\ acked' = acked
      BY <1>7, <2>1 DEF Decrypt
    <2>4. \A b \in acked : b.file = "kem" /\ b.id = a.id => b.secret = a.secret
      BY <2>1 DEF Alone, Relied
    <2>5. First(ring, a.id) = a.secret
      BY <2>1 DEF Alone, Relied, Shown
    <2>6. a.id \in KeyIds
      BY <2>1 DEF Key
    <2> QED
      BY <1>2, <2>2, <2>3, <2>4, <2>5, <2>6, StartAlone
  <1> QED
    BY <1>3, <1>4, <1>5, <1>6, <1>7

\* Where the single process is, and the types of what it works on.
LEMMA AloneTypes ==
    ASSUME IInv, NEW p, Procs = {p}, NEW u, Passphrases = {u}
    PROVE  /\ p \in Procs
           /\ pc \in [Procs -> {"idle", "loaded", "truncated", "orphaned"}]
           /\ cmd \in [Procs -> Command \union {NoCommand}]
           /\ vault \in [Procs -> Keyring]
           /\ acked \subseteq Key
           /\ \A a \in acked : a.pass = u /\ a.id \in KeyIds
           /\ pc[p] # "idle" => /\ cmd[p] \in Command /\ cmd[p].id \in KeyIds
                                /\ cmd[p].pass = u /\ cmd[p].file \in Files
           /\ DOMAIN disk = Files
  BY DEF IInv, TypeOK, CommandOK, Command, Key

\* A decryption ends: its secret is found, so nothing is refused and nothing changes.
LEMMA FinishDecryptAlone ==
    ASSUME IInv, NEW p, Procs = {p}, NEW u, Passphrases = {u}, Alone(p, u),
           FinishDecrypt(p)
    PROVE  Alone(p, u)' /\ \A k \in KeyIds : Shown(p, u, k)' = Shown(p, u, k)
  <1>1. /\ cmd[p].id \in KeyIds /\ cmd[p].secret \in Secrets
        /\ First(vault[p], cmd[p].id) = cmd[p].secret
        /\ pc[p] = "loaded"
    BY AloneTypes DEF FinishDecrypt, Alone, Carries, IInv, CommandOK
  <1> DEFINE again == Load("kem", cmd[p].pass)
             merged == [k \in KeyIds |->
                           IF vault[p][k] # <<>> THEN vault[p][k] ELSE again[k]]
  <1>2. vault[p][cmd[p].id] # <<>>
    BY <1>1, NoSecretAssumption DEF First
  <1>3. merged[cmd[p].id] = vault[p][cmd[p].id]
    BY <1>1, <1>2
  <1>4. First(merged, cmd[p].id) = cmd[p].secret
    BY <1>1, <1>3 DEF First
  <1>5. refused' = refused /\ disk' = disk /\ acked' = acked /\ pc'[p] = "idle"
    BY <1>4, AloneTypes DEF FinishDecrypt, Finish
  <1>6. \A k \in KeyIds : Shown(p, u, k)' = Shown(p, u, k)
    BY <1>1, <1>5 DEF Shown, Load
  <1>7. Relied(p, u)'
    BY <1>5, <1>6, AloneTypes DEF Relied, Alone
  <1> QED
    BY <1>5, <1>6, <1>7 DEF Alone, Saving, Carries

\* A save begins: a command on keys.enc takes effect under the id it names and no
\* other, one on mldsa_keys.enc is not seen in keys.enc.
LEMMA TruncateAlone ==
    ASSUME IInv, NEW p, Procs = {p}, NEW u, Passphrases = {u}, Alone(p, u), Truncate(p)
    PROVE  /\ Alone(p, u)'
           /\ \A k \in KeyIds : Shown(p, u, k)' =
                 IF cmd[p].file = "kem" /\ k = cmd[p].id THEN cmd[p].secret
                 ELSE Shown(p, u, k)
  <1>1. /\ pc[p] = "loaded" /\ cmd[p].op # "decrypt" /\ pc'[p] = "truncated"
        /\ disk' = [disk EXCEPT ![cmd[p].file] = NoFile]
        /\ UNCHANGED <<cmd, vault, acked, refused>>
    BY AloneTypes DEF Truncate
  <1>2. cmd[p].id \in KeyIds /\ cmd[p].file \in Files
    BY <1>1, AloneTypes
  <1>3. ASSUME NEW k \in KeyIds
        PROVE  Shown(p, u, k)' = IF cmd[p].file = "kem" /\ k = cmd[p].id THEN cmd[p].secret
                                 ELSE Shown(p, u, k)
    <2>1. CASE cmd[p].file = "kem"
      <3>1. Shown(p, u, k)' = Newest(vault[p], k)
        BY <1>1, <2>1 DEF Shown, Newest, First, Reload
      <3> QED
        BY <1>1, <2>1, <3>1 DEF Alone, Carries
    <2>2. CASE cmd[p].file # "kem"
      <3>1. disk'["kem"] = disk["kem"]
        BY <1>1, <2>2, AloneTypes DEF Files
      <3> QED
        BY <1>1, <2>2, <3>1 DEF Shown, Load
    <2> QED
      BY <2>1, <2>2
  <1>4. Saving(p)'
    BY <1>1, <1>2, AloneTypes DEF Saving
  <1>5. Carries(p, u)'
    <2>1. Newest(vault[p], cmd[p].id)' = Newest(vault[p], cmd[p].id)
      BY <1>1
    <2>2. ASSUME NEW k \in KeyIds \ {cmd[p].id}, cmd[p].file = "kem"
          PROVE  Newest(vault[p], k)' = Shown(p, u, k)'
      <3>1. Newest(vault[p], k)' = Newest(vault[p], k)
        BY <1>1
      <3> QED
        BY <1>1, <1>3, <2>2, <3>1 DEF Alone, Carries
    <2> QED
      BY <1>1, <2>1, <2>2 DEF Alone, Carries
  <1>6. Relied(p, u)'
    <2>1. ASSUME NEW a \in acked, a.file = "kem" PROVE Shown(p, u, a.id)' = a.secret
      <3>1. a.id \in KeyIds /\ Shown(p, u, a.id) = a.secret
        BY <2>1, AloneTypes DEF Alone, Relied
      <3>2. cmd[p].file = "kem" /\ a.id = cmd[p].id => a.secret = cmd[p].secret
        BY <1>1, <2>1 DEF Alone, Carries
      <3> QED
        BY <1>3, <3>1, <3>2
    <2> QED
      BY <1>1, <2>1 DEF Relied
  <1> QED
    BY <1>1, <1>3, <1>4, <1>5, <1>6 DEF Alone

\* A save ends: the file holds the whole blob, which shows what the save promised, and
\* the key it acknowledges is shown.
LEMMA WriteAlone ==
    ASSUME IInv, NEW p, Procs = {p}, NEW u, Passphrases = {u}, Alone(p, u), Write(p)
    PROVE  Alone(p, u)' /\ \A k \in KeyIds : Shown(p, u, k)' = Shown(p, u, k)
  <1>1. /\ pc[p] = "truncated" /\ pc'[p] = "idle" /\ refused' = refused /\ refused = {}
        /\ Acknowledge(p)
    BY AloneTypes DEF Write, Finish, Alone
  <1>2. /\ cmd[p].id \in KeyIds /\ cmd[p].file \in Files /\ cmd[p].pass = u
        /\ disk[cmd[p].file] = NoFile
    BY <1>1, AloneTypes DEF Alone, Saving
  <1>3. Size(vault[p]) \in Nat /\ Size(vault[p]) >= 1
    BY SizeType, AloneTypes DEF IInv, AllGood, Good
  <1>4. disk' = [disk EXCEPT ![cmd[p].file] = Blob(p)]
    <2>1. PICK content \in Overlaid(0, Blob(p)) :
             disk' = [disk EXCEPT ![cmd[p].file] = content]
      <3>1. disk[cmd[p].file].len = 0
        BY <1>2 DEF NoFile
      <3>2. \E content \in Overlaid(disk[cmd[p].file].len, Blob(p)) :
               disk' = [disk EXCEPT ![cmd[p].file] = content]
        BY DEF Write
      <3> QED
        BY <3>1, <3>2, Zenon
    <2>2. content = Blob(p)
      BY <1>3, <2>1 DEF Overlaid, Blob
    <2> QED
      BY <2>1, <2>2
  <1>5. ASSUME NEW k \in KeyIds PROVE Shown(p, u, k)' = Shown(p, u, k)
    <2>1. CASE cmd[p].file = "kem"
      <3>1. disk'["kem"] = Blob(p)
        BY <1>4, <2>1, AloneTypes DEF Files
      <3>2. Load("kem", u)' = Reload(vault[p])
        BY <1>2, <3>1 DEF Load, Blob, Reload
      <3>3. First(Load("kem", u), k)' = First(Reload(vault[p]), k)
        BY <3>2 DEF First
      <3> QED
        BY <1>1, <2>1, <3>3 DEF Shown, Newest
    <2>2. CASE cmd[p].file # "kem"
      <3>1. disk'["kem"] = disk["kem"]
        BY <1>4, <2>2, AloneTypes DEF Files
      <3> QED
        BY <1>1, <2>2, <3>1 DEF Shown, Load
    <2> QED
      BY <2>1, <2>2
  <1>6. Relied(p, u)'
    <2> DEFINE key == [file |-> cmd[p].file, id |-> cmd[p].id, pass |-> cmd[p].pass,
                       secret |-> cmd[p].secret]
    <2>1. acked' \subseteq acked \union {key}
      BY <1>1 DEF Acknowledge
    <2>2. ASSUME NEW a \in acked', a.file = "kem" PROVE Shown(p, u, a.id)' = a.secret
      <3>1. CASE a \in acked
        <4>1. a.id \in KeyIds /\ Shown(p, u, a.id) = a.secret
          BY <2>2, <3>1, AloneTypes DEF Alone, Relied
        <4> QED
          BY <1>5, <4>1
      <3>2. CASE a = key
        <4>1. Shown(p, u, cmd[p].id) = cmd[p].secret
          BY <1>1, <2>2, <3>2 DEF Shown, Alone, Carries
        <4> QED
          BY <1>2, <1>5, <3>2, <4>1
      <3> QED
        BY <2>1, <2>2, <3>1, <3>2
    <2> QED
      BY <2>2 DEF Relied
  <1> QED
    BY <1>1, <1>5, <1>6 DEF Alone, Saving, Carries

\* clear-cache: the user gives up every key, and none is shown.
LEMMA ClearAlone ==
    ASSUME IInv, NEW p, Procs = {p}, NEW u, Passphrases = {u}, Alone(p, u), ClearCache(p)
    PROVE  Alone(p, u)' /\ \A k \in KeyIds : Shown(p, u, k)' = NoSecret
  <1>1. /\ pc'[p] = "idle" /\ disk' = [f \in Files |-> NoFile] /\ acked' = {}
        /\ refused' = refused /\ refused = {}
    BY AloneTypes DEF ClearCache, Alone
  <1>2. \A k \in KeyIds : First(Load("kem", u), k)' = NoSecret
    BY <1>1 DEF Files, NoFile, Load, Reload, Empty, First
  <1> QED
    BY <1>1, <1>2 DEF Alone, Saving, Carries, Relied, Shown

\* With one process and no faults, a step is one of these.
LEMMA SequentialStep ==
    ASSUME IInv, NEW p, Procs = {p}, NEW u, Passphrases = {u}, Faults = {}, Alone(p, u), Next
    PROVE  \/ \E k \in KeyIds, s \in Secrets : InitKey(p, k, u, s) \/ MldsaInit(p, k, u, s)
           \/ \E k \in KeyIds : Encrypt(p, k, u) \/ DeleteKey(p, k, u)
           \/ \E a \in acked : Decrypt(p, a)
           \/ FinishDecrypt(p) \/ Truncate(p) \/ Write(p) \/ ClearCache(p)
  <1>1. ~CreateFails(p) /\ ~ShortWrite(p) /\ ~Crash(p)
    BY DEF CreateFails, ShortWrite, Crash
  <1>2. ~OrphanWrite(p)
    BY DEF OrphanWrite, Alone, Saving
  <1>3. Step(p)
    BY DEF Next
  <1> QED
    BY <1>1, <1>2, <1>3 DEF Step

\* Every step of the single process preserves the invariant.
LEMMA NextAlone ==
    ASSUME IInv, NEW p, Procs = {p}, NEW u, Passphrases = {u}, Faults = {}, Alone(p, u),
           [Next]_vars
    PROVE  Alone(p, u)'
  <1>1. CASE Next
    BY <1>1, SequentialStep, CommandsAlone, FinishDecryptAlone, TruncateAlone, WriteAlone,
       ClearAlone
  <1>2. CASE UNCHANGED vars
    BY <1>2, SMTT(30) DEF vars, Alone, Saving, Carries, Relied, Shown, Newest, First, Load, Reload
  <1> QED
    BY <1>1, <1>2

\* One invocation at a time: the invariant holds in every state.
LEMMA SequentialInvariance ==
    ASSUME NEW p, Procs = {p}, NEW u, Passphrases = {u}, Faults = {}
    PROVE  Spec => [](IInv /\ Alone(p, u))
  <1>1. Init => IInv /\ Alone(p, u)
    BY InitIInv, InitAlone
  <1>2. IInv /\ Alone(p, u) /\ [Next]_vars => (IInv /\ Alone(p, u))'
    BY NextIInv, NextAlone
  <1> QED
    BY <1>1, <1>2, PTL DEF Spec

\* Run one at a time, under one passphrase and without faults, the commands keep
\* every key they reported saved until the user replaces, deletes or clears it.
THEOREM KemKeysKeptHolds ==
    ASSUME Sequential
    PROVE  Spec => []KemKeysKept
  <1>1. PICK p : Procs = {p}
    BY DEF Sequential
  <1>2. PICK u : Passphrases = {u}
    BY DEF Sequential
  <1>3. Faults = {}
    BY DEF Sequential
  <1>4. ASSUME IInv, Alone(p, u) PROVE KemKeysKept
    <2>1. \A a \in acked : a.pass = u
      BY <1>1, <1>2, <1>4, AloneTypes
    <2> QED
      BY <1>1, <1>4, <2>1 DEF KemKeysKept, Effective, Alone, Relied, Shown
  <1>5. Spec => [](IInv /\ Alone(p, u))
    BY <1>1, <1>2, <1>3, SequentialInvariance
  <1> QED
    BY <1>4, <1>5, PTL

\* Run one at a time, under one passphrase and without faults, `decrypt` opens every
\* ciphertext whose key the user still relies on.
THEOREM NothingRefusedHolds ==
    ASSUME Sequential
    PROVE  Spec => []NothingRefused
  <1>1. PICK p : Procs = {p}
    BY DEF Sequential
  <1>2. PICK u : Passphrases = {u}
    BY DEF Sequential
  <1>3. Faults = {}
    BY DEF Sequential
  <1>4. Alone(p, u) => NothingRefused
    BY DEF Alone, NothingRefused
  <1>5. Spec => [](IInv /\ Alone(p, u))
    BY <1>1, <1>2, <1>3, SequentialInvariance
  <1> QED
    BY <1>4, <1>5, PTL

-------------------------------------------------------------------------------
(* The command line, run one at a time, implements KeyStore. *)

\* The secrets generated for keys.enc, and KeyStore's retired ones among them.
KemMade == {s \in Generated : owner[s].file = "kem"}
Retired == KemMade \ (Uncommitted \union {Saved(User)[k] : k \in KeyIds})

\* What the refinement mapping shows, and what it takes as not yet committed, is said
\* by the one process.
LEMMA MappingIs ==
    ASSUME NEW p, Procs = {p}, NEW u, Passphrases = {u}
    PROVE  /\ Saved(User) = [k \in KeyIds |-> Shown(p, u, k)]
           /\ Saved(User)' = [k \in KeyIds |-> Shown(p, u, k)']
           /\ Uncommitted = IF pc[p] = "loaded" THEN {cmd[p].secret} ELSE {}
           /\ Uncommitted' = IF pc'[p] = "loaded" THEN {cmd'[p].secret} ELSE {}
  <1>1. User = u
    BY DEF User
  <1>2. Saved(u) = [k \in KeyIds |-> Shown(p, u, k)]
    <2>1. CASE pc[p] = "truncated" /\ cmd[p].file = "kem"
      <3>1. {q \in Procs : pc[q] = "truncated" /\ cmd[q].file = "kem"} = {p}
        BY <2>1
      <3>2. (CHOOSE q \in {p} : TRUE) = p
        OBVIOUS
      <3> QED
        BY <2>1, <3>1, <3>2 DEF Saved, Shown, Newest
    <2>2. CASE ~(pc[p] = "truncated" /\ cmd[p].file = "kem")
      <3>1. {q \in Procs : pc[q] = "truncated" /\ cmd[q].file = "kem"} = {}
        BY <2>2
      <3> QED
        BY <2>2, <3>1 DEF Saved, Shown
    <2> QED
      BY <2>1, <2>2
  <1>3. Saved(u)' = [k \in KeyIds |-> Shown(p, u, k)']
    <2>1. CASE pc'[p] = "truncated" /\ cmd'[p].file = "kem"
      <3>1. {q \in Procs : pc'[q] = "truncated" /\ cmd'[q].file = "kem"} = {p}
        BY <2>1
      <3>2. (CHOOSE q \in {p} : TRUE) = p
        OBVIOUS
      <3> QED
        BY <2>1, <3>1, <3>2 DEF Saved, Shown, Newest
    <2>2. CASE ~(pc'[p] = "truncated" /\ cmd'[p].file = "kem")
      <3>1. {q \in Procs : pc'[q] = "truncated" /\ cmd'[q].file = "kem"} = {}
        BY <2>2
      <3> QED
        BY <2>2, <3>1 DEF Saved, Shown
    <2> QED
      BY <2>1, <2>2
  <1>4. /\ Uncommitted = IF pc[p] = "loaded" THEN {cmd[p].secret} ELSE {}
        /\ Uncommitted' = IF pc'[p] = "loaded" THEN {cmd'[p].secret} ELSE {}
    BY DEF Uncommitted
  <1> QED
    BY <1>1, <1>2, <1>3, <1>4

\* What generating a key pair adds to the secrets made for keys.enc.
LEMMA GenerateMade ==
    ASSUME TypeOK, NEW s \in Secrets, NEW f, NEW k, NEW u, Generate(s, f, k, u)
    PROVE  /\ s \notin KemMade
           /\ KemMade' \in {KemMade, KemMade \union {s}}
  <1>1. s \notin Generated /\ owner \in [Secrets -> Owner \union {Nobody}]
    BY DEF Generate, TypeOK
  <1>2. owner' = [owner EXCEPT ![s] = [file |-> f, id |-> k, pass |-> u]]
    BY DEF Generate
  <1>3. owner[s] = Nobody
    BY <1>1 DEF Generated
  <1>4. \A t \in Secrets \ {s} : owner'[t] = owner[t]
    BY <1>1, <1>2
  <1>5. s \notin KemMade
    BY <1>1 DEF KemMade
  <1>6. \A t \in Secrets \ {s} : t \in KemMade' <=> t \in KemMade
    BY <1>4 DEF KemMade, Generated
  <1>7. KemMade \subseteq Secrets /\ KemMade' \subseteq Secrets
    BY DEF KemMade, Generated
  <1> QED
    BY <1>5, <1>6, <1>7

\* A command that starts is not seen in the map: it commits nothing.
LEMMA CommandsSilent ==
    ASSUME IInv, NEW p, Procs = {p}, NEW u, Passphrases = {u}, Alone(p, u),
           \/ \E k \in KeyIds, s \in Secrets : InitKey(p, k, u, s) \/ MldsaInit(p, k, u, s)
           \/ \E k \in KeyIds : Encrypt(p, k, u) \/ DeleteKey(p, k, u)
           \/ \E a \in acked : Decrypt(p, a)
    PROVE  Saved(User)' = Saved(User) /\ Retired' = Retired
  <1> DEFINE H == {Shown(p, u, k) : k \in KeyIds}
  <1>1. \A k \in KeyIds : Shown(p, u, k)' = Shown(p, u, k)
    BY CommandsAlone
  <1>2. Saved(User)' = Saved(User) /\ {Saved(User)[k] : k \in KeyIds} = H
    BY <1>1, MappingIs
  <1>3. TypeOK /\ KemMade \subseteq Secrets /\ NoSecret \notin Secrets
    BY NoSecretAssumption DEF IInv, KemMade, Generated
  <1>4. ASSUME NEW sec, pc[p] = "idle", pc'[p] = "loaded", cmd'[p].secret = sec,
               KemMade' \in {KemMade, KemMade \union {sec}},
               sec \in KemMade => sec \in H
        PROVE  Retired' = Retired
    <2>1. Uncommitted = {} /\ Uncommitted' = {sec}
      BY <1>4, MappingIs
    <2>2. Retired = KemMade \ H /\ Retired' = KemMade' \ ({sec} \union H)
      BY <1>2, <2>1 DEF Retired
    <2> HIDE DEF H
    <2> QED
      BY <1>4, <2>2
  <1>5. ASSUME NEW op, NEW f, NEW k, NEW s, NEW ring, Start(p, op, f, k, u, s, ring)
        PROVE  /\ pc[p] = "idle" /\ pc'[p] = "loaded" /\ cmd'[p].secret = s
               /\ \A j \in KeyIds : Shown(p, u, j) = First(Load("kem", u), j)
    BY <1>5, AloneTypes DEF Start, Shown
  <1>6. ASSUME UNCHANGED owner PROVE KemMade' = KemMade
    BY <1>6 DEF KemMade, Generated
  <1>7. ASSUME NEW k \in KeyIds, NEW s \in Secrets,
               InitKey(p, k, u, s) \/ MldsaInit(p, k, u, s)
        PROVE  Retired' = Retired
    <2>1. \E op, f, ring : Start(p, op, f, k, u, s, ring)
      BY <1>7 DEF InitKey, MldsaInit
    <2>2. s \notin KemMade /\ KemMade' \in {KemMade, KemMade \union {s}}
      BY <1>3, <1>7, GenerateMade DEF InitKey, MldsaInit
    <2> QED
      BY <1>4, <1>5, <2>1, <2>2
  <1>8. ASSUME NEW k \in KeyIds, Encrypt(p, k, u) PROVE Retired' = Retired
    <2> DEFINE found == First(Load("kem", u), k)
    <2>1. CASE found # NoSecret
      <3>1. Start(p, "encrypt", "kem", k, u, found, Load("kem", u)) /\ UNCHANGED owner
        BY <1>8, <2>1 DEF Encrypt
      <3>2. found \in H
        BY <1>5, <3>1
      <3> QED
        BY <1>4, <1>5, <1>6, <3>1, <3>2
    <2>2. CASE found = NoSecret
      <3>1. PICK s \in Secrets :
               /\ Generate(s, "kem", k, u)
               /\ Start(p, "encrypt", "kem", k, u, s, Push(Load("kem", u), k, s))
        BY <1>8, <2>2 DEF Encrypt
      <3>2. s \notin KemMade /\ KemMade' \in {KemMade, KemMade \union {s}}
        BY <1>3, <3>1, GenerateMade
      <3> QED
        BY <1>4, <1>5, <3>1, <3>2
    <2> QED
      BY <2>1, <2>2
  <1>9. ASSUME NEW k \in KeyIds, DeleteKey(p, k, u) PROVE Retired' = Retired
    <2>1. /\ Start(p, "delete", "kem", k, u, NoSecret, Remove(Load("kem", u), k))
          /\ UNCHANGED owner
      BY <1>9 DEF DeleteKey
    <2> QED
      BY <1>3, <1>4, <1>5, <1>6, <2>1
  <1>10. ASSUME NEW a \in acked, Decrypt(p, a) PROVE Retired' = Retired
    <2>1. a.pass = u /\ a.id \in KeyIds /\ a.file = "kem"
      BY <1>10, AloneTypes DEF Decrypt
    <2>2. /\ Start(p, "decrypt", "kem", a.id, u, a.secret, Load("kem", u))
          /\ UNCHANGED owner
      BY <1>10, <2>1 DEF Decrypt
    <2>3. a.secret \in H
      BY <2>1 DEF Alone, Relied
    <2> QED
      BY <1>4, <1>5, <1>6, <2>2, <2>3
  <1> QED
    BY <1>2, <1>7, <1>8, <1>9, <1>10

\* The end of a decryption and the end of a save are not seen either.
LEMMA EndsSilent ==
    ASSUME IInv, NEW p, Procs = {p}, NEW u, Passphrases = {u}, Alone(p, u),
           FinishDecrypt(p) \/ Write(p)
    PROVE  Saved(User)' = Saved(User) /\ Retired' = Retired
  <1> DEFINE H == {Shown(p, u, k) : k \in KeyIds}
  <1>1. \A k \in KeyIds : Shown(p, u, k)' = Shown(p, u, k)
    BY FinishDecryptAlone, WriteAlone
  <1>2. Saved(User)' = Saved(User) /\ {Saved(User)[k] : k \in KeyIds} = H
    BY <1>1, MappingIs
  <1>3. KemMade' = KemMade /\ Uncommitted' = {}
    <2>1. UNCHANGED owner /\ pc'[p] = "idle"
      BY AloneTypes DEF FinishDecrypt, Write, Finish
    <2> QED
      BY <2>1, MappingIs DEF KemMade, Generated
  <1>4. Uncommitted \subseteq H
    <2>1. CASE FinishDecrypt(p)
      <3>1. pc[p] = "loaded" /\ cmd[p].op = "decrypt" /\ cmd[p].id \in KeyIds
        BY <2>1, AloneTypes DEF FinishDecrypt
      <3>2. Shown(p, u, cmd[p].id) = cmd[p].secret
        BY <3>1 DEF Alone, Carries
      <3> QED
        BY <3>1, <3>2, MappingIs
    <2>2. CASE Write(p)
      BY <2>2, MappingIs DEF Write
    <2> QED
      BY <2>1, <2>2
  <1>5. Retired = KemMade \ (Uncommitted \union H) /\ Retired' = KemMade \ H
    BY <1>2, <1>3 DEF Retired
  <1> HIDE DEF H
  <1> QED
    BY <1>2, <1>4, <1>5

\* The beginning of a save is where a command takes effect: `init`, and `encrypt` with
\* a new key, put a secret the map never had; `delete-key` deletes; the others do nothing.
LEMMA TruncateImplements ==
    ASSUME IInv, NEW p, Procs = {p}, NEW u, Passphrases = {u}, Alone(p, u), Truncate(p)
    PROVE  [Store!StoreNext]_(Store!storeVars)
  <1> DEFINE sec == cmd[p].secret
             id == cmd[p].id
             H == {Shown(p, u, k) : k \in KeyIds}
             H2 == {Shown(p, u, k)' : k \in KeyIds}
  <1>1. /\ pc[p] = "loaded" /\ pc'[p] = "truncated" /\ cmd' = cmd /\ owner' = owner
        /\ id \in KeyIds /\ cmd[p].file \in Files /\ cmd[p].pass = u
    BY AloneTypes DEF Truncate
  <1>2. \A k \in KeyIds : Shown(p, u, k)' =
           IF cmd[p].file = "kem" /\ k = id THEN sec ELSE Shown(p, u, k)
    BY TruncateAlone
  <1>3. /\ Saved(User) = [k \in KeyIds |-> Shown(p, u, k)]
        /\ Saved(User)' = [k \in KeyIds |-> Shown(p, u, k)']
        /\ Uncommitted = {sec} /\ Uncommitted' = {}
    BY <1>1, MappingIs
  <1>4. KemMade' = KemMade /\ KemMade \subseteq Secrets /\ NoSecret \notin KemMade
    BY <1>1, NoSecretAssumption DEF KemMade, Generated
  <1>5. Retired = KemMade \ ({sec} \union H) /\ Retired' = KemMade \ H2
    BY <1>3, <1>4 DEF Retired
  <1>6. Store!Held(Saved(User)) = H \ {NoSecret} /\ Store!Held(Saved(User)') = H2 \ {NoSecret}
    BY <1>3 DEF Store!Held
  <1>7. \A k \in KeyIds : Shown(p, u, k) # NoSecret =>
           /\ Shown(p, u, k) \in KemMade
           /\ owner[Shown(p, u, k)] = [file |-> "kem", id |-> k, pass |-> u]
    <2>1. ASSUME NEW k \in KeyIds, Shown(p, u, k) # NoSecret
          PROVE  /\ Shown(p, u, k) \in Secrets
                 /\ owner[Shown(p, u, k)] = [file |-> "kem", id |-> k, pass |-> u]
      BY <2>1, ShownOwned
    <2>2. \A k \in KeyIds : [file |-> "kem", id |-> k, pass |-> u] # Nobody
      <3>1. \A k \in KeyIds : [file |-> "kem", id |-> k, pass |-> u].file # Nobody.file
        BY DEF Nobody
      <3> QED
        BY <3>1
    <2> QED
      BY <2>1, <2>2 DEF KemMade, Generated
  <1>8. H \ {NoSecret} \subseteq KemMade
    BY <1>7
  <1>9. sec # NoSecret => sec \in Secrets /\ owner[sec] = [file |-> cmd[p].file, id |-> id, pass |-> u]
    <2>1. Newest(vault[p], id) = sec
      BY <1>1 DEF Alone, Carries
    <2>2. Good(owner, vault[p], cmd[p].file, u)
      BY <1>1 DEF IInv, AllGood
    <2> QED
      BY <1>1, <2>1, <2>2, NewestOwned
  <1>10. CASE cmd[p].file # "kem"
    <2>1. Saved(User)' = Saved(User)
      BY <1>2, <1>3, <1>10
    <2>2. sec \notin KemMade
      BY <1>4, <1>9, <1>10 DEF KemMade
    <2>3. H2 = H
      BY <1>2, <1>10
    <2> HIDE DEF H, H2, sec
    <2>4. Retired' = Retired
      BY <1>5, <2>2, <2>3
    <2> QED
      BY <2>1, <2>4 DEF Store!storeVars, Retired, KemMade
  <1>11. CASE cmd[p].file = "kem"
    <2>1. Saved(User)' = [Saved(User) EXCEPT ![id] = sec]
      BY <1>1, <1>2, <1>3, <1>11
    <2>2. sec \in H2
      BY <1>1, <1>2, <1>11
    <2>3. Retired' = (Retired \union (H \ {NoSecret})) \ (H2 \ {NoSecret})
      <3> HIDE DEF H, H2, sec
      <3> QED
        BY <1>4, <1>5, <1>8, <2>2
    <2>4. Store!Becomes([Saved(User) EXCEPT ![id] = sec])
      <3> HIDE DEF H, H2, sec, id
      <3>1. Retired' = (Retired \union Store!Held(Saved(User)))
                          \ Store!Held([Saved(User) EXCEPT ![id] = sec])
        BY <1>6, <2>1, <2>3, Zenon
      <3> QED
        BY <2>1, <3>1, Zenon DEF Store!Becomes, Retired, KemMade
    <2>5. CASE sec = NoSecret
      <3>1. PICK k \in KeyIds : k = id
        BY <1>1
      <3>2. Store!Delete(k)
        BY <2>4, <2>5, <3>1 DEF Store!Delete, Store!Becomes
      <3>3. Store!StoreNext
        BY <3>2 DEF Store!StoreNext
      <3> QED
        BY <3>3
    <2>6. CASE sec \in H /\ sec # NoSecret
      <3>1. PICK k \in KeyIds : sec = Shown(p, u, k)
        BY <2>6
      <3>2. k = id
        <4>1. /\ owner[sec] = [file |-> "kem", id |-> k, pass |-> u]
              /\ owner[sec] = [file |-> "kem", id |-> id, pass |-> u]
          BY <1>7, <1>9, <1>11, <2>6, <3>1
        <4>2. owner[sec].id = k /\ owner[sec].id = id
          <5> HIDE DEF sec, id
          <5> QED
            BY <4>1
        <4> QED
          BY <4>2
      <3>3. \A j \in KeyIds : Shown(p, u, j)' = Shown(p, u, j)
        BY <1>2, <3>1, <3>2
      <3>4. Saved(User)' = Saved(User) /\ H2 = H
        BY <1>3, <3>3
      <3>5. Retired' = Retired
        <4> HIDE DEF H, H2, sec
        <4> QED
          BY <1>5, <2>6, <3>4
      <3> QED
        BY <3>4, <3>5 DEF Store!storeVars, Retired, KemMade
    <2>7. CASE sec \notin H /\ sec # NoSecret
      <3>1. sec \notin Store!Held(Saved(User)) \union Retired
        <4> HIDE DEF H, H2, sec
        <4> QED
          BY <1>5, <1>6, <2>7
      <3>2. PICK k \in KeyIds, s \in Secrets : k = id /\ s = sec
        BY <1>1, <1>9, <2>7
      <3>3. Store!Put(k, s)
        <4> HIDE DEF H, H2, sec, id
        <4> QED
          BY <2>4, <3>1, <3>2 DEF Store!Put, Store!Becomes, Retired, KemMade
      <3>4. Store!StoreNext
        BY <3>3 DEF Store!StoreNext
      <3> QED
        BY <3>4
    <2> QED
      BY <2>5, <2>6, <2>7
  <1> QED
    BY <1>10, <1>11

\* clear-cache clears the map.
LEMMA ClearImplements ==
    ASSUME IInv, NEW p, Procs = {p}, NEW u, Passphrases = {u}, Alone(p, u), ClearCache(p)
    PROVE  Store!StoreNext
  <1> DEFINE H == {Shown(p, u, k) : k \in KeyIds}
  <1>1. pc[p] = "idle" /\ pc'[p] = "idle" /\ owner' = owner
    BY AloneTypes DEF ClearCache
  <1>2. \A k \in KeyIds : Shown(p, u, k)' = NoSecret
    BY ClearAlone
  <1>3. /\ Saved(User) = [k \in KeyIds |-> Shown(p, u, k)]
        /\ Saved(User)' = [k \in KeyIds |-> NoSecret]
        /\ Uncommitted = {} /\ Uncommitted' = {}
    BY <1>1, <1>2, MappingIs
  <1>4. KemMade' = KemMade /\ NoSecret \notin KemMade
    BY <1>1, NoSecretAssumption DEF KemMade, Generated
  <1>5. {Saved(User)'[k] : k \in KeyIds} \ {NoSecret} = {}
    BY <1>3
  <1>6. Retired = KemMade \ H /\ Retired' = KemMade
    <2>1. {Saved(User)[k] : k \in KeyIds} = H
      BY <1>3
    <2>2. Retired' = KemMade \ {Saved(User)'[k] : k \in KeyIds}
      BY <1>3, <1>4 DEF Retired
    <2> HIDE DEF H
    <2> QED
      BY <1>3, <1>4, <1>5, <2>1, <2>2 DEF Retired
  <1>7. H \ {NoSecret} \subseteq KemMade
    <2>1. ASSUME NEW k \in KeyIds, Shown(p, u, k) # NoSecret
          PROVE  Shown(p, u, k) \in KemMade
      <3>1. /\ Shown(p, u, k) \in Secrets
            /\ owner[Shown(p, u, k)] = [file |-> "kem", id |-> k, pass |-> u]
        BY <2>1, ShownOwned
      <3>2. [file |-> "kem", id |-> k, pass |-> u].file # Nobody.file
        BY DEF Nobody
      <3> QED
        BY <3>1, <3>2 DEF KemMade, Generated
    <2> QED
      BY <2>1
  <1>8. Retired' = (Retired \union (H \ {NoSecret})) \ {}
    <2> HIDE DEF H
    <2> QED
      BY <1>4, <1>6, <1>7
  <1>9. /\ Store!Held(Saved(User)) = H \ {NoSecret}
        /\ Store!Held([k \in KeyIds |-> NoSecret]) = {}
    BY <1>3 DEF Store!Held
  <1>10. Store!Clear
    BY <1>3, <1>8, <1>9 DEF Store!Clear, Store!Becomes, Retired, KemMade
  <1> QED
    BY <1>10 DEF Store!StoreNext

\* Run one at a time, under one passphrase and without faults, the commands implement
\* an atomic map from ids to secrets (KeyStore).
THEOREM StoreImplementedHolds ==
    ASSUME Sequential
    PROVE  Spec => StoreImplemented
  <1>1. PICK p : Procs = {p}
    BY DEF Sequential
  <1>2. PICK u : Passphrases = {u}
    BY DEF Sequential
  <1>3. Faults = {}
    BY DEF Sequential
  <1>4. Init => Store!StoreInit
    <2> SUFFICES ASSUME Init PROVE Store!StoreInit
      OBVIOUS
    <2>1. Saved(User) = [k \in KeyIds |-> Shown(p, u, k)]
      BY <1>1, <1>2, MappingIs
    <2>2. \A k \in KeyIds : Shown(p, u, k) = NoSecret
      BY <1>1 DEF Init, Shown, Load, Files, NoFile, Reload, Empty, First
    <2>3. KemMade = {}
      BY DEF Init, KemMade, Generated
    <2> QED
      BY <2>1, <2>2, <2>3 DEF Store!StoreInit, KemMade
  <1>5. ASSUME IInv, Alone(p, u), [Next]_vars
        PROVE  [Store!StoreNext]_(Store!storeVars)
    <2>1. CASE Saved(User)' = Saved(User) /\ Retired' = Retired
      BY <2>1 DEF Store!storeVars, Retired, KemMade
    <2>2. CASE Next
      BY <1>1, <1>2, <1>3, <1>5, <2>1, <2>2, SequentialStep, CommandsSilent, EndsSilent,
         TruncateImplements, ClearImplements
    <2>3. CASE UNCHANGED vars
      <3>1. Saved(User)' = Saved(User)
        BY <2>3 DEF vars, Saved, User, Load, First, Reload
      <3>2. Retired' = Retired
        BY <2>3, <3>1 DEF vars, Retired, KemMade, Generated, Uncommitted
      <3> QED
        BY <2>1, <3>1, <3>2
    <2> QED
      BY <1>5, <2>2, <2>3
  <1>6. Spec => [](IInv /\ Alone(p, u))
    BY <1>1, <1>2, <1>3, SequentialInvariance
  <1> QED
    BY <1>4, <1>5, <1>6, PTL DEF Spec, StoreImplemented, Store!StoreSpec
===============================================================================
