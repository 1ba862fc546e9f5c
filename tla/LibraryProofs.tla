------------------------------ MODULE LibraryProofs ------------------------------
(***************************************************************************)
(* The smaller components, for any instances, ids, participants and        *)
(* capacities.                                                             *)
(*   - FileVault: what is loaded is what was last saved, however often     *)
(*     files are torn, instances die and a migration is repeated, and the  *)
(*     instance that saved it can load it.                                 *)
(*   - ShareRefresh: the shares of a plan are new, because every mask      *)
(*     applied before carries an earlier epoch.                            *)
(*   - KeyCache: the queue and the map list the same keys, each once, and  *)
(*     every answer is what a fresh derivation gives.                      *)
(*   - RustGateway: a ciphertext opens under its id until the id's keys    *)
(*     are removed, whatever the other threads push meanwhile.             *)
(*   - HttpServer: no window admits a client more often than the limit and *)
(*     once more per thread, and who is refused has used the limit.        *)
(*   - DidDocument: the lists refer to the methods present, each as often  *)
(*     as it was last added for them.                                      *)
(*   - Qkd: the key is Alice's bits outside the sample, all of them.       *)
(*                                                                         *)
(* Between them stands what retain does to any sequence: what it keeps is  *)
(* embedded in the order it had, and counts as before.                     *)
(***************************************************************************)
EXTENDS FileVault, ShareRefresh, KeyCache, RustGateway, HttpServer, DidDocument, Qkd,
        WellFoundedInduction, FiniteSetTheorems, TLAPS

-------------------------------------------------------------------------------
(***************************************************************************)
(* The encrypted file vault (FileVault)                                    *)
(***************************************************************************)

\* Salts are numbered, and an instance that is about to write has drawn one.
Salted ==
    /\ salted \in Nat
    /\ salts \in [Instances -> Nat]
    /\ \A i \in Instances : saving[i] # {} => salts[i] # 0

\* A whole file holds the keys of the last completed save, and while its writer
\* lives, under the writer's salt.
LastSaved ==
    /\ keysFile.state \in {"missing", "torn", "saved"}
    /\ keysFile.state = "saved" => lastSave.keys = keysFile.keys
    /\ lastSave.by \in Instances =>
          /\ keysFile.state = "saved"
          /\ keysFile.salt = salts[lastSave.by]
          /\ salts[lastSave.by] # 0

\* The domains of the functions that the operations update.
Domains == DOMAIN saving = Instances /\ DOMAIN mem = Instances

FileIInv == Salted /\ LastSaved /\ Domains /\ LoadsLastSave

\* At first no file is there and no salt drawn (crypto_store.py __init__).
LEMMA FileInitIInv == FileInit => FileIInv
  BY NobodyAssumption
  DEF FileInit, FileIInv, Salted, LastSaved, Domains, LoadsLastSave, NoSave, NoKeys

\* Drawing a salt leaves every other instance its own, and an instance that has one keeps it
\* (crypto_store.py _get_key).
LEMMA SaltKept ==
    ASSUME Salted, NEW i \in Instances, GetKey(i)
    PROVE  /\ salted' \in Nat
           /\ salts' \in [Instances -> Nat]
           /\ salts'[i] # 0
           /\ \A j \in Instances : salts[j] # 0 => salts'[j] = salts[j]
<1>1. CASE salts[i] # 0 /\ UNCHANGED <<salts, salted>>
  BY <1>1 DEF Salted
<1>2. CASE /\ salts[i] = 0
           /\ salted' = salted + 1
           /\ salts' = [salts EXCEPT ![i] = salted + 1]
  BY <1>2 DEF Salted
<1>3. QED
  BY <1>1, <1>2 DEF GetKey

\* save truncates the file, so that there is no completed save until it has written.
LEMMA FileSaveIInv == ASSUME FileIInv, NEW i \in Instances, save(i) PROVE FileIInv'
<1>1. /\ salted' \in Nat /\ salts' \in [Instances -> Nat] /\ salts'[i] # 0
      /\ \A j \in Instances : salts[j] # 0 => salts'[j] = salts[j]
  BY SaltKept DEF FileIInv, save
<1>2. Salted'
  BY <1>1 DEF FileIInv, Salted, Domains, save
<1>3. LastSaved'
  BY NobodyAssumption DEF save, LastSaved, Torn, NoSave
<1>4. Domains' /\ LoadsLastSave'
  BY DEF FileIInv, Domains, LoadsLastSave, save
<1>5. QED
  BY <1>2, <1>3, <1>4 DEF FileIInv

\* The write completes, under the salt that save used, or leaves a torn file
\* (crypto_store.py:175).
LEMMA FileWriteIInv == ASSUME FileIInv, NEW i \in Instances, WriteBytes(i) PROVE FileIInv'
<1>1. salts[i] # 0 /\ UNCHANGED <<salts, salted, lastCall, mem>>
  BY DEF FileIInv, Salted, WriteBytes, Free
<1>2. Salted'
  BY <1>1 DEF FileIInv, Salted, Domains, WriteBytes
<1>3. LastSaved'
  <2>1. CASE \E keyMap \in saving[i] :
               /\ keysFile' = Saved(salts[i], keyMap)
               /\ lastSave' = [by |-> i, keys |-> keyMap]
    BY <1>1, <2>1 DEF LastSaved, Saved
  <2>2. CASE keysFile' = Torn /\ lastSave' = NoSave
    BY <2>2, NobodyAssumption DEF LastSaved, Torn, NoSave
  <2>3. QED
    BY <2>1, <2>2 DEF WriteBytes
<1>4. Domains' /\ LoadsLastSave'
  BY <1>1 DEF FileIInv, Domains, LoadsLastSave, WriteBytes
<1>5. QED
  BY <1>2, <1>3, <1>4 DEF FileIInv

\* A load under the file's salt takes its keys, which are those of the last save; one under
\* another salt fails, and that is not the salt of the instance that saved
\* (crypto_store.py load).
LEMMA FileLoadIInv == ASSUME FileIInv, NEW i \in Instances, load(i) PROVE FileIInv'
<1>1. /\ salted' \in Nat /\ salts' \in [Instances -> Nat] /\ salts'[i] # 0
      /\ \A j \in Instances : salts[j] # 0 => salts'[j] = salts[j]
  BY SaltKept DEF FileIInv, load
<1>2. Salted'
  BY <1>1 DEF FileIInv, Salted, load
<1>3. LastSaved'
  BY <1>1 DEF FileIInv, LastSaved, load
<1>4. Domains'
  BY DEF FileIInv, Domains, load, Loaded
<1>5. LoadsLastSave'
  <2>1. CASE /\ keysFile.state = "saved"
             /\ mem' = Loaded(i, keysFile.keys)
             /\ lastCall' = [call |-> "loaded", by |-> i, save |-> lastSave, keys |-> mem'[i]]
    <3>1. mem'[i] = keysFile.keys
      BY <2>1 DEF FileIInv, Domains, Loaded
    <3>2. lastSave.keys = keysFile.keys
      BY <2>1 DEF FileIInv, LastSaved
    <3>3. QED
      BY <2>1, <3>1, <3>2 DEF LoadsLastSave
  <2>2. CASE /\ keysFile.state = "torn" \/ keysFile.salt # salts'[i]
             /\ lastCall' = [call |-> "not loaded", by |-> i, save |-> lastSave]
    <3>1. lastSave.by # i
      BY <1>1, <2>2 DEF FileIInv, LastSaved
    <3>2. QED
      BY <2>2, <3>1 DEF LoadsLastSave
  <2>3. QED
    BY <2>1, <2>2 DEF load
<1>6. QED
  BY <1>2, <1>3, <1>4, <1>5 DEF FileIInv

\* When an instance dies its save stays the last one, but nobody's (a new process has no
\* salt).
LEMMA FileDieIInv == ASSUME FileIInv, NEW i \in Instances, Die(i) PROVE FileIInv'
<1>1. Salted' /\ Domains' /\ LoadsLastSave'
  BY DEF FileIInv, Salted, Domains, LoadsLastSave, Die
<1>2. LastSaved'
  <2>1. CASE lastSave.by = i
    <3>1. lastSave' = [lastSave EXCEPT !.by = Nobody]
      BY <2>1 DEF Die
    <3>2. lastSave'.keys = lastSave.keys /\ lastSave'.by \notin Instances
      BY <3>1, NobodyAssumption
    <3>3. QED
      BY <3>2 DEF FileIInv, LastSaved, Die
  <2>2. CASE lastSave.by # i
    BY <2>2 DEF FileIInv, LastSaved, Salted, Die
  <2>3. QED
    BY <2>1, <2>2
<1>3. QED
  BY <1>1, <1>2 DEF FileIInv

\* A migration saves for an instance that is gone when it returns (crypto_store.py:268).
LEMMA FileMigrateIInv == ASSUME FileIInv, Migrate PROVE FileIInv'
<1>1. Salted' /\ Domains' /\ LoadsLastSave'
  <2>1. salted' = salted + 1 /\ UNCHANGED <<salts, saving, mem, lastCall>>
    BY DEF Migrate
  <2>2. Salted'
    BY <2>1 DEF FileIInv, Salted
  <2>3. Domains' /\ LoadsLastSave'
    BY <2>1 DEF FileIInv, Domains, LoadsLastSave
  <2>4. QED
    BY <2>2, <2>3
<1>2. LastSaved'
  BY NobodyAssumption DEF LastSaved, Migrate, Saved, Torn, NoSave
<1>3. QED
  BY <1>1, <1>2 DEF FileIInv

\* What the files' properties speak of is unchanged by the calls that touch memory or the
\* other files only (crypto_store.py store_key, remove_key, add_canary, check_canary).
LEMMA FileMemoryIInv ==
    ASSUME FileIInv, DOMAIN mem' = Instances, UNCHANGED <<salts, salted, saving, keysFile, lastSave>>,
           lastCall' = lastCall \/ \E answer \in {"intact", "breach"} : lastCall' = [call |-> answer]
    PROVE  FileIInv'
<1>1. Salted' /\ LastSaved' /\ Domains'
  BY DEF FileIInv, Salted, LastSaved, Domains
<1>2. LoadsLastSave'
  <2>1. CASE lastCall' = lastCall
    BY <2>1 DEF FileIInv, LoadsLastSave
  <2>2. CASE \E answer \in {"intact", "breach"} : lastCall' = [call |-> answer]
    <3>1. lastCall'.call \in {"intact", "breach"}
      BY <2>2
    <3>2. lastCall'.call # "loaded" /\ lastCall'.call # "not loaded"
      BY <3>1
    <3>3. QED
      BY <3>2 DEF LoadsLastSave
  <2>3. QED
    BY <2>1, <2>2
<1>3. QED
  BY <1>1, <1>2 DEF FileIInv

\* Every step keeps the invariant.
LEMMA FileNextIInv == FileIInv /\ [FileNext]_fileVars => FileIInv'
<1> SUFFICES ASSUME FileIInv, [FileNext]_fileVars PROVE FileIInv'
  OBVIOUS
<1>1. DOMAIN mem = Instances
  BY DEF FileIInv, Domains
<1>2. ASSUME NEW i \in Instances, NEW id \in KeyNames, remove_key(i, id) PROVE FileIInv'
  BY <1>1, <1>2, FileMemoryIInv DEF remove_key
<1>3. ASSUME NEW i \in Instances, NEW id \in KeyNames, NEW pair \in Pairs, store_key(i, id, pair)
      PROVE  FileIInv'
  BY <1>1, <1>3, FileMemoryIInv DEF store_key, Stored
<1>4. ASSUME NEW i \in Instances, save(i) \/ WriteBytes(i) \/ load(i) \/ Die(i) PROVE FileIInv'
  BY <1>4, FileSaveIInv, FileWriteIInv, FileLoadIInv, FileDieIInv
<1>5. ASSUME NEW i \in Instances, check_canary(i) PROVE FileIInv'
  BY <1>1, <1>5, FileMemoryIInv DEF check_canary
<1>6. ASSUME NEW i \in Instances, NEW id \in CanaryIds, add_canary(i, id) PROVE FileIInv'
  BY <1>1, <1>6, FileMemoryIInv DEF add_canary, Stored
<1>7. CASE Migrate
  BY <1>7, FileMigrateIInv
<1>8. CASE Unlink
  BY <1>1, <1>8, FileMemoryIInv DEF Unlink
<1>9. CASE UNCHANGED fileVars
  BY <1>1, <1>9, FileMemoryIInv DEF fileVars
<1>10. QED
  BY <1>2, <1>3, <1>4, <1>5, <1>6, <1>7, <1>8, <1>9 DEF FileNext

\* The invariant holds throughout (crypto_store.py save, load, migrate_plaintext_vault).
THEOREM FileIInvHolds == FileSpec => []FileIInv
  BY FileInitIInv, FileNextIInv, PTL DEF FileSpec

\* For any number of instances and keys, a load that succeeds leaves exactly the keys of the last
\* completed save in memory, and the instance that made that save can load it
\* (crypto_store.py:165-198).
THEOREM LoadsLastSaveHolds == FileSpec => []LoadsLastSave
<1>1. FileIInv => LoadsLastSave
  BY DEF FileIInv
<1>2. QED
  BY <1>1, FileIInvHolds, PTL


-------------------------------------------------------------------------------
(***************************************************************************)
(* Re-sharing by epoch (ShareRefresh)                                      *)
(***************************************************************************)

\* A share carries masks of epochs up to e.
Dated(share, e) ==
    /\ share = [base |-> share.base, masks |-> share.masks]
    /\ \A m \in share.masks : m.epoch \in Nat /\ m.epoch <= e

\* The epoch moves forward, and no share is ahead of it; shares are dealt once.
EpochInv ==
    /\ epoch \in Nat
    /\ current \in Seq([participant_id : Participants, share : held])
    /\ \A s \in held : Dated(s, epoch)
    /\ current = <<>> => plan = NoPlan /\ held = {}

\* What a plan is, while anything else happens: its shares are masked with its own epoch,
\* each at its own position.
PlanInv ==
    plan.new_epoch > plan.old_epoch =>
        LET shares == [i \in DOMAIN plan.refreshed |-> plan.refreshed[i].share]
        IN  IsInjective(shares) /\ ToSet(shares) \intersect older = {}

RefreshIInv == EpochInv /\ PlanInv

\* At first nothing is held and nothing planned (ProactiveRefresher::new).
LEMMA RefreshInitIInv == RefreshInit => RefreshIInv
  BY DEF RefreshInit, RefreshIInv, EpochInv, PlanInv, NoPlan

\* The epoch never goes back, not even at its last value (advance_epoch).
LEMMA AdvancedGrows == epoch \in Nat => Advanced \in Nat /\ Advanced >= epoch
  BY EpochAssumption DEF Advanced

\* Masking a share once more adds one mask or takes it away (refresh_share).
LEMMA MaskedOnce ==
    ASSUME NEW e \in Nat, NEW d \in Nat, d <= e, NEW share, Dated(share, d), NEW seed
    PROVE  LET masked == refresh_share(share, seed, e)
               m == mask(seed, e)
           IN  /\ Dated(masked, e)
               /\ masked.masks \subseteq share.masks \union {m}
               /\ e > d => m \in masked.masks /\ m \notin share.masks
<1> DEFINE m == mask(seed, e)
           masked == refresh_share(share, seed, e)
<1>1. m.epoch = e
  BY DEF mask
<1>2. /\ share = [base |-> share.base, masks |-> share.masks]
      /\ \A n \in share.masks : n.epoch \in Nat /\ n.epoch <= d
  BY DEF Dated
<1>3. masked = [base |-> share.base, masks |-> (share.masks \ {m}) \cup ({m} \ share.masks)]
  <2>1. PICK b, ms : share = [base |-> b, masks |-> ms]
    BY <1>2
  <2>2. masked = [base |-> b, masks |-> (ms \ {m}) \cup ({m} \ ms)]
    BY <2>1 DEF refresh_share, SymDiff
  <2>3. QED
    BY <2>1, <2>2
<1>4. masked.masks = (share.masks \ {m}) \cup ({m} \ share.masks)
      /\ masked = [base |-> masked.base, masks |-> masked.masks]
  BY <1>3
<1> HIDE DEF masked
<1>5. e > d => m \notin share.masks
  BY <1>1, <1>2
<1>6. \A n \in masked.masks : n.epoch \in Nat /\ n.epoch <= e
  BY <1>1, <1>2, <1>4
<1> HIDE DEF m
<1>7. e > d => m \in masked.masks
  BY <1>4, <1>5
<1>8. masked.masks \subseteq share.masks \union {m}
  BY <1>4
<1>9. Dated(masked, e)
  BY <1>4, <1>6 DEF Dated
<1>10. QED
  BY <1>5, <1>7, <1>8, <1>9 DEF masked, m

\* A step that keeps the plan and lets no epoch go back keeps the invariant of both, if
\* what is newly held is dated.
LEMMA RefreshQuiet ==
    ASSUME RefreshIInv, epoch' \in Nat, epoch' >= epoch, UNCHANGED <<plan, older>>,
           held \subseteq held', \A s \in held' \ held : Dated(s, epoch'),
           current' \in Seq([participant_id : Participants, share : held']),
           current' # <<>> \/ UNCHANGED <<current, held>>
    PROVE  RefreshIInv'
<1>1. \A s \in held : Dated(s, epoch')
  BY DEF RefreshIInv, EpochInv, Dated
<1>2. EpochInv'
  BY <1>1 DEF RefreshIInv, EpochInv
<1>3. PlanInv'
  BY DEF RefreshIInv, PlanInv
<1>4. QED
  BY <1>2, <1>3 DEF RefreshIInv

\* Shares as they are dealt carry no mask.
LEMMA DealIInv ==
    ASSUME RefreshIInv, NEW p \in Participants, NEW q \in Participants,
           NEW b \in Bases, NEW c \in Bases, Deal(p, q, b, c)
    PROVE  RefreshIInv'
<1>1. /\ current = <<>> /\ UNCHANGED <<epoch, plan, older>>
      /\ current' = <<ParticipantShare(p, Original(b)), ParticipantShare(q, Original(c))>>
      /\ held' = {Original(b), Original(c)}
  BY DEF Deal
<1>2. \A s \in held' : Dated(s, epoch)
  BY <1>1 DEF Dated, Original
<1>3. current' \in Seq([participant_id : Participants, share : held']) /\ current' # <<>>
  <2>1. \A s \in held' : /\ ParticipantShare(p, s) \in [participant_id : Participants, share : held']
                         /\ ParticipantShare(q, s) \in [participant_id : Participants, share : held']
    BY DEF ParticipantShare
  <2>2. QED
    BY <1>1, <2>1
<1>4. held = {} /\ epoch >= epoch /\ epoch \in Nat
  BY <1>1 DEF RefreshIInv, EpochInv
<1>5. QED
  BY <1>1, <1>2, <1>3, <1>4, RefreshQuiet

\* A sequence over a set is one over any larger set.
LEMMA SeqWider ==
    ASSUME NEW S, NEW T, S \subseteq T, NEW s \in Seq(S)
    PROVE  s \in Seq(T)
<1>1. /\ Len(s) \in Nat /\ s = [j \in 1..Len(s) |-> s[j]]
      /\ \A j \in 1..Len(s) : s[j] \in T
  OBVIOUS
<1>2. QED
  BY <1>1

\* What the participants hold is among the shares in circulation.
LEMMA CurrentHeld ==
    ASSUME EpochInv
    PROVE  /\ Len(current) \in Nat /\ DOMAIN current = 1..Len(current)
           /\ \A j \in DOMAIN current :
                 /\ current[j].share \in held
                 /\ current[j] \in [participant_id : Participants, share : held]
<1> DEFINE S == [participant_id : Participants, share : held]
<1>1. current \in Seq(S)
  BY DEF EpochInv
<1>2. \A x \in S : x.share \in held
  OBVIOUS
<1> HIDE DEF S
<1>3. \A j \in DOMAIN current : current[j] \in S
  BY <1>1
<1>4. QED
  BY <1>1, <1>2, <1>3 DEF S

\* A holder that masks its share uses the epoch it is in (refresh_share).
LEMMA RefreshOneIInv ==
    ASSUME RefreshIInv, NEW i \in DOMAIN current, NEW seed \in Seeds, Refresh(i, seed)
    PROVE  RefreshIInv'
<1> DEFINE S == [participant_id : Participants, share : held]
<1>1. /\ epoch \in Nat /\ current \in Seq(S) /\ \A s \in held : Dated(s, epoch)
  BY DEF RefreshIInv, EpochInv
<1>2. PICK share : share = refresh_share(current[i].share, <<seed>>, epoch)
  OBVIOUS
<1>3. /\ current' = [current EXCEPT ![i].share = share]
      /\ held' = held \union {share} /\ UNCHANGED <<epoch, plan, older>>
  BY <1>2 DEF Refresh
<1>4. current[i] \in S /\ current[i].share \in held
  BY CurrentHeld DEF RefreshIInv
<1>5. Dated(current[i].share, epoch)
  BY <1>1, <1>4
<1>6. Dated(share, epoch)
  BY <1>1, <1>2, <1>5, MaskedOnce
<1>7. current' \in Seq([participant_id : Participants, share : held']) /\ current' # <<>>
  <2>1. /\ S \subseteq [participant_id : Participants, share : held']
        /\ [current[i] EXCEPT !.share = share] \in [participant_id : Participants, share : held']
    BY <1>3, <1>4
  <2>2. current' = [current EXCEPT ![i] = [current[i] EXCEPT !.share = share]]
    BY <1>3
  <2> HIDE DEF S
  <2>3. current \in Seq([participant_id : Participants, share : held'])
    BY <1>1, <2>1, SeqWider
  <2>4. current # <<>>
    OBVIOUS
  <2>5. QED
    BY <2>1, <2>2, <2>3, <2>4
<1>8. QED
  BY <1>1, <1>3, <1>6, <1>7, RefreshQuiet

\* A roster names participants, one at least.
LEMMA RostersAre ==
    ASSUME NEW next \in Rosters
    PROVE  next \in Seq(Participants) /\ next # <<>>
<1>1. CASE \E p \in Participants : next = <<p>>
  BY <1>1
<1>2. CASE \E p, q \in Participants : next = <<p, q>>
  BY <1>2
<1>3. CASE \E p, q \in Participants : next = <<p, q, p>>
  BY <1>3
<1>4. QED
  BY <1>1, <1>2, <1>3 DEF Rosters

\* Every position of a roster has a share to be made from.
LEMMA SourceHeld ==
    ASSUME EpochInv, current # <<>>, NEW at \in Nat
    PROVE  Source(at) \in held
<1>1. /\ Len(current) \in Nat /\ Len(current) > 0 /\ DOMAIN current = 1..Len(current)
      /\ \A j \in DOMAIN current : current[j].share \in held
  <2>1. Len(current) # 0
    BY DEF EpochInv
  <2>2. QED
    BY <2>1, CurrentHeld
<1>2. ((at - 1) % Len(current)) + 1 \in 1..Len(current)
  BY <1>1
<1>3. QED
  BY <1>1, <1>2 DEF Source

\* The plan's shares are masked at their own positions with an epoch nobody has used
\* (reshare_for_participants).
LEMMA ReshareIInv ==
    ASSUME RefreshIInv, NEW next \in Rosters, NEW old, NEW t, NEW seed \in Seeds,
           NEW adopted \in BOOLEAN, reshare_for_participants(next, old, t, seed, adopted)
    PROVE  RefreshIInv'
<1> DEFINE refreshed == Reshared(next, seed)
           S == [participant_id : Participants, share : held]
<1>1. /\ epoch \in Nat /\ current \in Seq(S) /\ \A s \in held : Dated(s, epoch)
  BY DEF RefreshIInv, EpochInv
<1>2. /\ plan'.old_epoch = epoch /\ plan'.new_epoch = Advanced /\ plan'.refreshed = refreshed
      /\ epoch' = Advanced /\ older' = held /\ held' = held \union Shares(refreshed)
      /\ current' = IF adopted THEN refreshed ELSE current
      /\ validate_thresholds(Len(current), Len(next), old, t)
  BY DEF reshare_for_participants
<1>3. Advanced \in Nat /\ Advanced >= epoch
  BY <1>1, AdvancedGrows
<1>4. current # <<>>
  <2>1. SUFFICES ASSUME current = <<>> PROVE FALSE
    OBVIOUS
  <2>2. old \in 1..0
    BY <1>2, <2>1 DEF validate_thresholds
  <2>3. QED
    BY <2>2
<1>5. /\ next \in Seq(Participants) /\ next # <<>> /\ DOMAIN next = 1..Len(next)
      /\ Len(next) \in Nat /\ Len(next) # 0 /\ DOMAIN next \subseteq Nat
  BY RostersAre
<1> DEFINE m(at) == mask(<<seed, next[at], at>>, Advanced)
           share(at) == refresh_share(Source(at), <<seed, next[at], at>>, Advanced)
<1>6. /\ refreshed = [at \in DOMAIN next |-> ParticipantShare(next[at], share(at))]
  BY DEF Reshared
<1>7. \A at \in DOMAIN next :
         /\ refreshed[at].participant_id = next[at] /\ refreshed[at].share = share(at)
         /\ refreshed[at] = [participant_id |-> next[at], share |-> share(at)]
  BY <1>6 DEF ParticipantShare
<1>8. ASSUME NEW at \in DOMAIN next
      PROVE  /\ Source(at) \in held
             /\ Dated(share(at), Advanced)
             /\ share(at).masks \subseteq Source(at).masks \union {m(at)}
             /\ Advanced > epoch => m(at) \in share(at).masks
  <2>1. Source(at) \in held
    BY <1>4, <1>5, SourceHeld DEF RefreshIInv
  <2>2. Dated(Source(at), epoch)
    BY <1>1, <2>1
  <2>3. QED
    BY <1>1, <1>3, <2>1, <2>2, MaskedOnce
<1>9. \A i, j \in DOMAIN next : m(i) = m(j) => i = j
  <2>1. ASSUME NEW i \in DOMAIN next, NEW j \in DOMAIN next, m(i) = m(j) PROVE i = j
    <3>1. m(i).seed = <<seed, next[i], i>> /\ m(j).seed = <<seed, next[j], j>>
      BY DEF mask
    <3>2. <<seed, next[i], i>>[3] = i /\ <<seed, next[j], j>>[3] = j
      OBVIOUS
    <3> HIDE DEF m
    <3>3. QED
      BY <2>1, <3>1, <3>2
  <2>2. QED
    BY <2>1
<1>10. \A at \in DOMAIN next : m(at).epoch = Advanced
  BY DEF mask
<1>11. Shares(refreshed) = {share(at) : at \in DOMAIN next}
  <2>1. DOMAIN refreshed = DOMAIN next
    BY <1>6
  <2> HIDE DEF refreshed, share
  <2>2. QED
    BY <1>7, <2>1 DEF Shares
<1> HIDE DEF refreshed, share, m
<1>12. \A s \in held : Dated(s, Advanced)
  BY <1>1, <1>3 DEF Dated
<1>13. EpochInv'
  <2>1. \A s \in held' : Dated(s, epoch')
    BY <1>2, <1>8, <1>11, <1>12
  <2>2. current' \in Seq([participant_id : Participants, share : held']) /\ current' # <<>>
    <3>1. CASE adopted
      <4>1. \A at \in DOMAIN next :
               refreshed[at] \in [participant_id : Participants, share : held']
        <5>1. \A at \in DOMAIN next : next[at] \in Participants
          BY <1>5
        <5>2. \A at \in DOMAIN next : share(at) \in held'
          BY <1>2, <1>11
        <5>3. \A p, x : p \in Participants /\ x \in held' =>
                 [participant_id |-> p, share |-> x] \in [participant_id : Participants, share : held']
          OBVIOUS
        <5>4. ASSUME NEW at \in DOMAIN next
              PROVE  refreshed[at] \in [participant_id : Participants, share : held']
          <6>1. refreshed[at] = [participant_id |-> next[at], share |-> share(at)]
            BY <1>7
          <6>2. next[at] \in Participants /\ share(at) \in held'
            BY <5>1, <5>2
          <6>3. [participant_id |-> next[at], share |-> share(at)]
                   \in [participant_id : Participants, share : held']
            BY <5>3, <6>2
          <6>4. QED
            BY <6>1, <6>3
        <5>5. QED
          BY <5>4
      <4>2. refreshed = [at \in 1..Len(next) |-> refreshed[at]]
        BY <1>5, <1>6
      <4>3. refreshed \in Seq([participant_id : Participants, share : held'])
        BY <1>5, <4>1, <4>2
      <4>4. DOMAIN refreshed # {}
        BY <1>5, <4>2
      <4>5. QED
        BY <1>2, <3>1, <4>3, <4>4
    <3>2. CASE ~adopted
      <4>1. S \subseteq [participant_id : Participants, share : held']
        BY <1>2
      <4> HIDE DEF S
      <4>2. QED
        BY <1>1, <1>2, <1>4, <3>2, <4>1, SeqWider
    <3>3. QED
      BY <3>1, <3>2
  <2>3. QED
    BY <1>2, <1>3, <2>1, <2>2 DEF EpochInv
<1>14. ASSUME Advanced > epoch
       PROVE  LET shares == [i \in DOMAIN refreshed |-> refreshed[i].share]
              IN  IsInjective(shares) /\ ToSet(shares) \intersect held = {}
  <2> DEFINE shares == [i \in DOMAIN refreshed |-> refreshed[i].share]
  <2>1. DOMAIN refreshed = DOMAIN next
    BY <1>6
  <2>2. DOMAIN shares = DOMAIN next /\ \A i \in DOMAIN next : shares[i] = share(i)
    BY <1>7, <2>1
  <2> HIDE DEF shares
  <2>3. ASSUME NEW i \in DOMAIN next, NEW s \in held PROVE m(i) \notin s.masks
    <3>1. \A n \in s.masks : n.epoch \in Nat /\ n.epoch <= epoch
      BY <1>1 DEF Dated
    <3>2. QED
      BY <1>1, <1>3, <1>10, <1>14, <3>1
  <2>4. ASSUME NEW i \in DOMAIN next, NEW j \in DOMAIN next, share(i) = share(j)
        PROVE  i = j
    <3>1. m(i) \in Source(j).masks \union {m(j)}
      BY <1>8, <1>14, <2>4
    <3>2. m(i) \notin Source(j).masks
      BY <1>8, <2>3
    <3>3. QED
      BY <1>9, <3>1, <3>2
  <2>5. ASSUME NEW i \in DOMAIN next PROVE share(i) \notin held
    BY <1>8, <1>14, <2>3
  <2>6. IsInjective(shares)
    BY <2>2, <2>4 DEF IsInjective
  <2>7. ToSet(shares) \intersect held = {}
    BY <2>2, <2>5 DEF ToSet
  <2>8. QED
    BY <2>6, <2>7 DEF shares
<1>15. PlanInv'
  BY <1>2, <1>14 DEF PlanInv
<1>16. QED
  BY <1>13, <1>15 DEF RefreshIInv

\* Every call keeps the plan's shares new and the epochs in order.
LEMMA RefreshNextIInv == RefreshIInv /\ [RefreshNext]_refreshVars => RefreshIInv'
<1> SUFFICES ASSUME RefreshIInv, [RefreshNext]_refreshVars PROVE RefreshIInv'
  OBVIOUS
<1>1. epoch \in Nat /\ Advanced \in Nat /\ Advanced >= epoch /\ epoch >= epoch
  BY AdvancedGrows DEF RefreshIInv, EpochInv
<1>2. ASSUME epoch' = epoch \/ epoch' = Advanced, UNCHANGED <<current, plan, held, older>>
      PROVE  RefreshIInv'
  <2>1. current' \in Seq([participant_id : Participants, share : held'])
    BY <1>2 DEF RefreshIInv, EpochInv
  <2>2. epoch' \in Nat /\ epoch' >= epoch
    BY <1>1, <1>2
  <2>3. QED
    BY <1>2, <2>1, <2>2, RefreshQuiet
<1>3. ASSUME NEW p \in Participants, NEW q \in Participants, NEW b \in Bases, NEW c \in Bases,
             Deal(p, q, b, c)
      PROVE  RefreshIInv'
  BY <1>3, DealIInv
<1>4. CASE advance_epoch
  BY <1>2, <1>4 DEF advance_epoch
<1>5. ASSUME NEW i \in DOMAIN current, NEW seed \in Seeds, Refresh(i, seed) PROVE RefreshIInv'
  BY <1>5, RefreshOneIInv
<1>6. ASSUME NEW next \in Rosters, NEW old \in Thresholds, NEW t \in Thresholds,
             \/ InvalidThreshold(next, old, t)
             \/ InvalidShareLength(next, old, t)
             \/ \E seed \in Seeds, adopted \in BOOLEAN :
                   reshare_for_participants(next, old, t, seed, adopted)
      PROVE  RefreshIInv'
  <2>1. CASE InvalidThreshold(next, old, t)
    BY <1>2, <2>1 DEF InvalidThreshold
  <2>2. CASE InvalidShareLength(next, old, t)
    BY <1>2, <2>2 DEF InvalidShareLength
  <2>3. QED
    BY <1>6, <2>1, <2>2, ReshareIInv
<1>7. CASE UNCHANGED refreshVars
  BY <1>2, <1>7 DEF refreshVars
<1>8. QED
  BY <1>3, <1>4, <1>5, <1>6, <1>7 DEF RefreshNext

\* For any participants, shares, seeds and last epoch, whatever plans were dropped, refreshed
\* or failed half-way before, a plan's shares are new, differ from each other, and only they
\* verify against its commitments (advanced_secret_sharing.rs reshare_for_participants,
\* refresh_share, advance_epoch).
THEOREM PlanSharesNewHolds == RefreshSpec => []PlanSharesNew
<1>1. RefreshIInv => PlanSharesNew
  <2> SUFFICES ASSUME PlanInv, plan.new_epoch > plan.old_epoch PROVE PlanSharesNew
    BY DEF RefreshIInv, PlanSharesNew
  <2> DEFINE shares == [i \in DOMAIN plan.refreshed |-> plan.refreshed[i].share]
             commitments == create_commitments(shares)
  <2>1. IsInjective(shares) /\ ToSet(shares) \intersect older = {}
    BY DEF PlanInv
  <2> HIDE DEF shares
  <2>2. ASSUME NEW i \in DOMAIN shares, NEW s
        PROVE  verify_share(s, commitments[i]) <=> s = shares[i]
    BY DEF verify_share, create_commitments, commitment_hash
  <2>3. QED
    BY <2>1, <2>2 DEF PlanSharesNew, shares
<1>2. QED
  BY <1>1, RefreshInitIInv, RefreshNextIInv, PTL DEF RefreshSpec

-------------------------------------------------------------------------------
(***************************************************************************)
(* What retain does to every sequence (Vectors)                            *)
(***************************************************************************)

\* A set of numbers that is not empty has a least element.
LEMMA LeastNumber ==
    ASSUME NEW T, T \subseteq Nat, T # {}
    PROVE  \E n \in T : \A m \in T : ~(m < n)
<1>1. \E n \in T : \A m \in T : ~(<<m, n>> \in OpToRel(<, Nat))
  BY NatLessThanWellFounded, WFMin
<1>2. QED
  BY <1>1 DEF OpToRel

\* The fold that retain is, spelt out: it visits the indices in q from the greatest down.
Folds(s, dropped, n, it) ==
    it = [q \in SUBSET (1..n) |->
             IF q = {} THEN <<>> ELSE Passed(dropped, it[q \ {Max(q)}], s[Max(q)])]

\* The greatest index of a stretch of the sequence that ends there.
LEMMA MaxTop ==
    ASSUME NEW n \in Nat, NEW q \in SUBSET (1..(n + 1)), n + 1 \in q
    PROVE  Max(q) = n + 1 /\ q \ {Max(q)} \in SUBSET (1..n)
<1>1. \A y \in q : n + 1 >= y
  OBVIOUS
<1>2. \A x \in q : (\A y \in q : x >= y) => x = n + 1
  OBVIOUS
<1>3. Max(q) = n + 1
  BY <1>1, <1>2 DEF Max
<1>4. QED
  BY <1>3

\* Such a fold exists for every length.
LEMMA FoldExists ==
    ASSUME NEW s, NEW dropped
    PROVE  \A n \in Nat : \E it : Folds(s, dropped, n, it)
<1> DEFINE Bad == {n \in Nat : ~(\E it : Folds(s, dropped, n, it))}
<1>1. \E it : Folds(s, dropped, 0, it)
  <2> DEFINE it == [q \in SUBSET (1..0) |-> <<>>]
  <2>1. \A q \in SUBSET (1..0) : q = {}
    OBVIOUS
  <2>2. it = [q \in SUBSET (1..0) |->
                 IF q = {} THEN <<>> ELSE Passed(dropped, it[q \ {Max(q)}], s[Max(q)])]
    BY <2>1
  <2>3. QED
    BY <2>2 DEF Folds
<1>2. ASSUME NEW n \in Nat, NEW it, Folds(s, dropped, n, it)
      PROVE  \E h : Folds(s, dropped, n + 1, h)
  <2> DEFINE h == [q \in SUBSET (1..(n + 1)) |->
                      IF n + 1 \in q THEN Passed(dropped, it[q \ {n + 1}], s[n + 1]) ELSE it[q]]
             Value(q) == IF q = {} THEN <<>> ELSE Passed(dropped, h[q \ {Max(q)}], s[Max(q)])
  <2>1. \A q \in SUBSET (1..n) : q \in SUBSET (1..(n + 1)) /\ n + 1 \notin q
    OBVIOUS
  <2>2. \A q \in SUBSET (1..n) : h[q] = it[q]
    BY <2>1
  <2>3. ASSUME NEW q \in SUBSET (1..(n + 1)), n + 1 \in q
        PROVE  h[q] = Value(q)
    <3>1. Max(q) = n + 1 /\ q \ {n + 1} \in SUBSET (1..n)
      BY <2>3, MaxTop
    <3>2. h[q] = Passed(dropped, it[q \ {n + 1}], s[n + 1])
      BY <2>3
    <3>3. h[q \ {n + 1}] = it[q \ {n + 1}]
      BY <2>2, <3>1
    <3> HIDE DEF h
    <3>4. QED
      BY <2>3, <3>1, <3>2, <3>3
  <2>4. ASSUME NEW q \in SUBSET (1..(n + 1)), n + 1 \notin q
        PROVE  h[q] = Value(q)
    <3>1. q \in SUBSET (1..n) /\ q \ {Max(q)} \in SUBSET (1..n)
      <4>1. \A x \in q : x \in 1..n
        BY <2>4
      <4>2. QED
        BY <4>1
    <3>2. it[q] = IF q = {} THEN <<>> ELSE Passed(dropped, it[q \ {Max(q)}], s[Max(q)])
      BY <1>2, <3>1 DEF Folds
    <3>3. h[q] = it[q] /\ h[q \ {Max(q)}] = it[q \ {Max(q)}]
      BY <2>2, <3>1
    <3> HIDE DEF h
    <3>4. QED
      BY <3>2, <3>3
  <2>5. h = [q \in SUBSET (1..(n + 1)) |-> Value(q)]
    <3>1. \A q \in SUBSET (1..(n + 1)) : h[q] = Value(q)
      BY <2>3, <2>4
    <3>2. h = [q \in SUBSET (1..(n + 1)) |-> h[q]]
      OBVIOUS
    <3> HIDE DEF h, Value
    <3>3. QED
      BY <3>1, <3>2
  <2>6. QED
    BY <2>5 DEF Folds
<1>3. Bad = {}
  <2> SUFFICES ASSUME Bad # {} PROVE FALSE
    OBVIOUS
  <2>1. PICK n \in Bad : \A m \in Bad : ~(m < n)
    BY LeastNumber
  <2>2. n # 0 /\ n \in Nat
    BY <1>1
  <2>3. n - 1 \in Nat /\ n - 1 < n /\ (n - 1) + 1 = n
    BY <2>2
  <2>4. n - 1 \notin Bad
    BY <2>1, <2>3
  <2>5. PICK it : Folds(s, dropped, n - 1, it)
    BY <2>3, <2>4
  <2>6. \E h : Folds(s, dropped, (n - 1) + 1, h)
    BY <1>2, <2>3, <2>5
  <2>7. QED
    BY <2>1, <2>3, <2>6
<1>4. QED
  BY <1>3

\* The fold takes one element after the other.
LEMMA FoldStep ==
    ASSUME NEW s, NEW dropped, NEW n \in Nat, NEW it, Folds(s, dropped, n, it)
    PROVE  /\ it[1..0] = <<>>
           /\ \A m \in 1..n : it[1..m] = Passed(dropped, it[1..(m - 1)], s[m])
<1>1. it[1..0] = <<>>
  <2>1. 1..0 = {} /\ {} \in SUBSET (1..n)
    OBVIOUS
  <2>2. it[{}] = <<>>
    BY <2>1 DEF Folds
  <2>3. QED
    BY <2>1, <2>2
<1>2. ASSUME NEW m \in 1..n PROVE it[1..m] = Passed(dropped, it[1..(m - 1)], s[m])
  <2>1. m - 1 \in Nat /\ (m - 1) + 1 = m /\ m \in 1..m /\ 1..m \in SUBSET (1..n)
    OBVIOUS
  <2>2. Max(1..m) = m
    BY <2>1, MaxTop
  <2>3. (1..m) \ {m} = 1..(m - 1)
    BY <2>1
  <2>4. it[1..m] = IF 1..m = {} THEN <<>>
                   ELSE Passed(dropped, it[(1..m) \ {Max(1..m)}], s[Max(1..m)])
    BY <2>1 DEF Folds
  <2>5. QED
    BY <2>1, <2>2, <2>3, <2>4
<1>3. QED
  BY <1>1, <1>2

\* f tells from where in the first n elements of s each element of r comes: those that are
\* not to be dropped, all of them, in their order.
Embeds(f, r, s, dropped, n) ==
    /\ f \in [1..Len(r) -> 1..n]
    /\ \A i, j \in 1..Len(r) : i < j => f[i] < f[j]
    /\ \A i \in 1..Len(r) : r[i] = s[f[i]] /\ s[f[i]] \notin dropped
    /\ \A m \in 1..n : s[m] \notin dropped => \E i \in 1..Len(r) : f[i] = m

\* One element more is dropped, or comes last.
LEMMA EmbedsStep ==
    ASSUME NEW S, NEW s \in Seq(S), NEW dropped, NEW n \in Nat, n + 1 <= Len(s),
           NEW r \in Seq(S), NEW f, Embeds(f, r, s, dropped, n)
    PROVE  /\ Passed(dropped, r, s[n + 1]) \in Seq(S)
           /\ \E g : Embeds(g, Passed(dropped, r, s[n + 1]), s, dropped, n + 1)
<1>1. s[n + 1] \in S /\ Len(r) \in Nat
  OBVIOUS
<1>2. CASE s[n + 1] \in dropped
  <2>1. Passed(dropped, r, s[n + 1]) = r
    BY <1>2 DEF Passed
  <2>2. Embeds(f, r, s, dropped, n + 1)
    <3>1. f \in [1..Len(r) -> 1..(n + 1)]
      BY DEF Embeds
    <3>2. ASSUME NEW m \in 1..(n + 1), s[m] \notin dropped
          PROVE  \E i \in 1..Len(r) : f[i] = m
      <4>1. m \in 1..n
        BY <1>2, <3>2
      <4>2. QED
        BY <3>2, <4>1 DEF Embeds
    <3>3. QED
      BY <3>1, <3>2 DEF Embeds
  <2>3. QED
    BY <2>1, <2>2
<1>3. CASE s[n + 1] \notin dropped
  <2> DEFINE k == Len(r) + 1
             x == s[n + 1]
             g == [i \in 1..k |-> IF i = k THEN n + 1 ELSE f[i]]
             q == Append(r, x)
  <2>1. Passed(dropped, r, s[n + 1]) = q
    BY <1>3 DEF Passed
  <2>2. /\ q \in Seq(S) /\ Len(q) = k /\ k \in Nat /\ q[k] = x
        /\ \A i \in 1..Len(r) : q[i] = r[i]
    BY <1>1
  <2>3. \A i \in 1..k : i = k \/ i \in 1..Len(r)
    BY <1>1
  <2>4. /\ g[k] = n + 1 /\ k \in 1..k /\ DOMAIN g = 1..k
        /\ \A i \in 1..Len(r) : g[i] = f[i] /\ i \in 1..k
    BY <1>1
  <2>5. \A i \in 1..Len(r) : f[i] \in 1..n
    BY DEF Embeds
  <2>6. g \in [1..k -> 1..(n + 1)]
    BY <2>3, <2>4, <2>5
  <2> HIDE DEF g, q
  <2>7. ASSUME NEW i \in 1..k, NEW j \in 1..k, i < j PROVE g[i] < g[j]
    <3>1. i \in 1..Len(r)
      BY <1>1, <2>3, <2>7
    <3>2. CASE j = k
      BY <2>4, <2>5, <3>1, <3>2
    <3>3. CASE j # k
      <4>1. j \in 1..Len(r)
        BY <2>3, <3>3
      <4>2. f[i] < f[j]
        BY <2>7, <3>1, <4>1 DEF Embeds
      <4>3. QED
        BY <2>4, <3>1, <4>1, <4>2
    <3>4. QED
      BY <3>2, <3>3
  <2>8. ASSUME NEW i \in 1..k PROVE q[i] = s[g[i]] /\ s[g[i]] \notin dropped
    <3>1. CASE i = k
      BY <1>3, <2>2, <2>4, <3>1
    <3>2. CASE i # k
      <4>1. i \in 1..Len(r)
        BY <2>3, <3>2
      <4>2. r[i] = s[f[i]] /\ s[f[i]] \notin dropped
        BY <4>1 DEF Embeds
      <4>3. QED
        BY <2>2, <2>4, <4>1, <4>2
    <3>3. QED
      BY <3>1, <3>2
  <2>9. ASSUME NEW m \in 1..(n + 1), s[m] \notin dropped
        PROVE  \E i \in 1..k : g[i] = m
    <3>1. CASE m = n + 1
      BY <2>4, <3>1
    <3>2. CASE m # n + 1
      <4>1. m \in 1..n
        BY <3>2
      <4>2. PICK i \in 1..Len(r) : f[i] = m
        BY <2>9, <4>1 DEF Embeds
      <4>3. QED
        BY <2>4, <4>2
    <3>3. QED
      BY <3>1, <3>2
  <2>10. Embeds(g, q, s, dropped, n + 1)
    BY <2>2, <2>6, <2>7, <2>8, <2>9 DEF Embeds
  <2>11. QED
    BY <2>1, <2>2, <2>10
<1>4. QED
  BY <1>2, <1>3

\* retain keeps what is not to be dropped, all of it, in its order.
LEMMA RetainEmbeds ==
    ASSUME NEW S, NEW s \in Seq(S), NEW dropped
    PROVE  /\ retain(s, dropped) \in Seq(S)
           /\ \E f : Embeds(f, retain(s, dropped), s, dropped, Len(s))
<1> DEFINE n == Len(s)
<1>1. n \in Nat /\ DOMAIN s = 1..n
  OBVIOUS
<1> HIDE DEF n
<1>2. retain(s, dropped) = (CHOOSE it : Folds(s, dropped, n, it))[1..n]
  BY <1>1 DEF retain, FoldLeft, MapThenFoldSet, Folds
<1>3. PICK it : Folds(s, dropped, n, it) /\ retain(s, dropped) = it[1..n]
  BY <1>1, <1>2, FoldExists
<1> DEFINE Sound(m) == it[1..m] \in Seq(S) /\ \E f : Embeds(f, it[1..m], s, dropped, m)
           Bad == {m \in 0..n : ~Sound(m)}
<1>4. Sound(0)
  <2>1. it[1..0] = <<>>
    BY <1>1, <1>3, FoldStep
  <2>2. PICK r : r = <<>>
    OBVIOUS
  <2>3. 1..0 = {} /\ Len(r) = 0 /\ r \in Seq(S)
    BY <2>2
  <2>4. Embeds([i \in 1..0 |-> 0], r, s, dropped, 0)
    BY <2>3 DEF Embeds
  <2>5. QED
    BY <2>1, <2>2, <2>3, <2>4
<1>5. ASSUME NEW m \in Nat, m + 1 <= n, Sound(m) PROVE Sound(m + 1)
  <2>1. it[1..(m + 1)] = Passed(dropped, it[1..m], s[m + 1])
    <3>1. m + 1 \in 1..n /\ (m + 1) - 1 = m
      BY <1>1, <1>5
    <3>2. it[1..(m + 1)] = Passed(dropped, it[1..((m + 1) - 1)], s[m + 1])
      BY <1>1, <1>3, <3>1, FoldStep
    <3>3. QED
      BY <3>1, <3>2
  <2>2. PICK r : r = it[1..m]
    OBVIOUS
  <2>3. r \in Seq(S) /\ \E f : Embeds(f, r, s, dropped, m)
    BY <1>5, <2>2
  <2>4. /\ Passed(dropped, r, s[m + 1]) \in Seq(S)
        /\ \E f : Embeds(f, Passed(dropped, r, s[m + 1]), s, dropped, m + 1)
    BY <1>5, <2>3, EmbedsStep DEF n
  <2>5. QED
    BY <2>1, <2>2, <2>4
<1> HIDE DEF Sound
<1>6. Bad = {}
  <2> SUFFICES ASSUME Bad # {} PROVE FALSE
    OBVIOUS
  <2>1. PICK m \in Bad : \A j \in Bad : ~(j < m)
    <3>1. Bad \subseteq Nat
      OBVIOUS
    <3> HIDE DEF Bad
    <3>2. QED
      BY <3>1, LeastNumber
  <2>2. m \in 0..n /\ ~Sound(m) /\ m # 0
    BY <1>4
  <2>3. m - 1 \in Nat /\ m - 1 \in 0..n /\ m - 1 < m /\ (m - 1) + 1 = m /\ (m - 1) + 1 <= n
    BY <1>1, <2>2
  <2>4. Sound(m - 1)
    BY <2>1, <2>3
  <2>5. Sound((m - 1) + 1)
    BY <1>5, <2>3, <2>4
  <2>6. QED
    BY <2>2, <2>3, <2>5
<1>7. Sound(n)
  <2>1. n \in 0..n
    BY <1>1
  <2>2. QED
    BY <1>6, <2>1
<1>8. QED
  BY <1>3, <1>7 DEF Sound, n

\* What retain keeps of a sequence is what its elements are apart from those dropped; it
\* repeats none that was not repeated.
LEMMA RetainKeeps ==
    ASSUME NEW S, NEW s \in Seq(S), NEW dropped
    PROVE  /\ retain(s, dropped) \in Seq(S)
           /\ ToSet(retain(s, dropped)) = ToSet(s) \ dropped
           /\ IsInjective(s) => IsInjective(retain(s, dropped))
<1>1. PICK r : r = retain(s, dropped)
  OBVIOUS
<1>2. r \in Seq(S) /\ \E f : Embeds(f, r, s, dropped, Len(s))
  BY <1>1, RetainEmbeds
<1>3. PICK f : Embeds(f, r, s, dropped, Len(s))
  BY <1>2
<1>4. /\ Len(r) \in Nat /\ Len(s) \in Nat /\ DOMAIN r = 1..Len(r) /\ DOMAIN s = 1..Len(s)
      /\ \A i \in 1..Len(r) : f[i] \in 1..Len(s)
  BY <1>2, <1>3, SMTT(30) DEF Embeds
<1>5. ToSet(r) \subseteq ToSet(s) \ dropped
  <2>1. \A i \in DOMAIN r : r[i] \in ToSet(s) /\ r[i] \notin dropped
    BY <1>3, <1>4 DEF Embeds, ToSet
  <2>2. QED
    BY <2>1 DEF ToSet
<1>6. ToSet(s) \ dropped \subseteq ToSet(r)
  <2>1. ASSUME NEW m \in 1..Len(s), s[m] \notin dropped PROVE s[m] \in ToSet(r)
    <3>1. PICK i \in 1..Len(r) : f[i] = m
      BY <1>3, <2>1 DEF Embeds
    <3>2. r[i] = s[m]
      BY <1>3, <3>1 DEF Embeds
    <3>3. QED
      BY <1>4, <3>2 DEF ToSet
  <2>2. QED
    BY <1>4, <2>1 DEF ToSet
<1>7. ASSUME IsInjective(s) PROVE IsInjective(r)
  <2>1. ASSUME NEW i \in 1..Len(r), NEW j \in 1..Len(r), r[i] = r[j] PROVE i = j
    <3>1. s[f[i]] = s[f[j]] /\ f[i] \in 1..Len(s) /\ f[j] \in 1..Len(s)
      BY <1>3, <1>4, <2>1 DEF Embeds
    <3>2. f[i] = f[j]
      BY <1>4, <1>7, <3>1 DEF IsInjective
    <3>3. i < j => f[i] < f[j]
      BY <1>3 DEF Embeds
    <3>4. j < i => f[j] < f[i]
      BY <1>3 DEF Embeds
    <3>5. QED
      BY <1>4, <3>1, <3>2, <3>3, <3>4
  <2>2. QED
    BY <1>4, <2>1 DEF IsInjective
<1>8. QED
  BY <1>1, <1>2, <1>5, <1>6, <1>7

\* A sequence without repetitions is as long as it has elements.
LEMMA LengthCounts ==
    ASSUME NEW S, NEW s \in Seq(S), IsInjective(s)
    PROVE  IsFiniteSet(ToSet(s)) /\ Cardinality(ToSet(s)) = Len(s)
<1>1. Len(s) \in Nat /\ DOMAIN s = 1..Len(s) /\ s \in [1..Len(s) -> ToSet(s)]
  BY DEF ToSet
<1>2. \A x \in ToSet(s) : \E i \in 1..Len(s) : s[i] = x
  BY <1>1 DEF ToSet
<1>3. s \in Bijection(1..Len(s), ToSet(s))
  BY <1>1, <1>2 DEF IsInjective, Bijection, Injection, Surjection
<1>4. IsFiniteSet(1..Len(s)) /\ Cardinality(1..Len(s)) = Len(s)
  BY <1>1, FS_Interval, SMTT(30)
<1>5. QED
  BY <1>3, <1>4, FS_Bijection DEF ExistsBijection

\* Where in a sequence the elements of X stand.
Among(s, X) == {i \in DOMAIN s : s[i] \in X}

\* They are no more than the sequence is long.
LEMMA AmongFinite ==
    ASSUME NEW S, NEW s \in Seq(S), NEW X
    PROVE  /\ IsFiniteSet(Among(s, X))
           /\ Cardinality(Among(s, X)) \in Nat /\ Cardinality(Among(s, X)) <= Len(s)
<1>1. Len(s) \in Nat
  OBVIOUS
<1>2. IsFiniteSet(1..Len(s)) /\ Cardinality(1..Len(s)) = Len(s)
  BY <1>1, FS_Interval, SMTT(30)
<1>3. Among(s, X) \in SUBSET (1..Len(s))
  BY DEF Among
<1>4. IsFiniteSet(Among(s, X)) /\ Cardinality(Among(s, X)) <= Len(s)
  BY <1>2, <1>3, FS_Subset
<1>5. QED
  BY <1>4, FS_CardinalityType

\* An element appended is one more, if it is of them.
LEMMA AmongAppended ==
    ASSUME NEW S, NEW s \in Seq(S), NEW e \in S, NEW X
    PROVE  Cardinality(Among(Append(s, e), X)) =
               IF e \in X THEN Cardinality(Among(s, X)) + 1 ELSE Cardinality(Among(s, X))
<1>1. PICK longer : longer = Append(s, e)
  OBVIOUS
<1>2. /\ Len(s) \in Nat /\ DOMAIN s = 1..Len(s) /\ DOMAIN longer = 1..(Len(s) + 1)
      /\ longer[Len(s) + 1] = e /\ \A i \in 1..Len(s) : longer[i] = s[i]
  BY <1>1
<1>3. IsFiniteSet(Among(s, X)) /\ Len(s) + 1 \notin Among(s, X)
  <2>1. IsFiniteSet(Among(s, X))
    BY AmongFinite
  <2>2. Len(s) + 1 \notin 1..Len(s)
    BY <1>2
  <2>3. QED
    BY <1>2, <2>1, <2>2 DEF Among
<1>4. Among(longer, X) = IF e \in X THEN Among(s, X) \union {Len(s) + 1} ELSE Among(s, X)
  <2>1. \A i \in 1..(Len(s) + 1) : i \in 1..Len(s) \/ i = Len(s) + 1
    BY <1>2
  <2>2. Len(s) + 1 \in 1..(Len(s) + 1) /\ \A i \in 1..Len(s) : i \in 1..(Len(s) + 1)
    BY <1>2
  <2>3. \A i : i \in Among(longer, X) <=> i \in Among(s, X) \/ (i = Len(s) + 1 /\ e \in X)
    BY <1>2, <2>1, <2>2 DEF Among
  <2>4. QED
    BY <2>3
<1>5. QED
  BY <1>1, <1>3, <1>4, FS_AddElement

\* Nothing of X is lost when nothing of X is dropped.
LEMMA AmongRetained ==
    ASSUME NEW S, NEW s \in Seq(S), NEW dropped, NEW X, X \intersect dropped = {}
    PROVE  Cardinality(Among(retain(s, dropped), X)) = Cardinality(Among(s, X))
<1>1. PICK r : r = retain(s, dropped)
  OBVIOUS
<1>2. r \in Seq(S) /\ \E f : Embeds(f, r, s, dropped, Len(s))
  BY <1>1, RetainEmbeds
<1>3. PICK f : Embeds(f, r, s, dropped, Len(s))
  BY <1>2
<1>4. /\ Len(r) \in Nat /\ Len(s) \in Nat /\ DOMAIN r = 1..Len(r) /\ DOMAIN s = 1..Len(s)
      /\ \A i \in 1..Len(r) : f[i] \in 1..Len(s)
  <2>1. /\ Len(r) \in Nat /\ DOMAIN r = 1..Len(r)
    BY <1>2
  <2>2. Len(s) \in Nat /\ DOMAIN s = 1..Len(s)
    OBVIOUS
  <2>3. f \in [1..Len(r) -> 1..Len(s)]
    BY <1>3 DEF Embeds
  <2>4. QED
    BY <2>1, <2>2, <2>3
<1> DEFINE g == [i \in Among(r, X) |-> f[i]]
<1>5. \A i \in Among(r, X) : g[i] = f[i] /\ i \in 1..Len(r) /\ f[i] \in Among(s, X)
  BY <1>3, <1>4 DEF Embeds, Among
<1>6. g \in [Among(r, X) -> Among(s, X)]
  BY <1>5
<1>7. \A m \in Among(s, X) : \E i \in Among(r, X) : g[i] = m
  <2>1. ASSUME NEW m \in Among(s, X) PROVE \E i \in Among(r, X) : g[i] = m
    <3>1. m \in 1..Len(s) /\ s[m] \in X /\ s[m] \notin dropped
      BY <1>4 DEF Among
    <3>2. PICK i \in 1..Len(r) : f[i] = m
      BY <1>3, <3>1 DEF Embeds
    <3>3. i \in Among(r, X)
      BY <1>3, <1>4, <3>1, <3>2 DEF Embeds, Among
    <3>4. QED
      BY <1>5, <3>2, <3>3
  <2>2. QED
    BY <2>1
<1>8. \A i, j \in Among(r, X) : g[i] = g[j] => i = j
  <2>1. ASSUME NEW i \in Among(r, X), NEW j \in Among(r, X), i # j PROVE f[i] # f[j]
    <3>1. i \in 1..Len(r) /\ j \in 1..Len(r) /\ f[i] \in 1..Len(s) /\ f[j] \in 1..Len(s)
      BY <1>4, <1>5
    <3>2. i < j \/ j < i
      BY <1>4, <2>1, <3>1
    <3>3. f[i] < f[j] \/ f[j] < f[i]
      BY <1>3, <3>1, <3>2 DEF Embeds
    <3>4. QED
      BY <1>4, <3>1, <3>3
  <2>2. QED
    BY <1>5, <2>1
<1> HIDE DEF g
<1>9. g \in Bijection(Among(r, X), Among(s, X))
  BY <1>6, <1>7, <1>8 DEF Bijection, Injection, Surjection, IsInjective
<1>10. IsFiniteSet(Among(r, X))
  BY <1>2, AmongFinite
<1>11. QED
  BY <1>1, <1>9, <1>10, FS_Bijection DEF ExistsBijection

-------------------------------------------------------------------------------
(***************************************************************************)
(* The cache of derived keys (KeyCache)                                    *)
(***************************************************************************)
CacheKeys == [password : Passwords, salt : Salts, len : Lengths]

\* The two halves list the same keys, each once.
Aligned ==
    /\ order \in Seq(CacheKeys)
    /\ ToSet(order) = DOMAIN entries
    /\ IsInjective(order)
    /\ Len(order) <= capacity

\* An entry is what its key derives.
Fresh == \A k \in DOMAIN entries : entries[k] = Derived(k.password, k.salt, k.len)

Answered ==
    reply.call = "get_or_derive" => reply.key = Derived(reply.password, reply.salt, reply.len)

CacheIInv == Aligned /\ Fresh /\ Answered

\* The cache holds as many entries as keys are queued.
LEMMA QueueCounts == Aligned => Len(order) \in Nat /\ Cardinality(DOMAIN entries) = Len(order)
  BY LengthCounts DEF Aligned

\* A new or cleared cache is empty (KeyCache::new, clear).
LEMMA EmptyAligned ==
    ASSUME entries = <<>>, order = <<>>
    PROVE  Aligned /\ Fresh
<1>1. order \in Seq(CacheKeys) /\ Len(order) = 0 /\ DOMAIN order = {} /\ DOMAIN entries = {}
  OBVIOUS
<1>2. 0 <= capacity
  BY CapacityAssumption
<1>3. QED
  BY <1>1, <1>2 DEF Aligned, Fresh, ToSet, IsInjective

\* The queue without its oldest key, when the cache is full (133-137).
LEMMA OldestEvicted ==
    ASSUME Aligned, order # <<>>
    PROVE  /\ Head(order) \in CacheKeys /\ Tail(order) \in Seq(CacheKeys)
           /\ ToSet(Tail(order)) = DOMAIN entries \ {Head(order)}
           /\ IsInjective(Tail(order))
           /\ Len(Tail(order)) + 1 = Len(order)
<1>1. PICK s : s = order
  OBVIOUS
<1>2. PICK t : t = Tail(order)
  OBVIOUS
<1>3. /\ s \in Seq(CacheKeys) /\ s # <<>> /\ Len(s) \in Nat /\ DOMAIN s = 1..Len(s)
      /\ t \in Seq(CacheKeys) /\ Len(t) + 1 = Len(s) /\ DOMAIN t = 1..Len(t) /\ Len(t) \in Nat
      /\ \A i \in 1..Len(t) : t[i] = s[i + 1] /\ i + 1 \in 1..Len(s)
      /\ Head(s) = s[1] /\ 1 \in 1..Len(s)
  BY <1>1, <1>2 DEF Aligned
<1>4. IsInjective(s) /\ ToSet(s) = DOMAIN entries
  BY <1>1 DEF Aligned
<1>5. IsInjective(t)
  <2>1. ASSUME NEW i \in 1..Len(t), NEW j \in 1..Len(t), t[i] = t[j] PROVE i = j
    <3>1. s[i + 1] = s[j + 1] /\ i + 1 \in DOMAIN s /\ j + 1 \in DOMAIN s
      BY <1>3, <2>1
    <3>2. i + 1 = j + 1
      BY <1>4, <3>1 DEF IsInjective
    <3>3. QED
      BY <3>2
  <2>2. QED
    BY <1>3, <2>1 DEF IsInjective
<1>6. ASSUME NEW x \in ToSet(t) PROVE x \in ToSet(s) \ {Head(s)}
  <2>1. PICK i \in 1..Len(t) : x = t[i]
    BY <1>3, <1>6 DEF ToSet
  <2>2. x = s[i + 1] /\ i + 1 \in DOMAIN s /\ i + 1 # 1
    BY <1>3, <2>1
  <2>3. x # s[1]
    BY <1>3, <1>4, <2>2 DEF IsInjective
  <2>4. QED
    BY <1>3, <2>2, <2>3 DEF ToSet
<1>7. ASSUME NEW x \in ToSet(s) \ {Head(s)} PROVE x \in ToSet(t)
  <2>1. PICK i \in 1..Len(s) : x = s[i]
    BY <1>3, <1>7 DEF ToSet
  <2>2. i # 1
    BY <1>3, <1>7, <2>1
  <2>3. i - 1 \in 1..Len(t) /\ (i - 1) + 1 = i
    BY <1>3, <2>2
  <2>4. t[i - 1] = x
    BY <1>3, <2>1, <2>3
  <2>5. QED
    BY <1>3, <2>3, <2>4 DEF ToSet
<1>8. ToSet(t) = ToSet(s) \ {Head(s)}
  BY <1>6, <1>7
<1>9. Head(s) \in CacheKeys
  BY <1>3
<1>10. QED
  BY <1>1, <1>2, <1>3, <1>4, <1>5, <1>8, <1>9

\* One key more at the end of a queue that has room (146).
LEMMA Queued ==
    ASSUME NEW s \in Seq(CacheKeys), IsInjective(s), NEW k \in CacheKeys, k \notin ToSet(s)
    PROVE  /\ Append(s, k) \in Seq(CacheKeys)
           /\ ToSet(Append(s, k)) = ToSet(s) \union {k}
           /\ IsInjective(Append(s, k))
           /\ Len(Append(s, k)) = Len(s) + 1
<1>1. PICK q : q = Append(s, k)
  OBVIOUS
<1>2. /\ Len(s) \in Nat /\ DOMAIN s = 1..Len(s) /\ q \in Seq(CacheKeys)
      /\ Len(q) = Len(s) + 1 /\ DOMAIN q = 1..(Len(s) + 1)
      /\ \A i \in 1..Len(s) : q[i] = s[i] /\ i \in DOMAIN q
      /\ q[Len(s) + 1] = k /\ Len(s) + 1 \in DOMAIN q
      /\ \A i \in DOMAIN q : i = Len(s) + 1 \/ i \in 1..Len(s)
  BY <1>1
<1>3. \A i \in 1..Len(s) : s[i] # k
  BY <1>2 DEF ToSet
<1>4. ToSet(q) = ToSet(s) \union {k}
  BY <1>2 DEF ToSet
<1>5. IsInjective(q)
  BY <1>2, <1>3 DEF IsInjective
<1>6. QED
  BY <1>1, <1>2, <1>4, <1>5

\* A key that is derived anew takes the place of the oldest one, if none is free (124-147).
LEMMA MissCache ==
    ASSUME CacheIInv, NEW p \in Passwords, NEW s \in Salts, NEW n \in Lengths, Miss(p, s, n)
    PROVE  CacheIInv'
<1> DEFINE k == Key(p, s, n)
           evicted == IF Full /\ order # <<>> THEN {Head(order)} ELSE {}
           kept == Restrict(entries, DOMAIN entries \ evicted)
           queue == IF evicted = {} THEN order ELSE Tail(order)
<1>1. /\ k \notin DOMAIN entries
      /\ entries' = [e \in DOMAIN kept \union {k} |->
                        IF e = k THEN Derived(p, s, n) ELSE kept[e]]
      /\ order' = Append(queue, k)
      /\ Answer(p, s, n, Derived(p, s, n))
  BY DEF Miss
<1>2. /\ k \in CacheKeys /\ k.password = p /\ k.salt = s /\ k.len = n
  BY DEF Key, CacheKeys
<1>3. /\ DOMAIN kept = DOMAIN entries \ evicted
      /\ \A e \in DOMAIN entries \ evicted : kept[e] = entries[e]
  BY DEF Restrict
<1>4. Aligned /\ Fresh
  BY DEF CacheIInv
<1> HIDE DEF k
<1>5. /\ queue \in Seq(CacheKeys) /\ IsInjective(queue)
      /\ ToSet(queue) = DOMAIN entries \ evicted
      /\ Len(queue) + 1 <= capacity
  <2>1. CASE Full /\ order # <<>>
    <3>1. evicted = {Head(order)} /\ queue = Tail(order)
      BY <2>1
    <3>2. Len(order) <= capacity
      BY <1>4 DEF Aligned
    <3>3. QED
      BY <1>4, <2>1, <3>1, <3>2, OldestEvicted
  <2>2. CASE ~(Full /\ order # <<>>)
    <3>1. evicted = {} /\ queue = order
      BY <2>2
    <3>2. Len(order) \in Nat /\ Cardinality(DOMAIN entries) = Len(order)
      BY <1>4, QueueCounts
    <3>3. Len(order) + 1 <= capacity
      <4>1. CASE order = <<>>
        BY <4>1, CapacityAssumption
      <4>2. CASE ~Full
        BY <3>2, <4>2, CapacityAssumption DEF Full
      <4>3. QED
        BY <2>2, <4>1, <4>2
    <3>4. QED
      BY <1>4, <3>1, <3>3 DEF Aligned
  <2>3. QED
    BY <2>1, <2>2
<1> HIDE DEF evicted, kept, queue
<1>6. k \notin ToSet(queue)
  BY <1>1, <1>5
<1>7. /\ order' \in Seq(CacheKeys) /\ ToSet(order') = ToSet(queue) \union {k}
      /\ IsInjective(order') /\ Len(order') = Len(queue) + 1
  BY <1>1, <1>2, <1>5, <1>6, Queued
<1>8. DOMAIN entries' = (DOMAIN entries \ evicted) \union {k}
  BY <1>1, <1>3
<1>9. Aligned'
  BY <1>5, <1>7, <1>8 DEF Aligned
<1>10. Fresh'
  BY <1>1, <1>2, <1>3, <1>4, <1>8 DEF Fresh
<1>11. Answered'
  BY <1>1 DEF Answer, Answered
<1>12. QED
  BY <1>9, <1>10, <1>11 DEF CacheIInv

\* An invalidated key leaves the map and the queue (invalidate).
LEMMA InvalidateCache ==
    ASSUME CacheIInv, NEW p \in Passwords, NEW s \in Salts, NEW n \in Lengths,
           invalidate(p, s, n)
    PROVE  CacheIInv'
<1>1. PICK k : k = Key(p, s, n)
  OBVIOUS
<1>2. /\ entries' = Restrict(entries, DOMAIN entries \ {k})
      /\ order' = IF k \in DOMAIN entries THEN retain(order, {k}) ELSE order
      /\ reply' = [call |-> "invalidate"]
  BY <1>1 DEF invalidate
<1>3. Aligned /\ Fresh
  BY DEF CacheIInv
<1>4. /\ DOMAIN entries' = DOMAIN entries \ {k}
      /\ \A e \in DOMAIN entries \ {k} : entries'[e] = entries[e]
  BY <1>2 DEF Restrict
<1>5. Fresh'
  BY <1>3, <1>4 DEF Fresh
<1>6. /\ order' \in Seq(CacheKeys) /\ ToSet(order') = DOMAIN entries \ {k}
      /\ IsInjective(order')
  <2>1. CASE k \in DOMAIN entries
    BY <1>2, <1>3, <2>1, RetainKeeps DEF Aligned
  <2>2. CASE k \notin DOMAIN entries
    BY <1>2, <1>3, <2>2 DEF Aligned
  <2>3. QED
    BY <2>1, <2>2
<1>7. Len(order') <= capacity
  <2>1. IsFiniteSet(ToSet(order)) /\ Cardinality(ToSet(order)) = Len(order)
    BY <1>3, LengthCounts DEF Aligned
  <2>2. Cardinality(ToSet(order')) = Len(order')
    BY <1>6, LengthCounts
  <2>3. ToSet(order') \in SUBSET ToSet(order)
    BY <1>3, <1>6 DEF Aligned
  <2>4. Cardinality(ToSet(order')) <= Cardinality(ToSet(order))
    BY <2>1, <2>3, FS_Subset
  <2>5. Len(order) \in Nat /\ Len(order') \in Nat /\ Len(order) <= capacity /\ capacity \in Nat
    BY <1>3, <1>6, CapacityAssumption DEF Aligned
  <2>6. QED
    BY <2>1, <2>2, <2>4, <2>5
<1>8. Aligned'
  BY <1>4, <1>6, <1>7 DEF Aligned
<1>9. Answered'
  BY <1>2 DEF Answered
<1>10. QED
  BY <1>5, <1>8, <1>9 DEF CacheIInv

\* At first both halves are empty.
LEMMA CacheInitIInv == CacheInit => CacheIInv
  BY EmptyAligned DEF CacheInit, CacheIInv, Answered

\* Every call keeps them so.
LEMMA CacheNextIInv == CacheIInv /\ [CacheNext]_cacheVars => CacheIInv'
<1> SUFFICES ASSUME CacheIInv, [CacheNext]_cacheVars PROVE CacheIInv'
  OBVIOUS
<1>1. ASSUME UNCHANGED <<entries, order>>, Answered' PROVE CacheIInv'
  BY <1>1 DEF CacheIInv, Aligned, Fresh
<1>2. ASSUME NEW p \in Passwords, NEW s \in Salts, NEW n \in Lengths,
             \/ InvalidLength(n) \/ Hit(p, s, n) \/ Panic(p, s, n) \/ Miss(p, s, n)
             \/ invalidate(p, s, n)
      PROVE  CacheIInv'
  <2>1. CASE InvalidLength(n) \/ Panic(p, s, n)
    BY <1>1, <2>1 DEF InvalidLength, Panic, Fail, Answered
  <2>2. CASE Hit(p, s, n)
    <3>1. entries[Key(p, s, n)] = Derived(p, s, n)
      BY <2>2 DEF Hit, CacheIInv, Fresh, Key
    <3>2. Answered'
      BY <2>2, <3>1 DEF Hit, Answer, Answered
    <3>3. QED
      BY <1>1, <2>2, <3>2 DEF Hit
  <2>3. QED
    BY <1>2, <2>1, <2>2, MissCache, InvalidateCache
<1>3. CASE clear
  <2>1. Aligned' /\ Fresh'
    <3>1. entries' = <<>> /\ order' = <<>>
      BY <1>3 DEF clear
    <3>2. order' \in Seq(CacheKeys) /\ Len(order') = 0 /\ DOMAIN order' = {} /\ DOMAIN entries' = {}
      BY <3>1
    <3>3. 0 <= capacity
      BY CapacityAssumption
    <3>4. QED
      BY <3>2, <3>3 DEF Aligned, Fresh, ToSet, IsInjective
  <2>2. Answered'
    BY <1>3 DEF clear, Answered
  <2>3. QED
    BY <2>1, <2>2 DEF CacheIInv
<1>4. CASE UNCHANGED cacheVars
  BY <1>1, <1>4 DEF cacheVars, CacheIInv, Answered
<1>5. QED
  BY <1>2, <1>3, <1>4 DEF CacheNext

\* For any passwords, salts, lengths and capacity: the queue and the map list the same keys,
\* each once and at most as many as the capacity, and every answer is what a fresh
\* derivation gives (key_cache.rs:105-167).
THEOREM CacheSoundHolds == CacheSpec => []CacheSound
<1>1. CacheIInv => CacheSound
  BY DEF CacheIInv, CacheSound, Aligned, Answered
<1>2. QED
  BY <1>1, CacheInitIInv, CacheNextIInv, PTL DEF CacheSpec

-------------------------------------------------------------------------------
(***************************************************************************)
(* The in-memory vault of the Rust gateway (RustGateway)                   *)
(***************************************************************************)
KeyEntry == [id : KeyIds, key : Nat]
Ciphertext == [id : KeyIds, key : Nat, removed : BOOLEAN]

\* The key that iter().find gives for an id in a list (quantum_kernel.rs:282-291).
HasKey(list, id) == \E i \in DOMAIN list : list[i].id = id
FirstKey(list, id) == list[SelectInSeq(list, LAMBDA k : k.id = id)].key

\* A ciphertext opens, unless its key was removed.
Opens(list, ct) == ~ct.removed => HasKey(list, ct.id) /\ FirstKey(list, ct.id) = ct.key

\* The ciphertexts that were returned and those about to be.
Flight == sealed \union {work[t] : t \in {u \in Threads : At(u, "seal")}}

GatewayTypes ==
    /\ keys \in Seq(KeyEntry)
    /\ minted \in Nat
    /\ work = [t \in Threads |-> work[t]]
    /\ \A t \in Threads :
          /\ At(t, "push") => work[t].id \in KeyIds /\ work[t].key \in Nat
          /\ At(t, "seal") => work[t] \in [at : {"seal"}, id : KeyIds, key : Nat, removed : BOOLEAN]
    /\ sealed \subseteq Ciphertext

\* A ciphertext that was returned, or is about to be, has its key first under its id
\* until a delete_key of that id that came after the key was picked.
SealedKeyKept ==
    \A ct \in sealed \union {work[t] : t \in {u \in Threads : At(u, "seal")}} :
        ~ct.removed => Has(ct.id) /\ First(ct.id) = ct.key

GatewayIInv == GatewayTypes /\ SealedKeyKept

\* What was answered so far; only a nonce of the wrong length can have poisoned the lock.
GatewayAnswers == (poisoned => malformed) /\ SealedOpens

\* SealedKeyKept, said with the lists as a parameter.
LEMMA KeptOpens ==
    /\ SealedKeyKept <=> \A ct \in Flight : Opens(keys, ct)
    /\ SealedKeyKept' <=> \A ct \in Flight' : Opens(keys', ct)
<1>1. ASSUME NEW CONSTANT id
      PROVE  /\ Has(id) <=> HasKey(keys, id)
             /\ First(id) = FirstKey(keys, id)
             /\ Has(id)' <=> HasKey(keys', id)
             /\ First(id)' = FirstKey(keys', id)
  <2>1. Has(id) <=> HasKey(keys, id)
    BY DEF Has, HasKey
  <2>2. First(id) = FirstKey(keys, id)
    BY Zenon DEF First, FirstKey
  <2>3. Has(id)' <=> HasKey(keys', id)
    BY DEF Has, HasKey
  <2>4. First(id)' = FirstKey(keys', id)
    BY DEF First, FirstKey, SelectInSeq
  <2>5. QED
    BY <2>1, <2>2, <2>3, <2>4
<1>2. SealedKeyKept <=> \A ct \in Flight : Opens(keys, ct)
  BY <1>1, Zenon DEF SealedKeyKept, Flight, Opens
<1>3. SealedKeyKept' <=> \A ct \in Flight' : Opens(keys', ct)
  BY <1>1, Zenon DEF SealedKeyKept, Flight, Opens
<1>4. QED
  BY <1>2, <1>3

\* The entry that find stops at is the first of its id.
LEMMA FirstIs ==
    ASSUME NEW list \in Seq(KeyEntry), NEW id, NEW i \in DOMAIN list, list[i].id = id,
           \A j \in DOMAIN list : j < i => list[j].id # id
    PROVE  HasKey(list, id) /\ FirstKey(list, id) = list[i].key
<1> DEFINE I == {j \in 1..Len(list) : list[j].id = id}
<1>1. /\ Len(list) \in Nat /\ DOMAIN list = 1..Len(list)
      /\ i \in I /\ \A j \in I : j \in Nat /\ i <= j
  OBVIOUS
<1>2. SelectInSeq(list, LAMBDA k : k.id = id) = IF I # {} THEN Min(I) ELSE 0
  BY DEF SelectInSeq
<1> HIDE DEF I
<1>3. Min(I) = i
  <2>1. \A x \in I : (\A y \in I : x <= y) => x = i
    BY <1>1
  <2>2. QED
    BY <1>1, <2>1 DEF Min
<1>4. SelectInSeq(list, LAMBDA k : k.id = id) = i
  BY <1>1, <1>2, <1>3
<1>5. QED
  BY <1>4 DEF HasKey, FirstKey

\* An id that has an entry has a first one.
LEMMA FirstThere ==
    ASSUME NEW list \in Seq(KeyEntry), NEW id, HasKey(list, id)
    PROVE  \E i \in DOMAIN list : /\ list[i].id = id /\ FirstKey(list, id) = list[i].key
                                  /\ \A j \in DOMAIN list : j < i => list[j].id # id
<1> DEFINE I == {j \in 1..Len(list) : list[j].id = id}
<1>1. Len(list) \in Nat /\ DOMAIN list = 1..Len(list) /\ I \subseteq Nat /\ I # {}
  BY DEF HasKey
<1>2. \A j \in DOMAIN list : list[j].id = id <=> j \in I
  BY <1>1
<1>3. I \subseteq DOMAIN list
  BY <1>1
<1> HIDE DEF I
<1>4. PICK i \in I : \A j \in I : ~(j < i)
  BY <1>1, LeastNumber
<1>5. i \in DOMAIN list /\ list[i].id = id /\ \A j \in DOMAIN list : j < i => list[j].id # id
  BY <1>2, <1>3, <1>4
<1>6. QED
  BY <1>5, FirstIs

\* Pushing a key leaves every id that has one its first (generate_keypair, 265-270).
LEMMA PushFirst ==
    ASSUME NEW list \in Seq(KeyEntry), NEW id \in KeyIds, NEW key \in Nat
    PROVE  /\ Push(id, key) = Append(keys, [id |-> id, key |-> key])
           /\ Append(list, [id |-> id, key |-> key]) \in Seq(KeyEntry)
           /\ \A k : HasKey(list, k) =>
                 /\ HasKey(Append(list, [id |-> id, key |-> key]), k)
                 /\ FirstKey(Append(list, [id |-> id, key |-> key]), k) = FirstKey(list, k)
           /\ ~HasKey(list, id) =>
                 /\ HasKey(Append(list, [id |-> id, key |-> key]), id)
                 /\ FirstKey(Append(list, [id |-> id, key |-> key]), id) = key
<1>1. PICK e : e = [id |-> id, key |-> key]
  OBVIOUS
<1>2. e \in KeyEntry /\ e.id = id /\ e.key = key
  BY <1>1 DEF KeyEntry
<1>3. PICK longer : longer = Append(list, e)
  OBVIOUS
<1>4. /\ Len(list) \in Nat /\ DOMAIN list = 1..Len(list)
      /\ longer \in Seq(KeyEntry) /\ DOMAIN longer = 1..(Len(list) + 1)
      /\ longer[Len(list) + 1] = e /\ \A i \in 1..Len(list) : longer[i] = list[i]
  BY <1>2, <1>3
<1>5. ASSUME NEW k, HasKey(list, k)
      PROVE  HasKey(longer, k) /\ FirstKey(longer, k) = FirstKey(list, k)
  <2>1. PICK i \in DOMAIN list : /\ list[i].id = k /\ FirstKey(list, k) = list[i].key
                                 /\ \A j \in DOMAIN list : j < i => list[j].id # k
    BY <1>5, FirstThere
  <2>2. i \in DOMAIN longer /\ longer[i] = list[i]
    BY <1>4, <2>1
  <2>3. \A j \in DOMAIN longer : j < i => longer[j].id # k
    <3>1. \A j \in DOMAIN longer : j < i => j \in DOMAIN list /\ longer[j] = list[j]
      BY <1>4, <2>1
    <3>2. QED
      BY <2>1, <3>1
  <2>4. QED
    BY <1>4, <2>1, <2>2, <2>3, FirstIs
<1>6. ASSUME ~HasKey(list, id)
      PROVE  HasKey(longer, id) /\ FirstKey(longer, id) = key
  <2>1. \A j \in DOMAIN list : list[j].id # id
    BY <1>6 DEF HasKey
  <2>2. Len(list) + 1 \in DOMAIN longer
    BY <1>4
  <2>3. \A j \in DOMAIN longer : j < Len(list) + 1 => longer[j].id # id
    BY <1>4, <2>1
  <2>4. QED
    BY <1>2, <1>4, <2>2, <2>3, FirstIs
<1>7. Push(id, key) = Append(keys, e)
  BY <1>1 DEF Push
<1>8. QED
  BY <1>1, <1>3, <1>4, <1>5, <1>6, <1>7

\* Removing an id leaves every other its first key (remove_keypair, 307-310).
LEMMA DeleteFirst ==
    ASSUME NEW list \in Seq(KeyEntry), NEW dropped, NEW k, HasKey(list, k),
           \A e \in dropped : e.id # k
    PROVE  /\ HasKey(retain(list, dropped), k)
           /\ FirstKey(retain(list, dropped), k) = FirstKey(list, k)
<1>1. \A e \in dropped : e.id # k
  OBVIOUS
<1>2. PICK left : left = retain(list, dropped)
  OBVIOUS
<1>3. left \in Seq(KeyEntry) /\ \E f : Embeds(f, left, list, dropped, Len(list))
  BY <1>2, RetainEmbeds
<1>4. PICK f : Embeds(f, left, list, dropped, Len(list))
  BY <1>3
<1>5. /\ Len(left) \in Nat /\ Len(list) \in Nat
      /\ DOMAIN left = 1..Len(left) /\ DOMAIN list = 1..Len(list)
  BY <1>3
<1>6. PICK i \in DOMAIN list : /\ list[i].id = k /\ FirstKey(list, k) = list[i].key
                               /\ \A j \in DOMAIN list : j < i => list[j].id # k
  BY FirstThere
<1>7. list[i] \notin dropped
  BY <1>1, <1>6
<1>8. PICK a \in 1..Len(left) : f[a] = i
  BY <1>4, <1>5, <1>6, <1>7 DEF Embeds
<1>9. left[a] = list[i]
  BY <1>4, <1>8 DEF Embeds
<1>10. \A b \in DOMAIN left : b < a => left[b].id # k
  <2>1. ASSUME NEW b \in 1..Len(left), b < a PROVE left[b].id # k
    <3>1. f[b] < i /\ f[b] \in DOMAIN list /\ left[b] = list[f[b]]
      BY <1>4, <1>5, <1>8, <2>1 DEF Embeds
    <3>2. QED
      BY <1>6, <3>1
  <2>2. QED
    BY <1>5, <2>1
<1>11. HasKey(left, k) /\ FirstKey(left, k) = left[a].key
  BY <1>3, <1>5, <1>6, <1>8, <1>9, <1>10, FirstIs, SMTT(30)
<1>12. QED
  BY <1>2, <1>3, <1>6, <1>9, <1>11

\* A step that ends or moves one request touches the flight of no other.
LEMMA OneRequest ==
    ASSUME GatewayTypes, NEW t \in Threads, NEW v, work' = [work EXCEPT ![t] = v],
           v.at = "push" => v.id \in KeyIds /\ v.key \in Nat,
           v.at = "seal" => v \in [at : {"seal"}, id : KeyIds, key : Nat, removed : BOOLEAN],
           keys' \in Seq(KeyEntry), minted' \in Nat, sealed' \subseteq Ciphertext
    PROVE  /\ GatewayTypes'
           /\ \A ct \in Flight' : ct \in sealed' \/ ct \in Flight \/ (v.at = "seal" /\ ct = v)
<1>1. /\ work' = [u \in Threads |-> work'[u]]
      /\ work'[t] = v /\ \A u \in Threads : u # t => work'[u] = work[u]
  BY DEF GatewayTypes
<1>2. GatewayTypes'
  BY <1>1 DEF GatewayTypes, At
<1>3. ASSUME NEW u \in Threads, At(u, "seal")'
      PROVE  work'[u] \in Flight \/ (v.at = "seal" /\ work'[u] = v)
  BY <1>1, <1>3 DEF Flight, At
<1>4. \A ct \in Flight' : ct \in sealed' \/ \E u \in Threads : At(u, "seal")' /\ ct = work'[u]
  BY DEF Flight
<1>5. QED
  BY <1>2, <1>3, <1>4

\* A step that removes no key keeps what opened.
LEMMA NoneRemoved ==
    ASSUME GatewayIInv, GatewayTypes',
           \A ct \in Flight' : ct \in Flight \/ Opens(keys', ct),
           \A k : HasKey(keys, k) => HasKey(keys', k) /\ FirstKey(keys', k) = FirstKey(keys, k)
    PROVE  GatewayIInv'
<1>1. \A ct \in Flight : Opens(keys, ct)
  BY KeptOpens DEF GatewayIInv
<1>2. \A ct : Opens(keys, ct) => Opens(keys', ct)
  BY DEF Opens
<1>3. \A ct \in Flight' : Opens(keys', ct)
  BY <1>1, <1>2
<1>4. QED
  BY <1>3, KeptOpens DEF GatewayIInv

\* A request that ends without a ciphertext, and one that is to push a key, leave the
\* vault as it is.
LEMMA RequestEnds ==
    ASSUME GatewayIInv, NEW t \in Threads, NEW v, work' = [work EXCEPT ![t] = v],
           v.at # "seal", v.at = "push" => v.id \in KeyIds /\ v.key \in Nat,
           keys' = keys, minted' \in Nat, sealed' = sealed
    PROVE  GatewayIInv'
<1>1. GatewayTypes
  BY DEF GatewayIInv
<1>2. keys' \in Seq(KeyEntry) /\ sealed' \subseteq Ciphertext
  BY <1>1 DEF GatewayTypes
<1>3. /\ GatewayTypes'
      /\ \A ct \in Flight' : ct \in sealed' \/ ct \in Flight \/ (v.at = "seal" /\ ct = v)
  BY <1>1, <1>2, OneRequest
<1>4. \A ct \in Flight' : ct \in Flight
  BY <1>3 DEF Flight
<1>5. \A k : HasKey(keys, k) => HasKey(keys', k) /\ FirstKey(keys', k) = FirstKey(keys, k)
  OBVIOUS
<1>6. QED
  BY <1>3, <1>4, <1>5, NoneRemoved

\* The requests that change no key: a reply, a panic, and the key pair drawn before
\* the lock (265-266).
LEMMA Replies ==
    ASSUME GatewayIInv, NEW t \in Threads, NEW answer, Ends(t, answer),
           keys' = keys, minted' = minted, sealed' = sealed
    PROVE  GatewayIInv'
<1>1. PICK v : v = Reply(answer)
  OBVIOUS
<1>2. v.at = "idle" /\ work' = [work EXCEPT ![t] = v]
  BY <1>1 DEF Reply, Ends
<1>3. minted' \in Nat
  BY DEF GatewayIInv, GatewayTypes
<1>4. QED
  BY <1>2, <1>3, RequestEnds

LEMMA GenerateKeeps ==
    ASSUME GatewayIInv, NEW t \in Threads, NEW id \in KeyIds, GenerateKey(t, id)
    PROVE  GatewayIInv'
<1>1. PICK v : v = [at |-> "push", id |-> id, key |-> minted + 1]
  OBVIOUS
<1>2. v.at = "push" /\ v.id = id /\ v.key = minted + 1 /\ work' = [work EXCEPT ![t] = v]
  BY <1>1 DEF GenerateKey
<1>3. minted \in Nat /\ minted' = minted + 1
  BY DEF GatewayIInv, GatewayTypes, GenerateKey
<1>4. keys' = keys /\ sealed' = sealed
  BY DEF GenerateKey
<1>5. /\ v.at # "seal" /\ (v.at = "push" => v.id \in KeyIds /\ v.key \in Nat)
      /\ minted' \in Nat /\ work' = [work EXCEPT ![t] = v]
  BY <1>2, <1>3
<1> HIDE <1>2
<1>6. QED
  BY <1>4, <1>5, RequestEnds

\* The push of a key pair drawn earlier, when another may have taken its id (267-268).
LEMMA PushKeeps ==
    ASSUME GatewayIInv, NEW t \in Threads, PushKey(t)
    PROVE  GatewayIInv'
<1>1. PICK v : v = Reply("generated")
  OBVIOUS
<1>2. v.at = "idle" /\ work' = [work EXCEPT ![t] = v]
  BY <1>1 DEF PushKey, Ends, Reply
<1>3. GatewayTypes /\ keys \in Seq(KeyEntry) /\ minted' \in Nat /\ sealed' \subseteq Ciphertext
  BY DEF GatewayIInv, GatewayTypes, PushKey
<1>4. PICK id, key : id = work[t].id /\ key = work[t].key
  OBVIOUS
<1>5. id \in KeyIds /\ key \in Nat
  BY <1>4 DEF GatewayIInv, GatewayTypes, PushKey
<1>6. keys' = Append(keys, [id |-> id, key |-> key])
  BY <1>4 DEF PushKey, Push
<1>7. /\ keys' \in Seq(KeyEntry)
      /\ \A k : HasKey(keys, k) => HasKey(keys', k) /\ FirstKey(keys', k) = FirstKey(keys, k)
  BY <1>3, <1>5, <1>6, PushFirst
<1>8. /\ GatewayTypes'
      /\ \A ct \in Flight' : ct \in sealed' \/ ct \in Flight \/ (v.at = "seal" /\ ct = v)
  BY <1>2, <1>3, <1>7, OneRequest
<1>9. \A ct \in Flight' : ct \in Flight
  BY <1>2, <1>8 DEF Flight, PushKey
<1>10. QED
  BY <1>7, <1>8, <1>9, NoneRemoved

\* A request that picked a key holds one that opens.
LEMMA Picked ==
    ASSUME GatewayIInv, NEW t \in Threads, NEW id \in KeyIds, NEW key \in Nat,
           work' = [work EXCEPT ![t] = [at |-> "seal", id |-> id, key |-> key, removed |-> FALSE]],
           keys' \in Seq(KeyEntry), minted' \in Nat, sealed' = sealed,
           HasKey(keys', id), FirstKey(keys', id) = key,
           \A k : HasKey(keys, k) => HasKey(keys', k) /\ FirstKey(keys', k) = FirstKey(keys, k)
    PROVE  GatewayIInv'
<1>1. PICK v : v = [at |-> "seal", id |-> id, key |-> key, removed |-> FALSE]
  OBVIOUS
<1>2. /\ v \in [at : {"seal"}, id : KeyIds, key : Nat, removed : BOOLEAN]
      /\ v.at = "seal" /\ v.id = id /\ v.key = key
  BY <1>1
<1>3. GatewayTypes /\ sealed' \subseteq Ciphertext /\ work' = [work EXCEPT ![t] = v]
  BY <1>1 DEF GatewayIInv, GatewayTypes
<1>4. /\ GatewayTypes'
      /\ \A ct \in Flight' : ct \in sealed' \/ ct \in Flight \/ (v.at = "seal" /\ ct = v)
  BY <1>2, <1>3, OneRequest
<1>5. Opens(keys', v)
  BY <1>2 DEF Opens
<1>6. \A ct \in Flight' : ct \in Flight \/ Opens(keys', ct)
  BY <1>4, <1>5 DEF Flight
<1>7. QED
  BY <1>4, <1>6, NoneRemoved

LEMMA PickKeeps ==
    ASSUME GatewayIInv, NEW t \in Threads, NEW id \in KeyIds, PickKey(t, id)
    PROVE  GatewayIInv'
<1>1. keys \in Seq(KeyEntry) /\ minted' \in Nat /\ keys' = keys /\ sealed' = sealed
  BY DEF GatewayIInv, GatewayTypes, PickKey
<1>2. HasKey(keys, id)
  BY DEF PickKey, Has, HasKey
<1>3. PICK key : key = FirstKey(keys, id)
  OBVIOUS
<1>4. key \in Nat
  <2>1. PICK i \in DOMAIN keys : FirstKey(keys, id) = keys[i].key
    BY <1>1, <1>2, FirstThere
  <2>2. keys[i] \in KeyEntry
    BY <1>1
  <2>3. QED
    BY <1>3, <2>1, <2>2 DEF KeyEntry
<1>5. First(id) = key
  BY <1>3, Zenon DEF First, FirstKey
<1>6. work' = [work EXCEPT ![t] = [at |-> "seal", id |-> id, key |-> key, removed |-> FALSE]]
  BY <1>5 DEF PickKey
<1>7. QED
  BY <1>1, <1>2, <1>3, <1>4, <1>6, Picked

LEMMA AutoGenerateKeeps ==
    ASSUME GatewayIInv, NEW t \in Threads, NEW id \in KeyIds, AutoGenerate(t, id)
    PROVE  GatewayIInv'
<1>1. keys \in Seq(KeyEntry) /\ minted \in Nat /\ minted' = minted + 1 /\ sealed' = sealed
  BY DEF GatewayIInv, GatewayTypes, AutoGenerate
<1>2. ~HasKey(keys, id)
  BY DEF AutoGenerate, Has, HasKey
<1>3. PICK key : key = minted + 1
  OBVIOUS
<1>4. key \in Nat /\ minted' \in Nat
  BY <1>1, <1>3
<1>5. /\ keys' = Append(keys, [id |-> id, key |-> key])
      /\ work' = [work EXCEPT ![t] = [at |-> "seal", id |-> id, key |-> key, removed |-> FALSE]]
  BY <1>3 DEF AutoGenerate, Push
<1>6. /\ keys' \in Seq(KeyEntry)
      /\ \A k : HasKey(keys, k) => HasKey(keys', k) /\ FirstKey(keys', k) = FirstKey(keys, k)
      /\ HasKey(keys', id) /\ FirstKey(keys', id) = key
  BY <1>1, <1>2, <1>4, <1>5, PushFirst
<1>7. QED
  BY <1>1, <1>4, <1>5, <1>6, Picked

\* What a request sealed opens as long as it did (291).
LEMMA SealKeeps ==
    ASSUME GatewayIInv, NEW t \in Threads, Seal(t)
    PROVE  GatewayIInv'
<1>1. PICK w : w = work[t]
  OBVIOUS
<1>2. PICK ct : ct = [id |-> w.id, key |-> w.key, removed |-> w.removed]
  OBVIOUS
<1>3. /\ w \in [at : {"seal"}, id : KeyIds, key : Nat, removed : BOOLEAN]
      /\ w \in Flight
  BY <1>1 DEF GatewayIInv, GatewayTypes, Seal, Flight
<1>4. ct \in Ciphertext /\ ct.id = w.id /\ ct.key = w.key /\ ct.removed = w.removed
  BY <1>2, <1>3 DEF Ciphertext
<1>5. /\ keys' = keys /\ minted' = minted
      /\ \/ sealed' = sealed \union {ct} /\ Ends(t, "sealed")
         \/ sealed' = sealed /\ Ends(t, "panic")
  BY <1>1, <1>2 DEF Seal
<1>6. CASE sealed' = sealed /\ Ends(t, "panic")
  BY <1>5, <1>6, Replies
<1>7. CASE sealed' = sealed \union {ct} /\ Ends(t, "sealed")
  <2>1. PICK v : v = Reply("sealed")
    OBVIOUS
  <2>2. v.at = "idle" /\ work' = [work EXCEPT ![t] = v]
    BY <1>7, <2>1 DEF Ends, Reply
  <2>3. GatewayTypes /\ keys' \in Seq(KeyEntry) /\ minted' \in Nat /\ sealed' \subseteq Ciphertext
    BY <1>4, <1>5, <1>7 DEF GatewayIInv, GatewayTypes
  <2>4. /\ GatewayTypes'
        /\ \A c \in Flight' : c \in sealed' \/ c \in Flight \/ (v.at = "seal" /\ c = v)
    BY <2>2, <2>3, OneRequest
  <2>5. Opens(keys, w)
    BY <1>3, KeptOpens DEF GatewayIInv
  <2>6. Opens(keys', ct)
    BY <1>4, <1>5, <2>5 DEF Opens
  <2>7. \A c \in Flight' : c \in Flight \/ Opens(keys', c)
    BY <1>7, <2>2, <2>4, <2>6 DEF Flight
  <2>8. \A k : HasKey(keys, k) => HasKey(keys', k) /\ FirstKey(keys', k) = FirstKey(keys, k)
    BY <1>5
  <2>9. QED
    BY <2>4, <2>7, <2>8, NoneRemoved
<1>8. QED
  BY <1>5, <1>6, <1>7

\* The ciphertext of a removed id is marked, the others are not.
LEMMA Marked ==
    ASSUME NEW id \in KeyIds, NEW ct,
           ct \in Ciphertext \/ ct \in [at : {"seal"}, id : KeyIds, key : Nat, removed : BOOLEAN]
    PROVE  /\ ct \in Ciphertext => Removes(id, ct) \in Ciphertext
           /\ ct \in [at : {"seal"}, id : KeyIds, key : Nat, removed : BOOLEAN] =>
                 Removes(id, ct) \in [at : {"seal"}, id : KeyIds, key : Nat, removed : BOOLEAN]
           /\ Removes(id, ct).id = ct.id /\ Removes(id, ct).key = ct.key
           /\ ~Removes(id, ct).removed => ~ct.removed /\ ct.id # id
<1>1. PICK gone \in BOOLEAN : gone = (ct.removed \/ ct.id = id)
  OBVIOUS
<1>2. Removes(id, ct) = [ct EXCEPT !.removed = gone]
  BY <1>1, Zenon DEF Removes
<1>3. Removes(id, ct).removed = gone
  BY <1>2 DEF Ciphertext
<1>4. ~gone => ~ct.removed /\ ct.id # id
  BY <1>1
<1>5. ~Removes(id, ct).removed => ~ct.removed /\ ct.id # id
  BY <1>3, <1>4, Zenon
<1>6. QED
  BY <1>2, <1>5 DEF Ciphertext

\* Removing the keys of an id leaves every other ciphertext its key (307-310).
LEMMA DeleteKeeps ==
    ASSUME GatewayIInv, NEW t \in Threads, NEW id \in KeyIds, DeleteKey(t, id)
    PROVE  GatewayIInv'
<1> DEFINE InWork == [at : {"seal"}, id : KeyIds, key : Nat, removed : BOOLEAN]
<1>1. /\ keys \in Seq(KeyEntry) /\ minted \in Nat /\ sealed \subseteq Ciphertext
      /\ \A u \in Threads : At(u, "seal") => work[u] \in InWork
      /\ \A u \in Threads : At(u, "push") => work[u].id \in KeyIds /\ work[u].key \in Nat
  BY DEF GatewayIInv, GatewayTypes
<1>2. /\ keys' = retain(keys, {k \in ToSet(keys) : k.id = id})
      /\ sealed' = {Removes(id, ct) : ct \in sealed} /\ minted' = minted
      /\ work' = [u \in Threads |->
                    IF u = t THEN Reply("deleted")
                    ELSE IF At(u, "seal") THEN Removes(id, work[u]) ELSE work[u]]
  BY DEF DeleteKey
<1>3. keys' \in Seq(KeyEntry)
  BY <1>1, <1>2, RetainEmbeds
<1>4. ASSUME NEW ct \in Flight
      PROVE  /\ ct \in Ciphertext \/ ct \in InWork
             /\ Opens(keys', Removes(id, ct))
  <2>1. ct \in Ciphertext \/ ct \in InWork
    BY <1>1, <1>4 DEF Flight
  <2>2. Opens(keys, ct)
    BY <1>4, KeptOpens DEF GatewayIInv
  <2>3. PICK marked : marked = Removes(id, ct)
    OBVIOUS
  <2>4. /\ marked.id = ct.id /\ marked.key = ct.key
        /\ ~marked.removed => ~ct.removed /\ ct.id # id
    BY <2>1, <2>3, Marked
  <2>5. ASSUME ~marked.removed PROVE HasKey(keys', ct.id) /\ FirstKey(keys', ct.id) = ct.key
    <3>1. ct.id # id /\ HasKey(keys, ct.id) /\ FirstKey(keys, ct.id) = ct.key
      BY <2>2, <2>4, <2>5 DEF Opens
    <3>2. PICK k : k = ct.id
      OBVIOUS
    <3>3. PICK dropped : dropped = {e \in ToSet(keys) : e.id = id}
      OBVIOUS
    <3>4. /\ keys' = retain(keys, dropped) /\ keys \in Seq(KeyEntry) /\ HasKey(keys, k)
          /\ \A e \in dropped : e.id # k
      BY <1>1, <1>2, <3>1, <3>2, <3>3
    <3>5. /\ HasKey(retain(keys, dropped), k)
          /\ FirstKey(retain(keys, dropped), k) = FirstKey(keys, k)
      BY <3>4, DeleteFirst
    <3>6. QED
      BY <3>1, <3>2, <3>4, <3>5
  <2>6. QED
    BY <2>1, <2>3, <2>4, <2>5 DEF Opens
<1>5. \A u \in Threads : /\ At(u, "push")' => At(u, "push") /\ work'[u] = work[u]
                         /\ At(u, "seal")' => At(u, "seal") /\ work'[u] = Removes(id, work[u])
  <2>1. ASSUME NEW u \in Threads
        PROVE  /\ At(u, "push")' => At(u, "push") /\ work'[u] = work[u]
               /\ At(u, "seal")' => At(u, "seal") /\ work'[u] = Removes(id, work[u])
    <3>1. CASE u = t
      BY <1>2, <3>1 DEF At, Reply
    <3>2. CASE u # t /\ At(u, "seal")
      <4>1. work'[u] = Removes(id, work[u])
        BY <1>2, <3>2
      <4>2. Removes(id, work[u]) \in InWork
        BY <1>1, <3>2, Marked
      <4>3. QED
        BY <3>2, <4>1, <4>2 DEF At
    <3>3. CASE u # t /\ ~At(u, "seal")
      BY <1>2, <3>3 DEF At
    <3>4. QED
      BY <3>1, <3>2, <3>3
  <2>2. QED
    BY <2>1
<1>6. GatewayTypes'
  <2>1. \A ct \in sealed : Removes(id, ct) \in Ciphertext
    BY <1>1, Marked
  <2>2. sealed' \subseteq Ciphertext
    BY <1>2, <2>1
  <2>3. \A u \in Threads : At(u, "seal") => Removes(id, work[u]) \in InWork
    BY <1>1, Marked
  <2>4. work' = [u \in Threads |-> work'[u]]
    BY <1>2
  <2>5. QED
    BY <1>1, <1>2, <1>3, <1>5, <2>2, <2>3, <2>4 DEF GatewayTypes
<1>7. \A c \in Flight' : \E ct \in Flight : c = Removes(id, ct)
  BY <1>2, <1>5 DEF Flight
<1>8. \A c \in Flight' : Opens(keys', c)
  BY <1>4, <1>7
<1>9. QED
  BY <1>6, <1>8, KeptOpens DEF GatewayIInv

\* At first there is neither key nor ciphertext.
LEMMA GatewayInitIInv == GatewayInit => GatewayIInv
<1> SUFFICES ASSUME GatewayInit PROVE GatewayIInv
  OBVIOUS
<1>1. keys \in Seq(KeyEntry) /\ minted \in Nat /\ sealed = {}
  BY DEF GatewayInit
<1>2. \A t \in Threads : work[t].at = "idle"
  BY DEF GatewayInit, Idle, Reply
<1>3. work = [t \in Threads |-> work[t]]
  BY DEF GatewayInit
<1>4. GatewayTypes
  BY <1>1, <1>2, <1>3 DEF GatewayTypes, At
<1>5. SealedKeyKept
  BY <1>1, <1>2 DEF SealedKeyKept, At
<1>6. QED
  BY <1>4, <1>5 DEF GatewayIInv

\* Every step of every request keeps the invariant.
LEMMA GatewayNextIInv == GatewayIInv /\ [GatewayNext]_gatewayVars => GatewayIInv'
<1> SUFFICES ASSUME GatewayIInv, [GatewayNext]_gatewayVars PROVE GatewayIInv'
  OBVIOUS
<1>1. ASSUME NEW t \in Threads, LockPanics(t) \/ ListKeys(t) \/ Untouched(t) PROVE GatewayIInv'
  BY <1>1, Replies DEF LockPanics, ListKeys, Untouched
<1>3. ASSUME NEW t \in Threads, NEW id \in KeyIds, NEW ct, NEW nonce, Decrypt(t, id, ct, nonce)
      PROVE  GatewayIInv'
  <2>1. PICK answer : work' = [work EXCEPT ![t] = Decrypted(answer, id, ct, nonce)]
    BY <1>3 DEF Decrypt
  <2>2. PICK v : v = Decrypted(answer, id, ct, nonce)
    OBVIOUS
  <2>3. v.at = "idle" /\ work' = [work EXCEPT ![t] = v]
    BY <2>1, <2>2 DEF Decrypted
  <2>4. keys' = keys /\ minted' \in Nat /\ sealed' = sealed
    BY <1>3 DEF Decrypt, GatewayIInv, GatewayTypes
  <2>5. QED
    BY <2>3, <2>4, RequestEnds
<1>4. CASE UNCHANGED gatewayVars
  <2>1. GatewayTypes' /\ Flight' = Flight /\ keys' = keys
    BY <1>4 DEF gatewayVars, GatewayIInv, GatewayTypes, At, Flight
  <2>2. QED
    BY <2>1, KeptOpens DEF GatewayIInv
<1>5. QED
  BY <1>1, <1>3, <1>4, PushKeeps, SealKeeps, GenerateKeeps, PickKeeps,
     AutoGenerateKeeps, DeleteKeeps DEF GatewayNext

\* A step that changes one request keeps the answers when its own is a proper one.
LEMMA OneAnswer ==
    ASSUME GatewayTypes, GatewayAnswers, NEW t \in Threads, NEW v,
           work' = [work EXCEPT ![t] = v],
           malformed => malformed', poisoned' => malformed',
           v.at = "idle" /\ v.due = "whole" =>
              v.answer \in {"plaintext", "Security watchdog"} \/ (v.answer = "panic" /\ malformed')
    PROVE  GatewayAnswers'
<1>1. work'[t] = v /\ \A u \in Threads : u # t => work'[u] = work[u]
  BY DEF GatewayTypes
<1>2. QED
  BY <1>1 DEF GatewayAnswers, SealedOpens, At

\* The other methods end without an answer that is due.
LEMMA Undue ==
    ASSUME GatewayTypes, GatewayAnswers, NEW t \in Threads, NEW v,
           work' = [work EXCEPT ![t] = v], v.at = "idle" => v.due = "none",
           poisoned' = poisoned, malformed' = malformed
    PROVE  GatewayAnswers'
<1>1. malformed => malformed'
  OBVIOUS
<1>2. poisoned' => malformed'
  BY DEF GatewayAnswers
<1>3. ~(v.at = "idle" /\ v.due = "whole")
  OBVIOUS
<1>4. QED
  BY <1>1, <1>2, <1>3, OneAnswer

\* A decrypt of what was returned, as it was returned, finds the key that sealed it
\* (quantum_kernel.rs:294-302); it panics on a lock that was poisoned.
LEMMA DecryptAnswers ==
    ASSUME GatewayIInv, GatewayAnswers, NEW t \in Threads, NEW id \in KeyIds, NEW ct,
           NEW nonce, Decrypt(t, id, ct, nonce)
    PROVE  GatewayAnswers'
<1>1. PICK answer \in (IF poisoned THEN {"panic"} ELSE Decryption(id, ct, nonce)) :
         /\ work' = [work EXCEPT ![t] = Decrypted(answer, id, ct, nonce)]
         /\ poisoned' = (answer = "panic")
  BY DEF Decrypt
<1>2. malformed' = (malformed \/ nonce = "missing")
  BY DEF Decrypt
<1>3. PICK v : v = Decrypted(answer, id, ct, nonce)
  OBVIOUS
<1>4. /\ v.at = "idle" /\ v.answer = answer
      /\ v.due = IF ct \in sealed /\ ct.id = id /\ ~ct.removed THEN nonce ELSE "none"
  BY <1>3 DEF Decrypted
<1>5. answer = "panic" => malformed'
  <2>1. CASE poisoned
    BY <1>2, <2>1 DEF GatewayAnswers
  <2>2. CASE ~poisoned
    BY <1>1, <1>2, <2>2 DEF Decryption
  <2>3. QED
    BY <2>1, <2>2
<1>6. ASSUME v.due = "whole" PROVE answer \in {"plaintext", "Security watchdog", "panic"}
  <2>1. ct \in sealed /\ ct.id = id /\ ~ct.removed /\ nonce = "whole"
    BY <1>4, <1>6
  <2>2. Has(id) /\ First(id) = ct.key
    BY <2>1 DEF GatewayIInv, SealedKeyKept
  <2>3. Decryption(id, ct, nonce) = {"plaintext", "Security watchdog"}
    BY <2>1, <2>2 DEF Decryption
  <2>4. QED
    BY <1>1, <2>3
<1>7. v.at = "idle" /\ v.due = "whole" =>
         v.answer \in {"plaintext", "Security watchdog"} \/ (v.answer = "panic" /\ malformed')
  BY <1>4, <1>5, <1>6
<1>8. work' = [work EXCEPT ![t] = v] /\ (malformed => malformed') /\ (poisoned' => malformed')
  BY <1>1, <1>2, <1>3, <1>5
<1>9. QED
  BY <1>7, <1>8, OneAnswer DEF GatewayIInv

\* Every step of every request keeps the answers proper.
LEMMA GatewayNextAnswers ==
    GatewayIInv /\ GatewayAnswers /\ [GatewayNext]_gatewayVars => GatewayAnswers'
<1> SUFFICES ASSUME GatewayIInv, GatewayAnswers, [GatewayNext]_gatewayVars
             PROVE  GatewayAnswers'
  OBVIOUS
<1>1. GatewayTypes
  BY DEF GatewayIInv
<1>2. ASSUME NEW t \in Threads, NEW answer, Ends(t, answer),
             poisoned' = poisoned, malformed' = malformed
      PROVE  GatewayAnswers'
  <2>1. PICK v : v = Reply(answer)
    OBVIOUS
  <2>2. v.due = "none" /\ work' = [work EXCEPT ![t] = v]
    BY <1>2, <2>1 DEF Ends, Reply
  <2>3. QED
    BY <1>1, <1>2, <2>2, Undue
<1>3. ASSUME NEW t \in Threads, LockPanics(t) \/ PushKey(t) \/ Seal(t) \/ ListKeys(t) \/ Untouched(t)
      PROVE  GatewayAnswers'
  <2>1. /\ poisoned' = poisoned /\ malformed' = malformed
        /\ \E answer : Ends(t, answer)
    BY <1>3 DEF LockPanics, PushKey, Seal, ListKeys, Untouched
  <2>2. QED
    BY <1>2, <2>1
<1>4. ASSUME NEW t \in Threads, NEW v, work' = [work EXCEPT ![t] = v], v.at # "idle",
             poisoned' = poisoned, malformed' = malformed
      PROVE  GatewayAnswers'
  BY <1>1, <1>4, Undue
<1>5. ASSUME NEW t \in Threads, NEW id \in KeyIds, GenerateKey(t, id) PROVE GatewayAnswers'
  <2>1. PICK v : v = [at |-> "push", id |-> id, key |-> minted + 1]
    OBVIOUS
  <2>2. /\ v.at # "idle" /\ work' = [work EXCEPT ![t] = v]
        /\ poisoned' = poisoned /\ malformed' = malformed
    BY <1>5, <2>1 DEF GenerateKey
  <2>3. QED
    BY <1>4, <2>2
<1>6. ASSUME NEW t \in Threads, NEW id \in KeyIds, PickKey(t, id) \/ AutoGenerate(t, id)
      PROVE  GatewayAnswers'
  <2>1. PICK key : work' = [work EXCEPT ![t] =
                               [at |-> "seal", id |-> id, key |-> key, removed |-> FALSE]]
    BY <1>6, Zenon DEF PickKey, AutoGenerate
  <2>2. PICK v : v = [at |-> "seal", id |-> id, key |-> key, removed |-> FALSE]
    OBVIOUS
  <2>3. v.at # "idle" /\ work' = [work EXCEPT ![t] = v]
    BY <2>1, <2>2
  <2>4. poisoned' = poisoned /\ malformed' = malformed
    BY <1>6 DEF PickKey, AutoGenerate
  <2>5. QED
    BY <1>4, <2>3, <2>4
<1>7. ASSUME NEW t \in Threads, NEW id \in KeyIds, DeleteKey(t, id) PROVE GatewayAnswers'
  <2>1. /\ poisoned' = poisoned /\ malformed' = malformed
        /\ work' = [u \in Threads |->
                      IF u = t THEN Reply("deleted")
                      ELSE IF At(u, "seal") THEN Removes(id, work[u]) ELSE work[u]]
    BY <1>7 DEF DeleteKey
  <2>2. ASSUME NEW u \in Threads, At(u, "idle")', work'[u].due = "whole"
        PROVE  work'[u] = work[u]
    <3>1. CASE u = t
      BY <2>1, <2>2, <3>1 DEF Reply
    <3>2. CASE u # t /\ At(u, "seal")
      <4>1. work'[u] = Removes(id, work[u])
        BY <2>1, <3>2
      <4>2. Removes(id, work[u]).at = "seal"
        BY <1>1, <3>2, Marked DEF GatewayTypes
      <4>3. QED
        BY <2>2, <4>1, <4>2 DEF At
    <3>3. CASE u # t /\ ~At(u, "seal")
      BY <2>1, <3>3
    <3>4. QED
      BY <3>1, <3>2, <3>3
  <2>3. QED
    BY <2>1, <2>2 DEF GatewayAnswers, SealedOpens, At
<1>8. ASSUME NEW t \in Threads, NEW id \in KeyIds, NEW ct, NEW nonce, Decrypt(t, id, ct, nonce)
      PROVE  GatewayAnswers'
  BY <1>8, DecryptAnswers
<1>9. CASE UNCHANGED gatewayVars
  BY <1>9 DEF gatewayVars, GatewayAnswers, SealedOpens, At
<1>10. QED
  BY <1>3, <1>5, <1>6, <1>7, <1>8, <1>9 DEF GatewayNext

\* For any threads and key ids, and any number of keys: a decrypt of what encryption
\* returned, with its nonce and under its id, answers the plaintext or the time limit until
\* a delete_key of the id that came after its key was picked, although the lock is released
\* before the data is sealed; it panics only after a nonce of the wrong length was presented
\* (quantum_kernel.rs:213-239, 265-310).
THEOREM SealedOpensHolds == GatewaySpec => []SealedOpens
<1>1. GatewayInit => GatewayAnswers
  <2>1. Idle.due = "none"
    BY DEF Idle, Reply
  <2> SUFFICES ASSUME GatewayInit PROVE GatewayAnswers
    OBVIOUS
  <2>2. poisoned = FALSE /\ \A t \in Threads : work[t].due = "none"
    BY <2>1 DEF GatewayInit
  <2>3. QED
    BY <2>2 DEF GatewayAnswers, SealedOpens
<1>2. GatewayAnswers => SealedOpens
  BY DEF GatewayAnswers
<1>3. QED
  BY <1>1, <1>2, GatewayInitIInv, GatewayNextIInv, GatewayNextAnswers, PTL DEF GatewaySpec

-------------------------------------------------------------------------------
(***************************************************************************)
(* The rate limiter of the HTTP server (HttpServer)                        *)
(***************************************************************************)
Admission == [client : Clients, at : Nat]

Request ==
    [step : {"limiting", "checking", "logging", "appending", "replying"},
     client : Clients, now : Nat, after : Nat]

HttpTypes ==
    /\ second \in Nat
    /\ requests = [c \in Clients |-> requests[c]]
    /\ \A c \in Clients : requests[c] \in Seq(Nat) /\ Len(requests[c]) <= MaxPerWindow
    /\ chain \in Seq(Nat)
    /\ serving = [s \in Servers |-> serving[s]]
    /\ \A s \in Servers :
          /\ serving[s] = Waiting \/ serving[s] \in Request
          /\ In(s, "limiting") => serving[s].now <= second
    /\ admitted \in Seq(Admission)
    /\ \A i \in DOMAIN admitted : admitted[i].at <= second
    /\ \A r \in refusals : r.client \in Clients /\ r.now \in Nat

\* The admissions of a client in a stretch of time, and the stamps from a time on.
During(c, from, to) == {a \in Admission : a.client = c /\ a.at \in from..to}
Since(x) == {t \in Nat : t >= x}

\* The threads that read the clock before a window began and may still be admitted in it.
Late(from) == {s \in Servers : In(s, "limiting") /\ serving[s].now < from}

\* While a window lasts, every admission in it has a stamp in it that nobody prunes, or
\* belongs to a thread that was late and is not any more.
WithinLimit(c, from) ==
    /\ AdmittedIn(c, from, from + Window - 1) <= MaxPerWindow + Cardinality(Servers)
    /\ second \in from..(from + Window - 1) =>
          AdmittedIn(c, from, from + Window - 1)
              <= Cardinality(Among(requests[c], Since(from))) + Cardinality(Servers \ Late(from))

\* Every stamp is that of an admission, no earlier than it says.
Stamped(c, x) == Cardinality(Among(requests[c], Since(x))) <= AdmittedIn(c, x, second)

HttpIInv ==
    /\ HttpTypes
    /\ \A c \in Clients, from \in Nat : WithinLimit(c, from)
    /\ \A c \in Clients, x \in Int : Stamped(c, x)
    /\ \A r \in refusals : AdmittedIn(r.client, r.now - Window + 1, second) >= MaxPerWindow

\* The count of the property, as a count of places in the list.
LEMMA AdmittedIs ==
    ASSUME NEW c \in Clients, NEW from \in Int, NEW to \in Int
    PROVE  /\ HttpTypes => AdmittedIn(c, from, to) = Cardinality(Among(admitted, During(c, from, to)))
           /\ HttpTypes' =>
                 AdmittedIn(c, from, to)' = Cardinality(Among(admitted', During(c, from, to)))
<1>1. ASSUME NEW list \in Seq(Admission)
      PROVE  {i \in DOMAIN list : list[i].client = c /\ list[i].at \in from..to}
                 = Among(list, During(c, from, to))
  <2>1. \A i \in DOMAIN list : list[i] \in Admission
    BY <1>1
  <2>2. QED
    BY <2>1 DEF Among, During
<1>2. HttpTypes => AdmittedIn(c, from, to) = Cardinality(Among(admitted, During(c, from, to)))
  BY <1>1 DEF HttpTypes, AdmittedIn
<1>3. HttpTypes' =>
         AdmittedIn(c, from, to)' = Cardinality(Among(admitted', During(c, from, to)))
  BY <1>1 DEF HttpTypes, AdmittedIn
<1>4. QED
  BY <1>2, <1>3

\* Nobody was admitted later than now.
LEMMA AdmittedBefore ==
    ASSUME HttpTypes
    PROVE  \A i \in DOMAIN admitted :
              admitted[i] \in Admission /\ admitted[i].at \in Nat /\ admitted[i].at <= second
<1>1. \A i \in DOMAIN admitted : admitted[i] \in Admission /\ admitted[i].at <= second
  BY DEF HttpTypes
<1>2. \A a \in Admission : a.at \in Nat
  BY DEF Admission
<1>3. QED
  BY <1>1, <1>2

\* A count in a larger set of elements is larger.
LEMMA AmongGrows ==
    ASSUME NEW S, NEW s \in Seq(S), NEW X, NEW Y, X \subseteq Y
    PROVE  Cardinality(Among(s, X)) <= Cardinality(Among(s, Y))
<1>1. Among(s, X) \in SUBSET Among(s, Y)
  BY DEF Among
<1>2. QED
  BY <1>1, AmongFinite, FS_Subset

\* What is left after dropping holds no more.
LEMMA AmongShrinks ==
    ASSUME NEW S, NEW s \in Seq(S), NEW dropped, NEW X
    PROVE  Cardinality(Among(retain(s, dropped), X)) <= Cardinality(Among(s, X))
<1>1. PICK Y : Y = X \ dropped
  OBVIOUS
<1>2. Y \intersect dropped = {} /\ Y \subseteq X
  BY <1>1
<1>3. Cardinality(Among(retain(s, dropped), Y)) = Cardinality(Among(s, Y))
  BY <1>2, AmongRetained
<1>4. Cardinality(Among(s, Y)) <= Cardinality(Among(s, X))
  BY <1>2, AmongGrows
<1>5. Among(retain(s, dropped), X) = Among(retain(s, dropped), Y)
  <2>1. ToSet(retain(s, dropped)) = ToSet(s) \ dropped
    BY RetainKeeps
  <2>2. \A i \in DOMAIN retain(s, dropped) : retain(s, dropped)[i] \notin dropped
    BY <2>1 DEF ToSet
  <2>3. QED
    BY <1>1, <2>2 DEF Among
<1>6. QED
  BY <1>3, <1>4, <1>5

\* What is_allowed prunes at a reading `now` is older than any window that holds `now`
\* (mcp_http.py:46-47).
LEMMA Pruned ==
    ASSUME HttpTypes, NEW c \in Clients, NEW now \in Nat
    PROVE  /\ Recent(c, now) \in Seq(Nat)
           /\ Len(Recent(c, now)) \in Nat /\ Len(Recent(c, now)) <= MaxPerWindow
           /\ \A x \in Int : Cardinality(Among(Recent(c, now), Since(x)))
                                <= Cardinality(Among(requests[c], Since(x)))
           /\ \A x \in Int : x > now - Window =>
                 Cardinality(Among(Recent(c, now), Since(x)))
                     = Cardinality(Among(requests[c], Since(x)))
           /\ Cardinality(Among(Recent(c, now), Since(now - Window + 1))) = Len(Recent(c, now))
<1>1. PICK list, dropped : list = requests[c] /\ dropped = {t \in ToSet(list) : t <= now - Window}
  OBVIOUS
<1>2. PICK recent : recent = retain(list, dropped)
  OBVIOUS
<1>3. Recent(c, now) = recent
  BY <1>1, <1>2 DEF Recent
<1>4. list \in Seq(Nat) /\ Len(list) \in Nat /\ Len(list) <= MaxPerWindow /\ MaxPerWindow \in Nat
  BY <1>1, LimiterAssumption DEF HttpTypes
<1>5. recent \in Seq(Nat) /\ ToSet(recent) = ToSet(list) \ dropped /\ Len(recent) \in Nat
  BY <1>2, <1>4, RetainKeeps
<1>6. ASSUME NEW x \in Int
      PROVE  Cardinality(Among(recent, Since(x))) <= Cardinality(Among(list, Since(x)))
  BY <1>2, <1>4, AmongShrinks
<1>7. ASSUME NEW x \in Int, x > now - Window
      PROVE  Cardinality(Among(recent, Since(x))) = Cardinality(Among(list, Since(x)))
  <2>1. \A t \in dropped : t \in Nat /\ t <= now - Window
    BY <1>1, <1>4 DEF ToSet
  <2>2. Since(x) \intersect dropped = {}
    BY <1>7, <2>1, LimiterAssumption DEF Since
  <2>3. QED
    BY <1>2, <1>4, <2>2, AmongRetained
<1>8. Cardinality(Among(recent, Since(now - Window + 1))) = Len(recent)
  <2>1. ASSUME NEW i \in DOMAIN recent PROVE recent[i] \in Since(now - Window + 1)
    <3>1. recent[i] \in Nat /\ recent[i] \in ToSet(recent)
      BY <1>5, <2>1 DEF ToSet
    <3>2. ~(recent[i] <= now - Window)
      BY <1>1, <1>5, <3>1
    <3>3. QED
      BY <3>1, <3>2, LimiterAssumption DEF Since
  <2>2. Among(recent, Since(now - Window + 1)) = 1..Len(recent)
    BY <1>5, <2>1 DEF Among
  <2>3. PICK n \in Nat : n = Len(recent)
    BY <1>5
  <2>4. Cardinality(1..n) = n
    BY FS_Interval
  <2>5. QED
    BY <2>2, <2>3, <2>4
<1>9. Len(recent) <= MaxPerWindow
  <2>1. Cardinality(Among(list, Since(now - Window + 1))) <= Len(list)
    BY <1>4, AmongFinite
  <2>2. now - Window + 1 \in Int
    BY LimiterAssumption
  <2>3. Len(recent) <= Cardinality(Among(list, Since(now - Window + 1)))
    BY <1>6, <1>8, <2>2
  <2>4. Cardinality(Among(list, Since(now - Window + 1))) \in Nat
    BY <1>4, AmongFinite
  <2>5. QED
    BY <1>4, <1>5, <2>1, <2>3, <2>4
<1>10. QED
  BY <1>1, <1>3, <1>5, <1>6, <1>7, <1>8, <1>9

\* The threads that were late and are not any more can be counted.
LEMMA LateCounts ==
    ASSUME NEW from \in Nat
    PROVE  /\ IsFiniteSet(Servers \ Late(from)) /\ Cardinality(Servers \ Late(from)) \in Nat
           /\ Cardinality(Servers \ Late(from)) <= Cardinality(Servers)
           /\ Cardinality(Servers) \in Nat
<1>1. IsFiniteSet(Servers) /\ Servers \ Late(from) \in SUBSET Servers
  BY LimiterAssumption
<1>2. QED
  BY <1>1, FS_Subset, FS_CardinalityType

\* A thread that is late no more, or any that leaves, makes the count no smaller.
LEMMA LateLeaves ==
    ASSUME NEW from \in Nat, Late(from)' \subseteq Late(from)
    PROVE  /\ Cardinality(Servers \ Late(from)) <= Cardinality(Servers \ Late(from)')
           /\ Cardinality(Servers \ Late(from)') \in Nat
           /\ Cardinality(Servers \ Late(from)') <= Cardinality(Servers)
<1>1. /\ IsFiniteSet(Servers) /\ Servers \ Late(from)' \in SUBSET Servers
      /\ Servers \ Late(from) \in SUBSET (Servers \ Late(from)')
  BY LimiterAssumption
<1>2. IsFiniteSet(Servers \ Late(from)')
  BY <1>1, FS_Subset
<1>3. QED
  BY <1>1, <1>2, FS_Subset, FS_CardinalityType

\* A thread on its way does not disturb the others.
LEMMA ThreadMoves ==
    ASSUME HttpTypes, NEW s \in Servers, NEW state, Becomes(s, state),
           state = Waiting \/ state \in Request,
           state.step = "limiting" => state.now <= second', second <= second', second' \in Nat
    PROVE  /\ serving' = [t \in Servers |-> serving'[t]]
           /\ serving'[s] = state
           /\ \A t \in Servers : t # s => serving'[t] = serving[t]
           /\ \A t \in Servers :
                 /\ serving'[t] = Waiting \/ serving'[t] \in Request
                 /\ In(t, "limiting")' => serving'[t].now <= second'
<1>1. serving' = [serving EXCEPT ![s] = state] /\ serving = [t \in Servers |-> serving[t]]
  BY DEF Becomes, HttpTypes
<1>2. /\ serving' = [t \in Servers |-> serving'[t]]
      /\ serving'[s] = state
      /\ \A t \in Servers : t # s => serving'[t] = serving[t]
  BY <1>1
<1>3. ASSUME NEW t \in Servers, t # s
      PROVE  /\ serving'[t] = Waiting \/ serving'[t] \in Request
             /\ In(t, "limiting")' => serving'[t].now <= second'
  <2>1. serving'[t] = serving[t] /\ (serving[t] = Waiting \/ serving[t] \in Request)
    BY <1>2, <1>3 DEF HttpTypes
  <2>2. ASSUME In(t, "limiting")' PROVE serving'[t].now <= second'
    <3>1. serving[t].step = "limiting" /\ serving[t] # Waiting
      BY <2>1, <2>2 DEF In, Waiting
    <3>2. serving[t].now \in Nat /\ serving[t].now <= second /\ second \in Nat
      BY <2>1, <3>1 DEF HttpTypes, In, Request
    <3>3. QED
      BY <2>1, <3>2
  <2>3. QED
    BY <2>1, <2>2
<1>4. QED
  BY <1>2, <1>3 DEF In

\* A step that admits and refuses nobody keeps the invariant, if it makes no thread late.
LEMMA NoVerdict ==
    ASSUME HttpIInv, HttpTypes', second' = second, requests' = requests,
           admitted' = admitted, refusals' = refusals,
           \A from \in Nat : second \in from..(from + Window - 1) => Late(from)' \subseteq Late(from)
    PROVE  HttpIInv'
<1>1. ASSUME NEW c \in Clients, NEW x \in Int, NEW y \in Int
      PROVE  AdmittedIn(c, x, y)' = AdmittedIn(c, x, y)
  BY DEF AdmittedIn
<1>2. ASSUME NEW c \in Clients, NEW from \in Nat PROVE WithinLimit(c, from)'
  <2>1. WithinLimit(c, from) /\ from + Window - 1 \in Int
    BY LimiterAssumption DEF HttpIInv
  <2>2. PICK a : a = AdmittedIn(c, from, from + Window - 1)
    OBVIOUS
  <2>3. AdmittedIn(c, from, from + Window - 1)' = a
    BY <1>1, <2>1, <2>2
  <2>4. ASSUME second' \in from..(from + Window - 1)
        PROVE  a <= Cardinality(Among(requests'[c], Since(from))) + Cardinality(Servers \ Late(from)')
    <3>1. requests[c] \in Seq(Nat) /\ HttpTypes
      BY DEF HttpIInv, HttpTypes
    <3>2. PICK n : n = Cardinality(Among(requests[c], Since(from)))
      OBVIOUS
    <3>3. a = Cardinality(Among(admitted, During(c, from, from + Window - 1)))
      BY <2>1, <2>2, <3>1, AdmittedIs
    <3>4. n \in Nat /\ a \in Nat
      BY <3>1, <3>2, <3>3, AmongFinite DEF HttpTypes
    <3>5. a <= n + Cardinality(Servers \ Late(from))
      BY <2>1, <2>2, <2>4, <3>2 DEF WithinLimit
    <3>6. /\ Cardinality(Servers \ Late(from)) <= Cardinality(Servers \ Late(from)')
          /\ Cardinality(Servers \ Late(from)) \in Nat /\ Cardinality(Servers \ Late(from)') \in Nat
      BY <2>4, LateCounts, LateLeaves
    <3>7. QED
      BY <3>2, <3>4, <3>5, <3>6
  <2>5. a <= MaxPerWindow + Cardinality(Servers)
    BY <2>1, <2>2 DEF WithinLimit
  <2>6. QED
    BY <2>3, <2>4, <2>5 DEF WithinLimit
<1>3. ASSUME NEW c \in Clients, NEW x \in Int PROVE Stamped(c, x)'
  <2>1. Stamped(c, x)
    BY DEF HttpIInv
  <2>2. QED
    BY <2>1 DEF Stamped, AdmittedIn
<1>4. ASSUME NEW r \in refusals'
      PROVE  (AdmittedIn(r.client, r.now - Window + 1, second) >= MaxPerWindow)'
  BY <1>4 DEF HttpIInv, AdmittedIn
<1>5. QED
  BY <1>2, <1>3, <1>4 DEF HttpIInv

\* The server at its start.
LEMMA HttpInitIInv == HttpInit => HttpIInv
<1> SUFFICES ASSUME HttpInit PROVE HttpIInv
  OBVIOUS
<1>1. PICK none : none = <<>>
  OBVIOUS
<1>2. /\ none \in Seq(Nat) /\ none \in Seq(Admission) /\ Len(none) = 0 /\ DOMAIN none = {}
      /\ \A X : Among(none, X) = {}
  BY <1>1 DEF Among
<1>3. /\ second = 0 /\ requests = [c \in Clients |-> none] /\ serving = [s \in Servers |-> Waiting]
      /\ chain = none /\ refusals = {} /\ admitted = none
  BY <1>1 DEF HttpInit
<1>4. HttpTypes
  <2>1. \A s \in Servers : serving[s] = Waiting /\ ~In(s, "limiting")
    BY <1>3 DEF In, Waiting
  <2>2. 0 <= MaxPerWindow
    BY LimiterAssumption
  <2>3. QED
    BY <1>2, <1>3, <2>1, <2>2 DEF HttpTypes
<1>5. \A c \in Clients, x \in Int, y \in Int : AdmittedIn(c, x, y) = 0
  <2>1. ASSUME NEW c \in Clients, NEW x \in Int, NEW y \in Int PROVE AdmittedIn(c, x, y) = 0
    BY <1>2, <1>3, <1>4, AdmittedIs, FS_EmptySet
  <2>2. QED
    BY <2>1
<1>6. ASSUME NEW c \in Clients, NEW from \in Nat PROVE WithinLimit(c, from)
  <2>1. from + Window - 1 \in Int /\ MaxPerWindow \in Nat
    BY LimiterAssumption
  <2>2. AdmittedIn(c, from, from + Window - 1) = 0
    BY <1>5, <2>1
  <2>3. Cardinality(Among(requests[c], Since(from))) = 0
    BY <1>2, <1>3, FS_EmptySet
  <2>4. PICK u \in Nat, v \in Nat : u = Cardinality(Servers \ Late(from)) /\ v = Cardinality(Servers)
    BY LateCounts
  <2>5. 0 <= MaxPerWindow + v /\ 0 <= 0 + u
    BY <2>1, <2>4
  <2>6. QED
    BY <2>2, <2>3, <2>4, <2>5 DEF WithinLimit
<1>7. ASSUME NEW c \in Clients, NEW x \in Int PROVE Stamped(c, x)
  <2>1. Cardinality(Among(requests[c], Since(x))) = 0
    BY <1>2, <1>3, FS_EmptySet
  <2>2. AdmittedIn(c, x, second) = 0
    BY <1>3, <1>5
  <2>3. QED
    BY <2>1, <2>2 DEF Stamped
<1>8. QED
  BY <1>3, <1>4, <1>6, <1>7 DEF HttpIInv

\* A thread that has its verdict, or never asked for one, is not late.
LEMMA LeavesLimiter ==
    ASSUME HttpIInv, NEW s \in Servers, NEW state, Becomes(s, state),
           state = Waiting \/ state \in Request, state.step # "limiting",
           second' = second, requests' = requests, admitted' = admitted, refusals' = refusals,
           chain' \in Seq(Nat)
    PROVE  HttpIInv'
<1>1. HttpTypes /\ second \in Nat /\ second <= second'
  BY DEF HttpIInv, HttpTypes
<1>2. /\ serving' = [t \in Servers |-> serving'[t]]
      /\ serving'[s] = state
      /\ \A t \in Servers : t # s => serving'[t] = serving[t]
      /\ \A t \in Servers :
            /\ serving'[t] = Waiting \/ serving'[t] \in Request
            /\ In(t, "limiting")' => serving'[t].now <= second'
  BY <1>1, ThreadMoves
<1>3. HttpTypes'
  BY <1>1, <1>2 DEF HttpTypes
<1>4. \A from \in Nat : Late(from)' \subseteq Late(from)
  BY <1>2 DEF Late, In
<1>5. QED
  BY <1>3, <1>4, NoVerdict

\* A request that reads the clock in a window is not late for it (mcp_http.py:43).
LEMMA ReceiveKeeps ==
    ASSUME HttpIInv, NEW s \in Servers, NEW c \in Clients, Receive(s, c)
    PROVE  HttpIInv'
<1>1. PICK state : state = [step |-> "limiting", client |-> c, now |-> second, after |-> 0]
  OBVIOUS
<1>2. HttpTypes /\ second \in Nat /\ second <= second /\ second' = second
  BY DEF HttpIInv, HttpTypes, Receive
<1>3. state \in Request /\ state.step = "limiting" /\ state.now = second
  BY <1>1, <1>2 DEF Request
<1>4. Becomes(s, state)
  BY <1>1 DEF Receive
<1>5. /\ serving' = [t \in Servers |-> serving'[t]]
      /\ serving'[s] = state
      /\ \A t \in Servers : t # s => serving'[t] = serving[t]
      /\ \A t \in Servers :
            /\ serving'[t] = Waiting \/ serving'[t] \in Request
            /\ In(t, "limiting")' => serving'[t].now <= second'
  BY <1>2, <1>3, <1>4, ThreadMoves
<1>6. HttpTypes'
  BY <1>2, <1>5 DEF HttpTypes, Receive
<1>7. ASSUME NEW from \in Nat, second \in from..(from + Window - 1)
      PROVE  Late(from)' \subseteq Late(from)
  <2>1. ~(second < from)
    BY <1>2, <1>7, LimiterAssumption
  <2>2. s \notin Late(from)'
    BY <1>3, <1>5, <2>1 DEF Late
  <2>3. QED
    BY <1>5, <2>2 DEF Late, In
<1>8. QED
  BY <1>6, <1>7, NoVerdict DEF Receive

\* The steps after the verdict.
LEMMA OnTheWay ==
    ASSUME HttpIInv, NEW s \in Servers,
           Check(s) \/ Raises(s) \/ ReadEntry(s) \/ AppendEntry(s) \/ Respond(s)
    PROVE  HttpIInv'
<1>1. chain \in Seq(Nat) /\ (serving[s] = Waiting \/ serving[s] \in Request)
  BY DEF HttpIInv, HttpTypes
<1>2. PICK w : w = serving[s]
  OBVIOUS
<1>3. w.step # "waiting" => w \in Request
  BY <1>1, <1>2 DEF Waiting
<1>4. CASE Raises(s) \/ Respond(s)
  <2>1. Waiting.step # "limiting"
    BY DEF Waiting
  <2>2. QED
    BY <1>1, <1>4, <2>1, LeavesLimiter DEF Raises, Respond
<1>5. CASE Check(s)
  <2>1. PICK state : state = [w EXCEPT !.step = "logging"]
    OBVIOUS
  <2>2. w \in Request
    BY <1>2, <1>3, <1>5 DEF Check, In
  <2>3. state \in Request /\ state.step # "limiting"
    BY <2>1, <2>2 DEF Request
  <2>4. Becomes(s, state)
    BY <1>2, <1>5, <2>1 DEF Check
  <2>5. QED
    BY <1>1, <1>5, <2>3, <2>4, LeavesLimiter DEF Check
<1>6. CASE ReadEntry(s)
  <2>1. PICK state : state = [w EXCEPT !.step = "appending", !.after = Len(chain)]
    OBVIOUS
  <2>2. w \in Request /\ Len(chain) \in Nat
    BY <1>1, <1>2, <1>3, <1>6 DEF ReadEntry, In
  <2>3. state \in Request /\ state.step # "limiting"
    BY <2>1, <2>2 DEF Request
  <2>4. Becomes(s, state)
    BY <1>2, <1>6, <2>1 DEF ReadEntry
  <2>5. QED
    BY <1>1, <1>6, <2>3, <2>4, LeavesLimiter DEF ReadEntry
<1>7. CASE AppendEntry(s)
  <2>1. PICK state : state = [w EXCEPT !.step = "replying"]
    OBVIOUS
  <2>2. w \in Request /\ w.after \in Nat
    BY <1>2, <1>3, <1>7 DEF AppendEntry, In, Request
  <2>3. state \in Request /\ state.step # "limiting"
    BY <2>1, <2>2 DEF Request
  <2>4. Becomes(s, state)
    BY <1>2, <1>7, <2>1 DEF AppendEntry
  <2>5. chain' \in Seq(Nat)
    BY <1>1, <1>2, <1>7, <2>2 DEF AppendEntry
  <2>6. QED
    BY <1>7, <2>3, <2>4, <2>5, LeavesLimiter DEF AppendEntry
<1>8. QED
  BY <1>4, <1>5, <1>6, <1>7

\* A verdict ends the thread's lateness and nobody else's.
LEMMA VerdictMoves ==
    ASSUME HttpTypes, NEW s \in Servers, In(s, "limiting"), NEW step \in {"checking", "logging"},
           Becomes(s, [serving[s] EXCEPT !.step = step, !.now = 0]), second' = second
    PROVE  /\ serving' = [t \in Servers |-> serving'[t]]
           /\ \A t \in Servers :
                 /\ serving'[t] = Waiting \/ serving'[t] \in Request
                 /\ In(t, "limiting")' => serving'[t].now <= second'
           /\ \A from \in Nat : Late(from)' = Late(from) \ {s}
<1>1. PICK w : w = serving[s]
  OBVIOUS
<1>2. w \in Request
  BY <1>1 DEF HttpTypes, In, Waiting
<1>3. PICK state : state = [w EXCEPT !.step = step, !.now = 0]
  OBVIOUS
<1>4. state \in Request /\ state.step # "limiting"
  BY <1>2, <1>3 DEF Request
<1>5. Becomes(s, state) /\ second \in Nat /\ second <= second'
  BY <1>1, <1>3 DEF HttpTypes
<1>6. /\ serving' = [t \in Servers |-> serving'[t]]
      /\ serving'[s] = state
      /\ \A t \in Servers : t # s => serving'[t] = serving[t]
      /\ \A t \in Servers :
            /\ serving'[t] = Waiting \/ serving'[t] \in Request
            /\ In(t, "limiting")' => serving'[t].now <= second'
  BY <1>4, <1>5, ThreadMoves
<1>7. ASSUME NEW from \in Nat PROVE Late(from)' = Late(from) \ {s}
  <2>1. s \notin Late(from)'
    BY <1>4, <1>6 DEF Late, In
  <2>2. \A t \in Servers : t # s => (t \in Late(from)' <=> t \in Late(from))
    BY <1>6 DEF Late, In
  <2>3. Late(from)' \subseteq Servers /\ Late(from) \subseteq Servers
    BY DEF Late
  <2>4. QED
    BY <2>1, <2>2, <2>3
<1>8. QED
  BY <1>6, <1>7

\* A refusal (mcp_http.py:49-51): the stamps it counted are those of admissions since a
\* window before its reading.
LEMMA RefuseKeeps ==
    ASSUME HttpIInv, NEW s \in Servers, NEW c \in Clients, NEW now \in Nat, In(s, "limiting"),
           c = serving[s].client, now = serving[s].now,
           Len(Recent(c, now)) >= MaxPerWindow,
           requests' = [requests EXCEPT ![c] = Recent(c, now)],
           Refuse(s), second' = second, chain' = chain
    PROVE  HttpIInv'
<1>1. HttpTypes /\ now <= second /\ second \in Nat /\ MaxPerWindow \in Nat /\ Window \in Nat \ {0}
  BY LimiterAssumption DEF HttpIInv, HttpTypes
<1>2. PICK recent : recent = Recent(c, now)
  OBVIOUS
<1>3. /\ recent \in Seq(Nat) /\ Len(recent) \in Nat /\ Len(recent) <= MaxPerWindow
      /\ \A x \in Int : Cardinality(Among(recent, Since(x)))
                           <= Cardinality(Among(requests[c], Since(x)))
      /\ \A x \in Int : x > now - Window =>
            Cardinality(Among(recent, Since(x))) = Cardinality(Among(requests[c], Since(x)))
      /\ Cardinality(Among(recent, Since(now - Window + 1))) = Len(recent)
  BY <1>1, <1>2, Pruned
<1>4. requests' = [requests EXCEPT ![c] = recent] /\ Len(recent) >= MaxPerWindow
  BY <1>2
<1>5. /\ requests' = [k \in Clients |-> requests'[k]]
      /\ requests'[c] = recent /\ \A k \in Clients : k # c => requests'[k] = requests[k]
  BY <1>1, <1>4 DEF HttpTypes
<1>6. /\ admitted' = admitted
      /\ refusals' = refusals \union {[client |-> c, now |-> now]}
      /\ Becomes(s, [serving[s] EXCEPT !.step = "logging", !.now = 0])
  BY DEF Refuse
<1>7. /\ serving' = [t \in Servers |-> serving'[t]]
      /\ \A t \in Servers :
            /\ serving'[t] = Waiting \/ serving'[t] \in Request
            /\ In(t, "limiting")' => serving'[t].now <= second'
      /\ \A from \in Nat : Late(from)' = Late(from) \ {s}
  BY <1>1, <1>6, VerdictMoves
<1>8. HttpTypes'
  BY <1>1, <1>3, <1>5, <1>6, <1>7 DEF HttpTypes
<1>9. ASSUME NEW k \in Clients, NEW x \in Int, NEW y \in Int
      PROVE  /\ AdmittedIn(k, x, y)' = AdmittedIn(k, x, y)
             /\ AdmittedIn(k, x, y) \in Nat
  <2>1. AdmittedIn(k, x, y)' = AdmittedIn(k, x, y)
    BY <1>6 DEF AdmittedIn
  <2>2. AdmittedIn(k, x, y) = Cardinality(Among(admitted, During(k, x, y)))
    BY <1>1, AdmittedIs
  <2>3. QED
    BY <1>1, <2>1, <2>2, AmongFinite DEF HttpTypes
<1>10. ASSUME NEW k \in Clients, NEW x \in Int
       PROVE  /\ Cardinality(Among(requests'[k], Since(x)))
                    <= Cardinality(Among(requests[k], Since(x)))
              /\ Cardinality(Among(requests[k], Since(x))) \in Nat
              /\ Cardinality(Among(requests'[k], Since(x))) \in Nat
              /\ x > now - Window =>
                    Cardinality(Among(requests'[k], Since(x)))
                        = Cardinality(Among(requests[k], Since(x)))
  <2>1. requests[k] \in Seq(Nat) /\ requests'[k] \in Seq(Nat)
    BY <1>1, <1>8 DEF HttpTypes
  <2>2. /\ Cardinality(Among(requests[k], Since(x))) \in Nat
        /\ Cardinality(Among(requests'[k], Since(x))) \in Nat
    BY <2>1, AmongFinite
  <2>3. CASE k = c
    BY <1>3, <1>5, <2>2, <2>3
  <2>4. CASE k # c
    BY <1>5, <2>2, <2>4
  <2>5. QED
    BY <2>3, <2>4
<1>11. ASSUME NEW k \in Clients, NEW from \in Nat PROVE WithinLimit(k, from)'
  <2>1. WithinLimit(k, from) /\ from + Window - 1 \in Int
    BY <1>1 DEF HttpIInv
  <2>2. PICK a \in Nat : a = AdmittedIn(k, from, from + Window - 1)
    BY <1>9, <2>1
  <2>3. AdmittedIn(k, from, from + Window - 1)' = a
    BY <1>9, <2>1, <2>2
  <2>4. ASSUME second' \in from..(from + Window - 1)
        PROVE  a <= Cardinality(Among(requests'[k], Since(from))) + Cardinality(Servers \ Late(from)')
    <3>1. PICK n \in Nat : n = Cardinality(Among(requests[k], Since(from)))
      BY <1>10
    <3>2. PICK x \in Int : x = from /\ x > now - Window
      BY <1>1, <2>4
    <3>3. Cardinality(Among(requests'[k], Since(from))) = n
      BY <1>10, <3>1, <3>2
    <3>4. a <= n + Cardinality(Servers \ Late(from))
      BY <1>1, <2>1, <2>2, <2>4, <3>1 DEF WithinLimit
    <3>5. Late(from)' \subseteq Late(from)
      BY <1>7
    <3>6. /\ Cardinality(Servers \ Late(from)) <= Cardinality(Servers \ Late(from)')
          /\ Cardinality(Servers \ Late(from)) \in Nat /\ Cardinality(Servers \ Late(from)') \in Nat
      BY <3>5, LateCounts, LateLeaves
    <3>7. QED
      BY <3>3, <3>4, <3>6
  <2>5. a <= MaxPerWindow + Cardinality(Servers)
    BY <2>1, <2>2 DEF WithinLimit
  <2>6. QED
    BY <2>3, <2>4, <2>5 DEF WithinLimit
<1>12. ASSUME NEW k \in Clients, NEW x \in Int PROVE Stamped(k, x)'
  <2>1. Stamped(k, x) /\ second \in Int
    BY <1>1 DEF HttpIInv
  <2>2. AdmittedIn(k, x, second)' = AdmittedIn(k, x, second) /\ AdmittedIn(k, x, second) \in Nat
    <3>1. AdmittedIn(k, x, second) \in Nat
      BY <1>9, <2>1
    <3>2. AdmittedIn(k, x, second)' = AdmittedIn(k, x, second)
      BY <1>1, <1>6 DEF AdmittedIn
    <3>3. QED
      BY <3>1, <3>2
  <2>3. /\ Cardinality(Among(requests'[k], Since(x))) <= Cardinality(Among(requests[k], Since(x)))
        /\ Cardinality(Among(requests[k], Since(x))) \in Nat
        /\ Cardinality(Among(requests'[k], Since(x))) \in Nat
    BY <1>10
  <2>4. QED
    BY <2>1, <2>2, <2>3 DEF Stamped
<1>13. ASSUME NEW r \in refusals'
       PROVE  (AdmittedIn(r.client, r.now - Window + 1, second) >= MaxPerWindow)'
  <2>1. AdmittedIn(r.client, r.now - Window + 1, second)'
            = AdmittedIn(r.client, r.now - Window + 1, second)
    BY <1>1, <1>6 DEF AdmittedIn
  <2>2. CASE r \in refusals
    BY <2>1, <2>2 DEF HttpIInv
  <2>3. CASE r = [client |-> c, now |-> now]
    <3>1. r.client = c /\ r.now = now /\ now - Window + 1 \in Int /\ now - Window + 1 > now - Window
      BY <1>1, <2>3
    <3>2. Cardinality(Among(requests[c], Since(now - Window + 1))) = Len(recent)
      BY <1>3, <3>1
    <3>3. Stamped(c, now - Window + 1) /\ second \in Int
      BY <1>1, <3>1 DEF HttpIInv
    <3>4. AdmittedIn(c, now - Window + 1, second) \in Nat
      BY <1>9, <3>1, <3>3
    <3>5. Len(recent) <= AdmittedIn(c, now - Window + 1, second)
      BY <3>2, <3>3 DEF Stamped
    <3>6. QED
      BY <1>1, <1>3, <1>4, <2>1, <3>1, <3>4, <3>5
  <2>4. QED
    BY <1>6, <1>13, <2>2, <2>3
<1>14. QED
  BY <1>8, <1>11, <1>12, <1>13 DEF HttpIInv

\* An admission (mcp_http.py:53-54): in each window it falls in, it has a stamp of that window,
\* or its thread was late.
LEMMA AdmitKeeps ==
    ASSUME HttpIInv, NEW s \in Servers, NEW c \in Clients, NEW now \in Nat, In(s, "limiting"),
           c = serving[s].client, now = serving[s].now,
           Len(Recent(c, now)) < MaxPerWindow,
           requests' = [requests EXCEPT ![c] = Append(Recent(c, now), now)],
           Admit(s), second' = second, chain' = chain
    PROVE  HttpIInv'
<1>1. HttpTypes /\ now <= second /\ second \in Nat /\ MaxPerWindow \in Nat /\ Window \in Nat \ {0}
  BY LimiterAssumption DEF HttpIInv, HttpTypes
<1>2. PICK recent : recent = Recent(c, now)
  OBVIOUS
<1>3. /\ recent \in Seq(Nat) /\ Len(recent) \in Nat /\ Len(recent) < MaxPerWindow
      /\ \A x \in Int : Cardinality(Among(recent, Since(x)))
                           <= Cardinality(Among(requests[c], Since(x)))
      /\ \A x \in Int : x > now - Window =>
            Cardinality(Among(recent, Since(x))) = Cardinality(Among(requests[c], Since(x)))
  BY <1>1, <1>2, Pruned
<1>4. PICK stamped : stamped = Append(recent, now)
  OBVIOUS
<1>5. stamped \in Seq(Nat) /\ Len(stamped) = Len(recent) + 1
  BY <1>3, <1>4
<1>6. /\ requests' = [k \in Clients |-> requests'[k]]
      /\ requests'[c] = stamped /\ \A k \in Clients : k # c => requests'[k] = requests[k]
  BY <1>1, <1>2, <1>4 DEF HttpTypes
<1>7. PICK e : e = [client |-> c, at |-> second]
  OBVIOUS
<1>8. /\ e \in Admission /\ e.client = c /\ e.at = second
      /\ admitted' = Append(admitted, e) /\ refusals' = refusals
      /\ Becomes(s, [serving[s] EXCEPT !.step = "checking", !.now = 0])
  BY <1>1, <1>7 DEF Admit, Admission
<1>9. /\ serving' = [t \in Servers |-> serving'[t]]
      /\ \A t \in Servers :
            /\ serving'[t] = Waiting \/ serving'[t] \in Request
            /\ In(t, "limiting")' => serving'[t].now <= second'
      /\ \A from \in Nat : Late(from)' = Late(from) \ {s}
  BY <1>1, <1>8, VerdictMoves
<1>10. admitted' \in Seq(Admission) /\ \A i \in DOMAIN admitted' : admitted'[i].at <= second'
  <2>1. /\ admitted \in Seq(Admission) /\ Len(admitted) \in Nat
        /\ DOMAIN admitted = 1..Len(admitted) /\ \A i \in DOMAIN admitted : admitted[i].at <= second
    BY <1>1 DEF HttpTypes
  <2>2. /\ DOMAIN admitted' = 1..(Len(admitted) + 1) /\ admitted'[Len(admitted) + 1] = e
        /\ \A i \in 1..Len(admitted) : admitted'[i] = admitted[i]
    BY <1>8, <2>1
  <2>3. ASSUME NEW i \in DOMAIN admitted' PROVE admitted'[i].at <= second'
    <3>1. i \in 1..Len(admitted) \/ i = Len(admitted) + 1
      BY <2>1, <2>2
    <3>2. QED
      BY <1>1, <1>8, <2>1, <2>2, <3>1
  <2>4. QED
    BY <1>8, <2>1, <2>3
<1>11. HttpTypes'
  <2>1. \A k \in Clients : requests'[k] \in Seq(Nat) /\ Len(requests'[k]) <= MaxPerWindow
    <3>1. \A k \in Clients : requests[k] \in Seq(Nat) /\ Len(requests[k]) <= MaxPerWindow
      BY <1>1 DEF HttpTypes
    <3>2. Len(stamped) <= MaxPerWindow
      BY <1>1, <1>3, <1>5
    <3>3. QED
      BY <1>5, <1>6, <3>1, <3>2
  <2>2. chain' \in Seq(Nat) /\ second' \in Nat /\ \A r \in refusals' : r.client \in Clients /\ r.now \in Nat
    BY <1>1, <1>8 DEF HttpTypes
  <2>3. QED
    BY <1>6, <1>9, <1>10, <2>1, <2>2 DEF HttpTypes
<1>12. ASSUME NEW k \in Clients, NEW x \in Int, NEW y \in Int
       PROVE  /\ AdmittedIn(k, x, y) \in Nat
              /\ AdmittedIn(k, x, y)' = IF k = c /\ second \in x..y THEN AdmittedIn(k, x, y) + 1
                                        ELSE AdmittedIn(k, x, y)
  <2>1. PICK D : D = During(k, x, y)
    OBVIOUS
  <2>2. /\ AdmittedIn(k, x, y) = Cardinality(Among(admitted, D))
        /\ AdmittedIn(k, x, y)' = Cardinality(Among(admitted', D))
    BY <1>1, <1>11, <2>1, AdmittedIs
  <2>3. admitted \in Seq(Admission)
    BY <1>1 DEF HttpTypes
  <2>4. Cardinality(Among(admitted, D)) \in Nat
    BY <2>3, AmongFinite
  <2>5. Cardinality(Among(Append(admitted, e), D)) =
            IF e \in D THEN Cardinality(Among(admitted, D)) + 1 ELSE Cardinality(Among(admitted, D))
    BY <1>8, <2>3, AmongAppended
  <2>6. e \in D <=> (k = c /\ second \in x..y)
    BY <1>8, <2>1 DEF During
  <2>7. QED
    BY <1>8, <2>2, <2>4, <2>5, <2>6
<1>13. ASSUME NEW k \in Clients, NEW x \in Int
       PROVE  /\ Cardinality(Among(requests[k], Since(x))) \in Nat
              /\ Cardinality(Among(requests'[k], Since(x))) \in Nat
              /\ Cardinality(Among(requests'[k], Since(x))) <= MaxPerWindow
              /\ k # c => requests'[k] = requests[k]
  <2>1. /\ requests[k] \in Seq(Nat) /\ requests'[k] \in Seq(Nat)
        /\ Len(requests'[k]) <= MaxPerWindow /\ Len(requests'[k]) \in Nat
    BY <1>1, <1>11 DEF HttpTypes
  <2>2. /\ Cardinality(Among(requests[k], Since(x))) \in Nat
        /\ Cardinality(Among(requests'[k], Since(x))) \in Nat
        /\ Cardinality(Among(requests'[k], Since(x))) <= Len(requests'[k])
    BY <2>1, AmongFinite
  <2>3. QED
    BY <1>1, <1>6, <2>1, <2>2
<1>14. ASSUME NEW x \in Int
       PROVE  Cardinality(Among(requests'[c], Since(x))) =
                  IF now >= x THEN Cardinality(Among(recent, Since(x))) + 1
                  ELSE Cardinality(Among(recent, Since(x)))
  <2>1. now \in Since(x) <=> now >= x
    BY DEF Since
  <2>2. Cardinality(Among(Append(recent, now), Since(x))) =
            IF now \in Since(x) THEN Cardinality(Among(recent, Since(x))) + 1
            ELSE Cardinality(Among(recent, Since(x)))
    BY <1>3, AmongAppended
  <2>3. QED
    BY <1>4, <1>6, <2>1, <2>2
<1>15. ASSUME NEW k \in Clients, NEW from \in Nat PROVE WithinLimit(k, from)'
  <2>1. WithinLimit(k, from) /\ from + Window - 1 \in Int
    BY <1>1 DEF HttpIInv
  <2>2. PICK a \in Nat : a = AdmittedIn(k, from, from + Window - 1)
    BY <1>12, <2>1
  <2>3. PICK b : b = AdmittedIn(k, from, from + Window - 1)'
    OBVIOUS
  <2>4. b = IF k = c /\ second \in from..(from + Window - 1) THEN a + 1 ELSE a
    BY <1>12, <2>1, <2>2, <2>3
  <2>5. PICK m, n : /\ m = Cardinality(Among(requests[k], Since(from)))
                    /\ n = Cardinality(Among(requests'[k], Since(from)))
    OBVIOUS
  <2>6. m \in Nat /\ n \in Nat /\ n <= MaxPerWindow
    BY <1>13, <2>5
  <2>7. PICK u, v : u = Cardinality(Servers \ Late(from)) /\ v = Cardinality(Servers \ Late(from)')
    OBVIOUS
  <2>8. Late(from)' = Late(from) \ {s}
    BY <1>9
  <2>9. u \in Nat /\ v \in Nat /\ u <= v /\ v <= Cardinality(Servers) /\ Cardinality(Servers) \in Nat
    <3>1. Late(from)' \subseteq Late(from)
      BY <2>8
    <3>2. QED
      BY <2>7, <3>1, LateCounts, LateLeaves
  <2>10. s \in Late(from) => v = u + 1
    <3>1. ASSUME s \in Late(from) PROVE v = u + 1
      <4>1. Servers \ Late(from)' = (Servers \ Late(from)) \union {s} /\ s \notin Servers \ Late(from)
        BY <2>8, <3>1
      <4>2. QED
        BY <2>7, <4>1, LateCounts, FS_AddElement
    <3>2. QED
      BY <3>1
  <2>11. ASSUME second \in from..(from + Window - 1) PROVE b <= n + v
    <3>1. a <= m + u
      BY <2>1, <2>2, <2>5, <2>7, <2>11 DEF WithinLimit
    <3>2. CASE k # c
      <4>1. b = a /\ n = m
        BY <1>13, <2>4, <2>5, <3>2
      <4>2. QED
        BY <2>6, <2>9, <3>1, <4>1
    <3>3. CASE k = c
      <4>1. b = a + 1 /\ from > now - Window
        BY <1>1, <2>4, <2>11, <3>3
      <4>2. Cardinality(Among(recent, Since(from))) = m
        BY <1>3, <2>5, <3>3, <4>1
      <4>3. CASE now >= from
        <5>1. n = m + 1
          BY <1>14, <2>5, <3>3, <4>2, <4>3
        <5>2. QED
          BY <2>6, <2>9, <3>1, <4>1, <5>1
      <4>4. CASE ~(now >= from)
        <5>1. n = m
          BY <1>14, <2>5, <3>3, <4>2, <4>4
        <5>2. s \in Late(from)
          BY <4>4 DEF Late
        <5>3. QED
          BY <2>2, <2>6, <2>9, <2>10, <3>1, <4>1, <5>1, <5>2
      <4>5. QED
        BY <4>3, <4>4
    <3>4. QED
      BY <3>2, <3>3
  <2>12. b <= MaxPerWindow + Cardinality(Servers)
    <3>1. CASE second \in from..(from + Window - 1)
      BY <1>1, <2>2, <2>4, <2>6, <2>9, <2>11, <3>1
    <3>2. CASE ~(second \in from..(from + Window - 1))
      BY <2>1, <2>2, <2>4, <3>2 DEF WithinLimit
    <3>3. QED
      BY <3>1, <3>2
  <2>13. QED
    BY <2>3, <2>5, <2>7, <2>11, <2>12 DEF WithinLimit
<1>16. ASSUME NEW k \in Clients, NEW x \in Int PROVE Stamped(k, x)'
  <2>1. Stamped(k, x) /\ second \in Int
    BY <1>1 DEF HttpIInv
  <2>2. PICK a \in Nat : a = AdmittedIn(k, x, second)
    BY <1>12, <2>1
  <2>3. PICK y \in Nat : y = second
    BY <1>1
  <2>4. AdmittedIn(k, x, second)' = AdmittedIn(k, x, y)'
    BY <2>3 DEF AdmittedIn
  <2>5. AdmittedIn(k, x, y)' = IF k = c /\ second \in x..y THEN a + 1 ELSE a
    BY <1>12, <2>2, <2>3
  <2>6. PICK m \in Nat, n \in Nat : /\ m = Cardinality(Among(requests[k], Since(x)))
                                    /\ n = Cardinality(Among(requests'[k], Since(x)))
    BY <1>13
  <2>7. m <= a
    BY <2>1, <2>2, <2>6 DEF Stamped
  <2>8. n <= AdmittedIn(k, x, y)'
    <3>1. CASE k # c
      BY <1>13, <2>5, <2>6, <2>7, <3>1
    <3>2. CASE k = c
      <4>1. Cardinality(Among(recent, Since(x))) <= m /\ Cardinality(Among(recent, Since(x))) \in Nat
        BY <1>3, <2>6, <3>2, AmongFinite
      <4>2. now >= x => second \in x..y
        BY <1>1, <2>3
      <4>3. QED
        BY <1>14, <2>2, <2>5, <2>6, <2>7, <3>2, <4>1, <4>2
    <3>3. QED
      BY <3>1, <3>2
  <2>9. QED
    BY <2>4, <2>6, <2>8 DEF Stamped
<1>17. ASSUME NEW r \in refusals'
       PROVE  (AdmittedIn(r.client, r.now - Window + 1, second) >= MaxPerWindow)'
  <2>1. r \in refusals /\ r.client \in Clients /\ r.now - Window + 1 \in Int
    BY <1>1, <1>8, <1>17 DEF HttpTypes
  <2>2. PICK k \in Clients, x \in Int, y \in Nat :
            k = r.client /\ x = r.now - Window + 1 /\ y = second
    BY <1>1, <2>1
  <2>3. AdmittedIn(k, x, y) >= MaxPerWindow
    BY <2>1, <2>2 DEF HttpIInv
  <2>4. AdmittedIn(k, x, y)' >= MaxPerWindow
    BY <1>1, <1>12, <2>2, <2>3
  <2>5. QED
    BY <1>1, <2>2, <2>4 DEF AdmittedIn
<1>18. QED
  BY <1>11, <1>15, <1>16, <1>17 DEF HttpIInv

\* A second passes: a window that begins then has no admission yet.
LEMMA NextSecondKeeps ==
    ASSUME HttpIInv, NextSecond
    PROVE  HttpIInv'
<1>1. /\ HttpTypes /\ second \in Nat /\ MaxPerWindow \in Nat /\ Window \in Nat \ {0}
      /\ second' = second + 1 /\ requests' = requests /\ serving' = serving
      /\ chain' = chain /\ refusals' = refusals /\ admitted' = admitted
  BY LimiterAssumption DEF HttpIInv, HttpTypes, NextSecond
<1>2. HttpTypes'
  <2>1. \A i \in DOMAIN admitted : admitted[i].at <= second + 1
    BY <1>1, AdmittedBefore
  <2>2. ASSUME NEW t \in Servers, In(t, "limiting") PROVE serving[t].now <= second + 1
    <3>1. serving[t] # Waiting
      BY <2>2 DEF In, Waiting
    <3>2. serving[t].now \in Nat /\ serving[t].now <= second
      BY <1>1, <2>2, <3>1 DEF HttpTypes, Request
    <3>3. QED
      BY <1>1, <3>2
  <2>3. QED
    BY <1>1, <2>1, <2>2 DEF HttpTypes, In
<1>3. ASSUME NEW k \in Clients, NEW x \in Int, NEW y \in Int
      PROVE  AdmittedIn(k, x, y) \in Nat /\ AdmittedIn(k, x, y)' = AdmittedIn(k, x, y)
  <2>1. AdmittedIn(k, x, y) = Cardinality(Among(admitted, During(k, x, y)))
    BY <1>1, AdmittedIs
  <2>2. AdmittedIn(k, x, y)' = AdmittedIn(k, x, y)
    BY <1>1 DEF AdmittedIn
  <2>3. QED
    BY <1>1, <2>1, <2>2, AmongFinite DEF HttpTypes
<1>4. ASSUME NEW k \in Clients, NEW x \in Int
      PROVE  AdmittedIn(k, x, second)' = AdmittedIn(k, x, second)
  <2>1. PICK y \in Nat : y = second + 1
    BY <1>1
  <2>2. AdmittedIn(k, x, second)' = AdmittedIn(k, x, y)
    BY <1>1, <2>1 DEF AdmittedIn
  <2>3. Among(admitted, During(k, x, y)) = Among(admitted, During(k, x, second))
    <3>1. \A i \in DOMAIN admitted : /\ admitted[i] \in Admission /\ admitted[i].at \in Nat
                                     /\ admitted[i].at <= second
      BY <1>1, AdmittedBefore
    <3>2. \A i \in DOMAIN admitted : admitted[i].at \in x..y <=> admitted[i].at \in x..second
      BY <1>1, <2>1, <3>1
    <3>3. QED
      BY <3>2 DEF Among, During
  <2>4. QED
    BY <1>1, <2>1, <2>2, <2>3, AdmittedIs
<1>5. ASSUME NEW k \in Clients, NEW from \in Nat PROVE WithinLimit(k, from)'
  <2>1. WithinLimit(k, from) /\ from + Window - 1 \in Int
    BY <1>1 DEF HttpIInv
  <2>2. PICK a \in Nat : a = AdmittedIn(k, from, from + Window - 1)
    BY <1>3, <2>1
  <2>3. AdmittedIn(k, from, from + Window - 1)' = a
    BY <1>3, <2>1, <2>2
  <2>4. PICK n \in Nat, u \in Nat : /\ n = Cardinality(Among(requests[k], Since(from)))
                                    /\ u = Cardinality(Servers \ Late(from))
    BY <1>1, AmongFinite, LateCounts DEF HttpTypes
  <2>5. /\ Cardinality(Among(requests'[k], Since(from))) = n
        /\ Cardinality(Servers \ Late(from)') = u
    BY <1>1, <2>4 DEF Late, In
  <2>6. ASSUME second' \in from..(from + Window - 1) PROVE a <= n + u
    <3>1. CASE second >= from
      BY <1>1, <2>1, <2>2, <2>4, <2>6, <3>1 DEF WithinLimit
    <3>2. CASE ~(second >= from)
      <4>1. \A i \in DOMAIN admitted : ~(admitted[i].at \in from..(from + Window - 1))
        BY <1>1, <3>2, AdmittedBefore
      <4>2. Among(admitted, During(k, from, from + Window - 1)) = {}
        BY <4>1 DEF Among, During
      <4>3. a = 0
        BY <1>1, <2>1, <2>2, <4>2, AdmittedIs, FS_EmptySet
      <4>4. QED
        BY <4>3
    <3>3. QED
      BY <3>1, <3>2
  <2>7. a <= MaxPerWindow + Cardinality(Servers)
    BY <2>1, <2>2 DEF WithinLimit
  <2>8. QED
    BY <2>3, <2>5, <2>6, <2>7 DEF WithinLimit
<1>6. ASSUME NEW k \in Clients, NEW x \in Int PROVE Stamped(k, x)'
  <2>1. Stamped(k, x) /\ AdmittedIn(k, x, second)' = AdmittedIn(k, x, second)
    BY <1>4 DEF HttpIInv
  <2>2. QED
    BY <1>1, <2>1 DEF Stamped
<1>7. ASSUME NEW r \in refusals'
      PROVE  (AdmittedIn(r.client, r.now - Window + 1, second) >= MaxPerWindow)'
  <2>1. r \in refusals /\ r.client \in Clients /\ r.now - Window + 1 \in Int
    BY <1>1, <1>7 DEF HttpTypes
  <2>2. PICK k \in Clients, x \in Int : k = r.client /\ x = r.now - Window + 1
    BY <2>1
  <2>3. AdmittedIn(k, x, second) >= MaxPerWindow
    BY <2>1, <2>2 DEF HttpIInv
  <2>4. AdmittedIn(k, x, second)' >= MaxPerWindow
    BY <1>4, <2>3
  <2>5. QED
    BY <1>1, <2>2, <2>4 DEF AdmittedIn
<1>8. QED
  BY <1>2, <1>5, <1>6, <1>7 DEF HttpIInv

\* Every step of the server keeps the invariant.
LEMMA HttpNextIInv == HttpIInv /\ [HttpNext]_httpVars => HttpIInv'
<1> SUFFICES ASSUME HttpIInv, [HttpNext]_httpVars PROVE HttpIInv'
  OBVIOUS
<1>1. ASSUME NEW s \in Servers, is_allowed(s) PROVE HttpIInv'
  <2>1. serving[s] \in Request
    BY <1>1 DEF HttpIInv, HttpTypes, is_allowed, In, Waiting
  <2>2. PICK c \in Clients, now \in Nat : c = serving[s].client /\ now = serving[s].now
    BY <2>1 DEF Request
  <2>3. In(s, "limiting") /\ second' = second /\ chain' = chain
    BY <1>1 DEF is_allowed
  <2>4. \/ /\ Len(Recent(c, now)) >= MaxPerWindow
           /\ requests' = [requests EXCEPT ![c] = Recent(c, now)]
           /\ Refuse(s)
        \/ /\ Len(Recent(c, now)) < MaxPerWindow
           /\ requests' = [requests EXCEPT ![c] = Append(Recent(c, now), now)]
           /\ Admit(s)
    BY <1>1, <2>2 DEF is_allowed
  <2>5. QED
    BY <2>2, <2>3, <2>4, RefuseKeeps, AdmitKeeps
<1>2. CASE UNCHANGED httpVars
  <2>1. HttpTypes'
    BY <1>2 DEF httpVars, HttpIInv, HttpTypes, In
  <2>2. \A from \in Nat : Late(from)' \subseteq Late(from)
    BY <1>2 DEF httpVars, Late, In
  <2>3. QED
    BY <1>2, <2>1, <2>2, NoVerdict DEF httpVars
<1>3. QED
  BY <1>1, <1>2, ReceiveKeeps, OnTheWay, NextSecondKeeps DEF HttpNext

\* For any threads, clients, limit and window, and however late a thread gets the lock: no
\* window admits a client more often than the limit and once more per thread, and a client
\* that was refused had used its limit since a window before it asked (mcp_http.py:41-54).
THEOREM RateLimitedHolds == HttpSpec => []RateLimited
<1>1. HttpIInv => RateLimited
  <2> SUFFICES ASSUME HttpIInv PROVE RateLimited
    OBVIOUS
  <2>1. ASSUME NEW c \in Clients, NEW from \in 0..LastSecond
        PROVE  AdmittedIn(c, from, from + Window - 1) <= MaxPerWindow + Cardinality(Servers)
    <3>1. from \in Nat
      BY LimiterAssumption
    <3>2. QED
      BY <3>1 DEF HttpIInv, WithinLimit
  <2>2. QED
    BY <2>1 DEF RateLimited, HttpIInv
<1>2. QED
  BY <1>1, HttpInitIInv, HttpNextIInv, PTL DEF HttpSpec

-------------------------------------------------------------------------------
(***************************************************************************)
(* The DID document (DidDocument)                                          *)
(***************************************************************************)
DidMethods == [id : MethodIds, jwk : Jwks]

DidTypes ==
    /\ doc.methods \in Seq(DidMethods)
    /\ doc.lists \in [Listed -> Seq(MethodIds)]

\* The methods are those that were added, with the key they were added with.
MethodsKnown ==
    /\ \A m \in ToSet(doc.methods) : m.id \in DOMAIN added /\ m.jwk = added[m.id][1]
    /\ \A k \in DOMAIN added : \E m \in ToSet(doc.methods) : m.id = k

\* A list names them as often as they were added for it.
ListsKnown ==
    \A r \in Listed :
       /\ ToSet(doc.lists[r]) \subseteq DOMAIN added
       /\ \A k \in DOMAIN added :
             Cardinality(Among(doc.lists[r], {k})) = Cardinality(Among(added[k][2], {r}))

DidIInv == DidTypes /\ MethodsKnown /\ ListsKnown

\* A document begins empty (did.rs, DidDocument::new).
LEMMA DidInitIInv == DidInit => DidIInv
<1> SUFFICES ASSUME DidInit PROVE DidIInv
  OBVIOUS
<1>1. doc.methods = <<>> /\ doc.lists = [r \in Listed |-> <<>>] /\ DOMAIN added = {}
  BY DEF DidInit
<1>2. \A r \in Listed : doc.lists[r] = <<>>
  BY <1>1
<1>3. ToSet(<<>>) = {}
  BY DEF ToSet
<1>4. DidTypes
  <2>1. <<>> \in Seq(MethodIds) /\ <<>> \in Seq(DidMethods)
    OBVIOUS
  <2>2. QED
    BY <1>1, <2>1 DEF DidTypes
<1>5. MethodsKnown
  BY <1>1, <1>3 DEF MethodsKnown
<1>6. ListsKnown
  BY <1>1, <1>2, <1>3 DEF ListsKnown
<1>7. QED
  BY <1>4, <1>5, <1>6 DEF DidIInv

\* What a call to add the method k for rels makes of a list.
RefersAsNamed(longer, list, r, k, rels) ==
    /\ longer \in Seq(MethodIds)
    /\ ToSet(longer) \subseteq ToSet(list) \union {k}
    /\ \A o : o # k => Cardinality(Among(longer, {o})) = Cardinality(Among(list, {o}))
    /\ k \notin ToSet(list) =>
          Cardinality(Among(longer, {k})) = Cardinality(Among(rels, {r}))

\* A call refers to the new method as often as it names the relationship, and to no other
\* (add_verification_method, 140-156).
LEMMA ReferencedCounts ==
    ASSUME NEW list \in Seq(MethodIds), NEW r \in Listed, NEW k \in MethodIds,
           NEW rels \in Seq(VerificationRelationship)
    PROVE  RefersAsNamed(Referenced(list, r, k, rels), list, r, k, rels)
<1>1. PICK named : named = retain(rels, VerificationRelationship \ {r})
  OBVIOUS
<1>2. /\ named \in Seq(VerificationRelationship)
      /\ ToSet(named) = ToSet(rels) \ (VerificationRelationship \ {r})
      /\ Cardinality(Among(named, {r})) = Cardinality(Among(rels, {r}))
  <2>1. {r} \intersect (VerificationRelationship \ {r}) = {}
    OBVIOUS
  <2>2. QED
    BY <1>1, <2>1, RetainKeeps, AmongRetained
<1>3. PICK n \in Nat : n = Len(named)
  BY <1>2
<1>4. DOMAIN named = 1..n
  BY <1>2, <1>3
<1>5. Among(named, {r}) = 1..n
  <2>1. ToSet(rels) \subseteq VerificationRelationship
    BY DEF ToSet
  <2>2. \A i \in 1..n : named[i] = r
    BY <1>2, <1>4, <2>1 DEF ToSet
  <2>3. QED
    BY <1>4, <2>2 DEF Among
<1>6. Cardinality(Among(rels, {r})) = n
  BY <1>2, <1>5, FS_Interval
<1>7. PICK tail : tail = [i \in 1..n |-> k]
  OBVIOUS
<1>8. tail \in Seq(MethodIds) /\ Len(tail) = n /\ \A i \in 1..n : tail[i] = k
  BY <1>7
<1>9. PICK longer : longer = list \o tail
  OBVIOUS
<1>10. Referenced(list, r, k, rels) = longer
  BY <1>1, <1>4, <1>7, <1>9 DEF Referenced
<1>11. PICK l \in Nat : l = Len(list)
  OBVIOUS
<1>12. /\ longer \in Seq(MethodIds) /\ DOMAIN longer = 1..(l + n) /\ DOMAIN list = 1..l
       /\ \A i \in 1..l : longer[i] = list[i]
       /\ \A i \in (l + 1)..(l + n) : longer[i] = k
  <2>1. longer \in Seq(MethodIds) /\ Len(longer) = l + n
    <3>1. longer \in Seq(MethodIds)
      BY <1>8, <1>9
    <3>2. \A a, b \in Seq(MethodIds) : Len(a \o b) = Len(a) + Len(b)
      OBVIOUS
    <3>3. Len(longer) = Len(list) + Len(tail)
      BY <1>8, <1>9, <3>2
    <3>4. QED
      BY <1>8, <1>11, <3>1, <3>3
  <2>2. \A i \in 1..l : longer[i] = list[i]
    BY <1>8, <1>9, <1>11
  <2>3. ASSUME NEW i \in (l + 1)..(l + n) PROVE longer[i] = k
    <3>1. i - l \in 1..n /\ i \in 1..(l + n) /\ ~(i <= l)
      OBVIOUS
    <3>2. longer[i] = tail[i - l]
      BY <1>8, <1>9, <1>11, <3>1
    <3>3. QED
      BY <1>8, <3>1, <3>2
  <2>4. QED
    BY <1>11, <2>1, <2>2, <2>3
<1>13. \A i \in 1..(l + n) : i \in 1..l \/ i \in (l + 1)..(l + n)
  OBVIOUS
<1>14. \A i \in 1..l : i \in 1..(l + n)
  OBVIOUS
<1>15. ToSet(longer) \subseteq ToSet(list) \union {k}
  BY <1>12, <1>13 DEF ToSet
<1>16. ASSUME NEW o, o # k PROVE Among(longer, {o}) = Among(list, {o})
  BY <1>12, <1>13, <1>14, <1>16 DEF Among
<1>17. ASSUME k \notin ToSet(list) PROVE Cardinality(Among(longer, {k})) = n
  <2>1. \A i \in 1..l : list[i] # k
    BY <1>12, <1>17 DEF ToSet
  <2>2. \A i \in (l + 1)..(l + n) : i \in 1..(l + n)
    OBVIOUS
  <2>3. Among(longer, {k}) = (l + 1)..(l + n)
    BY <1>12, <1>13, <2>1, <2>2 DEF Among
  <2>4. l + 1 \in Int /\ l + n \in Int
    OBVIOUS
  <2>5. Cardinality((l + 1)..(l + n)) = IF l + 1 > l + n THEN 0 ELSE (l + n) - (l + 1) + 1
    BY <2>4, FS_Interval
  <2>6. QED
    BY <2>3, <2>5
<1>18. QED
  BY <1>6, <1>10, <1>12, <1>15, <1>16, <1>17 DEF RefersAsNamed

\* The method that get_method finds, when the id is one method's (get_method, 160-169).
LEMMA MethodFound ==
    ASSUME NEW list \in Seq(DidMethods), NEW k, \E m \in ToSet(list) : m.id = k
    PROVE  list[SelectInSeq(list, LAMBDA m : m.id = k)] \in
              {m \in ToSet(list) : m.id = k}
<1> DEFINE I == {j \in 1..Len(list) : list[j].id = k}
<1>1. Len(list) \in Nat /\ DOMAIN list = 1..Len(list) /\ I \subseteq Nat
  OBVIOUS
<1>2. I # {}
  BY <1>1 DEF ToSet
<1>3. SelectInSeq(list, LAMBDA m : m.id = k) = IF I # {} THEN Min(I) ELSE 0
  BY DEF SelectInSeq
<1>4. \A i \in I : list[i] \in ToSet(list) /\ list[i].id = k
  BY <1>1 DEF ToSet
<1> HIDE DEF I
<1>5. Min(I) \in I
  <2>1. PICK i \in I : \A j \in I : ~(j < i)
    BY <1>1, <1>2, LeastNumber
  <2>2. \A j \in I : i <= j
    BY <1>1, <2>1
  <2>3. \E j \in I : \A y \in I : j <= y
    BY <2>1, <2>2
  <2>4. QED
    BY <2>3 DEF Min
<1>6. QED
  BY <1>2, <1>3, <1>4, <1>5

\* The property, of the parts of the invariant.
LEMMA DidIInvImplies == DidIInv => ReferencesResolve
<1> SUFFICES ASSUME DidIInv PROVE ReferencesResolve
  OBVIOUS
<1>1. DOMAIN doc.methods = 1..Len(doc.methods)
  BY DEF DidIInv, DidTypes
<1>2. {doc.methods[i].id : i \in DOMAIN doc.methods} = DOMAIN added
  <2>1. \A i \in DOMAIN doc.methods : doc.methods[i].id \in DOMAIN added
    BY DEF DidIInv, MethodsKnown, ToSet
  <2>2. \A k \in DOMAIN added : \E i \in DOMAIN doc.methods : doc.methods[i].id = k
    BY DEF DidIInv, MethodsKnown, ToSet
  <2>3. QED
    BY <2>1, <2>2
<1>3. ASSUME NEW k \in DOMAIN added PROVE get_method(k).jwk = added[k][1]
  <2>1. \E m \in ToSet(doc.methods) : m.id = k
    BY DEF DidIInv, MethodsKnown
  <2>2. get_method(k) \in {m \in ToSet(doc.methods) : m.id = k}
    BY <2>1, MethodFound, Zenon DEF get_method, DidIInv, DidTypes
  <2>3. QED
    BY <2>2 DEF DidIInv, MethodsKnown
<1>4. ASSUME NEW k \in DOMAIN added, NEW r \in Listed
      PROVE  Cardinality({i \in DOMAIN doc.lists[r] : doc.lists[r][i] = k})
                = Cardinality({i \in DOMAIN added[k][2] : added[k][2][i] = r})
  <2>1. /\ {i \in DOMAIN doc.lists[r] : doc.lists[r][i] = k} = Among(doc.lists[r], {k})
        /\ {i \in DOMAIN added[k][2] : added[k][2][i] = r} = Among(added[k][2], {r})
    BY DEF Among
  <2>2. QED
    BY <2>1 DEF DidIInv, ListsKnown
<1>5. QED
  BY <1>2, <1>3, <1>4 DEF ReferencesResolve, DidIInv, ListsKnown

\* An id is present when it was added and not removed since.
LEMMA PresentAdded == ASSUME DidIInv, NEW k PROVE Present(k) <=> k \in DOMAIN added
<1>1. Present(k) <=> \E m \in ToSet(doc.methods) : m.id = k
  BY DEF Present, ToSet
<1>2. QED
  BY <1>1 DEF DidIInv, MethodsKnown

\* A method that is added is referred to as the call says, and the others as before
\* (add_verification_method, 126-158).
LEMMA AddMethodKeeps ==
    ASSUME DidIInv, NEW k \in MethodIds, NEW jwk \in Jwks, NEW rels \in RelationLists,
           add_verification_method(k, jwk, rels)
    PROVE  DidIInv'
<1>1. rels \in Seq(VerificationRelationship)
  <2>1. PICK n \in 0..MaxRelations : rels \in [1..n -> VerificationRelationship]
    BY DEF RelationLists
  <2>2. n \in Nat
    BY RelationsAssumption
  <2>3. QED
    BY <2>1, <2>2
<1>2. PICK m : m = [id |-> k, jwk |-> jwk]
  OBVIOUS
<1>3. m \in DidMethods /\ m.id = k /\ m.jwk = jwk
  BY <1>2 DEF DidMethods
<1>4. PICK methods : methods = doc.methods
  OBVIOUS
<1>5. methods \in Seq(DidMethods) /\ k \notin DOMAIN added
  BY <1>4, PresentAdded DEF add_verification_method, DidIInv, DidTypes
<1>6. doc'.methods = Append(methods, m)
  BY <1>2, <1>4, Zenon DEF add_verification_method, VerificationMethod
<1>7. /\ doc'.lists \in [Listed -> Seq(MethodIds)]
      /\ \A r \in Listed : doc'.lists[r] = Referenced(doc.lists[r], r, k, rels)
  <2>1. doc'.lists = [r \in Listed |-> Referenced(doc.lists[r], r, k, rels)]
    BY Zenon DEF add_verification_method
  <2>2. \A r \in Listed : doc.lists[r] \in Seq(MethodIds)
    BY DEF DidIInv, DidTypes
  <2>3. ASSUME NEW r \in Listed PROVE Referenced(doc.lists[r], r, k, rels) \in Seq(MethodIds)
    <3>1. PICK list : list = doc.lists[r]
      OBVIOUS
    <3>2. list \in Seq(MethodIds)
      BY <2>2, <3>1
    <3>3. RefersAsNamed(Referenced(list, r, k, rels), list, r, k, rels)
      BY <1>1, <3>2, ReferencedCounts, Zenon
    <3>4. QED
      BY <3>1, <3>3 DEF RefersAsNamed
  <2>4. QED
    BY <2>1, <2>3
<1>8. /\ DOMAIN added' = DOMAIN added \union {k}
      /\ added'[k] = <<jwk, rels>>
      /\ \A o \in DOMAIN added : added'[o] = added[o]
  <2>1. added' = [o \in DOMAIN added \union {k} |->
                     IF o = k THEN <<jwk, rels>> ELSE added[o]]
    BY Zenon DEF add_verification_method
  <2>2. QED
    BY <1>5, <2>1
<1>9. ToSet(Append(methods, m)) = ToSet(methods) \union {m}
  <2>1. PICK longer : longer = Append(methods, m)
    OBVIOUS
  <2>2. PICK l \in Nat : l = Len(methods)
    BY <1>5
  <2>3. /\ DOMAIN longer = 1..(l + 1) /\ DOMAIN methods = 1..l
        /\ longer[l + 1] = m /\ \A i \in 1..l : longer[i] = methods[i]
    BY <1>3, <1>5, <2>1, <2>2
  <2>4. /\ \A i \in 1..(l + 1) : i \in 1..l \/ i = l + 1
        /\ l + 1 \in 1..(l + 1) /\ \A i \in 1..l : i \in 1..(l + 1)
    OBVIOUS
  <2>5. QED
    BY <2>1, <2>3, <2>4 DEF ToSet
<1>10. DidTypes'
  <2>1. Append(methods, m) \in Seq(DidMethods)
    BY <1>3, <1>5
  <2>2. QED
    BY <1>6, <1>7, <2>1 DEF DidTypes
<1>11. MethodsKnown'
  <2>1. ASSUME NEW e \in ToSet(doc.methods)'
        PROVE  e.id \in DOMAIN added' /\ e.jwk = added'[e.id][1]
    <3>1. e \in ToSet(methods) \/ e = m
      BY <1>6, <1>9, <2>1
    <3>2. CASE e = m
      BY <1>3, <1>8, <3>2
    <3>3. CASE e \in ToSet(methods)
      BY <1>4, <1>8, <3>3 DEF DidIInv, MethodsKnown
    <3>4. QED
      BY <3>1, <3>2, <3>3
  <2>2. ASSUME NEW o \in DOMAIN added' PROVE \E e \in ToSet(doc.methods)' : e.id = o
    BY <1>3, <1>4, <1>6, <1>8, <1>9, <2>2 DEF DidIInv, MethodsKnown
  <2>3. QED
    BY <2>1, <2>2 DEF MethodsKnown
<1>12. ASSUME NEW r \in Listed
       PROVE  /\ ToSet(doc'.lists[r]) \subseteq DOMAIN added'
              /\ \A o \in DOMAIN added' :
                    Cardinality(Among(doc'.lists[r], {o}))
                        = Cardinality(Among(added'[o][2], {r}))
  <2>1. PICK list : list = doc.lists[r]
    OBVIOUS
  <2>2. /\ list \in Seq(MethodIds) /\ ToSet(list) \subseteq DOMAIN added
        /\ \A o \in DOMAIN added :
              Cardinality(Among(list, {o})) = Cardinality(Among(added[o][2], {r}))
    BY <2>1 DEF DidIInv, DidTypes, ListsKnown
  <2>3. PICK longer : longer = Referenced(list, r, k, rels)
    OBVIOUS
  <2>4. /\ ToSet(longer) \subseteq ToSet(list) \union {k}
        /\ \A o : o # k => Cardinality(Among(longer, {o})) = Cardinality(Among(list, {o}))
        /\ Cardinality(Among(longer, {k})) = Cardinality(Among(rels, {r}))
    <3>1. k \notin ToSet(list)
      BY <1>5, <2>2
    <3>2. list \in Seq(MethodIds)
      BY <2>2
    <3>3. RefersAsNamed(longer, list, r, k, rels)
      BY <1>1, <2>3, <3>2, ReferencedCounts, Zenon
    <3>4. QED
      BY <3>1, <3>3 DEF RefersAsNamed
  <2>5. doc'.lists[r] = longer
    BY <1>7, <2>1, <2>3
  <2>6. ASSUME NEW o \in DOMAIN added'
        PROVE  Cardinality(Among(longer, {o})) = Cardinality(Among(added'[o][2], {r}))
    <3>1. CASE o = k
      BY <1>8, <2>4, <3>1
    <3>2. CASE o # k
      BY <1>8, <2>2, <2>4, <3>2
    <3>3. QED
      BY <3>1, <3>2
  <2>7. QED
    BY <1>8, <2>2, <2>4, <2>5, <2>6
<1>13. QED
  BY <1>10, <1>11, <1>12 DEF DidIInv, ListsKnown

\* A method that is removed leaves no reference and the others theirs (remove_method, 174-185).
LEMMA RemoveMethodKeeps ==
    ASSUME DidIInv, NEW k \in MethodIds, remove_method(k)
    PROVE  DidIInv'
<1>1. PICK methods, gone : /\ methods = doc.methods
                           /\ gone = {m \in ToSet(methods) : m.id = k}
  OBVIOUS
<1>2. methods \in Seq(DidMethods)
  BY <1>1 DEF DidIInv, DidTypes
<1>3. doc'.methods = retain(methods, gone) /\ doc'.lists = Unreferenced(doc.lists, k)
  BY <1>1, Zenon DEF remove_method
<1>4. /\ DOMAIN added' = DOMAIN added \ {k}
      /\ \A o \in DOMAIN added' : added'[o] = added[o]
  BY DEF remove_method, Restrict
<1>5. /\ retain(methods, gone) \in Seq(DidMethods)
      /\ ToSet(retain(methods, gone)) = ToSet(methods) \ gone
  BY <1>2, RetainKeeps
<1>6. ASSUME NEW r \in Listed
      PROVE  /\ doc'.lists[r] = retain(doc.lists[r], {k})
             /\ doc.lists[r] \in Seq(MethodIds)
             /\ retain(doc.lists[r], {k}) \in Seq(MethodIds)
             /\ ToSet(retain(doc.lists[r], {k})) = ToSet(doc.lists[r]) \ {k}
  <2>1. doc.lists[r] \in Seq(MethodIds)
    BY DEF DidIInv, DidTypes
  <2>2. doc'.lists[r] = retain(doc.lists[r], {k})
    BY <1>3 DEF Unreferenced
  <2>3. QED
    BY <2>1, <2>2, RetainKeeps
<1>7. DidTypes'
  <2>1. doc'.lists = [r \in Listed |-> retain(doc.lists[r], {k})]
    BY <1>3 DEF Unreferenced
  <2>2. doc'.lists \in [Listed -> Seq(MethodIds)]
    BY <1>6, <2>1
  <2>3. QED
    BY <1>3, <1>5, <2>2 DEF DidTypes
<1>8. MethodsKnown'
  <2>1. \A m \in ToSet(methods) : m.id \in DOMAIN added /\ m.jwk = added[m.id][1]
    BY <1>1 DEF DidIInv, MethodsKnown
  <2>2. \A o \in DOMAIN added : \E m \in ToSet(methods) : m.id = o
    BY <1>1 DEF DidIInv, MethodsKnown
  <2>3. \A m \in ToSet(methods) \ gone : m.id \in DOMAIN added' /\ m.jwk = added'[m.id][1]
    BY <1>1, <1>4, <2>1
  <2>4. \A o \in DOMAIN added' : \E m \in ToSet(methods) \ gone : m.id = o
    BY <1>1, <1>4, <2>2
  <2>5. QED
    BY <1>3, <1>5, <2>3, <2>4 DEF MethodsKnown
<1>9. ASSUME NEW r \in Listed
      PROVE  /\ ToSet(doc'.lists[r]) \subseteq DOMAIN added'
             /\ \A o \in DOMAIN added' :
                   Cardinality(Among(doc'.lists[r], {o}))
                       = Cardinality(Among(added'[o][2], {r}))
  <2>1. ASSUME NEW o \in DOMAIN added'
        PROVE  Cardinality(Among(doc'.lists[r], {o}))
                   = Cardinality(Among(added'[o][2], {r}))
    <3>1. o \in DOMAIN added /\ o # k /\ added'[o] = added[o]
      BY <1>4, <2>1
    <3>2. {o} \intersect {k} = {}
      BY <3>1
    <3>3. Cardinality(Among(retain(doc.lists[r], {k}), {o}))
              = Cardinality(Among(doc.lists[r], {o}))
      BY <1>6, <3>2, AmongRetained
    <3>4. QED
      BY <1>6, <3>1, <3>3 DEF DidIInv, ListsKnown
  <2>2. ToSet(doc.lists[r]) \subseteq DOMAIN added
    BY DEF DidIInv, ListsKnown
  <2>3. QED
    BY <1>4, <1>6, <2>1, <2>2
<1>10. QED
  BY <1>7, <1>8, <1>9 DEF DidIInv, ListsKnown

\* A call that fails, and a document written and read back, change nothing (did.rs:131-136,
\* 178-180, 187-198).
LEMMA DidQuiet == ASSUME DidIInv, UNCHANGED <<doc, added>> PROVE DidIInv'
  BY DEF DidIInv, DidTypes, MethodsKnown, ListsKnown

\* Every call keeps the invariant.
LEMMA DidNextIInv == DidIInv /\ [DidNext]_didVars => DidIInv'
<1> SUFFICES ASSUME DidIInv, [DidNext]_didVars PROVE DidIInv'
  OBVIOUS
<1>1. ASSUME NEW k \in MethodIds,
             \/ AddRefused(k) \/ MethodNotFound(k) \/ remove_method(k)
             \/ \E jwk \in Jwks, relationships \in RelationLists :
                   add_verification_method(k, jwk, relationships)
      PROVE  DidIInv'
  <2>1. CASE AddRefused(k) \/ MethodNotFound(k)
    BY <2>1, DidQuiet DEF AddRefused, MethodNotFound, Fails
  <2>2. CASE remove_method(k)
    BY <2>2, RemoveMethodKeeps
  <2>3. CASE \E jwk \in Jwks, relationships \in RelationLists :
                add_verification_method(k, jwk, relationships)
    BY <2>3, AddMethodKeeps
  <2>4. QED
    BY <1>1, <2>1, <2>2, <2>3
<1>2. CASE RoundTrip
  BY <1>2, DidQuiet DEF RoundTrip, Fails
<1>3. CASE UNCHANGED didVars
  BY <1>3, DidQuiet DEF didVars
<1>4. QED
  BY <1>1, <1>2, <1>3 DEF DidNext

\* For any ids, keys and relationship lists: the lists name exactly the methods present, each
\* as often as it was last added for them, and an id resolves to the key it was last added
\* with (did.rs:126-185).
THEOREM ReferencesResolveHolds == DidSpec => []ReferencesResolve
  BY DidInitIInv, DidNextIInv, DidIInvImplies, PTL DEF DidSpec

-------------------------------------------------------------------------------
(***************************************************************************)
(* The key-distribution simulator (Qkd)                                    *)
(***************************************************************************)

\* Both parties have sifted the same rounds, and read the same in them when nothing flips.
SiftedTogether ==
    /\ alice \in Seq(Bit) /\ bob \in Seq(Bit) /\ Len(bob) = Len(alice)
    /\ phase = "none" => alice = bob
    /\ ~params.noisy => alice = bob

\* A simulator that runs has a sample size and a rate.
Constructed ==
    phase \in {"sending", "shuffling"} =>
        /\ params.sample_size \in Nat
        /\ params.max_qber[1] \in Nat /\ params.max_qber[2] \in Nat

\* The shuffle permutes the indices, and there is a sample of them.
Permuted ==
    phase = "shuffling" =>
        /\ idx \in [Sifted -> Sifted] /\ IsInjective(idx)
        /\ turn \in Nat /\ turn <= Len(alice)
        /\ params.sample_size <= Len(alice)

QkdIInv == SiftedTogether /\ Constructed /\ Permuted /\ KeyNotSampled

\* A sequence without repetitions holds as many elements of X as its range does.
LEMMA AmongOnce ==
    ASSUME NEW S, NEW s \in Seq(S), IsInjective(s), NEW X
    PROVE  Cardinality(Among(s, X)) = Cardinality(ToSet(s) \intersect X)
<1> DEFINE g == [i \in Among(s, X) |-> s[i]]
<1>1. \A i \in Among(s, X) : g[i] = s[i] /\ i \in DOMAIN s /\ s[i] \in ToSet(s) \intersect X
  BY DEF Among, ToSet
<1>2. g \in [Among(s, X) -> ToSet(s) \intersect X]
  BY <1>1
<1>3. \A x \in ToSet(s) \intersect X : \E i \in Among(s, X) : g[i] = x
  BY <1>1 DEF Among, ToSet
<1>4. \A i, j \in Among(s, X) : g[i] = g[j] => i = j
  BY <1>1 DEF IsInjective
<1> HIDE DEF g
<1>5. g \in Bijection(Among(s, X), ToSet(s) \intersect X)
  BY <1>2, <1>3, <1>4 DEF Bijection, Injection, Surjection, IsInjective
<1>6. IsFiniteSet(Among(s, X))
  BY AmongFinite
<1>7. QED
  BY <1>5, <1>6, FS_Bijection DEF ExistsBijection

\* Before the run nothing is sifted (qkd/mod.rs, Bb84Simulator::new).
LEMMA QkdInitIInv == QkdInit => QkdIInv
<1> SUFFICES ASSUME QkdInit PROVE QkdIInv
  OBVIOUS
<1>1. alice = <<>> /\ bob = <<>> /\ phase = "none"
  BY DEF QkdInit
<1>2. SiftedTogether
  BY <1>1 DEF SiftedTogether
<1>3. QED
  BY <1>1, <1>2 DEF QkdIInv, Constructed, Permuted, KeyNotSampled

\* What is made of a phase without a report in it (Bb84Simulator::run, 170-219).
LEMMA Unreported ==
    ASSUME phase' # "done", SiftedTogether', Constructed', Permuted'
    PROVE  QkdIInv'
  BY DEF QkdIInv, KeyNotSampled

\* A simulator is refused or has a sample size and a rate (Bb84Simulator::new, 156-167).
LEMMA NewKeeps ==
    ASSUME QkdIInv,
           NEW p \in [qubit_count : QubitCounts, sample_size : SampleSizes,
                      max_qber : MaxQbers, noisy : Noisy],
           new(p)
    PROVE  QkdIInv'
<1>1. /\ phase = "none" /\ phase' \in {"sending", "refused"} /\ params' = p
      /\ alice' = alice /\ bob' = bob
  BY DEF new
<1>2. SiftedTogether'
  BY <1>1 DEF QkdIInv, SiftedTogether
<1>3. Constructed'
  <2> SUFFICES ASSUME phase' = "sending"
               PROVE  /\ p.sample_size \in Nat
                      /\ p.max_qber[1] \in Nat /\ p.max_qber[2] \in Nat
    BY <1>1 DEF Constructed
  <2>1. p.max_qber[1] \in 0..p.max_qber[2]
    BY DEF new
  <2>2. p.sample_size \in Nat /\ p.max_qber \in Int \X (Nat \ {0})
    BY QkdAssumption
  <2>3. QED
    BY <2>1, <2>2
<1>4. QED
  BY <1>1, <1>2, <1>3, Unreported DEF Permuted

\* A round whose bases match appends what Alice sent and what Bob read (run, 176-193).
LEMMA MatchedKeeps ==
    ASSUME QkdIInv, NEW bit \in Bit, NEW flip \in Flips, Matched(bit, flip)
    PROVE  QkdIInv'
<1>1. /\ phase = "sending" /\ phase' = "sending" /\ params' = params
      /\ alice' = Append(alice, bit) /\ bob' = Append(bob, maybe_flip(bit, flip))
  BY DEF Matched
<1>2. flip \in Bit
  BY DEF Flips, Bit
<1>3. maybe_flip(bit, flip) \in Bit /\ maybe_flip(bit, 0) = bit
  <2>1. \A a, b \in {0, 1} : (a + b) % 2 \in {0, 1} /\ (a + 0) % 2 = a
    OBVIOUS
  <2>2. QED
    BY <1>2, <2>1 DEF maybe_flip, Bit
<1>4. SiftedTogether'
  <2>1. alice \in Seq(Bit) /\ bob \in Seq(Bit) /\ Len(bob) = Len(alice)
    BY DEF QkdIInv, SiftedTogether
  <2>2. alice' \in Seq(Bit) /\ bob' \in Seq(Bit) /\ Len(bob') = Len(alice')
    BY <1>1, <1>3, <2>1
  <2>3. ~params.noisy => alice' = bob'
    BY <1>1, <1>3 DEF Flips, QkdIInv, SiftedTogether
  <2>4. QED
    BY <1>1, <2>2, <2>3 DEF SiftedTogether
<1>5. Constructed'
  BY <1>1 DEF QkdIInv, Constructed
<1>6. QED
  BY <1>1, <1>4, <1>5, Unreported DEF Permuted

\* The indices begin in their order, each at its own place (random_unique_indices, 239).
LEMMA BeginShuffleKeeps == ASSUME QkdIInv, BeginShuffle PROVE QkdIInv'
<1>1. /\ phase = "sending" /\ phase' = "shuffling" /\ params' = params
      /\ alice' = alice /\ bob' = bob /\ turn' = Len(alice)
      /\ idx' = [i \in Sifted |-> i] /\ Len(alice) >= params.sample_size
  BY DEF BeginShuffle
<1>2. SiftedTogether' /\ Constructed'
  BY <1>1 DEF QkdIInv, SiftedTogether, Constructed
<1>3. Permuted'
  <2>1. Len(alice) \in Nat /\ params.sample_size \in Nat
    BY <1>1 DEF QkdIInv, SiftedTogether, Constructed
  <2>2. Sifted' = Sifted
    BY <1>1 DEF Sifted
  <2>3. idx' \in [Sifted -> Sifted] /\ IsInjective(idx')
    BY <1>1 DEF IsInjective
  <2>4. QED
    BY <1>1, <2>1, <2>2, <2>3 DEF Permuted
<1>4. QED
  BY <1>1, <1>2, <1>3, Unreported

\* A swap permutes the indices (random_unique_indices, 242-246).
LEMMA ShuffleKeeps == ASSUME QkdIInv, NEW j \in 1..turn, Shuffle(j) PROVE QkdIInv'
<1>1. /\ phase = "shuffling" /\ phase' = "shuffling" /\ params' = params
      /\ alice' = alice /\ bob' = bob /\ turn > 1 /\ turn' = turn - 1
      /\ idx' = Swapped(turn, j)
  BY DEF Shuffle
<1>2. SiftedTogether' /\ Constructed'
  BY <1>1 DEF QkdIInv, SiftedTogether, Constructed
<1>3. /\ idx \in [Sifted -> Sifted] /\ IsInjective(idx)
      /\ turn \in Nat /\ turn <= Len(alice) /\ Len(alice) \in Nat
      /\ params.sample_size <= Len(alice)
  BY <1>1 DEF QkdIInv, Permuted, SiftedTogether
<1>4. turn \in Sifted /\ j \in Sifted /\ turn' \in Nat /\ turn' <= Len(alice)
  BY <1>1, <1>3 DEF Sifted
<1>5. Sifted' = Sifted
  BY <1>1 DEF Sifted
<1>6. idx' \in [Sifted -> Sifted] /\ IsInjective(idx')
  <2>1. idx' = [idx EXCEPT ![turn] = idx[j], ![j] = idx[turn]]
    BY <1>1 DEF Swapped
  <2>2. /\ idx' \in [Sifted -> Sifted]
        /\ \A i \in Sifted : idx'[i] = IF i = j THEN idx[turn]
                                       ELSE IF i = turn THEN idx[j] ELSE idx[i]
    BY <1>3, <1>4, <2>1
  <2>3. QED
    BY <1>3, <1>4, <2>2 DEF IsInjective
<1>7. Permuted'
  BY <1>1, <1>3, <1>4, <1>5, <1>6 DEF Permuted
<1>8. QED
  BY <1>1, <1>2, <1>7, Unreported

\* What is reported: the sample is as large as was asked, the key is Alice's bits outside it,
\* and the mismatches are those in it (run, 199-231).
LEMMA ReportKeeps == ASSUME QkdIInv, Report PROVE QkdIInv'
<1> DEFINE n == Len(alice)
           size == params.sample_size
           sample == SubSeq(idx, 1, size)
           places == [i \in Sifted |-> i]
           kept == retain(places, ToSet(sample))
           key == [i \in DOMAIN kept |-> alice[kept[i]]]
           differs == {i \in Sifted : alice[i] # bob[i]}
           mismatches == Cardinality({i \in DOMAIN sample : alice[sample[i]] # bob[sample[i]]})
<1>1. /\ phase = "shuffling" /\ phase' = "done" /\ params' = params
      /\ alice' = alice /\ bob' = bob
      /\ report' = [mismatches |-> mismatches,
                    accepted |-> mismatches * params.max_qber[2] <= params.max_qber[1] * size,
                    sampled |-> ToSet(sample),
                    key |-> key]
  BY Zenon DEF Report
<1>2. /\ n \in Nat /\ size \in Nat /\ size <= n
      /\ idx \in [Sifted -> Sifted] /\ IsInjective(idx) /\ Sifted = 1..n
      /\ params.max_qber[1] \in Nat /\ params.max_qber[2] \in Nat
  BY <1>1 DEF QkdIInv, SiftedTogether, Constructed, Permuted, Sifted
<1> HIDE DEF n, size
<1>3. /\ sample \in Seq(Sifted) /\ Len(sample) = size /\ DOMAIN sample = 1..size
      /\ \A i \in 1..size : sample[i] = idx[i] /\ i \in Sifted
  <2>1. idx \in Seq(Sifted) /\ Len(idx) = n
    BY <1>2
  <2>2. QED
    BY <1>2, <2>1, SMTT(30)
<1> HIDE DEF sample
<1>4. IsInjective(sample)
  BY <1>2, <1>3 DEF IsInjective
<1>5. /\ IsFiniteSet(ToSet(sample)) /\ Cardinality(ToSet(sample)) = size
      /\ ToSet(sample) \subseteq Sifted
  <2>1. IsFiniteSet(ToSet(sample)) /\ Cardinality(ToSet(sample)) = Len(sample)
    BY <1>3, <1>4, LengthCounts
  <2>2. ToSet(sample) \subseteq Sifted
    BY <1>3 DEF ToSet
  <2>3. QED
    BY <1>3, <2>1, <2>2
<1>6. places \in Seq(Sifted) /\ ToSet(places) = Sifted /\ IsInjective(places)
  BY <1>2 DEF ToSet, IsInjective
<1> HIDE DEF places
<1>7. /\ kept \in Seq(Sifted) /\ IsInjective(kept)
      /\ ToSet(kept) = Sifted \ ToSet(sample)
  BY <1>6, RetainKeeps
<1> HIDE DEF kept
<1>8. Len(kept) = n - size
  <2>1. IsFiniteSet(Sifted) /\ Cardinality(Sifted) = n
    <3>1. \A m \in Nat : IsFiniteSet(1..m) /\ Cardinality(1..m) = m
      BY FS_Interval
    <3>2. QED
      BY <1>2, <3>1
  <2>2. Cardinality(Sifted \ ToSet(sample)) = n - Cardinality(Sifted \intersect ToSet(sample))
    BY <1>2, <2>1, FS_Difference
  <2>3. Sifted \intersect ToSet(sample) = ToSet(sample)
    BY <1>5
  <2>4. Cardinality(ToSet(kept)) = Len(kept)
    BY <1>7, LengthCounts
  <2>5. QED
    BY <1>5, <1>7, <2>2, <2>3, <2>4
<1>9. alice \in Seq(Bit) /\ \A i \in Sifted : alice[i] \in Bit
  BY <1>2 DEF QkdIInv, SiftedTogether, n
<1>10. Len(key) = n - size /\ DOMAIN key = DOMAIN kept
       /\ \A i \in DOMAIN kept : key[i] = alice[kept[i]] /\ kept[i] \in Sifted
  <2>1. DOMAIN kept = 1..Len(kept) /\ Len(kept) \in Nat /\ \A i \in DOMAIN kept : kept[i] \in Sifted
    BY <1>7
  <2>2. key \in Seq(Bit) /\ Len(key) = Len(kept)
    BY <1>9, <2>1
  <2>3. QED
    BY <1>8, <2>1, <2>2
<1> HIDE DEF key
<1>11. ASSUME NEW b \in Bit
       PROVE  Cardinality({i \in DOMAIN key : key[i] = b})
                 = Cardinality({i \in Sifted \ ToSet(sample) : alice[i] = b})
  <2>1. PICK X : X = {i \in Sifted : alice[i] = b}
    OBVIOUS
  <2>2. {i \in DOMAIN key : key[i] = b} = Among(kept, X)
    BY <1>10, <2>1 DEF Among
  <2>3. {i \in Sifted \ ToSet(sample) : alice[i] = b} = ToSet(kept) \intersect X
    BY <1>7, <2>1
  <2>4. QED
    BY <1>7, <2>2, <2>3, AmongOnce
<1>12. mismatches = Cardinality(differs \intersect ToSet(sample))
  <2>1. {i \in DOMAIN sample : alice[sample[i]] # bob[sample[i]]} = Among(sample, differs)
    BY <1>2, <1>3 DEF Among
  <2>2. Cardinality(Among(sample, differs)) = Cardinality(ToSet(sample) \intersect differs)
    <3> HIDE DEF differs
    <3>1. QED
      BY <1>3, <1>4, AmongOnce
  <2>3. ToSet(sample) \intersect differs = differs \intersect ToSet(sample)
    OBVIOUS
  <2>4. QED
    BY <2>1, <2>2, <2>3
<1>13. ASSUME ~params.noisy
       PROVE  mismatches * params.max_qber[2] <= params.max_qber[1] * size
  <2>1. differs = {}
    BY <1>13 DEF QkdIInv, SiftedTogether
  <2>2. mismatches = 0
    BY <1>12, <2>1, FS_EmptySet
  <2>3. \A a, b, c \in Nat : 0 * a <= b * c
    OBVIOUS
  <2>4. QED
    BY <1>2, <2>2, <2>3
<1> HIDE DEF differs, mismatches
<1>14. /\ report'.sampled = ToSet(sample) /\ report'.key = key
       /\ report'.accepted = (mismatches * params.max_qber[2] <= params.max_qber[1] * size)
  BY <1>1
<1>15. KeyNotSampled'
  <2>1. Sifted' = Sifted
    BY <1>1 DEF Sifted
  <2>2. Cardinality(report'.sampled) = params'.sample_size
    BY <1>1, <1>5, <1>14 DEF size
  <2>3. Len(report'.key) = Len(alice') - params'.sample_size
    BY <1>1, <1>10, <1>14 DEF size, n
  <2>4. ASSUME NEW b \in Bit
        PROVE  Cardinality({i \in DOMAIN report'.key : report'.key[i] = b})
                  = Cardinality({i \in Sifted' \ report'.sampled : alice'[i] = b})
    BY <1>1, <1>11, <1>14, <2>1
  <2>5. report'.accepted <=>
           Cardinality({i \in Sifted' : alice'[i] # bob'[i]} \intersect report'.sampled)
                * params'.max_qber[2] <= params'.max_qber[1] * params'.sample_size
    BY <1>1, <1>12, <1>14, <2>1 DEF differs, size
  <2>6. ~params'.noisy => report'.accepted
    BY <1>1, <1>13, <1>14
  <2>7. QED
    BY <2>2, <2>3, <2>4, <2>5, <2>6 DEF KeyNotSampled
<1>16. SiftedTogether' /\ Constructed' /\ Permuted'
  BY <1>1 DEF QkdIInv, SiftedTogether, Constructed, Permuted
<1>17. QED
  BY <1>15, <1>16 DEF QkdIInv

\* Every step of a run keeps the invariant.
LEMMA QkdNextIInv == QkdIInv /\ [QkdNext]_qkdVars => QkdIInv'
<1> SUFFICES ASSUME QkdIInv, [QkdNext]_qkdVars PROVE QkdIInv'
  OBVIOUS
<1>1. CASE EntropyExhausted
  BY <1>1, Unreported DEF EntropyExhausted, QkdIInv, SiftedTogether, Constructed, Permuted
<1>2. CASE Unmatched
  BY <1>2, Unreported DEF Unmatched, QkdIInv, SiftedTogether, Constructed, Permuted
<1>3. CASE InsufficientSiftedBits
  BY <1>3, Unreported DEF InsufficientSiftedBits, QkdIInv, SiftedTogether, Constructed, Permuted
<1>4. CASE UNCHANGED qkdVars
  <2>1. SiftedTogether' /\ Constructed' /\ Permuted'
    BY <1>4 DEF qkdVars, QkdIInv, SiftedTogether, Constructed, Permuted, Sifted
  <2>2. KeyNotSampled'
    BY <1>4 DEF qkdVars, QkdIInv, KeyNotSampled, Sifted
  <2>3. QED
    BY <2>1, <2>2 DEF QkdIInv
<1>5. QED
  BY <1>1, <1>2, <1>3, <1>4, NewKeeps, MatchedKeeps, BeginShuffleKeeps, ShuffleKeeps, ReportKeeps
  DEF QkdNext

\* For any number of qubits, sample size, rate and channel, and whatever the entropy source
\* draws: the key is Alice's bits outside the sample, all of them, and the verdict is the
\* errors in it (qkd/mod.rs:199-231, 234-250).
THEOREM KeyNotSampledHolds == QkdSpec => []KeyNotSampled
<1>1. QkdIInv => KeyNotSampled
  BY DEF QkdIInv
<1>2. QED
  BY <1>1, QkdInitIInv, QkdNextIInv, PTL DEF QkdSpec
===============================================================================
