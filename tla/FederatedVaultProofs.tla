-------------------------- MODULE FederatedVaultProofs --------------------------
(***************************************************************************)
(* Proofs about the vault mesh: for any nodes, keys, values, clocks and    *)
(* bounds, a replica holds the latest record it was given, replicas that   *)
(* were given the same records agree, and the mesh implements LwwStore.    *)
(***************************************************************************)
EXTENDS FederatedVault, TLAPS

\* a node's clock has passed every record it was given, and every record it wrote
Stamped ==
    \A n \in Nodes, k \in Keys : \A r \in seen[n][k] :
        r.ts <= clock[n] /\ r.ts <= clock[r.node]

\* a stamp names one record of a key
Unique ==
    \A m, n \in Nodes, k \in Keys : \A r \in seen[m][k], q \in seen[n][k] :
        r.ts = q.ts /\ r.node = q.node => r = q

\* a delta carries a record that some node had
Exported == \A d \in deltas : \E n \in Nodes : d.record \in seen[n][d.key]

IInv == Typed /\ ReplicaLatest /\ Stamped /\ Unique /\ Exported

\* Stamps are totally ordered, and the later of two is the one that _wins.
LEMMA StampOrder ==
    ASSUME NEW a \in CrdtRecord, NEW b \in CrdtRecord
    PROVE  /\ a.ts \in Nat /\ a.node \in Int
           /\ _wins(a, b) <=> Before(b, a)
           /\ Before(a, b) \/ Before(b, a) \/ (a.ts = b.ts /\ a.node = b.node)
<1>1. a.ts \in Nat /\ b.ts \in Nat /\ a.node \in Int /\ b.node \in Int
  BY NodesAssumption DEF CrdtRecord
<1>2. QED
  BY <1>1 DEF _wins, Before

\* Before is transitive.
LEMMA StampTransitive ==
    ASSUME NEW a \in CrdtRecord, NEW b \in CrdtRecord, NEW c \in CrdtRecord,
           Before(a, b), Before(b, c)
    PROVE  Before(a, c)
<1>1. /\ a.ts \in Nat /\ b.ts \in Nat /\ c.ts \in Nat
      /\ a.node \in Int /\ b.node \in Int /\ c.node \in Int
  BY NodesAssumption DEF CrdtRecord
<1>2. QED
  BY <1>1 DEF Before

\* _tick gives a stamp beyond the node's clock.
LEMMA TickAhead ==
    ASSUME Typed, NEW n \in Nodes, NEW time \in 0..MaxClock
    PROVE  _tick(n, time) \in Nat /\ _tick(n, time) > clock[n]
<1>1. clock[n] \in Nat /\ time \in Nat
  BY MaxClockAssumption DEF Typed
<1>2. QED
  BY <1>1 DEF _tick

\* The stamp of a put or a delete is later than all its node was given, and new to the
\* mesh: nobody can have a later record of this node than its own clock.
LEMMA FreshStamp ==
    ASSUME IInv, NEW n \in Nodes, NEW v \in Values \union {Tombstone},
           NEW time \in 0..MaxClock, NEW r, r = Stamp(n, time, v)
    PROVE  /\ r \in CrdtRecord /\ r.ts \in Nat /\ r.node = n /\ r.ts > clock[n]
           /\ \A m \in Nodes, j \in Keys : \A q \in seen[m][j] :
                 /\ m = n => Before(q, r)
                 /\ q.ts # r.ts \/ q.node # r.node
<1>1. /\ r \in CrdtRecord /\ r.ts > clock[n] /\ r.ts \in Nat /\ r.node = n
  BY TickAhead DEF Stamp, CrdtRecord, IInv
<1>2. \A m \in Nodes, j \in Keys : \A q \in seen[m][j] :
          /\ q \in CrdtRecord /\ q.ts \in Nat /\ q.node \in Nodes
          /\ clock[m] \in Nat /\ clock[q.node] \in Nat
          /\ q.ts <= clock[m] /\ q.ts <= clock[q.node]
  BY DEF IInv, Typed, Stamped, CrdtRecord
<1>3. \A m \in Nodes, j \in Keys : \A q \in seen[m][j] :
          /\ m = n => Before(q, r)
          /\ q.ts # r.ts \/ q.node # r.node
  BY <1>1, <1>2 DEF Before
<1>4. QED
  BY <1>1, <1>3

\* The empty mesh satisfies the invariant.
LEMMA InitIInv == Init => IInv
BY DEF Init, IInv, Typed, ReplicaLatest, Stamped, Unique, Exported

\* A put or a delete keeps the invariant: its record is later than all the node holds.
LEMMA WriteKeeps ==
    ASSUME IInv, NEW n \in Nodes, NEW k \in Keys,
           NEW v \in Values \union {Tombstone}, NEW time \in 0..MaxClock,
           Record(n, k, Stamp(n, time, v))
    PROVE  IInv'
<1> DEFINE r == Stamp(n, time, v)
<1>1. /\ r \in CrdtRecord /\ r.ts > clock[n] /\ r.ts \in Nat /\ r.node = n
      /\ \A m \in Nodes, j \in Keys : \A q \in seen[m][j] :
            /\ m = n => Before(q, r)
            /\ q.ts # r.ts \/ q.node # r.node
  BY FreshStamp
<1>2. /\ clock' = [clock EXCEPT ![n] = r.ts]
      /\ state' = [state EXCEPT ![n][k] = r]
      /\ seen' = [seen EXCEPT ![n][k] = @ \union {r}]
      /\ deltas' = deltas
  BY DEF Record
<1> HIDE DEF r
<1>3. Typed'
  BY <1>1, <1>2 DEF IInv, Typed
<1>4. /\ \A m \in Nodes, j \in Keys :
            seen'[m][j] = IF m = n /\ j = k THEN seen[n][k] \union {r} ELSE seen[m][j]
      /\ \A m \in Nodes, j \in Keys :
            state'[m][j] = IF m = n /\ j = k THEN r ELSE state[m][j]
      /\ \A m \in Nodes : clock'[m] = IF m = n THEN r.ts ELSE clock[m]
  BY <1>2 DEF IInv, Typed
<1>5. \A m \in Nodes, j \in Keys : \A q \in seen[m][j] :
          /\ q \in CrdtRecord /\ q.ts \in Nat /\ q.node \in Nodes
          /\ clock[m] \in Nat /\ clock[q.node] \in Nat
          /\ q.ts <= clock[m] /\ q.ts <= clock[q.node]
  BY DEF IInv, Typed, Stamped, CrdtRecord
<1>6. \A q \in seen[n][k] : Before(q, r)
  BY <1>1
<1>7. ReplicaLatest'
  <2>1. SUFFICES ASSUME NEW m \in Nodes, NEW j \in Keys
                 PROVE  /\ seen'[m][j] = {} => state'[m][j] = Nothing
                        /\ seen'[m][j] # {} => state'[m][j] \in seen'[m][j]
                        /\ \A q \in seen'[m][j] : q # state'[m][j] => Before(q, state'[m][j])
    BY Zenon DEF ReplicaLatest, Before
  <2>2. CASE m = n /\ j = k
    <3>1. seen'[m][j] = seen[n][k] \union {r} /\ state'[m][j] = r
      BY <1>4, <2>2
    <3>2. QED
      BY <3>1, <1>6
  <2>3. CASE ~(m = n /\ j = k)
    <3>1. seen'[m][j] = seen[m][j] /\ state'[m][j] = state[m][j]
      BY <1>4, <2>3
    <3>2. QED
      BY <3>1 DEF IInv, ReplicaLatest
  <2>4. QED
    BY <2>2, <2>3
<1>8. Stamped'
  <2>1. \A m \in Nodes : clock[m] \in Nat /\ clock'[m] \in Nat /\ clock[m] <= clock'[m]
    BY <1>1, <1>4 DEF IInv, Typed
  <2>2. SUFFICES ASSUME NEW m \in Nodes, NEW j \in Keys, NEW q \in seen'[m][j]
                 PROVE  q.ts <= clock'[m] /\ q.ts <= clock'[q.node]
    BY DEF Stamped
  <2>3. CASE q \in seen[m][j]
    BY <1>5, <2>1, <2>3
  <2>4. CASE q \notin seen[m][j]
    <3>1. m = n /\ q = r
      BY <1>4, <2>4
    <3>2. QED
      BY <3>1, <1>1, <1>4
  <2>5. QED
    BY <2>3, <2>4
<1>9. Unique'
  <2>1. SUFFICES ASSUME NEW m \in Nodes, NEW o \in Nodes, NEW j \in Keys,
                        NEW p \in seen'[m][j], NEW q \in seen'[o][j],
                        p.ts = q.ts, p.node = q.node
                 PROVE  p = q
    BY DEF Unique
  <2>2. \A i \in Nodes, c \in Keys : \A x \in seen[i][c] : x.ts # r.ts \/ x.node # r.node
    BY <1>1
  <2>3. (p \in seen[m][j] \/ p = r) /\ (q \in seen[o][j] \/ q = r)
    BY <1>4
  <2>4. CASE p \in seen[m][j] /\ q \in seen[o][j]
    BY <2>1, <2>4 DEF IInv, Unique
  <2>5. QED
    BY <2>1, <2>2, <2>3, <2>4
<1>10. Exported'
  BY <1>2, <1>4, SMTT(30) DEF IInv, Exported, Typed, Delta
<1>11. QED
  BY <1>3, <1>7, <1>8, <1>9, <1>10 DEF IInv

\* export_delta keeps the invariant: what it signs is among the records the node has.
LEMMA ExportKeeps ==
    ASSUME IInv, NEW n \in Nodes, NEW k \in Keys, export_delta(n, k)
    PROVE  IInv'
<1>1. state[n][k] \in seen[n][k] /\ state[n][k] \in CrdtRecord
  BY DEF IInv, ReplicaLatest, Typed, export_delta
<1>2. Typed'
  BY <1>1 DEF IInv, Typed, export_delta, Delta
<1>3. Exported'
  BY <1>1 DEF IInv, Exported, export_delta
<1>4. ReplicaLatest' /\ Stamped' /\ Unique'
  BY DEF IInv, ReplicaLatest, Stamped, Unique, export_delta
<1>5. QED
  BY <1>2, <1>3, <1>4 DEF IInv

\* apply_delta keeps the invariant, whether the delta wins or loses.
LEMMA ApplyKeeps ==
    ASSUME IInv, NEW n \in Nodes, NEW d \in deltas, apply_delta(n, d)
    PROVE  IInv'
<1> DEFINE k == d.key
           r == d.record
           accepted == state[n][k] # Nothing => _wins(r, state[n][k])
<1>1. k \in Keys /\ r \in CrdtRecord /\ r.ts \in Nat /\ r.node \in Nodes
  BY DEF IInv, Typed, Delta, CrdtRecord
<1>2. PICK w \in Nodes : r \in seen[w][k]
  BY DEF IInv, Exported
<1>3. /\ seen' = [seen EXCEPT ![n][k] = @ \union {r}]
      /\ deltas' = deltas
      /\ \/ accepted /\ state' = [state EXCEPT ![n][k] = r]
                     /\ clock' = [clock EXCEPT ![n] = IF r.ts > @ THEN r.ts ELSE @]
         \/ ~accepted /\ state' = state /\ clock' = clock
  BY DEF apply_delta
<1>4. /\ \A m \in Nodes, j \in Keys :
            seen'[m][j] = IF m = n /\ j = k THEN seen[n][k] \union {r} ELSE seen[m][j]
      /\ \A m \in Nodes, j \in Keys :
            state'[m][j] = IF m = n /\ j = k /\ accepted THEN r ELSE state[m][j]
  BY <1>1, <1>3 DEF IInv, Typed
<1> HIDE DEF k, r, accepted
<1>5. /\ clock' \in [Nodes -> Nat]
      /\ \A m \in Nodes : clock[m] \in Nat /\ clock'[m] \in Nat /\ clock[m] <= clock'[m]
  <2>1. clock \in [Nodes -> Nat]
    BY DEF IInv, Typed
  <2>2. CASE clock' = clock
    BY <2>1, <2>2
  <2>3. CASE clock' = [clock EXCEPT ![n] = IF r.ts > @ THEN r.ts ELSE @]
    BY <1>1, <2>1, <2>3
  <2>4. QED
    BY <1>3, <2>2, <2>3
<1>6. accepted => r.ts <= clock'[n]
  <2>1. clock \in [Nodes -> Nat]
    BY DEF IInv, Typed
  <2>2. QED
    BY <1>1, <1>3, <2>1
<1>7. state[n][k] \in CrdtRecord \union {Nothing} /\ seen[n][k] \subseteq CrdtRecord
  BY <1>1 DEF IInv, Typed
<1>8. /\ seen[n][k] = {} => state[n][k] = Nothing
      /\ seen[n][k] # {} => state[n][k] \in seen[n][k]
      /\ \A q \in seen[n][k] : q # state[n][k] => Before(q, state[n][k])
  BY <1>1 DEF IInv, ReplicaLatest
<1>9. Nothing \notin CrdtRecord
  BY NothingAssumption DEF CrdtRecord
<1>10. Typed'
  <2>1. state' \in [Nodes -> [Keys -> CrdtRecord \union {Nothing}]]
    <3>1. state \in [Nodes -> [Keys -> CrdtRecord \union {Nothing}]]
      BY DEF IInv, Typed
    <3>2. CASE state' = [state EXCEPT ![n][k] = r]
      BY <1>1, <3>1, <3>2
    <3>3. QED
      BY <1>3, <3>1, <3>2
  <2>2. seen' \in [Nodes -> [Keys -> SUBSET CrdtRecord]]
    BY <1>1, <1>3 DEF IInv, Typed
  <2>3. QED
    BY <1>5, <2>1, <2>2, <1>3 DEF IInv, Typed
<1>11. ASSUME accepted PROVE ReplicaLatest'
  <2>1. \A q \in seen[n][k] : q # r => Before(q, r)
    <3>1. SUFFICES ASSUME NEW q \in seen[n][k], q # r PROVE Before(q, r)
      OBVIOUS
    <3>2. state[n][k] \in seen[n][k] /\ state[n][k] # Nothing
      BY <1>7, <1>8, <1>9
    <3>3. Before(state[n][k], r)
      BY <1>1, <1>7, <1>11, <3>2, StampOrder DEF accepted
    <3>4. QED
      BY <1>1, <1>7, <1>8, <3>2, <3>3, StampTransitive
  <2>2. \A m \in Nodes, j \in Keys :
            /\ seen'[m][j] = {} => state'[m][j] = Nothing
            /\ seen'[m][j] # {} => state'[m][j] \in seen'[m][j]
            /\ \A q \in seen'[m][j] : q # state'[m][j] => Before(q, state'[m][j])
    BY <1>4, <1>11, <2>1 DEF IInv, ReplicaLatest
  <2>3. QED
    BY <2>2, Zenon DEF ReplicaLatest, Before
<1>12. ASSUME ~accepted PROVE ReplicaLatest'
  <2>1. state[n][k] # Nothing /\ ~_wins(r, state[n][k]) /\ state[n][k] \in CrdtRecord
    BY <1>7, <1>12 DEF accepted
  <2>2. state[n][k] \in seen[n][k]
    BY <1>8, <2>1
  <2>3. r # state[n][k] => Before(r, state[n][k])
    <3>1. ~Before(state[n][k], r)
      BY <1>1, <2>1, StampOrder
    <3>2. (r.ts = state[n][k].ts /\ r.node = state[n][k].node) => r = state[n][k]
      BY <1>1, <1>2, <2>2 DEF IInv, Unique
    <3>3. QED
      BY <1>1, <2>1, <3>1, <3>2, StampOrder
  <2>4. \A m \in Nodes, j \in Keys :
            /\ seen'[m][j] = {} => state'[m][j] = Nothing
            /\ seen'[m][j] # {} => state'[m][j] \in seen'[m][j]
            /\ \A q \in seen'[m][j] : q # state'[m][j] => Before(q, state'[m][j])
    BY <1>4, <1>12, <2>2, <2>3 DEF IInv, ReplicaLatest
  <2>5. QED
    BY <2>4, Zenon DEF ReplicaLatest, Before
<1>13. Stamped'
  <2>1. r.ts <= clock[r.node]
    BY <1>1, <1>2 DEF IInv, Stamped
  <2>2. r.ts <= clock'[n]
    <3>1. CASE accepted
      BY <1>6, <3>1
    <3>2. CASE ~accepted
      <4>1. state[n][k] # Nothing /\ ~_wins(r, state[n][k]) /\ state[n][k] \in CrdtRecord
        BY <1>7, <3>2 DEF accepted
      <4>2. r.ts <= state[n][k].ts /\ state[n][k].ts \in Nat
        BY <1>1, <4>1 DEF _wins, CrdtRecord
      <4>3. state[n][k].ts <= clock[n]
        BY <1>1, <1>8, <4>1 DEF IInv, Stamped
      <4>4. QED
        BY <1>1, <1>5, <4>2, <4>3
    <3>3. QED
      BY <3>1, <3>2
  <2>3. SUFFICES ASSUME NEW m \in Nodes, NEW j \in Keys, NEW q \in seen'[m][j]
                 PROVE  q.ts <= clock'[m] /\ q.ts <= clock'[q.node]
    BY DEF Stamped
  <2>4. CASE q \in seen[m][j]
    <3>1. q.ts \in Nat /\ q.node \in Nodes /\ q.ts <= clock[m] /\ q.ts <= clock[q.node]
      BY <2>4 DEF IInv, Typed, Stamped, CrdtRecord
    <3>2. QED
      BY <3>1, <1>5
  <2>5. CASE q \notin seen[m][j]
    <3>1. m = n /\ q = r
      BY <1>4, <2>5
    <3>2. QED
      BY <3>1, <1>1, <1>5, <2>1, <2>2
  <2>6. QED
    BY <2>4, <2>5
<1>14. Unique'
  <2>1. \A m \in Nodes, j \in Keys : \A q \in seen'[m][j] : \E o \in Nodes : q \in seen[o][j]
    BY <1>2, <1>4
  <2>2. QED
    BY <2>1 DEF IInv, Unique
<1>15. Exported'
  BY <1>3, <1>4 DEF IInv, Exported
<1>16. QED
  BY <1>10, <1>11, <1>12, <1>13, <1>14, <1>15 DEF IInv

\* Every step keeps the invariant.
LEMMA NextIInv == IInv /\ [Next]_vars => IInv'
<1> SUFFICES ASSUME IInv, [Next]_vars PROVE IInv'
  OBVIOUS
<1>1. CASE UNCHANGED vars
  BY <1>1 DEF vars, IInv, Typed, ReplicaLatest, Stamped, Unique, Exported
<1>2. ASSUME NEW n \in Nodes, NEW k \in Keys, NEW time \in 0..MaxClock,
             NEW v \in Values, put(n, k, v, time)
      PROVE  IInv'
  BY <1>2, WriteKeeps DEF put
<1>3. ASSUME NEW n \in Nodes, NEW k \in Keys, NEW time \in 0..MaxClock, delete(n, k, time)
      PROVE  IInv'
  BY <1>3, WriteKeeps DEF delete
<1>4. ASSUME NEW n \in Nodes, NEW k \in Keys, export_delta(n, k) PROVE IInv'
  BY <1>4, ExportKeeps
<1>5. ASSUME NEW n \in Nodes, NEW d \in deltas, apply_delta(n, d) PROVE IInv'
  BY <1>5, ApplyKeeps
<1>6. QED
  BY <1>1, <1>2, <1>3, <1>4, <1>5 DEF Next

\* The inductive invariant of the mesh.
THEOREM Invariance == Spec => []IInv
BY InitIInv, NextIInv, PTL DEF Spec

\* The fields of every node have their types.
THEOREM TypeCorrect == Spec => []TypeOK
<1>1. IInv => TypeOK
  <2>1. SUFFICES ASSUME IInv, NEW n \in Nodes, NEW k \in Keys, state[n][k] # Nothing
                 PROVE  state[n][k].ts <= clock[n]
    BY DEF IInv, TypeOK
  <2>2. state[n][k] \in seen[n][k]
    BY <2>1 DEF IInv, ReplicaLatest
  <2>3. QED
    BY <2>1, <2>2 DEF IInv, Stamped
<1>2. QED
  BY Invariance, <1>1, PTL

\* A node holds the latest of the records it wrote or was sent, in whatever order
\* apply_delta was given them.
THEOREM ReplicaLatestHolds == Spec => []ReplicaLatest
<1>1. IInv => ReplicaLatest
  BY DEF IInv
<1>2. QED
  BY Invariance, <1>1, PTL

\* Nodes that were given the same records hold the same one.
THEOREM AgreeHolds == Spec => []Agree
<1>1. IInv => Agree
  <2>1. SUFFICES ASSUME IInv, NEW m \in Nodes, NEW n \in Nodes, NEW k \in Keys,
                        seen[m][k] = seen[n][k], state[m][k] # state[n][k]
                 PROVE  FALSE
    BY DEF Agree
  <2>2. seen[m][k] # {} /\ state[m][k] \in seen[m][k] /\ state[n][k] \in seen[n][k]
    BY <2>1 DEF IInv, ReplicaLatest
  <2>3. Before(state[m][k], state[n][k]) /\ Before(state[n][k], state[m][k])
    BY <2>1, <2>2 DEF IInv, ReplicaLatest
  <2>4. state[m][k] \in CrdtRecord /\ state[n][k] \in CrdtRecord
    <3>1. \A i \in Nodes : seen[i][k] \subseteq CrdtRecord
      BY <2>1 DEF IInv, Typed
    <3>2. QED
      BY <2>2, <3>1
  <2>5. Before(state[m][k], state[m][k])
    BY <2>3, <2>4, StampTransitive
  <2>6. state[m][k].ts \in Nat /\ state[m][k].node \in Int
    BY <2>4, StampOrder
  <2>7. QED
    BY <2>5, <2>6 DEF Before
<1>2. QED
  BY Invariance, <1>1, PTL

-------------------------------------------------------------------------------
(* The refinement: Written and state, seen as the variables of LwwStore. *)

\* What is written for a key is what some node has seen.
LEMMA WrittenIs ==
    /\ \A k \in Keys : \A r : r \in Written[k] <=> \E n \in Nodes : r \in seen[n][k]
    /\ Written = [k \in Keys |-> Written[k]]
BY DEF Written

\* A record that was seen already adds nothing to what is written.
LEMMA WrittenGrows ==
    ASSUME Typed, NEW n \in Nodes, NEW k \in Keys, NEW r,
           seen' = [seen EXCEPT ![n][k] = @ \union {r}]
    PROVE  /\ Written' = [Written EXCEPT ![k] = @ \union {r}]
           /\ r \in Written'[k]
           /\ r \in Written[k] => Written' = Written
<1>1. \A m \in Nodes, j \in Keys :
          seen'[m][j] = IF m = n /\ j = k THEN seen[n][k] \union {r} ELSE seen[m][j]
  BY DEF Typed
<1>2. \A j \in Keys : \A x : x \in Written'[j] <=> \E m \in Nodes : x \in seen'[m][j]
  BY DEF Written
<1>3. \A j \in Keys : \A x : x \in Written'[j] <=> (x \in Written[j] \/ (j = k /\ x = r))
  BY <1>1, <1>2, WrittenIs
<1>4. \A j \in Keys :
          Written'[j] = IF j = k THEN Written[k] \union {r} ELSE Written[j]
  BY <1>3
<1>5. Written' = [j \in Keys |-> Written'[j]] /\ Written = [j \in Keys |-> Written[j]]
  BY DEF Written
<1> HIDE DEF Written
<1>6. Written' = [Written EXCEPT ![k] = @ \union {r}]
  BY <1>4, <1>5
<1>7. r \in Written'[k]
  BY <1>3
<1>8. r \in Written[k] => Written' = Written
  <2>1. SUFFICES ASSUME r \in Written[k] PROVE Written' = Written
    OBVIOUS
  <2>2. \A j \in Keys : Written'[j] = Written[j]
    BY <1>4, <2>1
  <2>3. QED
    BY <1>5, <2>2
<1>9. QED
  BY <1>6, <1>7, <1>8

\* The empty mesh is the empty store.
LEMMA InitStore == Init => Lww!LwwInit
BY DEF Init, Lww!LwwInit, Written

\* A put or a delete writes a record with a stamp of its own.
LEMMA WriteImplements ==
    ASSUME IInv, NEW n \in Nodes, NEW k \in Keys,
           NEW v \in Values \union {Tombstone}, NEW time \in 0..MaxClock,
           Record(n, k, Stamp(n, time, v))
    PROVE  Lww!LwwNext
<1> DEFINE r == Stamp(n, time, v)
<1>1. /\ r.ts > clock[n] /\ r.node = n /\ r.ts \in Nat
      /\ \A m \in Nodes, j \in Keys : \A q \in seen[m][j] :
            /\ m = n => Before(q, r)
            /\ q.ts # r.ts \/ q.node # r.node
  BY FreshStamp
<1>2. /\ state' = [state EXCEPT ![n][k] = r]
      /\ seen' = [seen EXCEPT ![n][k] = @ \union {r}]
  BY DEF Record
<1> HIDE DEF r
<1>3. Written' = [Written EXCEPT ![k] = @ \union {r}] /\ r \in Written'[k]
  BY <1>2, WrittenGrows DEF IInv
<1>4. \A q \in Written[k] : q.ts # r.ts \/ q.node # r.node
  BY <1>1, WrittenIs
<1>5. state[n][k] # Nothing => Before(state[n][k], r)
  BY <1>1 DEF IInv, ReplicaLatest
<1>6. Lww!WriteRecord(n, k, r)
  BY <1>1, <1>2, <1>3, <1>4, <1>5
     DEF Lww!WriteRecord, Lww!Advance, Lww!Before, Before
<1>7. QED
  BY <1>3, <1>6 DEF Lww!LwwNext

\* A delta that wins moves the replica to a written record; one that loses is a stutter.
LEMMA ApplyImplements ==
    ASSUME IInv, NEW n \in Nodes, NEW d \in deltas, apply_delta(n, d)
    PROVE  Lww!LwwNext \/ UNCHANGED <<Written, state>>
<1> DEFINE k == d.key
           r == d.record
           accepted == state[n][k] # Nothing => _wins(r, state[n][k])
<1>1. k \in Keys /\ r \in CrdtRecord
  BY DEF IInv, Typed, Delta
<1>2. r \in Written[k]
  BY <1>1, WrittenIs DEF IInv, Exported
<1>3. /\ seen' = [seen EXCEPT ![n][k] = @ \union {r}]
      /\ \/ accepted /\ state' = [state EXCEPT ![n][k] = r]
         \/ state' = state
  BY DEF apply_delta
<1>4. state[n][k] \in CrdtRecord \union {Nothing}
  BY <1>1 DEF IInv, Typed
<1>5. accepted /\ state[n][k] # Nothing => Before(state[n][k], r)
  BY <1>1, <1>4, StampOrder
<1> HIDE DEF k, r, accepted
<1>6. Written' = Written /\ r \in Written'[k]
  BY <1>1, <1>2, <1>3, WrittenGrows DEF IInv
<1>7. CASE accepted /\ state' = [state EXCEPT ![n][k] = r]
  <2>1. Lww!LearnRecord(n, k, r)
    BY <1>2, <1>5, <1>6, <1>7 DEF Lww!LearnRecord, Lww!Advance, Lww!Before, Before
  <2>2. QED
    BY <1>1, <1>6, <2>1 DEF Lww!LwwNext
<1>8. CASE state' = state
  BY <1>6, <1>8
<1>9. QED
  BY <1>3, <1>7, <1>8

\* Every step of the mesh is a step of the store, or a stutter.
LEMMA NextImplements == IInv /\ [Next]_vars => [Lww!LwwNext]_<<Written, state>>
<1> SUFFICES ASSUME IInv, [Next]_vars
             PROVE  Lww!LwwNext \/ UNCHANGED <<Written, state>>
  OBVIOUS
<1>1. CASE UNCHANGED vars
  BY <1>1 DEF vars, Written
<1>2. ASSUME NEW n \in Nodes, NEW k \in Keys, NEW time \in 0..MaxClock,
             NEW v \in Values, put(n, k, v, time)
      PROVE  Lww!LwwNext
  BY <1>2, WriteImplements DEF put
<1>3. ASSUME NEW n \in Nodes, NEW k \in Keys, NEW time \in 0..MaxClock, delete(n, k, time)
      PROVE  Lww!LwwNext
  BY <1>3, WriteImplements DEF delete
<1>4. ASSUME NEW n \in Nodes, NEW k \in Keys, export_delta(n, k)
      PROVE  UNCHANGED <<Written, state>>
  BY <1>4 DEF export_delta, Written
<1>5. ASSUME NEW n \in Nodes, NEW d \in deltas, apply_delta(n, d)
      PROVE  Lww!LwwNext \/ UNCHANGED <<Written, state>>
  BY <1>5, ApplyImplements
<1>6. QED
  BY <1>1, <1>2, <1>3, <1>4, <1>5 DEF Next

\* The mesh implements the store of last-writer-wins replicas.
THEOREM Implementation == Spec => StoreImplemented
BY InitStore, NextImplements, Invariance, PTL
   DEF Spec, StoreImplemented, Lww!LwwSpec, Lww!lwwVars
===============================================================================
