----------------------------- MODULE FederatedVault -----------------------------
(***************************************************************************)
(* The vault mesh of abir_guard/federated_vault.py: nodes that keep a      *)
(* last-writer-wins record for each key and exchange authenticated deltas. *)
(*                                                                         *)
(* The code leaves the exchange to its caller, so a delta may be applied   *)
(* late, out of order, several times, by any node or by none.  A delta     *)
(* that lacks a field or fails its MAC changes nothing: those steps are    *)
(* left out.                                                               *)
(* Two nodes of one cluster have different node ids, as they must for a    *)
(* stamp to name one record; ids are integers for their order.  time_ns is *)
(* whatever the node's wall clock shows: it may stand still, jump ahead or *)
(* go back.  A node keeps everything in memory and never restarts.         *)
(***************************************************************************)
EXTENDS Integers, FiniteSets

CONSTANTS
    Nodes,
    Keys,
    Values,
    Tombstone,     \* the value of a deleted key
    Nothing,       \* no record of a key
    MaxClock       \* the last stamp a node may give (a bound)

ASSUME NodesAssumption    == Nodes \subseteq Int
ASSUME NothingAssumption  == Nothing \notin [ts : Nat, node : Nodes, value : Values \union {Tombstone}]
ASSUME MaxClockAssumption == MaxClock \in Nat

VARIABLES
    clock,    \* _clock of each node
    state,    \* _state of each node: a record or Nothing for each key
    deltas,   \* payloads that export_delta returned
    seen      \* for each node and key, the records it wrote or was sent (history)

vars == <<clock, state, deltas, seen>>

CrdtRecord == [ts : Nat, node : Nodes, value : Values \union {Tombstone}]
Delta == [key : Keys, record : CrdtRecord]

-------------------------------------------------------------------------------
Mutant_WinsByTime(a, b) == a.ts > b.ts
Mutant_WinsOnTie(a, b) == a.ts >= b.ts
\* the later stamp wins, and of two equal ones the greater node id
_wins(a, b) == IF a.ts # b.ts THEN a.ts > b.ts ELSE a.node > b.node

\* max(self._clock + 1, time_ns())
Mutant_TickWallClock(n, time) == time
_tick(n, time) == IF time > clock[n] + 1 THEN time ELSE clock[n] + 1

Init ==
    /\ clock = [n \in Nodes |-> 0]
    /\ state = [n \in Nodes |-> [k \in Keys |-> Nothing]]
    /\ deltas = {}
    /\ seen = [n \in Nodes |-> [k \in Keys |-> {}]]

Record(n, k, r) ==
    /\ clock' = [clock EXCEPT ![n] = r.ts]
    /\ state' = [state EXCEPT ![n][k] = r]
    /\ seen' = [seen EXCEPT ![n][k] = @ \union {r}]
    /\ UNCHANGED deltas

Stamp(n, time, v) == [ts |-> _tick(n, time), node |-> n, value |-> v]

put(n, k, v, time) ==
    /\ _tick(n, time) <= MaxClock
    /\ Record(n, k, Stamp(n, time, v))

delete(n, k, time) ==
    /\ _tick(n, time) <= MaxClock
    /\ Record(n, k, Stamp(n, time, Tombstone))

export_delta(n, k) ==
    /\ state[n][k] # Nothing
    /\ deltas' = deltas \union {[key |-> k, record |-> state[n][k]]}
    /\ UNCHANGED <<clock, state, seen>>

\* the clock follows only the deltas that win
apply_delta(n, d) ==
    LET k == d.key
        incoming == d.record
        accepted == state[n][k] # Nothing => _wins(incoming, state[n][k])
    IN  /\ seen' = [seen EXCEPT ![n][k] = @ \union {incoming}]
        /\ \/ /\ accepted
              /\ state' = [state EXCEPT ![n][k] = incoming]
              /\ clock' = [clock EXCEPT ![n] = IF incoming.ts > @ THEN incoming.ts ELSE @]
           \/ /\ ~accepted
              /\ UNCHANGED <<state, clock>>
        /\ UNCHANGED deltas

Next ==
    \E n \in Nodes :
       \/ \E k \in Keys, time \in 0..MaxClock :
             \/ \E v \in Values : put(n, k, v, time)
             \/ delete(n, k, time)
       \/ \E k \in Keys : export_delta(n, k)
       \/ \E d \in deltas : apply_delta(n, d)

Spec == Init /\ [][Next]_vars

-------------------------------------------------------------------------------
(* Properties. *)

Typed ==
    /\ clock \in [Nodes -> Nat]
    /\ state \in [Nodes -> [Keys -> CrdtRecord \union {Nothing}]]
    /\ deltas \subseteq Delta
    /\ seen \in [Nodes -> [Keys -> SUBSET CrdtRecord]]

\* The fields have their types, and a node's clock has reached every record it holds,
\* whoever stamped it: its next stamp will be later (_tick, 41-43, and 114).
TypeOK ==
    /\ Typed
    /\ \A n \in Nodes, k \in Keys : state[n][k] # Nothing => state[n][k].ts <= clock[n]

Before(a, b) == a.ts < b.ts \/ (a.ts = b.ts /\ a.node < b.node)

\* In whatever order, however often and however late deltas arrive, and whatever the
\* wall clocks show, a node holds the latest of all the records it ever wrote or was
\* sent: a deleted key is not brought back by an older delta, and a node's own write
\* is never older than what it replaces (federated_vault.py:41-49, 111-123).
ReplicaLatest ==
    \A n \in Nodes, k \in Keys :
        /\ seen[n][k] = {} => state[n][k] = Nothing
        /\ seen[n][k] # {} => state[n][k] \in seen[n][k]
        /\ \A r \in seen[n][k] : r # state[n][k] => Before(r, state[n][k])

\* "deterministic CRDT conflict resolution" (federated_vault.py:29): two nodes that
\* were given the same records for a key, in any two orders, hold the same record.
Agree ==
    \A m, n \in Nodes, k \in Keys :
        seen[m][k] = seen[n][k] => state[m][k] = state[n][k]

\* The mesh is a set of last-writer-wins replicas: every record has a stamp of its own,
\* later than what its writer held, and replicas only move forward, to records some
\* node really wrote.
Written == [k \in Keys |-> UNION {seen[n][k] : n \in Nodes}]
Lww == INSTANCE LwwStore WITH written <- Written, view <- state
StoreImplemented == Lww!LwwSpec
===============================================================================
