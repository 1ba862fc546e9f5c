-------------------------------- MODULE LwwStore --------------------------------
(***************************************************************************)
(* What a mesh of last-writer-wins replicas promises.  Records are written *)
(* once, under a stamp that is later than anything their writer had seen,  *)
(* and a replica only ever moves forward, to a record that was written.    *)
(***************************************************************************)
EXTENDS Integers

CONSTANTS Nodes, Keys, Nothing

VARIABLES written,   \* for each key, every record some node has written
          view       \* for each replica and key, the record it shows

lwwVars == <<written, view>>

\* stamps are ordered by time, then by the name of the writer
Before(a, b) == a.ts < b.ts \/ (a.ts = b.ts /\ a.node < b.node)

LwwInit ==
    /\ written = [k \in Keys |-> {}]
    /\ view = [n \in Nodes |-> [k \in Keys |-> Nothing]]

Advance(n, k, r) ==
    /\ view[n][k] # Nothing => Before(view[n][k], r)
    /\ view' = [view EXCEPT ![n][k] = r]

\* a record of n whose stamp no record of the key has
WriteRecord(n, k, r) ==
    /\ r.node = n
    /\ \A q \in written[k] : q.ts # r.ts \/ q.node # r.node
    /\ Advance(n, k, r)
    /\ written' = [written EXCEPT ![k] = @ \union {r}]

LearnRecord(n, k, r) ==
    /\ r \in written[k]
    /\ Advance(n, k, r)
    /\ UNCHANGED written

LwwNext ==
    \E n \in Nodes, k \in Keys : \E r \in written'[k] : WriteRecord(n, k, r) \/ LearnRecord(n, k, r)

LwwSpec == LwwInit /\ [][LwwNext]_lwwVars
===============================================================================
