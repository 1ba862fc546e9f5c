------------------------------ MODULE MCPyGateway ------------------------------
(* Bounds for model checking the Python gateway. *)
EXTENDS PyGateway, TLC

Symmetry == Permutations(Secrets) \union Permutations(Threads)

\* once its chain is broken by a race, what else the log holds changes nothing
Seen == <<vault, todo, drawn, sealed, history, calls, IF Log \in raced THEN <<>> ELSE audit>>
===============================================================================
