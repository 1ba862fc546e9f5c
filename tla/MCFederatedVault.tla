---------------------------- MODULE MCFederatedVault ----------------------------
(* Bounds for model checking the mesh: node ids are small integers, and at most *)
(* three records are ever written.                                              *)
EXTENDS FederatedVault

MCNodes == 1..3
FewWrites == Cardinality(UNION {Written[k] : k \in Keys}) <= 3
===============================================================================
