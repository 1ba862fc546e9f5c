------------------------------- MODULE MCGoVault -------------------------------
(* GoVault on two ids: the id that RotateKey builds from "a" is "b"; the one it *)
(* would build from "b" is too long for validateKeyID.                          *)
EXTENDS GoVault, TLC

CONSTANTS A, B

MCNewIds == (A :> {B}) @@ (B :> {None})

\* Goroutines that only encrypt and revoke.
EncryptAndRevoke ==
    /\ Init
    /\ [][\E t \in Threads :
             \/ \E op \in {"encrypt", "revoke"} : Invoke(t, op, A, 0)
             \/ Encrypt(t) \/ AutoGenerate(t) \/ EncryptRelocked(t) \/ RevokeKey(t)]_vars
===============================================================================
