--------------------------- MODULE MCPersistentVault ---------------------------
(* Bounds for model checking the command line and its key files. *)
EXTENDS PersistentVault, TLC

\* only `encrypt` commands, which nothing but each other can disturb
EncryptOnly ==
    Init /\ [][\E p \in Procs :
                  \/ \E k \in KeyIds, pass \in Passphrases : Encrypt(p, k, pass)
                  \/ Truncate(p)
                  \/ Write(p)]_vars

Symmetry == Permutations(Secrets) \union Permutations(Procs)
===============================================================================
