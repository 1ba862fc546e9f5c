------------------------------- MODULE KeyStore -------------------------------
(***************************************************************************)
(* What the command line promises its user: under one passphrase the key   *)
(* file is a map from key ids to secrets, and each command changes it in   *)
(* one step.  A command touches only the id it names, and a secret that    *)
(* was replaced or deleted never comes back.                               *)
(***************************************************************************)
CONSTANTS KeyIds, Secrets, NoSecret   \* NoSecret is not one of Secrets

VARIABLES store,   \* the secret each id encrypts and decrypts with
          retired  \* the secrets some id had once and no id has any longer

storeVars == <<store, retired>>

Held(s) == {s[k] : k \in KeyIds} \ {NoSecret}

StoreInit ==
    /\ store = [k \in KeyIds |-> NoSecret]
    /\ retired = {}

Becomes(s) ==
    /\ store' = s
    /\ retired' = (retired \union Held(store)) \ Held(s)

\* `init`, or `encrypt` under an id that has no key yet
Put(k, s) ==
    /\ s \notin Held(store) \union retired
    /\ Becomes([store EXCEPT ![k] = s])

\* `delete-key`
Delete(k) == Becomes([store EXCEPT ![k] = NoSecret])

\* `clear-cache`
Clear == Becomes([k \in KeyIds |-> NoSecret])

StoreNext ==
    \/ \E k \in KeyIds, s \in Secrets : Put(k, s)
    \/ \E k \in KeyIds : Delete(k)
    \/ Clear

StoreSpec == StoreInit /\ [][StoreNext]_storeVars
===============================================================================
