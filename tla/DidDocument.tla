------------------------------- MODULE DidDocument -------------------------------
(***************************************************************************)
(* A DID document (src/interop/did.rs): verification methods and the three *)
(* lists of references to them, and what is left of it after it is written *)
(* to JSON and read back.  An empty list is not written, and reading       *)
(* requires all three.                                                     *)
(***************************************************************************)
EXTENDS Integers, Sequences, FiniteSets, Functions, SequencesExt, Vectors

CONSTANTS
    MethodIds,
    EmptyId,
    Jwks,
    MaxMethods,      \* bound on the methods added to one document
    MaxRelations     \* bound on the relationships named in one call

ASSUME RelationsAssumption == MaxRelations \in Nat

VARIABLES
    doc,        \* the document
    added,      \* history: from each method present to what it was added with
    calls,
    error       \* what the last call returned

didVars == <<doc, added, calls, error>>

VerificationRelationship ==
    {"authentication", "assertionMethod", "keyAgreement",
     "capabilityInvocation", "capabilityDelegation"}
Listed == {"authentication", "assertionMethod", "keyAgreement"}

VerificationMethod(id, jwk) == [id |-> id, jwk |-> jwk]

-------------------------------------------------------------------------------
DidInit ==
    /\ doc = [methods |-> <<>>, lists |-> [r \in Listed |-> <<>>]]
    /\ added = <<>>
    /\ calls = 0
    /\ error = "none"

Present(id) == \E i \in DOMAIN doc.methods : doc.methods[i].id = id
Fails(why) == error' = why /\ UNCHANGED <<doc, added, calls>>

\* one reference for each time a listed relationship is named
Referenced(list, r, id, relationships) ==
    list \o [i \in DOMAIN retain(relationships, VerificationRelationship \ {r}) |-> id]

AddRefused(id) ==
    \/ id = EmptyId /\ Fails("EmptyMethodId")
    \/ id # EmptyId /\ Present(id) /\ Fails("DuplicateVerificationMethod")

add_verification_method(id, jwk, relationships) ==
    /\ id # EmptyId /\ ~Present(id)
    /\ calls < MaxMethods
    /\ doc' = [methods |-> Append(doc.methods, VerificationMethod(id, jwk)),
               lists |-> [r \in Listed |->
                             Referenced(doc.lists[r], r, id, relationships)]]
    /\ added' = [k \in DOMAIN added \union {id} |->
                    IF k = id THEN <<jwk, relationships>> ELSE added[k]]
    /\ calls' = calls + 1
    /\ error' = "none"

get_method(id) ==
    doc.methods[SelectInSeq(doc.methods, LAMBDA m : m.id = id)]

MethodNotFound(id) == ~Present(id) /\ Fails("VerificationMethodNotFound")

Mutant_ForgetsAgreement(lists, id) ==
    [r \in Listed |-> IF r = "keyAgreement" THEN lists[r]
                      ELSE retain(lists[r], {id})]
Unreferenced(lists, id) == [r \in Listed |-> retain(lists[r], {id})]

remove_method(id) ==
    /\ Present(id)
    /\ doc' = [methods |-> retain(doc.methods, {m \in ToSet(doc.methods) : m.id = id}),
               lists |-> Unreferenced(doc.lists, id)]
    /\ added' = Restrict(added, DOMAIN added \ {id})
    /\ error' = "none"
    /\ UNCHANGED calls

\* to_json, then from_json: skip_serializing_if leaves an empty list out, and no default
\* puts it back
RoundTrip ==
    \/ /\ \A r \in Listed : doc.lists[r] # <<>>
       /\ error' = "none" /\ UNCHANGED <<doc, added, calls>>
    \/ /\ \E r \in Listed : doc.lists[r] = <<>>
       /\ Fails("EmptyDid")

RelationLists == UNION {[1..n -> VerificationRelationship] : n \in 0..MaxRelations}

DidNext ==
    \/ \E id \in MethodIds :
          \/ AddRefused(id) \/ MethodNotFound(id) \/ remove_method(id)
          \/ \E jwk \in Jwks, relationships \in RelationLists :
                add_verification_method(id, jwk, relationships)
    \/ RoundTrip

DidSpec == DidInit /\ [][DidNext]_didVars

-------------------------------------------------------------------------------
\* A key that was removed is trusted for nothing, and one that is present is trusted for
\* exactly what it was last added for, in the lists that add_verification_method and
\* remove_method each maintain beside the methods (did.rs:117-185): no list names a
\* method that is gone, a reference resolves to one key, and an id added again does not
\* inherit the relationships of its former key.
ReferencesResolve ==
    /\ {doc.methods[i].id : i \in DOMAIN doc.methods} = DOMAIN added
    /\ \A id \in DOMAIN added :
          /\ get_method(id).jwk = added[id][1]
          /\ \A r \in Listed :
                Cardinality({i \in DOMAIN doc.lists[r] : doc.lists[r][i] = id})
                    = Cardinality({i \in DOMAIN added[id][2] : added[id][2][i] = r})
    /\ \A r \in Listed : ToSet(doc.lists[r]) \subseteq DOMAIN added
===============================================================================
