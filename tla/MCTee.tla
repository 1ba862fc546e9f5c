---------------------------------- MODULE MCTee ----------------------------------
(* Sealing and Attestation on small instances.  Both use the enclave and the    *)
(* session but share nothing else, so each behaviour exercises one of the two   *)
(* and leaves the other's state alone: the state space is their sum.            *)
EXTENDS Sealing, Attestation, TLC

VARIABLE part

MCRouting ==
    LET of(tees, sgx, tz, level) ==
          [allowed_tees |-> tees, max_age |-> ("SGX" :> sgx @@ "TrustZone" :> tz),
           minimum_trust_level |-> level]
    IN {of({"SGX", "TrustZone"}, 1, 0, Low), of({"SGX", "TrustZone"}, 0, 1, Medium),
        of({"SGX"}, 1, 0, High)}

pcr(a, b) == ("pcr0" :> a @@ "pcr1" :> b @@ "pcr2" :> 1)
MCPlatforms == {pcr(1, 1), pcr(1, 2), pcr(2, 2)}
MCPolicies == {pcr(1, 1), [pcr(1, 2) EXCEPT !["pcr1"] = 0], [pcr(1, 2) EXCEPT !["pcr0"] = 0]}

Init ==
    /\ part \in {"sealing", "attestation"}
    /\ SealInit
    /\ AttInit
    /\ part = "sealing" => policy = CHOOSE p \in Routing : TRUE
    /\ part = "attestation" => build = "simulator" /\ current_pcr = pcr(1, 1) /\ blobs = {}

Next ==
    /\ \/ part = "sealing" /\ SealNext /\ UNCHANGED attVars
       \/ part = "attestation" /\ AttNext /\ UNCHANGED sealVars
    /\ UNCHANGED part

Spec == Init /\ [][Next]_<<part, teeVars, sealVars, attVars>>

===================================================================================
