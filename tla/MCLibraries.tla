------------------------------- MODULE MCLibraries -------------------------------
(* The smaller components on small instances.  They share no state, so each      *)
(* behaviour exercises one and leaves the others alone: the state space is their *)
(* sum, not their product.  In the cache, two passwords share their lossy text.  *)
EXTENDS KeyCache, Shamir, ShareRefresh, RustGateway, Qkd, DidDocument, HttpServer, FileVault

CONSTANTS p1, p2, p3, m1, oldPair

VARIABLE part

MCLossy == [p \in {p1, p2, p3} |-> IF p = p2 THEN p1 ELSE p]
MCRates == {<<0, 1>>, <<1, 2>>, <<1, 1>>, <<2, 1>>}
MCOldKeys == m1 :> oldPair

Init ==
    /\ part \in {"cache", "shamir", "refresh", "gateway", "qkd", "did", "http", "files"}
    /\ CacheInit
    /\ ShamirInit
    /\ RefreshInit
    /\ GatewayInit
    /\ QkdInit
    /\ DidInit
    /\ HttpInit
    /\ FileInit

Next ==
    /\ \/ /\ part = "cache" /\ CacheNext
          /\ UNCHANGED <<shamirVars, refreshVars, gatewayVars, qkdVars, didVars, httpVars, fileVars>>
       \/ /\ part = "shamir" /\ ShamirNext
          /\ UNCHANGED <<cacheVars, refreshVars, gatewayVars, qkdVars, didVars, httpVars, fileVars>>
       \/ /\ part = "refresh" /\ RefreshNext
          /\ UNCHANGED <<cacheVars, shamirVars, gatewayVars, qkdVars, didVars, httpVars, fileVars>>
       \/ /\ part = "gateway" /\ GatewayNext
          /\ UNCHANGED <<cacheVars, shamirVars, refreshVars, qkdVars, didVars, httpVars, fileVars>>
       \/ /\ part = "qkd" /\ QkdNext
          /\ UNCHANGED <<cacheVars, shamirVars, refreshVars, gatewayVars, didVars, httpVars, fileVars>>
       \/ /\ part = "did" /\ DidNext
          /\ UNCHANGED <<cacheVars, shamirVars, refreshVars, gatewayVars, qkdVars, httpVars, fileVars>>
       \/ /\ part = "http" /\ HttpNext
          /\ UNCHANGED <<cacheVars, shamirVars, refreshVars, gatewayVars, qkdVars, didVars, fileVars>>
       \/ /\ part = "files" /\ FileNext
          /\ UNCHANGED <<cacheVars, shamirVars, refreshVars, gatewayVars, qkdVars, didVars, httpVars>>
    /\ UNCHANGED part

allVars == <<cacheVars, shamirVars, refreshVars, gatewayVars, qkdVars, didVars, httpVars, fileVars>>

Spec == Init /\ [][Next]_<<part, allVars>>
===================================================================================
