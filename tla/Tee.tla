-------------------------------- MODULE Tee --------------------------------
(***************************************************************************)
(* The two trusted execution environments of                               *)
(* src/confidential_computing: the SGX Enclave (sgx/mod.rs) and the        *)
(* TrustZone session (trustzone/mod.rs, interface.rs), as far as the life  *)
(* cycle and the gate every call passes go.  Sealing and Attestation       *)
(* extend this module with what the calls do.                              *)
(***************************************************************************)
EXTENDS Integers, Sequences, FiniteSets

CONSTANT Builds     \* how the crate may have been compiled

ASSUME BuildsAssumption == Builds \subseteq {"simulator", "release"}

VARIABLES build,    \* the build that runs: only the simulator has an enclave
          enclave,  \* is an Enclave alive?  its configuration is read by its getter alone
          session   \* the id of the open TrustZone session, 0 when there is none

teeVars == <<build, enclave, session>>

TeeType == {"SGX", "TrustZone", "AmdSev", "IntelTdx"}

\* Every TrustZone session is number 1.
SessionId == 1

TeeInit ==
    /\ build \in Builds
    /\ enclave = FALSE
    /\ session = 0

\* Enclave::initialize: a release build has no SGX to initialise.
InitializeEnclave ==
    /\ build = "simulator"
    /\ ~enclave
    /\ enclave' = TRUE
    /\ UNCHANGED <<build, session>>

\* Drop for Enclave: what was obtained from it outlives it.
DropEnclave ==
    /\ enclave
    /\ enclave' = FALSE
    /\ UNCHANGED <<build, session>>

\* TrustZoneEnclave::initialize with the UUID of a trusted application.
OpenSession ==
    /\ session = 0
    /\ session' = SessionId
    /\ UNCHANGED <<build, enclave>>

\* The session value goes out of scope.
CloseSession ==
    /\ session # 0
    /\ session' = 0
    /\ UNCHANGED <<build, enclave>>

TeeStep ==
    \/ InitializeEnclave
    \/ DropEnclave
    \/ OpenSession
    \/ CloseSession

\* dispatch_command serves a request whose session id is the open session's;
\* any other is answered with a failed TaResponse.
Dispatched(id) == session # 0 /\ id = session

============================================================================
