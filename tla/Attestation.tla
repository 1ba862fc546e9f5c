----------------------------- MODULE Attestation -----------------------------
(***************************************************************************)
(* Remote attestation: quotes of the SGX enclave (sgx/mod.rs), reports of  *)
(* the TrustZone session (trustzone/), their verifiers                     *)
(* (sgx/quote_verifier.rs, trustzone/attestation.rs, sgx/attestation.rs)   *)
(* and the service that puts one policy on both                            *)
(* (attestation_service/mod.rs).                                           *)
(*                                                                         *)
(* A platform stamps evidence with its own clock, and the maker of a       *)
(* simulated report with any time; neither is ahead of the verifier's      *)
(* clock by more than MaxLead.  Evidence is verified any time later,       *)
(* alone or in a batch whose items each read the clock.  Ages count units  *)
(* of the verifier's clock, which never runs backwards.                    *)
(***************************************************************************)
EXTENDS Tee

CONSTANTS
    QuoteMaxAge,    \* QuoteValidationPolicy::default: 3600 s
    ReportMaxAge,   \* TrustZoneAttestationPolicy: 300 s by default
    RequireMarker,  \* TrustZoneAttestationPolicy: TRUE by default
    Routing,        \* the AttestationRoutingPolicy values services are made with
    MaxLead,        \* how far a platform's clock is ahead of the verifier's
    MaxClock,       \* bound: the last time the clock shows
    MaxEvidence,    \* bound: pieces of evidence in circulation
    MaxBatch        \* bound: items of one batch

ASSUME AgesAssumption  == QuoteMaxAge \in Nat /\ ReportMaxAge \in Nat
ASSUME MarkerAssumption == RequireMarker \in BOOLEAN
ASSUME ClockAssumption == MaxLead \in Nat /\ MaxClock \in Nat
ASSUME BatchAssumption == MaxBatch \in Nat

Low == 1
Medium == 2
High == 3

RoutingPolicy == [allowed_tees : SUBSET TeeType, max_age : [{"SGX", "TrustZone"} -> Nat],
                  minimum_trust_level : Low..High]

ASSUME RoutingAssumption == Routing \subseteq RoutingPolicy

VARIABLES
    now,        \* the verifier's clock
    policy,     \* the service's routing policy
    evidence,   \* evidence in circulation
    refused,    \* evidence the service has refused so far
    last,       \* the last verification: by whom, the verdict, and if accepted of what and when
    batch       \* the batch under way or just ended

attVars == <<now, policy, evidence, refused, last, batch>>

\* A Quote has a signature and a certificate chain or lacks them, a report the
\* format marker; `born` is the verifier's time when the platform made it.
Evidence == [form : {"quote", "report"}, tee : TeeType, signed : BOOLEAN, chained : BOOLEAN,
             marked : BOOLEAN, stamp : Nat, born : Nat]

Reasons == {"unsupported", "not_allowed", "too_old", "low_trust", "invalid"}

\* u64::saturating_sub
saturating_sub(a, b) == IF b > a THEN 0 ELSE a - b

-------------------------------------------------------------------------------
(***************************************************************************)
(* The verifiers                                                           *)
(***************************************************************************)

\* QuoteVerifier::check_advisories finds none, whatever is in the database.
check_advisories(quote) == {}

\* QuoteVerifier::verify under a policy; `rooted` when it has Intel root certificates
verify_quote(max_age, require_patched_cpu, rooted, quote, t) ==
    LET age        == saturating_sub(t, quote.stamp)
        cert_chain == quote.chained \/ ~rooted
        patched    == "CRITICAL" \notin check_advisories(quote)
    IN [is_valid         |-> /\ quote.signed /\ cert_chain /\ age <= max_age
                             /\ require_patched_cpu => patched,
        signature_valid  |-> quote.signed,
        cert_chain_valid |-> cert_chain,
        is_fresh         |-> age <= max_age,
        advisories       |-> check_advisories(quote),
        age              |-> age]

verify_quote_standard(quote, t) == verify_quote(QuoteMaxAge, TRUE, FALSE, quote, t)

\* TrustZoneAttestationVerifier::verify of a TrustZone report
Mutant_verify_unwatched(report, t) ==
    [is_valid |-> report.marked, is_fresh |-> TRUE, age |-> saturating_sub(t, report.stamp)]
Mutant_verify_not_before(report, t) ==
    LET fresh == t >= report.stamp /\ t - report.stamp <= ReportMaxAge
    IN [is_valid |-> fresh /\ report.marked, is_fresh |-> fresh,
        age |-> saturating_sub(t, report.stamp)]
verify_report(report, t) ==
    LET age == saturating_sub(t, report.stamp)
    IN [is_valid |-> age <= ReportMaxAge /\ (RequireMarker => report.marked),
        is_fresh |-> age <= ReportMaxAge,
        age      |-> age]

\* UnifiedAttestationResult from a QuoteVerificationResult
FromQuote(r) ==
    [tee |-> "SGX", is_valid |-> r.is_valid, is_fresh |-> r.is_fresh, age |-> r.age,
     trust_level |-> CASE ~(r.signature_valid /\ r.cert_chain_valid) -> Low
                       [] r.signature_valid /\ r.cert_chain_valid /\ r.advisories # {} -> Medium
                       [] r.signature_valid /\ r.cert_chain_valid /\ r.advisories = {} -> High]

\* UnifiedAttestationResult from a TrustZoneVerificationResult
FromReport(r) ==
    [tee |-> "TrustZone", is_valid |-> r.is_valid, is_fresh |-> r.is_fresh, age |-> r.age,
     trust_level |-> IF r.is_valid THEN Medium ELSE Low]

\* TrustLevel::meets_minimum
meets_minimum(level, minimum) == level >= minimum

\* AttestationService::enforce_policy: what the first failing check says
enforce_policy(p, r) ==
    IF r.tee \notin p.allowed_tees THEN "not_allowed"
    ELSE IF r.age > p.max_age[r.tee] THEN "too_old"
    ELSE IF ~meets_minimum(r.trust_level, p.minimum_trust_level) THEN "low_trust"
    ELSE IF ~r.is_valid \/ ~r.is_fresh THEN "invalid"
    ELSE "ok"

\* AttestationService::verify_sgx_quote, verify_report
Verify(p, e, t) ==
    CASE e.form = "quote" -> enforce_policy(p, FromQuote(verify_quote_standard(e, t)))
      [] e.form = "report" /\ e.tee = "TrustZone" -> enforce_policy(p, FromReport(verify_report(e, t)))
      [] e.form = "report" /\ e.tee # "TrustZone" -> "unsupported"

\* AttestationConfig: the provider, and whether its URL or API key is there
Config == [provider : {"DCAP", "IAS"}, url : BOOLEAN, key : BOOLEAN]
dcap == [provider |-> "DCAP", url |-> TRUE, key |-> FALSE]
ias == [provider |-> "IAS", url |-> FALSE, key |-> TRUE]

\* AttestationVerifier::from_config
from_config(c) == (c.provider = "DCAP" /\ c.url) \/ (c.provider = "IAS" /\ c.key)

-------------------------------------------------------------------------------
(***************************************************************************)
(* Platforms, the service and its callers                                  *)
(***************************************************************************)
NoBatch == [input |-> <<>>, items |-> <<>>, done |-> TRUE, passed |-> 0, failed |-> 0]

AttInit ==
    /\ TeeInit
    /\ now = 0
    /\ policy \in Routing
    /\ evidence = {}
    /\ refused = {}
    /\ last = [verdict |-> "none"]
    /\ batch = NoBatch

Issue(e) ==
    /\ evidence' = evidence \cup {e}
    /\ Cardinality(evidence') <= MaxEvidence
    /\ UNCHANGED <<teeVars, now, policy, refused, last, batch>>

\* Enclave::get_quote: signed by placeholder bytes, with an empty chain
get_quote(lead) ==
    /\ enclave
    /\ Issue([form |-> "quote", tee |-> "SGX", signed |-> TRUE, chained |-> FALSE,
              marked |-> FALSE, stamp |-> now + lead, born |-> now])

\* TrustZoneEnclave::get_attestation, through dispatch_command: no marker, time 0
get_attestation(id) ==
    /\ Dispatched(id)
    /\ Issue([form |-> "report", tee |-> "TrustZone", signed |-> FALSE, chained |-> FALSE,
              marked |-> FALSE, stamp |-> 0, born |-> now])

\* build_simulated_report stamps what its caller says, late or ahead of time.
build_simulated_report(stamp) ==
    Issue([form |-> "report", tee |-> "TrustZone", signed |-> FALSE, chained |-> FALSE,
           marked |-> TRUE, stamp |-> stamp, born |-> now])

\* Evidence decoded from the wire: a quote that lost its signature, or a report
\* of an environment the service has no verifier for
Arrive(form, tee) ==
    Issue([form |-> form, tee |-> tee, signed |-> FALSE, chained |-> TRUE,
           marked |-> TRUE, stamp |-> now, born |-> now])

\* The service refuses for good what it refuses once; nothing remembers it but
\* this history.
Judge(e) ==
    LET verdict == Verify(policy, e, now) IN
    /\ last' = IF verdict = "ok" THEN [by |-> "service", e |-> e, at |-> now, verdict |-> "ok"]
                ELSE [by |-> "service", verdict |-> verdict]
    /\ refused' = IF verdict = "ok" THEN refused ELSE refused \cup {e}

\* AttestationService::verify_sgx_quote, verify_trustzone_report, verify_report
VerifyOne(e) ==
    /\ Judge(e)
    /\ UNCHANGED <<teeVars, now, policy, evidence, batch>>

\* AttestationVerifier::verify looks at nothing in the quote.
VerifyRemotely(c, e) ==
    /\ e.form = "quote"
    /\ from_config(c)
    /\ last' = [by |-> "provider", verdict |-> "ok"]
    /\ UNCHANGED <<teeVars, now, policy, evidence, refused, batch>>

\* verify_reports_batch and verify_sgx_quotes_batch: evidence of one form
BeginBatch(input) ==
    /\ batch.done
    /\ \A i, j \in DOMAIN input : input[i].form = input[j].form
    /\ batch' = [NoBatch EXCEPT !.input = input, !.done = FALSE]
    /\ UNCHANGED <<teeVars, now, policy, evidence, refused, last>>

\* The iterator verifies the next item, and reads the clock to do so.
BatchItem ==
    /\ ~batch.done
    /\ Len(batch.items) < Len(batch.input)
    /\ LET e == batch.input[Len(batch.items) + 1] IN
          /\ Judge(e)
          /\ batch' = [batch EXCEPT !.items = Append(@, Verify(policy, e, now))]
    /\ UNCHANGED <<teeVars, now, policy, evidence>>

\* The BatchVerificationResult: passed is counted, failed is the rest.
Mutant_EndAtFirstFailure ==
    LET passed == Cardinality({i \in DOMAIN batch.items : batch.items[i] = "ok"}) IN
    /\ ~batch.done
    /\ \/ Len(batch.items) = Len(batch.input)
       \/ batch.items # <<>> /\ batch.items[Len(batch.items)] # "ok"
    /\ batch' = [batch EXCEPT !.done = TRUE, !.passed = passed,
                              !.failed = saturating_sub(Len(batch.items), passed)]
    /\ UNCHANGED <<teeVars, now, policy, evidence, refused, last>>
EndBatch ==
    LET passed == Cardinality({i \in DOMAIN batch.items : batch.items[i] = "ok"}) IN
    /\ ~batch.done
    /\ Len(batch.items) = Len(batch.input)
    /\ batch' = [batch EXCEPT !.done = TRUE, !.passed = passed,
                              !.failed = saturating_sub(Len(batch.items), passed)]
    /\ UNCHANGED <<teeVars, now, policy, evidence, refused, last>>

Tick ==
    /\ now < MaxClock
    /\ now' = now + 1
    /\ UNCHANGED <<teeVars, policy, evidence, refused, last, batch>>

AttNext ==
    \/ TeeStep /\ UNCHANGED attVars
    \/ \E lead \in 0..MaxLead : get_quote(lead)
    \/ get_attestation(SessionId)
    \/ \E stamp \in 0..(now + MaxLead) : build_simulated_report(stamp)
    \/ Arrive("quote", "SGX")
    \/ \E tee \in {"SGX", "AmdSev"} : Arrive("report", tee)
    \/ \E e \in evidence : VerifyOne(e)
    \/ \E c \in {dcap, ias, [dcap EXCEPT !.url = FALSE]}, e \in evidence : VerifyRemotely(c, e)
    \/ \E n \in 1..MaxBatch : \E input \in [1..n -> evidence] : BeginBatch(input)
    \/ BatchItem
    \/ EndBatch
    \/ Tick

AttSpec == AttInit /\ [][AttNext]_<<teeVars, attVars>>

-------------------------------------------------------------------------------
(***************************************************************************)
(* Properties                                                              *)
(***************************************************************************)

ProviderMaxAge(tee) == IF tee = "SGX" THEN QuoteMaxAge ELSE ReportMaxAge

\* Evidence that the service accepts was made no longer ago than both the
\* provider's limit and the service's own allow, give or take what the
\* platform's clock was ahead: a stamp in the future counts as age 0 and buys
\* no more than that (quote_verifier.rs:117, attestation.rs:70,
\* attestation_service/mod.rs:272).
AcceptedRecent ==
    last.verdict = "ok" /\ last.by = "service" =>
        /\ last.e.tee \in policy.allowed_tees
        /\ last.at - last.e.born <= ProviderMaxAge(last.e.tee) + MaxLead
        /\ last.at - last.e.born <= policy.max_age[last.e.tee] + MaxLead

\* What the service once refused it never accepts later, alone or in a batch,
\* however often it is submitted again (AttestationService::enforce_policy).
RefusedForGood ==
    last.verdict = "ok" /\ last.by = "service" => last.e \notin refused

\* A finished batch answers every item, in input order, and counts each once;
\* of two copies of one piece of evidence the later is accepted only if the
\* earlier was (AttestationService::verify_reports_batch,
\* verify_sgx_quotes_batch).
BatchAnswersAll ==
    /\ batch.done => batch.passed + batch.failed = Len(batch.input)
    /\ batch.done => Len(batch.items) = Len(batch.input)
    /\ \A i, j \in DOMAIN batch.items :
          i < j /\ batch.input[i] = batch.input[j] /\ batch.items[j] = "ok" => batch.items[i] = "ok"

===============================================================================
