------------------------------- MODULE AuditLog -------------------------------
(***************************************************************************)
(* The hash-chained audit log (src/audit/audit_log.rs), stored and         *)
(* read back by its callers, and the compliance rules evaluated on it      *)
(* (src/audit/compliance.rs).                                              *)
(*                                                                         *)
(* Strings are sequences of letters, for the hash joins them without       *)
(* separators.  A stored log may come back edited: an entry with other     *)
(* contents under its old hash, an entry missing, or the tail missing.     *)
(***************************************************************************)
EXTENDS Integers, Sequences, SequencesExt, FiniteSetsExt

CONSTANTS
    Events,           \* what callers append: [actor, action, detail, severity]
    AuthFailure, KeyRevoke, KeyRotation,   \* the actions that compliance.rs names
    max_consecutive,  \* of MaxConsecutiveAuthFailures
    max_ratio,        \* of MaxRevocationToRotationRatio: a pair <<numerator, denominator>>
    MaxLog,           \* bound: entries of the log
    MaxFaults         \* bound: edits and losses of stored entries

ASSUME RulesAssumption ==
    /\ max_consecutive \in Nat
    /\ max_ratio[1] \in Nat /\ max_ratio[2] \in Nat \ {0}
ASSUME EventsAssumption == \A ev \in Events : ev.severity \in {"Info", "Warning", "Critical"}

VARIABLES
    log,       \* AuditLog.entries: [index, event, entry_hash]
    written,   \* for every entry still there, what was appended and after which hash
    faults     \* edits and losses so far

auditVars == <<log, written, faults>>

-------------------------------------------------------------------------------
(***************************************************************************)
(* The chain                                                               *)
(***************************************************************************)
Genesis == <<>>

\* compute_entry_hash: the strings run together; index and severity are not in it.
Mutant_UnchainedHash(prev_hash, ev) == <<ev.actor \o ev.action \o ev.detail>>
compute_entry_hash(prev_hash, ev) == <<prev_hash, ev.actor \o ev.action \o ev.detail>>

PrevHash(entries, i) == IF i = 1 THEN Genesis ELSE entries[i - 1].entry_hash

\* AuditLog::append; an empty actor or action is refused.
append(ev) ==
    /\ ev.actor # <<>> /\ ev.action # <<>>
    /\ Len(log) < MaxLog
    /\ LET prev_hash == PrevHash(log, Len(log) + 1) IN
          /\ log' = Append(log, [index |-> Len(log), event |-> ev,
                                 entry_hash |-> compute_entry_hash(prev_hash, ev)])
          /\ written' = Append(written, [event |-> ev, prev_hash |-> prev_hash])
    /\ UNCHANGED faults

\* AuditLog::verify_chain: the first entry whose hash is not that of its
\* contents after the stored hash before it; 0 when there is none.  An empty log,
\* of which both verify_chain and evaluate say just that, counts as unbroken.
Broken(entries) ==
    {i \in DOMAIN entries :
        entries[i].entry_hash # compute_entry_hash(PrevHash(entries, i), entries[i].event)}
verify_chain(entries) == IF Broken(entries) = {} THEN 0 ELSE Min(Broken(entries))

-------------------------------------------------------------------------------
(***************************************************************************)
(* Compliance rules                                                        *)
(***************************************************************************)

\* check_consecutive_auth_failures: the violations, each the indices of a run;
\* a run is closed by another action, or by the end of the log.
Closed(s) == IF Len(s.run) > max_consecutive THEN Append(s.violations, s.run) ELSE s.violations
NothingSeen == [run |-> <<>>, violations |-> <<>>]
Scanned(s, e) ==
    IF e.event.action = AuthFailure
    THEN [run |-> Append(s.run, e.index), violations |-> s.violations]
    ELSE [run |-> <<>>, violations |-> Closed(s)]
Scan(entries) == FoldLeft(LAMBDA s, e : Scanned(s, e), NothingSeen, entries)

Mutant_TrailingRunForgotten(entries) == Scan(entries).violations
check_consecutive_auth_failures(entries) == Closed(Scan(entries))

\* check_revocation_criticality: the entries it flags
check_revocation_criticality(entries) ==
    {i \in DOMAIN entries :
        entries[i].event.action = KeyRevoke /\ entries[i].event.severity # "Critical"}

Count(entries, action) == Cardinality({i \in DOMAIN entries : entries[i].event.action = action})

\* check_revocation_rotation_ratio: does it flag the log?
check_revocation_rotation_ratio(entries) ==
    LET revocations == Count(entries, KeyRevoke)
        rotations   == Count(entries, KeyRotation)
    IN \/ rotations = 0 /\ revocations > 0
       \/ rotations > 0 /\ revocations * max_ratio[2] > max_ratio[1] * rotations

\* ComplianceReport::evaluate with the three rules; an empty log is an error
passed(entries) ==
    /\ entries # <<>>
    /\ check_consecutive_auth_failures(entries) = <<>>
    /\ check_revocation_criticality(entries) = {}
    /\ ~check_revocation_rotation_ratio(entries)

-------------------------------------------------------------------------------
AuditInit == log = <<>> /\ written = <<>> /\ faults = 0

Fault == faults < MaxFaults /\ faults' = faults + 1

\* The stored form is edited: the contents of an entry change, not its hash.
Edit(i, ev) ==
    /\ Fault
    /\ log' = [log EXCEPT ![i].event = ev]
    /\ UNCHANGED written

\* An entry of the stored form is lost; the last one may be.
Lose(i) ==
    /\ Fault
    /\ log' = RemoveAt(log, i)
    /\ written' = RemoveAt(written, i)

AuditNext ==
    \/ \E ev \in Events : append(ev)
    \/ \E i \in DOMAIN log, ev \in Events : Edit(i, ev)
    \/ \E i \in DOMAIN log : Lose(i)

AuditSpec == AuditInit /\ [][AuditNext]_auditVars

-------------------------------------------------------------------------------
(***************************************************************************)
(* Properties                                                              *)
(***************************************************************************)
Text(ev) == ev.actor \o ev.action \o ev.detail

Untouched(i) ==
    /\ Text(log[i].event) = Text(written[i].event)
    /\ PrevHash(log, i) = written[i].prev_hash

\* verify_chain stops at the first entry that says something else than what was
\* appended, or stands after another entry than it was appended to, whatever was
\* edited, lost and appended before and since; a log that lost only its tail
\* verifies (audit_log.rs append, verify_chain, compute_entry_hash).
FirstBreakFound ==
    LET touched == {i \in DOMAIN log : ~Untouched(i)} IN
    verify_chain(log) = IF touched = {} THEN 0 ELSE Min(touched)

Failure(i) == log[i].event.action = AuthFailure

LongRuns ==
    {i \in DOMAIN log :
        /\ i > 1 => ~Failure(i - 1)
        /\ \A j \in i..(i + max_consecutive) : j \in DOMAIN log /\ Failure(j)}

\* The auth-failure rule flags every longest run of more than max_consecutive
\* failures once, the one at the end of the log too, and nothing else: what it
\* lists are the indices of consecutive failures; a log that passes has no long
\* run, and a rotation where it has a revocation (compliance.rs evaluate).
EveryLongRunFlagged ==
    LET flagged == check_consecutive_auth_failures(log) IN
    /\ Len(flagged) = Cardinality(LongRuns)
    /\ passed(log) => LongRuns = {} /\ (Count(log, KeyRevoke) > 0 => Count(log, KeyRotation) > 0)
    /\ \A r \in DOMAIN flagged : \E i \in LongRuns :
          \A k \in DOMAIN flagged[r] :
             Failure(i + k - 1) /\ flagged[r][k] = log[i + k - 1].index

===============================================================================
