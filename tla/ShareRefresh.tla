------------------------------ MODULE ShareRefresh ------------------------------
(***************************************************************************)
(* Re-sharing by epoch (src/advanced_secret_sharing.rs): plans for new     *)
(* rosters, refreshes of single shares, and commitments to the shares.     *)
(*                                                                         *)
(* A share is an original share XORed with masks, each the hash of a seed, *)
(* a participant, a position and an epoch: the base and the set of masks   *)
(* applied an odd number of times.  Hashes are their inputs; participants'  *)
(* identifiers have one length, so concatenating them is unambiguous.      *)
(***************************************************************************)
EXTENDS Integers, Sequences, FiniteSets, Functions, SequencesExt

CONSTANTS
    Participants,
    Bases,            \* the original shares
    EmptyShare,       \* the share of no bytes
    Seeds,
    Thresholds,
    IndexModulus,     \* 256: a commitment's index is a u8
    LastEpoch,        \* u64::MAX
    MaxSteps          \* bound on the calls made

ASSUME EpochAssumption == LastEpoch \in Nat \ {0} /\ IndexModulus \in Nat \ {0}
ASSUME ShareAssumption == EmptyShare \in Bases

VARIABLES
    epoch,      \* ProactiveRefresher
    current,    \* what the participants hold: a sequence of ParticipantShare
    plan,       \* the last ResharePlan, or NoPlan
    held,       \* history: every share held or planned so far
    older,      \* history: held, as it was when the last plan was made
    steps

refreshVars == <<epoch, current, plan, held, older, steps>>

NoPlan == [old_epoch |-> 0, new_epoch |-> 0, refreshed |-> <<>>]

Original(b) == [base |-> b, masks |-> {}]
ParticipantShare(p, s) == [participant_id |-> p, share |-> s]
Shares(list) == {list[i].share : i \in DOMAIN list}

-------------------------------------------------------------------------------
Mutant_mask_without_epoch(seed, e) == [seed |-> seed, epoch |-> 0]
mask(seed, e) == [seed |-> seed, epoch |-> e]

refresh_share(share, seed, e) ==
    [share EXCEPT !.masks = SymDiff(@, {mask(seed, e)})]

commitment_hash(index, share) == <<index, share>>

create_commitments(shares) ==
    [i \in DOMAIN shares |->
        LET as_u8 == (i - 1) % IndexModulus
        IN  [index |-> as_u8, commitment |-> commitment_hash(as_u8, shares[i])]]

verify_share(share, c) == commitment_hash(c.index, share) = c.commitment

\* the transcript: the order and the owners of the shares are bound by position
build_refresh_proof(old, new, thresholds, refreshed) ==
    <<old, new, thresholds,
      [i \in DOMAIN refreshed |-> <<refreshed[i].participant_id,
                                    commitment_hash(0, refreshed[i].share)>>]>>

verify_reshare_plan(p) ==
    p.proof = build_refresh_proof(p.old_epoch, p.new_epoch, p.thresholds, p.refreshed)

validate_thresholds(old_parties, new_parties, old, new) ==
    old \in 1..old_parties /\ new \in 1..new_parties

-------------------------------------------------------------------------------
RefreshInit ==
    /\ epoch = 1
    /\ current = <<>>
    /\ plan = NoPlan
    /\ held = {}
    /\ older = {}
    /\ steps = 0

\* two participants hold two of the original shares
Deal(p, q, b, c) ==
    /\ current = <<>>
    /\ p # q /\ b # c
    /\ current' = <<ParticipantShare(p, Original(b)), ParticipantShare(q, Original(c))>>
    /\ held' = {Original(b), Original(c)}
    /\ UNCHANGED <<epoch, plan, older, steps>>

Step == steps < MaxSteps /\ steps' = steps + 1

Advanced == IF epoch < LastEpoch THEN epoch + 1 ELSE epoch

advance_epoch ==
    /\ Step
    /\ epoch' = Advanced
    /\ UNCHANGED <<current, plan, held, older>>

\* a holder masks one share again: a caller that does so twice in one epoch undoes it
Refresh(i, seed) ==
    LET share == refresh_share(current[i].share, <<seed>>, epoch) IN
    /\ Step
    /\ current[i].share.base # EmptyShare
    /\ current' = [current EXCEPT ![i].share = share]
    /\ held' = held \union {share}
    /\ UNCHANGED <<epoch, plan, older>>

InvalidThreshold(next, old, new) ==
    /\ Step
    /\ ~validate_thresholds(Len(current), Len(next), old, new)
    /\ UNCHANGED <<epoch, current, plan, held, older>>

\* the share that participant idx of the next roster gets
Source(idx) == current[((idx - 1) % Len(current)) + 1].share
Reshared(next, seed) ==
    [idx \in DOMAIN next |->
        ParticipantShare(next[idx],
            refresh_share(Source(idx), <<seed, next[idx], idx>>, Advanced))]

\* an empty share is met after the epoch has moved
InvalidShareLength(next, old, new) ==
    /\ Step
    /\ validate_thresholds(Len(current), Len(next), old, new)
    /\ \E idx \in DOMAIN next : Source(idx).base = EmptyShare
    /\ epoch' = Advanced
    /\ UNCHANGED <<current, plan, held, older>>

\* the participants of the plan take its shares; a caller may drop it and go on with
\* the shares it had
reshare_for_participants(next, old, new, seed, adopted) ==
    LET refreshed == Reshared(next, seed)
        thresholds == <<old, new>>
        made == [old_epoch |-> epoch, new_epoch |-> Advanced, thresholds |-> thresholds,
                 refreshed |-> refreshed,
                 proof |-> build_refresh_proof(epoch, Advanced, thresholds, refreshed)]
    IN  /\ Step
        /\ validate_thresholds(Len(current), Len(next), old, new)
        /\ \A idx \in DOMAIN next : Source(idx).base # EmptyShare
        /\ verify_reshare_plan(made)
        /\ epoch' = Advanced
        /\ plan' = made
        /\ older' = held
        /\ held' = held \union Shares(refreshed)
        /\ current' = IF adopted THEN refreshed ELSE current

Rosters == {<<p>> : p \in Participants} \union {<<p, q>> : p, q \in Participants}
               \union {<<p, q, p>> : p, q \in Participants}

RefreshNext ==
    \/ \E p, q \in Participants, b, c \in Bases : Deal(p, q, b, c)
    \/ advance_epoch
    \/ \E i \in DOMAIN current, seed \in Seeds : Refresh(i, seed)
    \/ \E next \in Rosters, old, new \in Thresholds :
          \/ InvalidThreshold(next, old, new)
          \/ InvalidShareLength(next, old, new)
          \/ \E seed \in Seeds, adopted \in BOOLEAN :
                reshare_for_participants(next, old, new, seed, adopted)

RefreshSpec == RefreshInit /\ [][RefreshNext]_refreshVars

-------------------------------------------------------------------------------
\* "a compromised old share becomes useless after rotation" (README.md:900): unless the
\* epoch is stuck at its last value, no share of a plan was held before, no two of its
\* shares are the same, though a longer roster masks one source twice, and neither an old
\* share nor another's verifies against its commitments (advanced_secret_sharing.rs:271-
\* 322), whatever plans were dropped, refreshed or failed half-way before.
PlanSharesNew ==
    plan.new_epoch > plan.old_epoch =>
        LET shares == [i \in DOMAIN plan.refreshed |-> plan.refreshed[i].share]
            commitments == create_commitments(shares)
        IN  /\ IsInjective(shares)
            /\ ToSet(shares) \intersect older = {}
            /\ \A i \in DOMAIN shares, s \in held :
                  verify_share(s, commitments[i]) <=> s = shares[i]
===============================================================================
