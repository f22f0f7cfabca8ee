----------------------------- MODULE WriteGates -----------------------------
(***************************************************************************)
(* The decision rules of ozy-core that a claim passes on its way into the  *)
(* memory: the sensitivity filter, taint tracking, gates G1 to G3 and the  *)
(* approval policy.  They are pure; the turn pipeline calls them.          *)
(***************************************************************************)
EXTENDS Integers

Sensitivities == {"S0", "S1", "S2", "S3", "S4"}
SensitivityRank == [S0 |-> 0, S1 |-> 1, S2 |-> 2, S3 |-> 3, S4 |-> 4]
TrustRank == [T0 |-> 0, T1 |-> 1, T2 |-> 2, T3 |-> 3]

AtLeast(s, t) == SensitivityRank[s] >= SensitivityRank[t]

-----------------------------------------------------------------------------
(* Sensitivity filter and taint                                            *)

\* filter_claims keeps a claim if the provider of the turn may see it.
filter_claims(claim, turn) ==
    CASE claim.sensitivity \in {"S0", "S1"} -> TRUE
      [] claim.sensitivity = "S2" -> turn.encrypted
      [] claim.sensitivity = "S3" ->
           turn.local \/ (turn.allow_s3_cloud_fallback /\ turn.encrypted)
      [] claim.sensitivity = "S4" -> turn.local /\ turn.intent = "intimate_reflection"

\* A turn without claims counts as clean.
Untainted == [trust |-> "T3", sensitivity |-> "S0"]

\* The least trust and the greatest sensitivity of all claims of the turn.
compute_taint(chunks) ==
    IF chunks = {} THEN Untainted
    ELSE [trust |-> (CHOOSE c \in chunks :
                       \A d \in chunks : TrustRank[c.trust_level]
                                           <= TrustRank[d.trust_level]).trust_level,
          sensitivity |-> (CHOOSE c \in chunks :
                             \A d \in chunks : AtLeast(c.sensitivity,
                                                       d.sensitivity)).sensitivity]

\* check_tainted_action for a class 2 action: T1 requires no more than class 2.
check_tainted_action(taint) ==
    IF taint.trust = "T0" THEN "Block"
    ELSE IF AtLeast(taint.sensitivity, "S3") THEN "Escalate"
    ELSE "Proceed"

-----------------------------------------------------------------------------
(* Gates                                                                   *)

\* G1.  well_formed: subject, value and content are not blank and the
\* confidence is a number from 0 to 1.
validate_schema(claim) ==
    /\ claim.well_formed
    /\ claim.sensitivity = "S4" => claim.handling_policy = "s4_isolated"
    /\ claim.sensitivity = "S3" => claim.handling_policy # "cloud_ok_encrypted"

\* G2: auto_confirm_eligible; every other claim is locked to tentative.
check_provenance(claim) == claim.source_type \in {"user_explicit", "user_confirmed"}

Tentative(claim) ==
    IF check_provenance(claim) THEN claim
    ELSE [claim EXCEPT !.verification_state = "tentative"]

claims_match(proposed, existing) ==
    proposed.subject = existing.subject /\ proposed.attribute = existing.attribute

\* ISO strings compare like the dates 1, 2, ...; 0 stands for no valid_from,
\* which any date succeeds and which succeeds nothing.
is_temporal_successor(proposed, existing) == proposed.valid_from > existing.valid_from

\* G3.  One older match is enough for a succession, whatever the others say.
detect_conflicts(proposed, existing) ==
    LET matches == {e \in existing : claims_match(proposed, e)} IN
    IF matches = {} THEN "NoConflict"
    ELSE IF \E e \in matches : e.user_locked THEN "InvariantViolation"
    ELSE IF \E e \in matches : is_temporal_successor(proposed, e)
      THEN "TemporalSuccession"
    ELSE "ConflictGroup"

\* resolve_approval for class 2 at authority A1: never denied.
resolve_approval(sensitivity) ==
    IF AtLeast(sensitivity, "S3") THEN "EscalatedTo" ELSE "Approved"
=============================================================================
