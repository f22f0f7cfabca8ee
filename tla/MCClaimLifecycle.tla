-------------------------- MODULE MCClaimLifecycle --------------------------
(* Instances of ClaimLifecycle for TLC.                                    *)
EXTENDS ClaimLifecycle, TLC

\* Sessions are interchangeable.
SessionSymmetry == Permutations(Sessions)

Row0 == [verification_state |-> "tentative", superseded |-> FALSE,
         user_locked |-> FALSE, decay_eligible |-> TRUE,
         lifecycle |-> "temporary", sensitivity |-> "S1",
         handling_policy |-> "cloud_ok_encrypted", confidence |-> 1,
         updated_at |-> 0]

\* One claim that fades out, one whose end may have come or not, as that of a
\* session has, and one that was extracted as locked.
AgeingClaims == {[Row0 EXCEPT !.lifecycle = l] : l \in {"temporary", "expiry"}}
                  \union {[Row0 EXCEPT !.user_locked = TRUE, !.decay_eligible = FALSE]}
=============================================================================
