-------------------------- MODULE MCProposalReview --------------------------
(* Instances of ProposalReview for TLC.                                    *)
EXTENDS ProposalReview, TLC

DeskSymmetry == Permutations(Desks)

\* ClaimExtractor and gate G2 propose tentative claims only.
Inferred == {[verification_state |-> "tentative"]}
=============================================================================
