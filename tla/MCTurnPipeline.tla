--------------------------- MODULE MCTurnPipeline ---------------------------
(* Instances of TurnPipeline for TLC.                                      *)
EXTENDS TurnPipeline, TLC

\* "Ich wohne in ...", said by the user on day 2.
Explicit == [subject |-> "owner", attribute |-> "city", well_formed |-> TRUE,
             sensitivity |-> "S1", handling_policy |-> "cloud_ok_encrypted",
             trust_level |-> "T3", source_type |-> "user_explicit",
             source_ref |-> "turn", verification_state |-> "tentative",
             user_locked |-> FALSE, lifecycle |-> "temporary", valid_from |-> 2]

Inferred  == [Explicit EXCEPT !.source_type = "model_inferred", !.trust_level = "T1"]
OtherFact == [Explicit EXCEPT !.attribute = "job"]
Undated   == [Explicit EXCEPT !.valid_from = 0, !.source_ref = "none"]
Connector == [Undated EXCEPT !.source_type = "connector_data", !.trust_level = "T0"]
Blank     == [Explicit EXCEPT !.well_formed = FALSE]
Health    == [OtherFact EXCEPT !.sensitivity = "S2"]
Private   == [OtherFact EXCEPT !.sensitivity = "S3", !.handling_policy = "local_only"]
Intimate  == [OtherFact EXCEPT !.sensitivity = "S4", !.handling_policy = "s4_isolated"]

Cloud == [local |-> FALSE, encrypted |-> TRUE, intent |-> "general_turn",
          allow_s3_cloud_fallback |-> FALSE, chat |-> TRUE,
          answer |-> TRUE, claims |-> << >>]
Ollama == [Cloud EXCEPT !.local = TRUE, !.encrypted = FALSE]
Silent == [Ollama EXCEPT !.answer = FALSE]
Override == [Cloud EXCEPT !.local = TRUE, !.chat = FALSE]

\* The first turn is one of six, the second repeats a plain fact.
MixedInputs ==
    << {[Cloud EXCEPT !.claims = <<Inferred, OtherFact>>],
        [Cloud EXCEPT !.claims = <<Explicit, Private>>, !.chat = FALSE],
        [Override EXCEPT !.claims = <<Private, Explicit>>],
        [Silent EXCEPT !.claims = <<Health, Blank>>],
        [Override EXCEPT !.claims = <<Intimate, Undated>>],
        [Override EXCEPT !.claims = <<Connector, Undated>>]},
       {[Cloud EXCEPT !.claims = <<Explicit>>, !.chat = FALSE]} >>

\* A claim the user typed in on day 1 and locked, and one that was superseded
\* by another writer nevertheless.
Typed == [Undated EXCEPT !.valid_from = 1]

Locked == [Typed EXCEPT !.user_locked = TRUE]

SomeTables ==
    {<<Locked>>, <<[Locked EXCEPT !.verification_state = "superseded"]>>}

Facts == {Explicit, Inferred, OtherFact, Undated, Connector, Blank, Health,
          Private, Intimate, Typed}

ClaimDataSet ==
    {[f EXCEPT !.source_ref = r, !.user_locked = l, !.lifecycle = y,
               !.verification_state = v] :
        f \in Facts, r \in {"none", "turn"}, l \in BOOLEAN,
        y \in {"temporary", "archived"}, v \in {"tentative", "confirmed", "superseded", "retracted"}}
=============================================================================
