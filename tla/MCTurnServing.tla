--------------------------- MODULE MCTurnServing ---------------------------
(* Instances of TurnServing for TLC.                                       *)
EXTENDS TurnServing

Plain == [sensitivity |-> "S1", allow_s3_cloud_fallback |-> FALSE,
          preferred |-> "none", private_project |-> FALSE, stream |-> TRUE,
          question |-> FALSE, override |-> FALSE,
          allow_s3_live_web |-> FALSE, live_web |-> "off"]

Consented == [Plain EXCEPT !.allow_s3_cloud_fallback = TRUE, !.stream = FALSE,
                           !.live_web = "provider_native_first"]

\* A streamed statement, a financial statement with a search and one that does
\* not allow it, an intimate question, and claims sent by the client.
MixedInputs ==
    {Plain, [Plain EXCEPT !.override = TRUE, !.live_web = "connector_only"],
     [Consented EXCEPT !.sensitivity = "S3", !.preferred = "deepseek",
                       !.allow_s3_live_web = TRUE],
     [Consented EXCEPT !.sensitivity = "S3"],
     [Consented EXCEPT !.sensitivity = "S4", !.preferred = "ollama",
                       !.question = TRUE]}

\* A harmless statement inside a private workspace.
ProjectInputs == {[Plain EXCEPT !.private_project = TRUE]}
=============================================================================
