----------------------------- MODULE MCReview -----------------------------
(* Instances of Review for TLC. *)
EXTENDS Review

CONSTANTS r1, r2

Adapters == (r1 :> "openai") @@ (r2 :> "anthropic")
Keys == {"TARGET_LABEL", "REVIEW_INPUT", "REFERENCED_FILES"}
Pieces == {"heading", "label", "diff", "excerpt"}
Templates ==
    {<<"heading", "TARGET_LABEL", "REVIEW_INPUT", "TARGET_LABEL", "REFERENCED_FILES">>}

\* The diff of one bundle is of a prompt template.
Bundles ==
    LET Of(diff) == ("TARGET_LABEL" :> <<"label">>) @@ ("REVIEW_INPUT" :> diff)
                      @@ ("REFERENCED_FILES" :> <<>>)
    IN  ("code" :> Of(<<"diff">>)) @@ ("prompts" :> Of(<<"diff", "REFERENCED_FILES">>))
Attachments == {<<>>, <<"excerpt">>}

Configs ==
    LET Of(enrich, sink, schema) ==
            [enrich |-> enrich, sink |-> sink, schema |-> schema, template |-> CHOOSE t \in Templates : TRUE]
    IN  {Of("on", TRUE, TRUE), Of("capped", TRUE, FALSE), Of("off", FALSE, TRUE)}
Calls ==
    {[bundle |-> "code", model |-> "m"], [bundle |-> "prompts", model |-> "m"]}
CallsWithoutModel == {[bundle |-> "code", model |-> ""]}
=============================================================================
