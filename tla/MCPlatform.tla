----------------------------- MODULE MCPlatform -----------------------------
(* Two organisations and one report at a time for the worker, three transactions over the rows, *)
(* two requests over the invitations of two e-mails, two Stripe subscriptions.                 *)
EXTENDS Platform

MCCodes ==
    {"REPEAT_FAILURE", "AGE_RATIO", "PLANNED_INVESTMENT", "COMPLIANCE_STATUS", "PER_PROPERTY",
     "PER_COMPONENT", "MODEL_TREND", "PROPERTIES_CREATED", "OUTSTANDING_DEFECTS"}
MCRules        == <<"REPEAT_FAILURE">>
MCFactors      == <<"AGE_RATIO">>
MCChecks       == <<"PROPERTIES_CREATED", "OUTSTANDING_DEFECTS">>
MCRepairRules  == <<"PER_PROPERTY", "PER_COMPONENT", "MODEL_TREND">>

\* Of a set of plans the longest, which take the others' steps.
Ends(S) == {p \in S : p # <<>> /\ (\A q \in S : Len(q) <= Len(p) \/ q = <<>>)}
Calling(asks, S) == {[asks |-> asks, plan |-> p] : p \in S \ {<<>>}}
MCCalls ==
    Calling(FALSE, {list_repair_rule_configs, get_repairs_intelligence}
                   \union Ends(list_planned_investment) \union Ends(get_portfolio_summary)
                   \union {list_rules \o get_repairs_intelligence \o Status})
    \union Calling(TRUE, {Status \o Repeats} \union Ends(TOOL_REGISTRY.component))
=============================================================================
