----------------------------- MODULE MCPlanMode -----------------------------
(* Values for TLC of the constants of PlanMode.                            *)
EXTENDS PlanMode, TLC

MCTools == {"t1"}
MCSelections == {{"t1"}}

\* Points at which nothing was handed over, or just the plan that is implemented, with
\* a policy that is still to be resolved or of which nothing was lost.
MCTree ==
    {point \in Points :
        /\ point.said # {} => point.state.impl # None /\ point.said = {point.state.impl.plan}
        /\ point.state.enabled =>
              point.state.policy.allowed = (IF point.state.policy.resolved
                                            THEN point.state.policy.frozen
                                            ELSE point.state.policy.desired)}

\* Plans are exchangeable; every property is a safety property.
MCSymmetry == Permutations(Plans)
=============================================================================
