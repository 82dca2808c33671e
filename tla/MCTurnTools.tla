---------------------------- MODULE MCTurnTools ----------------------------
EXTENDS TurnTools

\* The default policy, one that lets a follow-up call a tool, follow-ups turned
\* off, a loop without an orchestrator.
ThePolicies ==
    LET P(c, e, a, s) == [configured |-> c, enabled |-> e, allowCalls |-> a,
                          maxCalls |-> 1, allowed |-> s]
    IN  {P(TRUE, TRUE, FALSE, {}), P(TRUE, TRUE, TRUE, {"lookup"}),
         P(TRUE, FALSE, FALSE, {}), P(FALSE, TRUE, FALSE, {})}
=============================================================================
