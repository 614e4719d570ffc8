-------------------------- MODULE MCPlanExecution --------------------------
EXTENDS PlanExecution

(* Three steps in the order a, b, c with dependencies on earlier and later *)
(* steps, in circles of one, two and three; and plans that break the other *)
(* rules.                                                                  *)
MCIds == {"a", "b", "c"}
Agent == [i \in MCIds |-> IF i = "a" THEN "realtime_agent" ELSE "general_agent"]
DepsA == {<<>>, <<"a">>, <<"b">>}
DepsB == {<<>>, <<"a">>, <<"c">>}
DepsC == {<<>>, <<"a">>, <<"a", "b">>}
Step(i, D) == [id |-> i, agent |-> Agent[i], deps |-> D]
MCPlans ==
  {<<Step("a", x), Step("b", y), Step("c", z)>> : x \in DepsA, y \in DepsB, z \in DepsC}
    \cup {<<>>,
          <<Step("a", <<"d">>), Step("b", <<"a">>)>>,
          <<Step("a", <<>>), Step("a", <<"b">>), Step("b", <<"a">>)>>,
          <<Step("b", <<>>), [id |-> "c", agent |-> "planner", deps |-> <<>>]>>,
          <<Step("a", <<>>), Step("b", <<>>), Step("c", <<>>), Step("c", <<>>)>>}
============================================================================
