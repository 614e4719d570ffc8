---------------------------- MODULE MCServices ----------------------------
(***************************************************************************)
(* The parts of the program around releases, plans and accounts that share *)
(* no state with one another: reading knowledge, what an agent's model     *)
(* reads, the evaluation of retrieval and of agents, long-term memory, the *)
(* limiter of logins.                                                      *)
(* A behaviour is one of the part chosen at its start.                     *)
(***************************************************************************)
EXTENDS KnowledgeReads, AgentContext, RagEvaluation, AgentEvaluation, LongTermMemory,
        LoginRateLimiter, TLC

VARIABLE part

(* Few tokens, but limits that bind in each agent in a way of its own.     *)
Profile(limit, least, most, rag, tool, priority) ==
  [inputLimit |-> limit, prompt |-> 1, historyMin |-> least, historyMax |-> most,
   max |-> [s \in {"rag", "tool", "agent_output"} |->
              CASE s = "rag" -> rag [] s = "tool" -> tool [] OTHER -> 0],
   priority |-> priority]
MCProfiles ==
  [knowledge |-> Profile(10, 2, 6, 4, 1, <<"rag", "tool">>),
   realtime  |-> Profile(8, 3, 8, 1, 3, <<"tool", "rag">>),
   diagnosis |-> Profile(9, 3, 8, 3, 4, <<"tool", "rag">>),
   general   |-> Profile(8, 2, 10, 0, 0, <<>>)]

(* Two samples at a time, a refusal, a case with tools, an id used twice;  *)
(* an answer with its sources, one of another release, a failed search.    *)
RagCase(id, scope, unanswerable, docs, evidence) ==
  [id |-> id, scope |-> scope, unanswerable |-> unanswerable, docs |-> docs, evidence |-> evidence]
Lookup == RagCase("q1", "rag_e2e", FALSE, {"d1"}, {"fact"})
MCGoldens ==
  {<<Lookup, RagCase("q2", "rag_retrieval", FALSE, {"d2"}, {"fact"}),
     RagCase("q3", "agent_tool_e2e", FALSE, {}, {"fact"})>>,
   <<Lookup, RagCase("q2", "rag_e2e", TRUE, {}, {})>>,
   <<Lookup, Lookup>>}
Response(docs, answer, chunks, build) ==
  [docs |-> docs, answer |-> answer, chunks |-> chunks, build |-> build]
MCResponses ==
  {Response(<<"d1", "d2">>, {"fact"}, <<"c1", "c2">>, "old"),
   Response(<<"d1">>, {}, <<"c3">>, "new"),
   Response(<<>>, {"refusal"}, <<>>, None)}
MCChunksOf == [old |-> {"c1", "c2"}]

(* Calls that can be paired in several ways, a refusal, a dependency, a    *)
(* forbidden agent; traces that fit each of them, or hold less.            *)
Call(arguments) == [name |-> "alarms", arguments |-> arguments]
Wanted(arguments, least) ==
  [name |-> "alarms", arguments |-> arguments, min_calls |-> least, max_calls |-> 2]
Expectation(category, agents, calls, dependencies, forbidden, markers) ==
  [category |-> category, critical |-> category = "knowledge", agents |-> agents,
   tools |-> calls, plan |-> dependencies # None, dependencies |-> dependencies,
   forbidden |-> forbidden, markers |-> markers, reference |-> TRUE]
MCExpectations ==
  {Expectation("knowledge", {"knowledge"}, None, None, None, {}),
   Expectation("realtime_alarm", {"realtime"},
               <<Wanted({"line"}, 2), Wanted({"line"}, 2)>>, None, {"general"}, {}),
   Expectation("realtime_alarm", {"realtime"},
               <<Wanted({}, 2), Wanted({"line"}, 1)>>, None, None, {}),
   Expectation("safety_refusal", {"general"}, None, None, {"realtime"}, {"refuse"}),
   Expectation("tool_failure", {"realtime"}, <<>>, None, None, {}),
   Expectation("diagnosis", {"knowledge", "diagnosis"}, None,
               {<<"knowledge", "diagnosis">>}, None, {})}
Evidence(status, answer, agents, plan, calls) ==
  [status |-> status, answer |-> answer, agents |-> agents, plan |-> plan, tools |-> calls]
MCEvidences ==
  {Evidence("completed", {"text"}, {"knowledge"}, {}, <<>>),
   Evidence("completed", {"text"}, {"realtime"}, {}, <<Call({"line"}), Call({"line"})>>),
   Evidence("completed", {"text"}, {"realtime"}, {}, <<Call({"line"}), Call({})>>),
   Evidence("completed", {"text"}, {"realtime"}, None, None),
   Evidence("completed", {"text", "refuse"}, {"general"}, {}, <<>>),
   Evidence("completed", {"text", "refuse"}, {"general", "realtime"}, {}, <<>>),
   Evidence("degraded", {}, {"knowledge"}, {}, None),
   Evidence("completed", {"text"}, {"knowledge", "diagnosis"}, {<<"knowledge", "diagnosis">>}, <<>>)}
Scores(relevance, accuracy, faithfulness) ==
  [answer_relevance |-> relevance, answer_accuracy |-> accuracy, faithfulness |-> faithfulness]
MCJudgements == {Scores(10000, 9000, 10000), Scores(8000, 10000, None)}

servicesVars == <<vars, part, contextVars, ragVars, agentVars, memoryVars, limiterVars>>

ServicesInit ==
  /\ part \in {"reads", "context", "rag", "agents", "memory", "logins"}
  /\ Init /\ ContextInit /\ RagInit /\ AgentInit /\ MemoryInit /\ LimiterInit

ServicesNext ==
  \/ part = "reads" /\ Next
     /\ UNCHANGED <<part, contextVars, ragVars, agentVars, memoryVars, limiterVars>>
  \/ part = "context" /\ ContextNext
     /\ UNCHANGED <<vars, part, ragVars, agentVars, memoryVars, limiterVars>>
  \/ part = "rag" /\ RagNext
     /\ UNCHANGED <<vars, part, contextVars, agentVars, memoryVars, limiterVars>>
  \/ part = "agents" /\ AgentNext
     /\ UNCHANGED <<vars, part, contextVars, ragVars, memoryVars, limiterVars>>
  \/ part = "memory" /\ MemoryNext
     /\ UNCHANGED <<vars, part, contextVars, ragVars, agentVars, limiterVars>>
  \/ part = "logins" /\ LimiterNext
     /\ UNCHANGED <<vars, part, contextVars, ragVars, agentVars, memoryVars>>

ServicesSpec == ServicesInit /\ [][ServicesNext]_servicesVars

(* Threads, builds, run ids, users, names, addresses, turns and categories *)
(* differ in nothing but their names; the parts share all but the last, so *)
(* that three swaps stand for all.                                         *)
Symmetry == Permutations(Clients) \cup Permutations(Builds) \cup Permutations(Categories)

===========================================================================
