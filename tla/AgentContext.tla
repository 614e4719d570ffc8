---------------------------- MODULE AgentContext ----------------------------
(***************************************************************************)
(* What an agent's model gets to read (memory/short_term/, agents/): each  *)
(* of the four agents divides its token limit between its system prompt,   *)
(* the conversation, tool results and knowledge, picks the rounds of the   *)
(* conversation that fit and cuts the other sections to their share.       *)
(*                                                                         *)
(* A text is the number of its tokens.  The conversation grows by a round  *)
(* per turn; summaries take the place of older rounds and are dropped      *)
(* oldest first (module ShortTermMemory says when).                        *)
(***************************************************************************)
EXTENDS Naturals, Sequences, FiniteSets, FiniteSetsExt, Functions

CONSTANTS
  Profiles,    \* AGENT_CONTEXT_PROFILES, with the tokens of each agent's prompt
  Keep,        \* SHORT_MEMORY_KEEP_ROUNDS
  QueryRounds, \* SHORT_TERM_MEMORY_LIMIT
  MaxItems,    \* TOOL_CONTEXT_MAX_ITEMS
  MaxResult,   \* TOOL_CONTEXT_MAX_RESULT_CHARS
  Heading,     \* tokens of the heading of a history entry
  Sizes,       \* bound: tokens of a message, a result, a retrieved text
  MaxRounds,   \* bound: rounds of the conversation
  MaxCalls     \* bound: tool calls of a turn

Agents == {"knowledge", "realtime", "diagnosis", "general"}
Sections == {"rag", "tool", "agent_output"}
Rounds == 1..MaxRounds
Forms == {"absent", "messages", "summary", "forgotten"}

ProfileAssumption(p) ==
  /\ {p.inputLimit, p.prompt, p.historyMin, p.historyMax} \subseteq Nat
  /\ p.max \in [Sections -> Nat]
  /\ p.priority \in Seq(Sections) /\ IsInjective(p.priority)
ASSUME ContextAssumption ==
  /\ \A agent \in Agents : ProfileAssumption(Profiles[agent])
  /\ Keep \in Nat \ {0} /\ Heading \in Nat \ {0}
  /\ {QueryRounds, MaxItems, MaxResult, MaxRounds, MaxCalls} \subseteq Nat
  /\ Sizes \subseteq Nat

VARIABLES
  form,    \* what is left of each round
  tokens,  \* ... and how many tokens that is
  turn,    \* the round of the running turn, or 0
  tools,   \* tool_results of the turn: the tokens of each, oldest first
  call     \* what was last given to a model

contextVars == <<form, tokens, turn, tools, call>>

RoundsAs(f) == {r \in Rounds : form[r] = f}
Newest(S, n) == {r \in S : Cardinality({s \in S : s > r}) < n}
Totals(f, S, n) ==
  LET total[i \in 0..n] == IF i = 0 THEN 0 ELSE total[i - 1] + (IF i \in S THEN f[i] ELSE 0)
  IN  total
Total(f, S, n) == Totals(f, S, n)[n]
Minus(a, b) == IF a > b THEN a - b ELSE 0

NoCall == [agent |-> "none"]

ContextInit ==
  /\ form = [r \in Rounds |-> "absent"]
  /\ tokens = [r \in Rounds |-> 0]
  /\ turn = 0
  /\ tools = <<>>
  /\ call = NoCall

-----------------------------------------------------------------------------
(* AgentContextBudgetManager.allocate                                      *)

ModeShare(mode, n) == CASE mode = "compact"  -> n \div 4
                        [] mode = "standard" -> (n * 3) \div 5
                        [] mode = "extended" -> n

Available(p) == Minus(p.inputLimit, p.prompt)
HistoryFloor(p) == Min({p.historyMin, Available(p)})
HistoryCap(p, mode) == Max({p.historyMin, ModeShare(mode, p.historyMax)})

(* What is left of what is available after each of the sections, in the   *)
(* order of their priority, has taken what it wants, up to its maximum.    *)
Left(p, requested, available) ==
  LET left[i \in 0..Len(p.priority)] ==
        IF i = 0 THEN available
        ELSE Minus(left[i - 1], Min({requested[p.priority[i]], p.max[p.priority[i]]}))
  IN  left
Granted(p, left) ==
  [s \in Sections |->
     IF s \in Range(p.priority)
     THEN LET i == CHOOSE i \in DOMAIN p.priority : p.priority[i] = s IN left[i - 1] - left[i]
     ELSE 0]

Bill(p, requested, left, history, lent) ==
  LET granted == Granted(p, left)
  IN  [history   |-> history + lent,
       granted   |-> granted,
       unused    |-> left[Len(p.priority)] - lent,
       overflow  |-> Minus(p.prompt, p.inputLimit),
       shortfall |-> Minus(p.historyMin, history + lent),
       dropped   |-> [s \in Sections |-> Minus(requested[s], granted[s])]]

(* Mutant of Allocate: what the sections take is not subtracted from what  *)
(* the history is lent.                                                    *)
AllocateTwice(p, requested, mode) ==
  Bill(p, requested, Left(p, requested, Available(p) - HistoryFloor(p)), 0,
       Min({HistoryCap(p, mode), Available(p)}))

(* The history has its minimum first; what the sections leave is lent to   *)
(* it, up to the share of the mode.                                        *)
Allocate(p, requested, mode) ==
  LET floor == HistoryFloor(p)
      left  == Left(p, requested, Available(p) - floor)
  IN  Bill(p, requested, left, floor, Min({HistoryCap(p, mode) - floor, left[Len(p.priority)]}))

(* truncate_text                                                           *)
Truncate(text, limit) == Min({text, limit})

-----------------------------------------------------------------------------
(* AgentContextAssembler.build                                             *)

(* Mutant of Fitting: the oldest rounds come first.                        *)
FittingOldestFirst(S, cost, always, budget) ==
  LET used[r \in 0..MaxRounds] ==
        IF r = 0 THEN 0
        ELSE used[r - 1] + (IF r \in S /\ (r \in always \/ used[r - 1] + cost[r] <= budget)
                            THEN cost[r] ELSE 0)
  IN  {r \in S : r \in always \/ used[r - 1] + cost[r] <= budget}

(* From the newest of the rounds S to the oldest, those that fit into what *)
(* the newer ones leave of the budget, and the rounds to show always.      *)
Used(S, cost, always, budget) ==
  LET used[r \in 1..MaxRounds + 1] ==
        IF r > MaxRounds THEN 0
        ELSE used[r + 1] + (IF r \in S /\ (r \in always \/ used[r + 1] + cost[r] <= budget)
                            THEN cost[r] ELSE 0)
  IN  used
Fitting(S, cost, always, budget) ==
  {r \in S : r \in always \/ Used(S, cost, always, budget)[r + 1] + cost[r] <= budget}

EntryCost == [r \in Rounds |-> Heading + tokens[r]]

(* The last rounds that have their messages, and what there is beside.     *)
Recent == Newest(RoundsAs("messages"), Keep)
Older  == (RoundsAs("messages") \ Recent) \cup RoundsAs("summary")

(* Of the last rounds with messages those that fit, the newest in any      *)
(* case, are shown as they are; then older rounds and summaries that fit   *)
(* into the rest, as entries of a system message.                          *)
Build(agent, requested, mode) ==
  LET bill    == Allocate(Profiles[agent], requested, mode)
      shown   == Fitting(Recent, tokens, Newest(Recent, 1), bill.history)
      rest    == Minus(bill.history, Total(tokens, shown, MaxRounds))
      entries == Fitting(Older, EntryCost, {}, rest)
  IN  [agent   |-> agent, bill |-> bill, shown |-> shown, entries |-> entries,
       history |-> Total(tokens, shown, MaxRounds) + Total(EntryCost, entries, MaxRounds)]

Request(rag, tool) == [s \in Sections |-> CASE s = "rag" -> rag [] s = "tool" -> tool [] OTHER -> 0]

(* ToolContextBuilder: the last records, each cut to its own limit.        *)
ToolText == LET last == Newest(DOMAIN tools, MaxItems)
            IN  Total([i \in last |-> Min({tools[i], MaxResult})], last, Len(tools))

-----------------------------------------------------------------------------
(* The agents, called by the steps of the turn's plan.                     *)

(* What a model reads: its prompt, the texts granted, the history, and     *)
(* what is put in beside the budget.                                       *)
CallModel(build, rag, tool, beside, past) ==
  /\ turn # 0
  /\ call' = [agent |-> build.agent, build |-> build, beside |-> beside, past |-> past,
              rag  |-> Truncate(rag, build.bill.granted["rag"]),
              tool |-> Truncate(tool, build.bill.granted["tool"])]

(* A refusal or a help text is answered without a model.                   *)
General ==
  /\ CallModel(Build("general", Request(0, 0), "standard"), 0, 0, 0, {})
  /\ UNCHANGED <<form, tokens, turn, tools>>

(* The rounds before this one go into the query; nothing retrieved is      *)
(* answered without a model.                                               *)
Knowledge(text) ==
  /\ CallModel(Build("knowledge", Request(text, 0), "standard"), text, 0, 0,
               Newest(RoundsAs("messages") \ {turn}, QueryRounds))
  /\ UNCHANGED <<form, tokens, turn, tools>>

(* Room is asked for what tools will return as well, although only what    *)
(* they have returned is cut to it.  The model's own tool calls, or the    *)
(* one call made without the model, add to the blackboard.                 *)
Realtime(results) ==
  /\ Len(tools \o results) <= MaxCalls
  /\ CallModel(Build("realtime", Request(0, Max({ToolText, Profiles["realtime"].max["tool"]})),
                     "standard"), 0, ToolText, 0, {})
  /\ tools' = tools \o results
  /\ UNCHANGED <<form, tokens, turn>>

(* agents_output, from which the answer of the knowledge agent is read,    *)
(* is emptied by each turn and written by no step.  Results of the steps   *)
(* before are put in whole.                                                *)
KnowledgeText == 0
Diagnosis(results) ==
  /\ CallModel(Build("diagnosis", Request(KnowledgeText, ToolText),
                     IF ToolText + KnowledgeText > 0 THEN "extended" ELSE "standard"),
               KnowledgeText, ToolText, results, {})
  /\ UNCHANGED <<form, tokens, turn, tools>>

-----------------------------------------------------------------------------
(* The conversation.                                                       *)

OpenRound(question) ==
  /\ turn = 0
  /\ RoundsAs("absent") # {}
  /\ turn' = Min(RoundsAs("absent"))
  /\ form' = [form EXCEPT ![turn'] = "messages"]
  /\ tokens' = [tokens EXCEPT ![turn'] = question]
  /\ tools' = <<>>
  /\ UNCHANGED call

(* A turn that fails leaves the question without an answer.                *)
CloseRound(answer) ==
  /\ turn # 0
  /\ tokens' = [tokens EXCEPT ![turn] = @ + answer]
  /\ turn' = 0
  /\ tools' = <<>>
  /\ call' = NoCall
  /\ UNCHANGED form

(* The result of a compression job: a summary instead of the messages.     *)
Compressed(r, summary) ==
  /\ turn = 0
  /\ r \in RoundsAs("messages") \ Newest(RoundsAs("messages"), Keep)
  /\ form' = [form EXCEPT ![r] = "summary"]
  /\ tokens' = [tokens EXCEPT ![r] = summary]
  /\ UNCHANGED <<turn, tools, call>>

Pruned ==
  /\ turn = 0
  /\ RoundsAs("summary") # {}
  /\ form' = [form EXCEPT ![Min(RoundsAs("summary"))] = "forgotten"]
  /\ tokens' = [tokens EXCEPT ![Min(RoundsAs("summary"))] = 0]
  /\ UNCHANGED <<turn, tools, call>>

ContextNext ==
  \/ General
  \/ \E n \in Sizes : Knowledge(n) \/ Realtime(<<n>>) \/ OpenRound(n)
  \/ Realtime(<<>>)
  \/ \E n \in Sizes \cup {0} : Diagnosis(n) \/ CloseRound(n)
  \/ \E r \in Rounds, n \in Sizes : Compressed(r, n)
  \/ Pruned

ContextSpec == ContextInit /\ [][ContextNext]_contextVars

-----------------------------------------------------------------------------
(* Properties.                                                             *)

(* Prompt, granted texts and history never exceed the agent's limit, in    *)
(* whatever order sections and rounds compete for it, unless the prompt    *)
(* alone does; the one exception is a question that alone exceeds the      *)
(* share of the history, which is then all of the conversation shown.      *)
PromptsStayWithinTheirLimit ==
  call # NoCall /\ call.build.bill.overflow = 0 =>
    LET p == Profiles[call.agent]
        b == call.build
    IN  \/ p.prompt + call.rag + call.tool + b.history <= p.inputLimit
        \/ b.shown = {turn} /\ b.entries = {} /\ tokens[turn] > b.bill.history

(* What there is goes by priority.  The question is always shown; the      *)
(* newest round left out of the recent ones does not fit beside those      *)
(* shown that are newer, nor the newest left out of the older ones beside  *)
(* the newer entries.  No section is cut below its maximum while history   *)
(* has more than its minimum or something is unused, or for a section of   *)
(* lower priority.                                                         *)
NewestLeftOutDoesNotFit(S, taken, cost, budget) ==
  \A r \in S \ taken :
    (\A s \in S \ taken : s <= r) =>
      Total(cost, {s \in taken : s > r}, MaxRounds) + cost[r] > budget

RoomGoesByPriority ==
  call # NoCall =>
    LET p == Profiles[call.agent]
        b == call.build
        rest == Minus(b.bill.history, Total(tokens, b.shown, MaxRounds))
        cut == {s \in Range(p.priority) :
                  /\ b.bill.dropped[s] > 0
                  /\ b.bill.granted[s] < p.max[s]}
    IN  /\ turn \in b.shown
        /\ NewestLeftOutDoesNotFit(Recent, b.shown, tokens, b.bill.history)
        /\ NewestLeftOutDoesNotFit(Older, b.entries, EntryCost, rest)
        /\ cut # {} => b.bill.unused = 0 /\ b.bill.history = HistoryFloor(p)
        /\ \A i, j \in 1..Len(p.priority) :
             i < j /\ p.priority[i] \in cut => b.bill.granted[p.priority[j]] = 0

(* Older rounds are put in, the newest first, until one exceeds the budget *)
(* (agent_context_assembler.py:161-163): none is older than one left out.  *)
FillingStopsAtFirstMisfit ==
  call # NoCall =>
    \A e \in call.build.entries, r \in Older \ call.build.entries : r < e
=============================================================================
