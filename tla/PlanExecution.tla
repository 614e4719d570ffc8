--------------------------- MODULE PlanExecution ---------------------------
(***************************************************************************)
(* One turn of the graph (graph.py, planning/, agent_service.py): a plan   *)
(* is made and validated, its steps run in waves, each step in attempts    *)
(* that may time out, the results are aggregated, the trace is closed and  *)
(* summed up.  The steps of a wave run in parallel; the aggregation waits  *)
(* for all of them.  A thread whose attempt timed out goes on by itself.   *)
(* The nodes of the memory have a module of their own (ShortTermMemory).   *)
(***************************************************************************)
EXTENDS TraceRecorder

CONSTANTS
  Ids,            \* names of steps
  AllowedAgents,  \* PLANNING_ALLOWED_AGENTS
  Realtime,       \* the agent whose tool may fail softly
  Plans,          \* plans the planner answers: sequences of [id, agent, deps]
  MaxSteps,       \* PLANNING_MAX_STEPS
  MaxAttempts,    \* PLANNING_DEFAULT_MAX_ATTEMPTS
  MaxLate         \* bound: abandoned threads at a time

ASSUME PlanAssumption ==
  /\ MaxSteps \in Nat /\ MaxAttempts \in Nat \ {0} /\ MaxLate \in Nat
  /\ \A p \in Plans : p \in Seq([id : Ids, agent : STRING, deps : Seq(STRING)])
  /\ "aggregate" \notin Ids    \* spans of steps are not those of aggregations

VARIABLES
  pc,       \* the node that runs next
  plan,     \* execution_plan.steps
  status,   \* planning_status
  answered, \* final_answer is not blank
  results,  \* plan_results: status and attempt of the steps that have ended
  wave,     \* the steps sent to workers and still at work
  tries,    \* attempts begun, of each step
  late,     \* threads abandoned and still running
  aggSpan,  \* aggregate_span_id, which a turn inherits from the checkpoint
  summary   \* trace_summary

planVars == <<plan, status, answered, results, aggSpan>>
workVars == <<wave, tries, late>>
vars == <<pc, planVars, workVars, summary, traceVars>>

NoSpan  == <<"none", 0>>
Earlier == <<"earlier turn", 0>>
NoSummary == [made |-> FALSE, degraded |-> FALSE, span |-> NoSpan]

StepSpan(i)   == <<i, tries[i]>>
AggregateSpan == <<"aggregate", Cardinality(DOMAIN results)>>

Init ==
  /\ pc = "entry_router"
  /\ plan = <<>> /\ status = "" /\ answered = FALSE /\ results = <<>>
  /\ wave = {} /\ tries = [i \in Ids |-> 0] /\ late = {}
  /\ aggSpan \in {NoSpan, Earlier}
  /\ summary = NoSummary
  /\ TraceInit

-----------------------------------------------------------------------------
(* validate_plan.  has_cycle looks depth-first along the dependencies with *)
(* the steps on its path and those it has finished with; Search is that    *)
(* walk over a list of names.  A name that stands twice has the            *)
(* dependencies of its last step.                                          *)
Elements(s) == {s[n] : n \in DOMAIN s}
StepIds(p)  == {p[n].id : n \in DOMAIN p}
DepsOf(p, i) ==
  LET At == {n \in DOMAIN p : p[n].id = i}
  IN  IF At = {} THEN <<>> ELSE p[CHOOSE n \in At : \A k \in At : k <= n].deps

(* Mutants of HasCycle: it sees only steps that wait for themselves; it     *)
(* looks only below the first step.                                        *)
HasLoop(p) == \E n \in DOMAIN p : p[n].id \in Elements(p[n].deps)
HasCycleAtFirst(p) ==
  p # <<>> /\ \E n \in DOMAIN p : p[n].id \in Elements(p[1].deps) /\ p[1].id \in Elements(p[n].deps)

Names(p) == StepIds(p) \cup UNION {Elements(p[n].deps) : n \in DOMAIN p}
Walks(p) == [todo : Seq(Names(p)), path : SUBSET Names(p), seen : SUBSET Names(p)]

Below(p, a)    == [todo |-> DepsOf(p, Head(a.todo)), path |-> a.path \cup {Head(a.todo)}, seen |-> a.seen]
Beside(a, seen) == [todo |-> Tail(a.todo), path |-> a.path, seen |-> seen]

Search(p) ==
  LET dfs[a \in Walks(p)] ==
        IF a.todo = <<>> THEN [cycle |-> FALSE, seen |-> a.seen]
        ELSE IF Head(a.todo) \in a.path THEN [cycle |-> TRUE, seen |-> a.seen]
        ELSE IF Head(a.todo) \in a.seen THEN dfs[Beside(a, a.seen)]
        ELSE IF dfs[Below(p, a)].cycle THEN dfs[Below(p, a)]
        ELSE dfs[Beside(a, dfs[Below(p, a)].seen \cup {Head(a.todo)})]
  IN  dfs
HasCycle(p) == Search(p)[[todo |-> [n \in DOMAIN p |-> p[n].id], path |-> {}, seen |-> {}]].cycle

Valid(p) ==
  /\ Len(p) \in 1..MaxSteps
  /\ Cardinality(StepIds(p)) = Len(p)
  /\ \A n \in DOMAIN p : p[n].agent \in AllowedAgents /\ Elements(p[n].deps) \subseteq StepIds(p)
  /\ ~HasCycle(p)

-----------------------------------------------------------------------------
(* The nodes that make a plan, and the answer from memory without one.     *)
MakePlan(p) ==
  /\ pc = "entry_router"
  /\ plan' = p /\ status' = "planning" /\ pc' = "plan_validator"
  /\ UNCHANGED <<answered, results, aggSpan, workVars, summary, traceVars>>

AnswerWithoutPlan ==
  /\ pc = "entry_router"
  /\ status' \in {"", "failed"}    \* memory_recall_node, or an answer that is no plan
  /\ answered' = TRUE /\ pc' = "trace_finalize"
  /\ UNCHANGED <<plan, results, aggSpan, workVars, summary, traceVars>>

ValidatePlan ==
  /\ pc = "plan_validator"
  /\ \/ /\ Valid(plan)
        /\ status' = "validated" /\ pc' = "scheduler" /\ answered' = answered
     \/ /\ ~Valid(plan)
        /\ status' = "failed" /\ pc' = "trace_finalize" /\ answered' = TRUE
  /\ UNCHANGED <<plan, results, aggSpan, workVars, summary, traceVars>>

(* get_ready_steps, route_ready_steps.                                     *)
Usable == {i \in DOMAIN results : results[i].status \in {"success", "degraded"}}
(* Mutant of Ready: one dependency is enough.                              *)
ReadyWithOne ==
  {i \in StepIds(plan) \ DOMAIN results :
     DepsOf(plan, i) = <<>> \/ Elements(DepsOf(plan, i)) \cap Usable # {}}

Ready ==
  {i \in StepIds(plan) \ DOMAIN results : Elements(DepsOf(plan, i)) \subseteq Usable}

Schedule ==
  /\ pc = "scheduler"
  /\ wave' = Ready
  /\ pc' = IF Ready = {} THEN "aggregate" ELSE "workers"
  /\ UNCHANGED <<planVars, tries, late, summary, traceVars>>

-----------------------------------------------------------------------------
(* planning_worker_node: an attempt opens its span and starts a thread.    *)
Running(i) == StepSpan(i) \in spans.open
AgentOf(i) == plan[CHOOSE n \in DOMAIN plan : plan[n].id = i].agent
Result(i, st) == [j \in DOMAIN results \cup {i} |->
                    IF j = i THEN [status |-> st, attempt |-> tries[i]] ELSE results[j]]

StartAttempt(i) ==
  /\ pc = "workers" /\ i \in wave /\ ~Running(i)
  /\ tries' = [tries EXCEPT ![i] = @ + 1]
  /\ OpenSpan(<<i, tries[i] + 1>>)
  /\ UNCHANGED <<pc, planVars, wave, late, summary, rows, rec>>

(* The agent returns in time.                                              *)
AgentReturns(i, st, w) ==
  /\ pc = "workers" /\ i \in wave /\ Running(i)
  /\ st = "degraded" => AgentOf(i) = Realtime
  /\ CloseSpan(StepSpan(i), st, w)
  /\ results' = Result(i, st)
  /\ wave' = wave \ {i}
  /\ UNCHANGED <<pc, plan, status, answered, aggSpan, tries, late, summary>>

(* It raises, or is given up at the timeout: the next attempt, or the      *)
(* result of the step.                                                     *)
AttemptFails(i, timedOut, w) ==
  /\ pc = "workers" /\ i \in wave /\ Running(i)
  /\ late' = IF timedOut THEN late \cup {StepSpan(i)} ELSE late
  /\ Cardinality(late') <= MaxLate
  /\ CloseSpan(StepSpan(i), "failed", w)
  /\ \/ /\ tries[i] < MaxAttempts
        /\ UNCHANGED <<results, wave>>
     \/ /\ tries[i] >= MaxAttempts
        /\ results' = Result(i, "failed")
        /\ wave' = wave \ {i}
  /\ UNCHANGED <<pc, plan, status, answered, aggSpan, tries, summary>>

(* Mutant of LateReturn: the late result is taken.                         *)
LateReturnTaken(t) ==
  /\ t \in late
  /\ late' = late \ {t}
  /\ results' = [j \in DOMAIN results \cup {t[1]} |->
                  IF j = t[1] THEN [status |-> "success", attempt |-> t[2]] ELSE results[j]]
  /\ UNCHANGED <<pc, plan, status, answered, aggSpan, wave, tries, summary, traceVars>>

(* What an abandoned thread returns is nobody's.                           *)
LateReturn(t) ==
  /\ t \in late
  /\ late' = late \ {t}
  /\ UNCHANGED <<pc, planVars, wave, tries, summary, traceVars>>

WaveEnds ==
  /\ pc = "workers" /\ wave = {}
  /\ pc' = "aggregate"
  /\ UNCHANGED <<planVars, workVars, summary, traceVars>>

(* planning_aggregate_node within its span, and the edge after it.         *)
AggregateStatus ==
  IF \E i \in DOMAIN results : results[i].status = "failed" THEN "failed"
  ELSE IF StepIds(plan) \subseteq DOMAIN results THEN "completed" ELSE "running"

Aggregate(w) ==
  /\ pc = "aggregate"
  /\ status' = AggregateStatus
  /\ answered' = (answered \/ status' # "running")
  /\ pc' = IF status' = "running" THEN "scheduler" ELSE "trace_finalize"
  /\ Recorded(AggregateSpan, status', w)
  /\ aggSpan' = AggregateSpan
  /\ UNCHANGED <<plan, results, workVars, summary>>

-----------------------------------------------------------------------------
(* _critical_path_latency_ms: the steps in the order of the plan, each on  *)
(* top of those of its dependencies it has met by then.  A step lasts as   *)
(* long as the attempts it took.                                           *)
Duration(i) == IF i \in DOMAIN results THEN results[i].attempt ELSE 0
Largest(S)  == CHOOSE x \in S \cup {0} : \A y \in S : y <= x

(* Mutant of CriticalPath: the longest step alone.                         *)
LongestStep == Largest({Duration(i) : i \in StepIds(plan)})

OnTop(s, before) ==
  LET met == {before[d] : d \in Elements(s.deps) \cap DOMAIN before}
  IN  [i \in DOMAIN before \cup {s.id} |->
         IF i = s.id THEN Largest(met) + Duration(i) ELSE before[i]]
Cumulative ==
  LET latency[n \in 0..Len(plan)] ==
        IF n = 0 THEN <<>> ELSE OnTop(plan[n], latency[n - 1])
  IN  latency
CriticalPath == Largest(Elements(Cumulative[Len(plan)]))

(* trace_finalize_node: the trace is finished, then the summary written to *)
(* a file, the file's name to the aggregate's row, the summary to the      *)
(* trace's row.  A file that cannot be written leaves only an error.       *)
TerminalStatus == IF status # "" THEN status ELSE "completed"

Finalize(w, file, artifact, update) ==
  /\ pc = "trace_finalize"
  /\ rec.faults + Fault(w) + Fault(artifact) + Fault(update) <= Faults
  /\ FinishTrace(TerminalStatus, w)
  /\ LET kept == /\ Persists(w) /\ update = "ok"
                 /\ aggSpan # NoSpan => SpanArtifactKept(aggSpan, Persists(w), artifact)
     IN  summary' = IF file THEN [made |-> TRUE, degraded |-> ~kept, span |-> aggSpan]
                    ELSE NoSummary
  /\ pc' = "end"
  /\ UNCHANGED <<planVars, workVars, spans>>

(* _run_graph: the answer is handed back, or the node or the checkpoint    *)
(* raised and the trace is finished here, if it was not before.            *)
Answer ==
  /\ pc = "end" /\ answered
  /\ pc' = "answered"
  /\ UNCHANGED <<planVars, workVars, summary, traceVars>>

Fail(w) ==
  /\ pc \notin {"answered", "raised"} /\ wave = {}
  /\ FinishTrace("failed", w)
  /\ pc' = "raised"
  /\ UNCHANGED <<planVars, workVars, summary, spans>>

-----------------------------------------------------------------------------
Graph ==
  \/ \E p \in Plans : MakePlan(p)
  \/ AnswerWithoutPlan \/ ValidatePlan \/ Schedule \/ WaveEnds
  \/ \E i \in Ids :
       \/ StartAttempt(i)
       \/ \E w \in Outcomes :
            \/ \E st \in {"success", "degraded"} : AgentReturns(i, st, w)
            \/ \E timedOut \in BOOLEAN : AttemptFails(i, timedOut, w)
  \/ \E w \in Outcomes : Aggregate(w)
  \/ \E w, artifact, update \in Outcomes, file \in BOOLEAN : Finalize(w, file, artifact, update)
  \/ Answer

Next == Graph \/ (\E w \in Outcomes : Fail(w)) \/ (\E t \in late : LateReturn(t))

(* The graph goes on as long as its process does: every call of an agent   *)
(* returns, raises or times out.                                           *)
Spec == Init /\ [][Next]_vars
FairSpec == Spec /\ WF_vars(Graph)

-----------------------------------------------------------------------------
(* The types of the variables.                                             *)
Spans == (Ids \X (1..MaxAttempts)) \cup {<<"aggregate", n>> : n \in 0..MaxSteps}
SpanStatus == {"success", "degraded", "failed", "completed", "running"}

TypeOK ==
  /\ plan \in Plans \cup {<<>>}
  /\ status \in {"", "planning", "validated", "running", "completed", "failed"}
  /\ DOMAIN results \subseteq Ids
  /\ \A i \in DOMAIN results :
       results[i] \in [status : {"success", "degraded", "failed"}, attempt : 1..MaxAttempts]
  /\ wave \subseteq Ids /\ tries \in [Ids -> 0..MaxAttempts]
  /\ late \subseteq Ids \X (1..MaxAttempts)
  /\ aggSpan \in {NoSpan, Earlier} \cup Spans
  /\ spans \in [open : SUBSET Spans, closed : SUBSET (Spans \X SpanStatus), known : SUBSET Spans]
  /\ rec.faults \in 0..Faults

(* The validator lets a plan pass exactly if its steps can be put in an    *)
(* order in which every step comes after what it depends on, whatever      *)
(* order the plan lists them in (validator.py:41-66).                      *)
Orderable(p) ==
  /\ Cardinality(StepIds(p)) = Len(p)
  /\ \E rank \in [StepIds(p) -> DOMAIN p] :
       \A n \in DOMAIN p : \A d \in Elements(p[n].deps) :
         d \in StepIds(p) /\ rank[d] < rank[p[n].id]
ValidPlansAreOrderable ==
  pc = "plan_validator" /\ Len(plan) \in 1..MaxSteps
    /\ (\A n \in DOMAIN plan : plan[n].agent \in AllowedAgents)
    => (Valid(plan) <=> Orderable(plan))

(* No step is at work or has ended before all it depends on has ended well *)
(* (scheduler.py:68-133), nor twice: an abandoned attempt apart, a step    *)
(* has one attempt open at a time.                                         *)
DependenciesFirst ==
  \A i \in wave \cup DOMAIN results :
    /\ Elements(DepsOf(plan, i)) \subseteq Usable
    /\ Cardinality({s \in spans.open : s[1] = i}) <= 1

(* A result, once recorded, is the step's result: neither a late thread    *)
(* nor a later wave replaces it (worker_node.py:26-41).                    *)
ResultsAreFinal ==
  [][\A i \in DOMAIN results : i \in DOMAIN results' /\ results'[i] = results[i]]_vars

(* A plan that passes the validator comes to an end, although steps fail   *)
(* and others can then never run (scheduler.py:121, graph.py:65-68): the   *)
(* turn is answered, or has raised.                                        *)
PlansFinish == (status = "validated") ~> (pc \in {"answered", "raised"})

(* When the trace is finished, the recorder has seen what the workers did: *)
(* one closed span for each attempt, failed but for the last of a step     *)
(* that ended well, and none is still open (service.py:489-521, 582-616).  *)
EveryAttemptIsTraced ==
  rec.finished =>
    /\ spans.open = {}
    /\ \A i \in Ids, n \in 1..MaxAttempts :
         {st \in SpanStatus : <<<<i, n>>, st>> \in spans.closed} =
           CASE n > tries[i] -> {}
             [] n = tries[i] /\ i \in DOMAIN results -> {results[i].status}
             [] OTHER -> {"failed"}

(* However a turn ends, its recorder leaves the registry; if the trace has *)
(* a row, the row says how the turn ended unless a write failed or the     *)
(* turn raised after the trace was finished (agent_service.py:82-103).     *)
TraceIsClosed ==
  pc \in {"answered", "raised"} =>
    /\ ~rec.registered
    /\ rows.trace = "running" => rec.faults > 0

(* A summary that is not marked as degraded refers to nothing that is not  *)
(* in the tables: the trace's row is final and the aggregate's span exists,*)
(* also when aggregate_span_id is what an earlier turn left in the         *)
(* checkpoint (finalize_node.py:257-292).                                  *)
SummaryReferencesExist ==
  summary.made /\ ~summary.degraded =>
    /\ rows.trace \notin {NoRow, "running"}
    /\ summary.span # NoSpan => summary.span \in rows.spans

(* The latency reported for the critical path is that of the longest chain *)
(* of dependent steps, if the plan lists every step after those it depends *)
(* on (finalize_node.py:43-66).                                            *)
Chains ==
  {c \in UNION {[1..k -> StepIds(plan)] : k \in 1..Len(plan)} :
     \A n \in 2..Len(c) : c[n - 1] \in Elements(DepsOf(plan, c[n]))}
Lengths(c) ==
  LET length[n \in 0..Len(c)] == IF n = 0 THEN 0 ELSE length[n - 1] + Duration(c[n])
  IN  length
Length(c) == Lengths(c)[Len(c)]
ListedInOrder ==
  \A n \in DOMAIN plan : Elements(plan[n].deps) \subseteq {plan[k].id : k \in 1..(n - 1)}
CriticalPathIsLongest ==
  pc = "trace_finalize" /\ Valid(plan) /\ ListedInOrder
    => CriticalPath = Largest({Length(c) : c \in Chains})
=============================================================================
