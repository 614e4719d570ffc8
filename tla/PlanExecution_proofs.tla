------------------------ MODULE PlanExecution_proofs ------------------------
(***************************************************************************)
(* Proofs about PlanExecution, for any plans of any length, any number of  *)
(* attempts and of threads left behind, and any failures of the store.     *)
(***************************************************************************)
EXTENDS PlanExecution, Recursion, FiniteSetTheorems, TLAPS

-----------------------------------------------------------------------------
(* The inductive invariant.                                                *)
Places == {"entry_router", "plan_validator", "scheduler", "workers", "aggregate",
           "trace_finalize", "end", "answered", "raised"}

Types ==
  /\ TypeOK
  /\ pc \in Places
  /\ rows \in [trace : {NoRow, "running", "completed", "failed"}, spans : SUBSET Spans]
  /\ rec \in [faults : 0..Faults, finished : BOOLEAN, persisted : BOOLEAN, registered : BOOLEAN]

(* What is known where the graph is.                                       *)
Control ==
  /\ pc \in {"scheduler", "workers", "aggregate"} => Valid(plan)
  /\ pc \in {"entry_router", "plan_validator"} => DOMAIN results = {}
  /\ wave # {} => pc = "workers"
  /\ pc = "trace_finalize" => status \in {"", "completed", "failed"}
  /\ rec.finished <=> pc \in {"end", "answered", "raised"}
  /\ rec.registered <=> ~rec.finished

(* A step is waiting, at work or has ended; only the latest attempt of a   *)
(* step at work can be open.                                               *)
Work ==
  /\ wave \cup DOMAIN results \subseteq StepIds(plan)
  /\ wave \cap DOMAIN results = {}
  /\ \A i \in Ids : i \notin wave \cup DOMAIN results => tries[i] = 0
  /\ \A i \in wave : tries[i] = MaxAttempts => Running(i)
  /\ \A s \in spans.open : \E i \in wave : s = <<i, tries[i]>>
  /\ \A i \in wave \cup DOMAIN results : Elements(DepsOf(plan, i)) \subseteq Usable

(* The spans that were closed, of one attempt.                             *)
ClosedAs(i, n) == {st \in SpanStatus : <<<<i, n>>, st>> \in spans.closed}
ClosedRight(i, n) ==
  /\ n > tries[i] => ClosedAs(i, n) = {}
  /\ n = tries[i] /\ Running(i) => ClosedAs(i, n) = {}
  /\ n = tries[i] /\ ~Running(i) /\ i \in DOMAIN results => ClosedAs(i, n) = {results[i].status}
  /\ n = tries[i] /\ ~Running(i) /\ i \notin DOMAIN results => ClosedAs(i, n) = {"failed"}
  /\ n < tries[i] => ClosedAs(i, n) = {"failed"}
Closed == \A i \in Ids, n \in 1..MaxAttempts : ClosedRight(i, n)

Kept ==
  /\ spans.known \subseteq rows.spans
  /\ rec.finished /\ rows.trace = "running" => rec.faults > 0

(* Nothing is summed up before the trace is closed.                         *)
Unsummed == pc \notin {"end", "answered", "raised"} => summary = NoSummary

IInv == Types /\ Control /\ Work /\ Closed /\ Kept /\ Unsummed /\ SummaryReferencesExist

-----------------------------------------------------------------------------
(* A plan, and its parts.                                                  *)
IsPlan(p) == p \in Seq([id : Ids, agent : STRING, deps : Seq(STRING)])

(* The parts of a plan.                                                    *)
LEMMA PartsOfPlan ==
  ASSUME NEW p, IsPlan(p)
  PROVE  /\ Len(p) \in Nat /\ DOMAIN p = 1..Len(p)
         /\ \A n \in DOMAIN p : p[n].id \in StepIds(p) /\ p[n].deps \in Seq(Elements(p[n].deps))
         /\ \A n \in DOMAIN p : Elements(p[n].deps) \subseteq Names(p)
         /\ StepIds(p) \subseteq Names(p) /\ IsFiniteSet(StepIds(p))
<1> DEFINE StepType == [id : Ids, agent : STRING, deps : Seq(STRING)]
<1>1. p \in Seq(StepType)
  BY DEF IsPlan
<1>2. \A s \in StepType : s.deps \in Seq(STRING)
  OBVIOUS
<1> HIDE DEF StepType
<1>3. Len(p) \in Nat /\ DOMAIN p = 1..Len(p) /\ \A n \in DOMAIN p : p[n] \in StepType
  BY <1>1
<1>4. ASSUME NEW n \in DOMAIN p PROVE p[n].deps \in Seq(Elements(p[n].deps))
  <2> DEFINE d == p[n].deps
  <2>1. d \in Seq(STRING)
    BY <1>2, <1>3
  <2> HIDE DEF d
  <2>2. d \in [1..Len(d) -> Elements(d)] /\ Len(d) \in Nat
    BY <2>1 DEF Elements
  <2>3. d \in Seq(Elements(d))
    BY <2>2
  <2> QED BY <2>3 DEF d
<1>5. \A n \in DOMAIN p : p[n].id \in StepIds(p)
  BY DEF StepIds
<1>6. StepIds(p) \subseteq Names(p) /\ \A n \in DOMAIN p : Elements(p[n].deps) \subseteq Names(p)
  BY DEF Names
<1>7. IsFiniteSet(StepIds(p))
  <2> DEFINE f == [n \in 1..Len(p) |-> p[n].id]
  <2>1. f \in Surjection(1..Len(p), StepIds(p))
    BY <1>3 DEF StepIds, Surjection
  <2>2. IsFiniteSet(1..Len(p))
    BY <1>3, FS_Interval
  <2> HIDE DEF f
  <2> QED BY <2>1, <2>2, FS_Surjection
<1> QED BY <1>3, <1>4, <1>5, <1>6, <1>7

(* The plan of a turn.                                                     *)
LEMMA PlanFacts ==
  ASSUME plan \in Plans \cup {<<>>}
  PROVE  /\ IsPlan(plan) /\ Len(plan) \in Nat /\ DOMAIN plan = 1..Len(plan)
         /\ StepIds(plan) \subseteq Ids
         /\ IsFiniteSet(StepIds(plan))
<1> DEFINE StepType == [id : Ids, agent : STRING, deps : Seq(STRING)]
<1>1. plan \in Seq(StepType)
  <2>1. CASE plan = <<>>
    <3> HIDE DEF StepType
    <3> QED BY <2>1
  <2>2. CASE plan \in Plans
    BY <2>2, PlanAssumption
  <2> QED BY <2>1, <2>2
<1>2. IsPlan(plan)
  BY <1>1 DEF IsPlan
<1>3. \A s \in StepType : s.id \in Ids
  OBVIOUS
<1> HIDE DEF StepType
<1>4. StepIds(plan) \subseteq Ids
  BY <1>1, <1>3 DEF StepIds
<1> QED BY <1>2, <1>4, PartsOfPlan

(* A span's end, while the trace is open.                                  *)
LEMMA RecordedTypes ==
  ASSUME Types, Kept, ~rec.finished, NEW s \in Spans, NEW st \in SpanStatus, NEW w \in Outcomes,
         Recorded(s, st, w)
  PROVE  /\ spans' \in [open : SUBSET Spans, closed : SUBSET (Spans \X SpanStatus), known : SUBSET Spans]
         /\ rows' \in [trace : {NoRow, "running", "completed", "failed"}, spans : SUBSET Spans]
         /\ rec' \in [faults : 0..Faults, finished : BOOLEAN, persisted : BOOLEAN, registered : BOOLEAN]
         /\ rec'.finished = rec.finished /\ rec'.registered = rec.registered
         /\ spans'.open = spans.open \ {s} /\ spans'.closed = spans.closed \cup {<<s, st>>}
         /\ Kept'
<1>1. /\ spans \in [open : SUBSET Spans, closed : SUBSET (Spans \X SpanStatus), known : SUBSET Spans]
      /\ rows \in [trace : {NoRow, "running", "completed", "failed"}, spans : SUBSET Spans]
      /\ rec \in [faults : 0..Faults, finished : BOOLEAN, persisted : BOOLEAN, registered : BOOLEAN]
  BY DEF Types, TypeOK
<1>2. Faults \in Nat /\ rec.faults \in 0..Faults /\ rec.faults + Fault(w) \in 0..Faults
  <2>1. Faults \in Nat /\ rec.faults \in 0..Faults
    BY <1>1, FaultsAssumption
  <2> QED BY <2>1 DEF Outcomes, Fault
<1>3. rec' = [rec EXCEPT !.faults = rec.faults + Fault(w)]
  BY DEF Recorded
<1>4. /\ rec' \in [faults : 0..Faults, finished : BOOLEAN, persisted : BOOLEAN, registered : BOOLEAN]
      /\ rec'.finished = rec.finished /\ rec'.registered = rec.registered
  BY <1>1, <1>2, <1>3
<1>5. /\ spans' \in [open : SUBSET Spans, closed : SUBSET (Spans \X SpanStatus), known : SUBSET Spans]
      /\ spans'.open = spans.open \ {s} /\ spans'.closed = spans.closed \cup {<<s, st>>}
      /\ spans'.known = IF Persists(w) THEN spans.known \cup {s} ELSE spans.known
  BY <1>1 DEF Recorded
<1>6. /\ rows' \in [trace : {NoRow, "running", "completed", "failed"}, spans : SUBSET Spans]
      /\ rows'.spans = IF Written(w) /\ rows.trace # NoRow THEN rows.spans \cup {s} ELSE rows.spans
  BY <1>1 DEF Recorded
<1>7. Kept'
  BY <1>4, <1>5, <1>6 DEF Kept, Persists, Written
<1> QED BY <1>4, <1>5, <1>6, <1>7

(* The aggregation's span is one of the spans.                             *)
LEMMA AggregateSpanIsASpan ==
  ASSUME Types, Work, Valid(plan)
  PROVE  AggregateSpan \in Spans
<1>1. DOMAIN results \subseteq StepIds(plan)
  BY DEF Work
<1>2. IsFiniteSet(StepIds(plan)) /\ Len(plan) \in Nat
  BY PlanFacts DEF Types, TypeOK
<1>3. /\ Cardinality(DOMAIN results) \in Nat
      /\ Cardinality(DOMAIN results) <= Cardinality(StepIds(plan))
  BY <1>1, <1>2, FS_Subset, FS_CardinalityType
<1>4. Cardinality(StepIds(plan)) = Len(plan) /\ Len(plan) <= MaxSteps
  BY <1>2, PlanAssumption DEF Valid
<1>5. Cardinality(DOMAIN results) \in 0..MaxSteps
  BY <1>2, <1>3, <1>4, PlanAssumption
<1> QED BY <1>5 DEF AggregateSpan, Spans

(* Nothing of a step's work changes.                                       *)
LEMMA WorkStays ==
  ASSUME Work, Closed, UNCHANGED <<plan, results, wave, tries, spans>>
  PROVE  Work' /\ Closed'
<1>1. Usable' = Usable
  BY DEF Usable
<1>2. StepIds(plan)' = StepIds(plan)
  BY DEF StepIds
<1>3. \A i : Elements(DepsOf(plan, i))' = Elements(DepsOf(plan, i))
  BY DEF DepsOf, Elements
<1>4. \A i : Running(i)' = Running(i)
  BY DEF Running, StepSpan
<1>5. Work'
  BY <1>1, <1>2, <1>3, <1>4 DEF Work
<1>6. Closed'
  <2>1. \A i, n : ClosedAs(i, n)' = ClosedAs(i, n)
    BY DEF ClosedAs
  <2> QED BY <1>4, <2>1 DEF Closed, ClosedRight
<1> QED BY <1>5, <1>6

(* The trace is finished, here or before.                                  *)
LEMMA FinishedTypes ==
  ASSUME Types, Control, Kept, NEW w \in Outcomes, NEW st \in {"completed", "failed"},
         FinishTrace(st, w)
  PROVE  /\ rows' \in [trace : {NoRow, "running", "completed", "failed"}, spans : SUBSET Spans]
         /\ rec' \in [faults : 0..Faults, finished : BOOLEAN, persisted : BOOLEAN, registered : BOOLEAN]
         /\ rec'.finished /\ ~rec'.registered
         /\ rows'.spans = rows.spans
         /\ rows'.trace = "running" => rec'.faults > 0
         /\ rec.registered /\ Persists(w) => rows'.trace = st
<1>1. /\ rows \in [trace : {NoRow, "running", "completed", "failed"}, spans : SUBSET Spans]
      /\ rec \in [faults : 0..Faults, finished : BOOLEAN, persisted : BOOLEAN, registered : BOOLEAN]
  BY DEF Types
<1>2. CASE ~rec.registered
  BY <1>1, <1>2 DEF FinishTrace, Control, Kept
<1>3. CASE rec.registered
  <2>1. Faults \in Nat /\ rec.faults \in 0..Faults
    BY <1>1, FaultsAssumption
  <2>2. rec.faults + Fault(w) \in 0..Faults /\ (w # "ok" => rec.faults + Fault(w) > 0)
    BY <2>1 DEF Outcomes, Fault
  <2>3. rec' = [rec EXCEPT !.finished = TRUE, !.registered = FALSE,
                           !.persisted = Persists(w), !.faults = rec.faults + Fault(w)]
    BY <1>3 DEF FinishTrace
  <2>4. Persists(w) \in BOOLEAN
    BY DEF Persists
  <2>5. /\ rec' \in [faults : 0..Faults, finished : BOOLEAN, persisted : BOOLEAN, registered : BOOLEAN]
        /\ rec'.finished /\ ~rec'.registered /\ rec'.faults = rec.faults + Fault(w)
    BY <1>1, <2>2, <2>3, <2>4
  <2>6. rows' = IF Written(w) /\ rows.trace # NoRow THEN [rows EXCEPT !.trace = st] ELSE rows
    BY <1>3 DEF FinishTrace
  <2>7. /\ rows' \in [trace : {NoRow, "running", "completed", "failed"}, spans : SUBSET Spans]
        /\ rows'.spans = rows.spans
        /\ rows'.trace = "running" => ~Written(w)
        /\ Persists(w) => rows'.trace = st
    BY <1>1, <2>6 DEF Persists, Written, NoRow
  <2> QED BY <2>2, <2>5, <2>7 DEF Written
<1> QED BY <1>2, <1>3

-----------------------------------------------------------------------------
(* The initial states.                                                     *)
LEMMA InitGood == Init => IInv
<1> SUFFICES ASSUME Init PROVE IInv
  OBVIOUS
<1>1. PICK w \in {"ok", "lost", "unheard"} :
        /\ Faults = 0 => w = "ok"
        /\ rows = [trace |-> IF Written(w) THEN "running" ELSE NoRow, spans |-> {}]
        /\ rec = [faults |-> Fault(w), finished |-> FALSE, persisted |-> FALSE, registered |-> TRUE]
  <2>1. CASE Faults > 0
    <3>1. \E w \in {"ok", "lost", "unheard"} :
            /\ rows = [trace |-> IF Written(w) THEN "running" ELSE NoRow, spans |-> {}]
            /\ rec = [faults |-> Fault(w), finished |-> FALSE, persisted |-> FALSE, registered |-> TRUE]
      BY <2>1 DEF Init, TraceInit
    <3>2. Faults # 0
      BY <2>1
    <3> QED BY <3>1, <3>2
  <2>2. CASE ~(Faults > 0)
    <3>1. /\ rows = [trace |-> IF Written("ok") THEN "running" ELSE NoRow, spans |-> {}]
          /\ rec = [faults |-> Fault("ok"), finished |-> FALSE, persisted |-> FALSE, registered |-> TRUE]
      BY <2>2 DEF Init, TraceInit
    <3> QED BY <3>1
  <2> QED BY <2>1, <2>2
<1>2. Fault(w) \in 0..Faults
  BY <1>1, FaultsAssumption DEF Fault
<1>3. spans = [open |-> {}, closed |-> {}, known |-> {}]
  BY DEF Init, TraceInit
<1>4. DOMAIN results = {} /\ wave = {} /\ tries = [i \in Ids |-> 0]
  <2>1. results = <<>> /\ wave = {} /\ tries = [i \in Ids |-> 0]
    BY DEF Init
  <2>2. DOMAIN results = {}
    BY <2>1
  <2> QED BY <2>1, <2>2
<1>5. Types
  <2>1. TypeOK
    <3>1. /\ plan \in Plans \cup {<<>>} /\ status = "" /\ aggSpan \in {NoSpan, Earlier}
          /\ late = {}
      BY DEF Init
    <3>2. tries \in [Ids -> 0..MaxAttempts]
      BY <1>4, PlanAssumption
    <3>3. spans \in [open : SUBSET Spans, closed : SUBSET (Spans \X SpanStatus), known : SUBSET Spans]
      BY <1>3
    <3>4. rec.faults \in 0..Faults
      BY <1>1, <1>2
    <3> QED BY <1>4, <3>1, <3>2, <3>3, <3>4 DEF TypeOK
  <2>2. rows \in [trace : {NoRow, "running", "completed", "failed"}, spans : SUBSET Spans]
    BY <1>1
  <2>3. rec \in [faults : 0..Faults, finished : BOOLEAN, persisted : BOOLEAN, registered : BOOLEAN]
    BY <1>1, <1>2
  <2> QED BY <2>1, <2>2, <2>3 DEF Types, Places, Init
<1>6. Control
  BY <1>1, <1>4 DEF Control, Init
<1>7. Work
  BY <1>3, <1>4 DEF Work
<1>8. Closed
  BY <1>3, <1>4 DEF Closed, ClosedRight, ClosedAs
<1>9. Kept /\ Unsummed /\ SummaryReferencesExist
  BY <1>1, <1>3 DEF Kept, Unsummed, SummaryReferencesExist, Init, NoSummary
<1> QED BY <1>5, <1>6, <1>7, <1>8, <1>9 DEF IInv

(* A plan is made: no step of it has begun.                                *)
LEMMA MakePlanGood ==
  ASSUME IInv, NEW p \in Plans, MakePlan(p)
  PROVE  IInv'
<1>1. /\ pc = "entry_router" /\ plan' = p /\ status' = "planning" /\ pc' = "plan_validator"
      /\ UNCHANGED <<answered, results, aggSpan, wave, tries, late, summary, spans, rows, rec>>
  BY DEF MakePlan, workVars, traceVars
<1>2. DOMAIN results = {} /\ wave = {}
  BY <1>1 DEF IInv, Control
<1>3. Types'
  BY <1>1 DEF IInv, Types, TypeOK, Places
<1>4. Control'
  BY <1>1, <1>2 DEF IInv, Control
<1>5. Work'
  BY <1>1, <1>2 DEF IInv, Work
<1>6. Closed'
  BY <1>1, <1>2 DEF IInv, Closed, ClosedRight, ClosedAs, Running, StepSpan
<1>7. (Kept /\ Unsummed /\ SummaryReferencesExist)'
  BY <1>1 DEF IInv, Kept, Unsummed, SummaryReferencesExist
<1> QED BY <1>3, <1>4, <1>5, <1>6, <1>7 DEF IInv

LEMMA ValidStays ==
  ASSUME plan' = plan
  PROVE  Valid(plan)' <=> Valid(plan)
BY DEF Valid, StepIds, Elements, HasCycle, DepsOf

(* The nodes between the workers, and a late thread, touch no step.        *)
LEMMA AnswerWithoutPlanGood ==
  ASSUME IInv, AnswerWithoutPlan
  PROVE  IInv'
<1>1. /\ pc = "entry_router" /\ status' \in {"", "failed"} /\ answered' = TRUE
      /\ pc' = "trace_finalize"
      /\ UNCHANGED <<plan, results, aggSpan, wave, tries, late, summary, spans, rows, rec>>
  BY DEF AnswerWithoutPlan, workVars, traceVars
<1>2. Types'
  BY <1>1 DEF IInv, Types, TypeOK, Places
<1>3. Control'
  BY <1>1 DEF IInv, Control
<1>4. Work' /\ Closed'
  BY <1>1, WorkStays DEF IInv
<1>5. (Kept /\ Unsummed /\ SummaryReferencesExist)'
  BY <1>1 DEF IInv, Kept, Unsummed, SummaryReferencesExist
<1> QED BY <1>2, <1>3, <1>4, <1>5 DEF IInv

LEMMA ValidatePlanGood ==
  ASSUME IInv, ValidatePlan
  PROVE  IInv'
<1>1. /\ pc = "plan_validator"
      /\ UNCHANGED <<plan, results, aggSpan, wave, tries, late, summary, spans, rows, rec>>
      /\ \/ Valid(plan) /\ status' = "validated" /\ pc' = "scheduler"
         \/ status' = "failed" /\ pc' = "trace_finalize"
  BY DEF ValidatePlan, workVars, traceVars
<1>2. Types'
  BY <1>1 DEF IInv, Types, TypeOK, Places
<1>3. Valid(plan)' <=> Valid(plan)
  BY <1>1, ValidStays
<1>4. Control'
  BY <1>1, <1>3 DEF IInv, Control
<1>5. Work' /\ Closed'
  BY <1>1, WorkStays DEF IInv
<1>6. (Kept /\ Unsummed /\ SummaryReferencesExist)'
  BY <1>1 DEF IInv, Kept, Unsummed, SummaryReferencesExist
<1> QED BY <1>2, <1>4, <1>5, <1>6 DEF IInv

LEMMA WaveEndsGood ==
  ASSUME IInv, WaveEnds
  PROVE  IInv'
<1>1. /\ pc = "workers" /\ wave = {} /\ pc' = "aggregate"
      /\ UNCHANGED <<plan, status, answered, results, aggSpan, wave, tries, late, summary,
                     spans, rows, rec>>
  BY DEF WaveEnds, planVars, workVars, traceVars
<1>2. Types'
  BY <1>1 DEF IInv, Types, TypeOK, Places
<1>3. Valid(plan)' <=> Valid(plan)
  BY <1>1, ValidStays
<1>4. Control'
  BY <1>1, <1>3 DEF IInv, Control
<1>5. Work' /\ Closed'
  BY <1>1, WorkStays DEF IInv
<1>6. (Kept /\ Unsummed /\ SummaryReferencesExist)'
  BY <1>1 DEF IInv, Kept, Unsummed, SummaryReferencesExist
<1> QED BY <1>2, <1>4, <1>5, <1>6 DEF IInv

LEMMA LateReturnGood ==
  ASSUME IInv, NEW t \in late, LateReturn(t)
  PROVE  IInv'
<1>1. /\ late' = late \ {t}
      /\ UNCHANGED <<pc, plan, status, answered, results, aggSpan, wave, tries, summary,
                     spans, rows, rec>>
  BY DEF LateReturn, planVars, traceVars
<1>2. Types'
  <2>1. late' \subseteq late
    BY <1>1
  <2>2. late \subseteq Ids \X (1..MaxAttempts)
    BY DEF IInv, Types, TypeOK
  <2>3. late' \subseteq Ids \X (1..MaxAttempts)
    BY <2>1, <2>2
  <2> HIDE <2>1
  <2> QED BY <1>1, <2>3 DEF IInv, Types, TypeOK
<1>3. Valid(plan)' <=> Valid(plan)
  BY <1>1, ValidStays
<1>4. Control'
  BY <1>1, <1>3 DEF IInv, Control
<1>5. Work' /\ Closed'
  BY <1>1, WorkStays DEF IInv
<1>6. (Kept /\ Unsummed /\ SummaryReferencesExist)'
  BY <1>1 DEF IInv, Kept, Unsummed, SummaryReferencesExist
<1> QED BY <1>2, <1>4, <1>5, <1>6 DEF IInv

LEMMA AnswerGood ==
  ASSUME IInv, Answer
  PROVE  IInv'
<1>1. /\ pc = "end" /\ pc' = "answered"
      /\ UNCHANGED <<plan, status, answered, results, aggSpan, wave, tries, late, summary,
                     spans, rows, rec>>
  BY DEF Answer, planVars, workVars, traceVars
<1>2. Types'
  BY <1>1 DEF IInv, Types, TypeOK, Places
<1>3. Control'
  BY <1>1 DEF IInv, Control
<1>4. Work' /\ Closed'
  BY <1>1, WorkStays DEF IInv
<1>5. (Kept /\ Unsummed /\ SummaryReferencesExist)'
  BY <1>1 DEF IInv, Kept, Unsummed, SummaryReferencesExist
<1> QED BY <1>2, <1>3, <1>4, <1>5 DEF IInv

(* The steps of a wave are new, and what they depend on has ended well.    *)
LEMMA ScheduleGood ==
  ASSUME IInv, Schedule
  PROVE  IInv'
<1>1. /\ pc = "scheduler" /\ wave' = Ready
      /\ pc' = IF Ready = {} THEN "aggregate" ELSE "workers"
      /\ UNCHANGED <<plan, status, answered, results, aggSpan, tries, late, summary,
                     spans, rows, rec>>
  BY DEF Schedule, planVars, traceVars
<1>2. Valid(plan) /\ wave = {} /\ ~rec.finished /\ rec.registered
  BY <1>1 DEF IInv, Control
<1>3. StepIds(plan) \subseteq Ids
  BY PlanFacts DEF IInv, Types, TypeOK
<1>4. /\ Ready \subseteq StepIds(plan) /\ Ready \cap DOMAIN results = {}
      /\ \A i \in Ready : Elements(DepsOf(plan, i)) \subseteq Usable
  BY DEF Ready
<1>5. Types'
  BY <1>1, <1>3, <1>4 DEF IInv, Types, TypeOK, Places
<1>6. Valid(plan)' <=> Valid(plan)
  BY <1>1, ValidStays
<1>7. Control'
  BY <1>1, <1>2, <1>4, <1>6 DEF IInv, Control
<1>8. spans.open = {} /\ \A i \in Ready : tries[i] = 0
  BY <1>2, <1>3, <1>4 DEF IInv, Work
<1>9. Work'
  <2>1. Usable' = Usable /\ StepIds(plan)' = StepIds(plan)
    BY <1>1 DEF Usable, StepIds
  <2>2. \A i : Elements(DepsOf(plan, i))' = Elements(DepsOf(plan, i))
    BY <1>1 DEF DepsOf, Elements
  <2>3. \A i \in Ready : tries'[i] # MaxAttempts
    BY <1>1, <1>8, PlanAssumption
  <2>4. (\A i \in Ids : i \notin wave \cup DOMAIN results => tries[i] = 0)'
    BY <1>1, <1>2 DEF IInv, Work
  <2> QED BY <1>1, <1>2, <1>4, <1>8, <2>1, <2>2, <2>3, <2>4 DEF IInv, Work
<1>10. Closed'
  BY <1>1 DEF IInv, Closed, ClosedRight, ClosedAs, Running, StepSpan
<1>11. (Kept /\ Unsummed /\ SummaryReferencesExist)'
  BY <1>1 DEF IInv, Kept, Unsummed, SummaryReferencesExist
<1> QED BY <1>5, <1>7, <1>9, <1>10, <1>11 DEF IInv

-----------------------------------------------------------------------------
(* The attempts of the steps.  A span of a step is not an aggregation's.   *)
LEMMA SpanOfStep ==
  ASSUME NEW i \in Ids, NEW n, <<i, n>> \in Spans
  PROVE  n \in 1..MaxAttempts
BY PlanAssumption DEF Spans

LEMMA StartAttemptGood ==
  ASSUME IInv, NEW i \in Ids, StartAttempt(i)
  PROVE  IInv'
<1>1. /\ pc = "workers" /\ i \in wave /\ ~Running(i)
      /\ tries' = [tries EXCEPT ![i] = tries[i] + 1]
      /\ UNCHANGED <<pc, plan, status, answered, results, aggSpan, wave, late, summary, rows, rec>>
  BY DEF StartAttempt, planVars
<1>2. ~rec.finished /\ spans' = [spans EXCEPT !.open = spans.open \cup {<<i, tries[i] + 1>>}]
  BY <1>1 DEF StartAttempt, OpenSpan, IInv, Control
<1>3. /\ spans \in [open : SUBSET Spans, closed : SUBSET (Spans \X SpanStatus), known : SUBSET Spans]
      /\ tries \in [Ids -> 0..MaxAttempts]
  BY DEF IInv, Types, TypeOK
<1>4. tries[i] + 1 \in 1..MaxAttempts
  <2>1. tries[i] # MaxAttempts
    BY <1>1 DEF IInv, Work
  <2> QED BY <1>3, <2>1, PlanAssumption
<1>5. /\ tries' \in [Ids -> 0..MaxAttempts]
      /\ tries'[i] = tries[i] + 1
      /\ \A j \in Ids : j # i => tries'[j] = tries[j]
  BY <1>1, <1>3, <1>4
<1>6. <<i, tries[i] + 1>> \in Spans
  BY <1>4 DEF Spans
<1>7. /\ spans' \in [open : SUBSET Spans, closed : SUBSET (Spans \X SpanStatus), known : SUBSET Spans]
      /\ spans'.open = spans.open \cup {<<i, tries[i] + 1>>}
      /\ spans'.closed = spans.closed /\ spans'.known = spans.known
  BY <1>2, <1>3, <1>6
<1>8. Types'
  BY <1>1, <1>5, <1>7 DEF IInv, Types, TypeOK
<1>9. Control'
  BY <1>1, ValidStays DEF IInv, Control
<1>10. /\ Running(i)'
       /\ \A j \in Ids : j # i => (Running(j)' <=> Running(j))
  BY <1>5, <1>7 DEF Running, StepSpan
<1>11. Work'
  <2>1. Usable' = Usable /\ StepIds(plan)' = StepIds(plan)
    BY <1>1 DEF Usable, StepIds
  <2>2. \A j : Elements(DepsOf(plan, j))' = Elements(DepsOf(plan, j))
    BY <1>1 DEF DepsOf, Elements
  <2>3. wave \subseteq Ids
    BY DEF IInv, Types, TypeOK
  <2>4. (\A j \in Ids : j \notin wave \cup DOMAIN results => tries[j] = 0)'
    BY <1>1, <1>5 DEF IInv, Work
  <2>5. (\A j \in wave : tries[j] = MaxAttempts => Running(j))'
    BY <1>1, <1>5, <1>10, <2>3 DEF IInv, Work
  <2>6. (\A s \in spans.open : \E j \in wave : s = <<j, tries[j]>>)'
    <3> SUFFICES ASSUME NEW s \in spans'.open PROVE \E j \in wave : s = <<j, tries'[j]>>
      BY <1>1
    <3>1. CASE s \in spans.open
      <4>1. PICK j \in wave : s = <<j, tries[j]>>
        BY <3>1 DEF IInv, Work
      <4>2. j # i
        BY <1>1, <3>1, <4>1 DEF Running, StepSpan
      <4> QED BY <1>5, <2>3, <4>1, <4>2
    <3>2. CASE s = <<i, tries[i] + 1>>
      BY <1>1, <1>5, <3>2
    <3> QED BY <1>7, <3>1, <3>2
  <2> QED BY <1>1, <2>1, <2>2, <2>4, <2>5, <2>6 DEF IInv, Work
<1>12. Closed'
  <2>1. \A j, n : ClosedAs(j, n)' = ClosedAs(j, n)
    BY <1>7 DEF ClosedAs
  <2> SUFFICES ASSUME NEW j \in Ids, NEW n \in 1..MaxAttempts
               PROVE  ClosedRight(j, n)'
    BY DEF Closed
  <2>2. ClosedRight(j, n)
    BY DEF IInv, Closed
  <2>3. CASE j # i
    BY <1>1, <1>5, <1>10, <2>1, <2>2, <2>3 DEF ClosedRight
  <2>4. CASE j = i
    <3>1. i \notin DOMAIN results
      BY <1>1 DEF IInv, Work
    <3>2. tries[i] \in 0..MaxAttempts
      BY <1>3
    <3> QED BY <1>1, <1>5, <1>10, <2>1, <2>2, <2>4, <3>1, <3>2 DEF ClosedRight
  <2> QED BY <2>3, <2>4
<1>13. (Kept /\ Unsummed /\ SummaryReferencesExist)'
  BY <1>1, <1>7 DEF IInv, Kept, Unsummed, SummaryReferencesExist
<1> QED BY <1>8, <1>9, <1>11, <1>12, <1>13 DEF IInv

(* An attempt ends: with the result of its step, or as one that failed and *)
(* is followed by another.                                                 *)
LEMMA AttemptEnds ==
  ASSUME IInv, NEW i \in Ids, NEW st \in {"success", "degraded", "failed"}, NEW w \in Outcomes,
         pc = "workers", i \in wave, Running(i), CloseSpan(StepSpan(i), st, w),
         UNCHANGED <<pc, plan, status, answered, aggSpan, tries, summary>>,
         late' \subseteq Ids \X (1..MaxAttempts),
         \/ results' = Result(i, st) /\ wave' = wave \ {i}
         \/ st = "failed" /\ tries[i] < MaxAttempts /\ UNCHANGED <<results, wave>>
  PROVE  IInv'
<1>1. ~rec.finished /\ rec.registered
  BY DEF IInv, Control
<1>2. Recorded(StepSpan(i), st, w)
  BY <1>1 DEF CloseSpan, Running
<1>3. /\ spans \in [open : SUBSET Spans, closed : SUBSET (Spans \X SpanStatus), known : SUBSET Spans]
      /\ tries \in [Ids -> 0..MaxAttempts] /\ wave \subseteq Ids /\ DOMAIN results \subseteq Ids
  BY DEF IInv, Types, TypeOK
<1>4. StepSpan(i) \in Spans /\ st \in SpanStatus
  BY <1>3 DEF Running, SpanStatus
<1>5. tries[i] \in 1..MaxAttempts
  BY <1>4, SpanOfStep DEF StepSpan
<1>6. /\ spans' \in [open : SUBSET Spans, closed : SUBSET (Spans \X SpanStatus), known : SUBSET Spans]
      /\ rows' \in [trace : {NoRow, "running", "completed", "failed"}, spans : SUBSET Spans]
      /\ rec' \in [faults : 0..Faults, finished : BOOLEAN, persisted : BOOLEAN, registered : BOOLEAN]
      /\ rec'.finished = rec.finished /\ rec'.registered = rec.registered
      /\ spans'.open = spans.open \ {<<i, tries[i]>>}
      /\ spans'.closed = spans.closed \cup {<<<<i, tries[i]>>, st>>}
      /\ Kept'
  BY <1>1, <1>2, <1>4, RecordedTypes DEF IInv, StepSpan
<1>7. /\ DOMAIN results' \subseteq DOMAIN results \cup {i}
      /\ DOMAIN results \subseteq DOMAIN results'
      /\ \A j \in DOMAIN results' : j # i => results'[j] = results[j]
      /\ wave' \cup DOMAIN results' = wave \cup DOMAIN results
      /\ wave' \cap DOMAIN results' = {}
      /\ wave' \subseteq wave /\ \A j \in wave : j # i => j \in wave'
      /\ i \in DOMAIN results' => i \notin wave' /\ results'[i] = [status |-> st, attempt |-> tries[i]]
      /\ i \notin DOMAIN results' => i \in wave' /\ st = "failed" /\ tries[i] < MaxAttempts
      /\ i \notin DOMAIN results
  <2>1. i \notin DOMAIN results /\ wave \cap DOMAIN results = {}
    BY DEF IInv, Work
  <2>2. CASE results' = Result(i, st) /\ wave' = wave \ {i}
    <3>1. results' = [j \in DOMAIN results \cup {i} |->
                        IF j = i THEN [status |-> st, attempt |-> tries[i]] ELSE results[j]]
      BY <2>2 DEF Result
    <3>2. /\ DOMAIN results' = DOMAIN results \cup {i}
          /\ \A j \in DOMAIN results' : j # i => results'[j] = results[j]
          /\ results'[i] = [status |-> st, attempt |-> tries[i]]
      BY <3>1
    <3> QED BY <2>1, <2>2, <3>2
  <2>3. CASE st = "failed" /\ tries[i] < MaxAttempts /\ UNCHANGED <<results, wave>>
    BY <2>1, <2>3
  <2> QED BY <2>2, <2>3
<1>8. Types'
  <2>1. DOMAIN results' \subseteq Ids /\ wave' \subseteq Ids
    BY <1>3, <1>7
  <2>2. \A j \in DOMAIN results' :
          results'[j] \in [status : {"success", "degraded", "failed"}, attempt : 1..MaxAttempts]
    <3>1. \A j \in DOMAIN results' : j # i => j \in DOMAIN results /\ results'[j] = results[j]
      BY <1>7
    <3>2. [status |-> st, attempt |-> tries[i]]
            \in [status : {"success", "degraded", "failed"}, attempt : 1..MaxAttempts]
      BY <1>5
    <3>3. i \in DOMAIN results' => results'[i] = [status |-> st, attempt |-> tries[i]]
      BY <1>7
    <3>4. \A j \in DOMAIN results :
            results[j] \in [status : {"success", "degraded", "failed"}, attempt : 1..MaxAttempts]
      BY DEF IInv, Types, TypeOK
    <3> QED BY <3>1, <3>2, <3>3, <3>4
  <2> QED BY <1>6, <2>1, <2>2 DEF IInv, Types, TypeOK
<1>9. Control'
  BY <1>6, ValidStays DEF IInv, Control
<1>10. /\ ~Running(i)'
       /\ \A j \in Ids : j # i => (Running(j)' <=> Running(j))
  BY <1>6 DEF Running, StepSpan
<1>11. Work'
  <2>1. StepIds(plan)' = StepIds(plan)
    BY DEF StepIds
  <2>2. \A j : Elements(DepsOf(plan, j))' = Elements(DepsOf(plan, j))
    BY DEF DepsOf, Elements
  <2>3. Usable \subseteq Usable'
    BY <1>7 DEF Usable
  <2>4. (wave \cup DOMAIN results \subseteq StepIds(plan) /\ wave \cap DOMAIN results = {})'
    BY <1>7, <2>1 DEF IInv, Work
  <2>5. (\A j \in Ids : j \notin wave \cup DOMAIN results => tries[j] = 0)'
    BY <1>7 DEF IInv, Work
  <2>6. (\A j \in wave : tries[j] = MaxAttempts => Running(j))'
    <3> SUFFICES ASSUME NEW j \in wave', tries[j] = MaxAttempts PROVE Running(j)'
      OBVIOUS
    <3>1. j # i
      BY <1>5, <1>7, PlanAssumption
    <3> QED BY <1>3, <1>7, <1>10, <3>1 DEF IInv, Work
  <2>7. (\A s \in spans.open : \E j \in wave : s = <<j, tries[j]>>)'
    <3> SUFFICES ASSUME NEW s \in spans'.open PROVE \E j \in wave' : s = <<j, tries[j]>>
      OBVIOUS
    <3>1. PICK j \in wave : s = <<j, tries[j]>>
      BY <1>6 DEF IInv, Work
    <3>2. j # i
      BY <1>6, <3>1
    <3> QED BY <1>7, <3>1, <3>2
  <2>8. (\A j \in wave \cup DOMAIN results : Elements(DepsOf(plan, j)) \subseteq Usable)'
    <3>1. \A j \in wave \cup DOMAIN results : Elements(DepsOf(plan, j)) \subseteq Usable
      BY DEF IInv, Work
    <3> QED BY <1>7, <2>2, <2>3, <3>1
  <2> QED BY <2>4, <2>5, <2>6, <2>7, <2>8 DEF Work
<1>12. Closed'
  <2> SUFFICES ASSUME NEW j \in Ids, NEW n \in 1..MaxAttempts
               PROVE  ClosedRight(j, n)'
    BY DEF Closed
  <2>1. ClosedRight(j, n)
    BY DEF IInv, Closed
  <2>2. CASE j = i /\ n = tries[i]
    <3>1. ClosedAs(i, n) = {}
      BY <2>1, <2>2 DEF ClosedRight
    <3>2. ClosedAs(i, n)' = {st}
      BY <1>4, <1>6, <2>2, <3>1 DEF ClosedAs
    <3> QED BY <1>5, <1>7, <1>10, <2>2, <3>2 DEF ClosedRight
  <2>3. CASE ~(j = i /\ n = tries[i])
    <3>1. ClosedAs(j, n)' = ClosedAs(j, n)
      BY <1>6, <2>3 DEF ClosedAs
    <3>2. CASE j = i
      BY <1>5, <2>1, <2>3, <3>1, <3>2 DEF ClosedRight
    <3>3. CASE j # i
      <4>1. (Running(j)' <=> Running(j)) /\ (j \in DOMAIN results' <=> j \in DOMAIN results)
        BY <1>7, <1>10, <3>3
      <4>2. j \in DOMAIN results => results'[j] = results[j]
        BY <1>7, <3>3
      <4> QED BY <2>1, <3>1, <4>1, <4>2 DEF ClosedRight
    <3> QED BY <3>2, <3>3
  <2> QED BY <2>2, <2>3
<1>13. (Unsummed /\ SummaryReferencesExist)'
  BY DEF IInv, Unsummed, SummaryReferencesExist, NoSummary
<1> QED BY <1>6, <1>8, <1>9, <1>11, <1>12, <1>13 DEF IInv

LEMMA AgentReturnsGood ==
  ASSUME IInv, NEW i \in Ids, NEW st \in {"success", "degraded"}, NEW w \in Outcomes,
         AgentReturns(i, st, w)
  PROVE  IInv'
<1>1. late' \subseteq Ids \X (1..MaxAttempts)
  BY DEF AgentReturns, IInv, Types, TypeOK
<1> QED BY <1>1, AttemptEnds DEF AgentReturns

LEMMA AttemptFailsGood ==
  ASSUME IInv, NEW i \in Ids, NEW timedOut \in BOOLEAN, NEW w \in Outcomes,
         AttemptFails(i, timedOut, w)
  PROVE  IInv'
<1>1. /\ pc = "workers" /\ i \in wave /\ Running(i) /\ CloseSpan(StepSpan(i), "failed", w)
      /\ UNCHANGED <<pc, plan, status, answered, aggSpan, tries, summary>>
      /\ \/ results' = Result(i, "failed") /\ wave' = wave \ {i}
         \/ tries[i] < MaxAttempts /\ UNCHANGED <<results, wave>>
  BY DEF AttemptFails
<1>2. StepSpan(i) \in Spans
  BY <1>1 DEF IInv, Types, TypeOK, Running
<1>3. tries[i] \in 1..MaxAttempts
  BY <1>2, SpanOfStep DEF StepSpan
<1>4. late' \subseteq Ids \X (1..MaxAttempts)
  <2>1. late \subseteq Ids \X (1..MaxAttempts) /\ <<i, tries[i]>> \in Ids \X (1..MaxAttempts)
    BY <1>3 DEF IInv, Types, TypeOK
  <2>2. late' = late \/ late' = late \cup {<<i, tries[i]>>}
    BY DEF AttemptFails, StepSpan
  <2> QED BY <2>1, <2>2
<1> QED BY <1>1, <1>4, AttemptEnds

-----------------------------------------------------------------------------
(* The aggregation records its own span and nothing of a step.             *)
LEMMA AggregateGood ==
  ASSUME IInv, NEW w \in Outcomes, Aggregate(w)
  PROVE  IInv'
<1>1. /\ pc = "aggregate" /\ status' = AggregateStatus
      /\ pc' = IF status' = "running" THEN "scheduler" ELSE "trace_finalize"
      /\ Recorded(AggregateSpan, status', w) /\ aggSpan' = AggregateSpan
      /\ UNCHANGED <<plan, results, wave, tries, late, summary>>
  BY DEF Aggregate, workVars
<1>2. Valid(plan) /\ wave = {} /\ ~rec.finished /\ rec.registered
  BY <1>1 DEF IInv, Control
<1>3. status' \in {"failed", "completed", "running"}
  BY <1>1 DEF AggregateStatus
<1>4. AggregateSpan \in Spans
  BY <1>2, AggregateSpanIsASpan DEF IInv
<1>5. status' \in SpanStatus
  BY <1>3 DEF SpanStatus
<1>6. /\ spans' \in [open : SUBSET Spans, closed : SUBSET (Spans \X SpanStatus), known : SUBSET Spans]
      /\ rows' \in [trace : {NoRow, "running", "completed", "failed"}, spans : SUBSET Spans]
      /\ rec' \in [faults : 0..Faults, finished : BOOLEAN, persisted : BOOLEAN, registered : BOOLEAN]
      /\ rec'.finished = rec.finished /\ rec'.registered = rec.registered
      /\ spans'.open = spans.open \ {AggregateSpan}
      /\ spans'.closed = spans.closed \cup {<<AggregateSpan, status'>>}
      /\ Kept'
  BY <1>1, <1>2, <1>4, <1>5, RecordedTypes DEF IInv
<1>7. \A i \in Ids : \A n : <<i, n>> # AggregateSpan
  BY PlanAssumption DEF AggregateSpan
<1>8. Types'
  BY <1>1, <1>3, <1>4, <1>6 DEF IInv, Types, TypeOK, Places
<1>9. Control'
  BY <1>1, <1>2, <1>3, <1>6, ValidStays DEF IInv, Control
<1>10. \A i \in Ids : Running(i)' <=> Running(i)
  BY <1>1, <1>6, <1>7 DEF Running, StepSpan
<1>11. Work'
  <2>1. Usable' = Usable /\ StepIds(plan)' = StepIds(plan)
    BY <1>1 DEF Usable, StepIds
  <2>2. \A j : Elements(DepsOf(plan, j))' = Elements(DepsOf(plan, j))
    BY <1>1 DEF DepsOf, Elements
  <2>3. spans'.open = {}
    BY <1>2, <1>6 DEF IInv, Work
  <2> QED BY <1>1, <1>2, <2>1, <2>2, <2>3 DEF IInv, Work
<1>12. Closed'
  <2>1. \A i \in Ids, n \in 1..MaxAttempts : ClosedAs(i, n)' = ClosedAs(i, n)
    BY <1>6, <1>7 DEF ClosedAs
  <2> QED BY <1>1, <1>10, <2>1 DEF IInv, Closed, ClosedRight
<1>13. (Unsummed /\ SummaryReferencesExist)'
  BY <1>1 DEF IInv, Unsummed, SummaryReferencesExist, NoSummary
<1> QED BY <1>6, <1>8, <1>9, <1>11, <1>12, <1>13 DEF IInv

(* The trace is closed by the graph, or where the turn raised.             *)
LEMMA FinalizeGood ==
  ASSUME IInv, NEW w \in Outcomes, NEW artifact \in Outcomes, NEW update \in Outcomes,
         NEW file \in BOOLEAN, Finalize(w, file, artifact, update)
  PROVE  IInv'
<1>1. /\ pc = "trace_finalize" /\ FinishTrace(TerminalStatus, w) /\ pc' = "end"
      /\ UNCHANGED <<plan, status, answered, results, aggSpan, wave, tries, late, spans>>
  BY DEF Finalize, planVars, workVars
<1>2. ~rec.finished /\ rec.registered /\ wave = {} /\ TerminalStatus \in {"completed", "failed"}
  BY <1>1 DEF IInv, Control, TerminalStatus
<1>3. /\ rows' \in [trace : {NoRow, "running", "completed", "failed"}, spans : SUBSET Spans]
      /\ rec' \in [faults : 0..Faults, finished : BOOLEAN, persisted : BOOLEAN, registered : BOOLEAN]
      /\ rec'.finished /\ ~rec'.registered
      /\ rows'.spans = rows.spans
      /\ rows'.trace = "running" => rec'.faults > 0
      /\ Persists(w) => rows'.trace = TerminalStatus
  BY <1>1, <1>2, FinishedTypes DEF IInv
<1>4. Types'
  BY <1>1, <1>3 DEF IInv, Types, TypeOK, Places
<1>5. Control'
  BY <1>1, <1>2, <1>3 DEF IInv, Control
<1>6. Work' /\ Closed'
  BY <1>1, WorkStays DEF IInv
<1>7. Kept' /\ Unsummed'
  BY <1>1, <1>3 DEF IInv, Kept, Unsummed
<1>8. SummaryReferencesExist'
  <2> SUFFICES ASSUME summary'.made, ~summary'.degraded
               PROVE  /\ rows'.trace \notin {NoRow, "running"}
                      /\ summary'.span # NoSpan => summary'.span \in rows'.spans
    BY DEF SummaryReferencesExist
  <2> DEFINE kept == /\ Persists(w) /\ update = "ok"
                     /\ aggSpan # NoSpan => SpanArtifactKept(aggSpan, Persists(w), artifact)
  <2>1. summary' = IF file THEN [made |-> TRUE, degraded |-> ~kept, span |-> aggSpan] ELSE NoSummary
    BY DEF Finalize
  <2>2. summary'.span = aggSpan /\ kept
    BY <2>1 DEF NoSummary
  <2>3. aggSpan # NoSpan => aggSpan \in spans.known
    BY <2>2 DEF SpanArtifactKept
  <2>4. spans.known \subseteq rows.spans
    BY DEF IInv, Kept
  <2> QED BY <1>2, <1>3, <2>2, <2>3, <2>4 DEF NoRow
<1> QED BY <1>4, <1>5, <1>6, <1>7, <1>8 DEF IInv

LEMMA FailGood ==
  ASSUME IInv, NEW w \in Outcomes, Fail(w)
  PROVE  IInv'
<1>1. /\ pc \notin {"answered", "raised"} /\ wave = {} /\ FinishTrace("failed", w) /\ pc' = "raised"
      /\ UNCHANGED <<plan, status, answered, results, aggSpan, wave, tries, late, summary, spans>>
  BY DEF Fail, planVars, workVars
<1>2. /\ rows' \in [trace : {NoRow, "running", "completed", "failed"}, spans : SUBSET Spans]
      /\ rec' \in [faults : 0..Faults, finished : BOOLEAN, persisted : BOOLEAN, registered : BOOLEAN]
      /\ rec'.finished /\ ~rec'.registered
      /\ rows'.spans = rows.spans
      /\ rows'.trace = "running" => rec'.faults > 0
  BY <1>1, FinishedTypes DEF IInv
<1>3. Types'
  BY <1>1, <1>2 DEF IInv, Types, TypeOK, Places
<1>4. Control'
  BY <1>1, <1>2 DEF IInv, Control
<1>5. Work' /\ Closed'
  BY <1>1, WorkStays DEF IInv
<1>6. Kept' /\ Unsummed'
  BY <1>1, <1>2 DEF IInv, Kept, Unsummed
<1>7. SummaryReferencesExist'
  <2>1. CASE pc = "end"
    <3>1. UNCHANGED <<rows, summary>>
      BY <1>1, <2>1 DEF IInv, Control, FinishTrace
    <3> QED BY <3>1 DEF IInv, SummaryReferencesExist
  <2>2. CASE pc # "end"
    <3>1. summary' = NoSummary
      BY <1>1, <2>2 DEF IInv, Unsummed
    <3> QED BY <3>1 DEF SummaryReferencesExist, NoSummary
  <2> QED BY <2>1, <2>2
<1> QED BY <1>3, <1>4, <1>5, <1>6, <1>7 DEF IInv

-----------------------------------------------------------------------------
(* Every step keeps the invariant.                                         *)
LEMMA StepGood == IInv /\ [Next]_vars => IInv'
<1> SUFFICES ASSUME IInv, [Next]_vars PROVE IInv'
  OBVIOUS
<1>1. CASE UNCHANGED vars
  <2>1. UNCHANGED <<pc, plan, status, answered, results, aggSpan, wave, tries, late, summary,
                    spans, rows, rec>>
    BY <1>1 DEF vars, planVars, workVars, traceVars
  <2>2. Types'
    BY <2>1 DEF IInv, Types, TypeOK
  <2>3. Control'
    BY <2>1, ValidStays DEF IInv, Control
  <2>4. Work' /\ Closed'
    BY <2>1, WorkStays DEF IInv
  <2>5. (Kept /\ Unsummed /\ SummaryReferencesExist)'
    BY <2>1 DEF IInv, Kept, Unsummed, SummaryReferencesExist
  <2> QED BY <2>2, <2>3, <2>4, <2>5 DEF IInv
<1>2. CASE \E p \in Plans : MakePlan(p)
  BY <1>2, MakePlanGood
<1>3. CASE AnswerWithoutPlan
  BY <1>3, AnswerWithoutPlanGood
<1>4. CASE ValidatePlan
  BY <1>4, ValidatePlanGood
<1>5. CASE Schedule
  BY <1>5, ScheduleGood
<1>6. CASE WaveEnds
  BY <1>6, WaveEndsGood
<1>7. CASE \E i \in Ids : StartAttempt(i)
  BY <1>7, StartAttemptGood
<1>8. CASE \E i \in Ids, w \in Outcomes, st \in {"success", "degraded"} : AgentReturns(i, st, w)
  BY <1>8, AgentReturnsGood
<1>9. CASE \E i \in Ids, w \in Outcomes, timedOut \in BOOLEAN : AttemptFails(i, timedOut, w)
  BY <1>9, AttemptFailsGood
<1>10. CASE \E w \in Outcomes : Aggregate(w)
  BY <1>10, AggregateGood
<1>11. CASE \E w, artifact, update \in Outcomes, file \in BOOLEAN : Finalize(w, file, artifact, update)
  BY <1>11, FinalizeGood
<1>12. CASE Answer
  BY <1>12, AnswerGood
<1>13. CASE \E w \in Outcomes : Fail(w)
  BY <1>13, FailGood
<1>14. CASE \E t \in late : LateReturn(t)
  BY <1>14, LateReturnGood
<1> QED BY <1>1, <1>2, <1>3, <1>4, <1>5, <1>6, <1>7, <1>8, <1>9, <1>10, <1>11, <1>12, <1>13, <1>14
       DEF Next, Graph

LEMMA AlwaysGood == Spec => []IInv
BY InitGood, StepGood, PTL DEF Spec

(* Every variable keeps its type (state.py, planning/models.py): no status *)
(* and no attempt is outside its range, however the store and agents fail. *)
THEOREM TypeCorrect == Spec => []TypeOK
<1>1. IInv => TypeOK
  BY DEF IInv, Types
<1> QED BY <1>1, AlwaysGood, PTL

(* No step runs before all it depends on has ended well, and a step has at *)
(* most one attempt open beside those given up (scheduler.py:68-133).      *)
THEOREM DependenciesAlwaysFirst == Spec => []DependenciesFirst
<1>1. IInv => DependenciesFirst
  <2> SUFFICES ASSUME IInv, NEW i \in wave \cup DOMAIN results
               PROVE  /\ Elements(DepsOf(plan, i)) \subseteq Usable
                      /\ Cardinality({s \in spans.open : s[1] = i}) <= 1
    BY DEF DependenciesFirst
  <2>1. Elements(DepsOf(plan, i)) \subseteq Usable
    BY DEF IInv, Work
  <2> DEFINE S == {s \in spans.open : s[1] = i}
  <2>2. S \subseteq {<<i, tries[i]>>}
    <3> SUFFICES ASSUME NEW s \in spans.open, s[1] = i PROVE s = <<i, tries[i]>>
      OBVIOUS
    <3>1. PICK j \in wave : s = <<j, tries[j]>>
      BY DEF IInv, Work
    <3> QED BY <3>1
  <2>3. Cardinality(S) <= 1
    <3> HIDE DEF S
    <3>1. IsFiniteSet({<<i, tries[i]>>}) /\ Cardinality({<<i, tries[i]>>}) = 1
      BY FS_Singleton
    <3> QED BY <2>2, <3>1, FS_Subset
  <2> QED BY <2>1, <2>3
<1> QED BY <1>1, AlwaysGood, PTL

(* A finished trace has one closed span for each attempt, with the result  *)
(* of a step on its last alone, and no open one (service.py:489-521).      *)
THEOREM AttemptsAreAlwaysTraced == Spec => []EveryAttemptIsTraced
<1>1. IInv => EveryAttemptIsTraced
  <2> SUFFICES ASSUME IInv, rec.finished PROVE EveryAttemptIsTraced
    BY DEF EveryAttemptIsTraced
  <2>1. spans.open = {}
    BY DEF IInv, Control, Work
  <2>2. ASSUME NEW i \in Ids, NEW n \in 1..MaxAttempts
        PROVE  ClosedAs(i, n) = CASE n > tries[i] -> {}
                                  [] n = tries[i] /\ i \in DOMAIN results -> {results[i].status}
                                  [] OTHER -> {"failed"}
    <3>1. ClosedRight(i, n) /\ ~Running(i)
      BY <2>1 DEF IInv, Closed, Running
    <3>2. tries[i] \in Nat
      <4>1. tries \in [Ids -> 0..MaxAttempts]
        BY DEF IInv, Types, TypeOK
      <4> QED BY <4>1, PlanAssumption
    <3>3. CASE n > tries[i]
      BY <3>1, <3>2, <3>3 DEF ClosedRight
    <3>4. CASE n = tries[i] /\ i \in DOMAIN results
      BY <3>1, <3>2, <3>4 DEF ClosedRight
    <3>5. CASE n < tries[i] \/ (n = tries[i] /\ i \notin DOMAIN results)
      BY <3>1, <3>2, <3>5 DEF ClosedRight
    <3> QED BY <3>2, <3>3, <3>4, <3>5
  <2> QED BY <2>1, <2>2 DEF EveryAttemptIsTraced, ClosedAs
<1> QED BY <1>1, AlwaysGood, PTL

(* When a turn has ended its recorder has left the registry, and its row   *)
(* says how it ended unless the store failed (agent_service.py:82-103).    *)
THEOREM TraceIsAlwaysClosed == Spec => []TraceIsClosed
<1>1. IInv => TraceIsClosed
  BY DEF IInv, Control, Kept, TraceIsClosed
<1> QED BY <1>1, AlwaysGood, PTL

(* What a summary that is not marked as degraded refers to exists          *)
(* (finalize_node.py:257-292).                                             *)
THEOREM SummaryReferencesAlwaysExist == Spec => []SummaryReferencesExist
<1>1. IInv => SummaryReferencesExist
  BY DEF IInv
<1> QED BY <1>1, AlwaysGood, PTL

(* A recorded result is never replaced: a step has its result only once it *)
(* is no longer at work, and a late thread records none                    *)
(* (worker_node.py:26-41).                                                 *)
THEOREM ResultsAreAlwaysFinal == Spec => ResultsAreFinal
<1>1. IInv /\ [Next]_vars => [\A i \in DOMAIN results : i \in DOMAIN results' /\ results'[i] = results[i]]_vars
  <2> SUFFICES ASSUME IInv, Next, NEW i \in DOMAIN results
               PROVE  i \in DOMAIN results' /\ results'[i] = results[i]
    OBVIOUS
  <2>1. CASE UNCHANGED results
    BY <2>1
  <2>2. CASE \E j \in wave, st \in {"success", "degraded", "failed"} : results' = Result(j, st)
    <3>1. PICK j \in wave, st \in {"success", "degraded", "failed"} : results' = Result(j, st)
      BY <2>2
    <3>2. j # i
      BY DEF IInv, Work
    <3>3. results' = [k \in DOMAIN results \cup {j} |->
                        IF k = j THEN [status |-> st, attempt |-> tries[j]] ELSE results[k]]
      BY <3>1 DEF Result
    <3> QED BY <3>2, <3>3
  <2>3. UNCHANGED results \/ \E j \in wave, st \in {"success", "degraded", "failed"} : results' = Result(j, st)
    <3>1. CASE \E j \in Ids, w \in Outcomes, st \in {"success", "degraded"} : AgentReturns(j, st, w)
      BY <3>1 DEF AgentReturns
    <3>2. CASE \E j \in Ids, w \in Outcomes, timedOut \in BOOLEAN : AttemptFails(j, timedOut, w)
      BY <3>2 DEF AttemptFails
    <3>3. CASE ~(\/ \E j \in Ids, w \in Outcomes, st \in {"success", "degraded"} : AgentReturns(j, st, w)
                 \/ \E j \in Ids, w \in Outcomes, timedOut \in BOOLEAN : AttemptFails(j, timedOut, w))
      BY <3>3 DEF Next, Graph, MakePlan, AnswerWithoutPlan, ValidatePlan, Schedule, WaveEnds, StartAttempt,
                  Aggregate, Finalize, Answer, Fail, LateReturn, planVars
    <3> QED BY <3>1, <3>2, <3>3
  <2> QED BY <2>1, <2>2, <2>3
<1> QED BY <1>1, AlwaysGood, PTL DEF Spec, ResultsAreFinal

-----------------------------------------------------------------------------
(* The search for a cycle comes to an end: every step of it makes the path *)
(* longer or the list shorter.                                             *)
Found(p) == [cycle : BOOLEAN, seen : SUBSET Names(p)]
Shrinks(p, size) ==
  /\ size \in [Walks(p) -> Nat]
  /\ \A a \in Walks(p) :
       a.todo # <<>> =>
         /\ \A s \in SUBSET Names(p) : Beside(a, s) \in Walks(p) /\ size[Beside(a, s)] < size[a]
         /\ Head(a.todo) \notin a.path => Below(p, a) \in Walks(p) /\ size[Below(p, a)] < size[a]

(* What a step depends on.                                                 *)
LEMMA DependenciesOf ==
  ASSUME NEW p, IsPlan(p), NEW i
  PROVE  /\ DepsOf(p, i) \in Seq(Names(p))
         /\ i \notin StepIds(p) => DepsOf(p, i) = <<>>
         /\ i \in StepIds(p) => \E n \in DOMAIN p : p[n].id = i /\ DepsOf(p, i) = p[n].deps
<1> DEFINE At == {n \in DOMAIN p : p[n].id = i}
           last == CHOOSE n \in At : \A k \in At : k <= n
<1>1. DepsOf(p, i) = IF At = {} THEN <<>> ELSE p[last].deps
  BY DEF DepsOf
<1>2. At = {} <=> i \notin StepIds(p)
  BY DEF StepIds
<1>3. ASSUME At # {} PROVE last \in At
  <2> DEFINE N == Len(p)
             S == {N - k : k \in At}
  <2>1. N \in Nat /\ At \subseteq 1..N
    BY PartsOfPlan
  <2>2. S \in SUBSET Nat /\ S # {}
    BY <1>3, <2>1
  <2> HIDE DEF S
  <2>3. PICK x \in S : \A y \in S : x <= y
    BY <2>2, LeastExists
  <2> USE DEF S
  <2>4. PICK m \in At : x = N - m
    OBVIOUS
  <2>5. ASSUME NEW k \in At PROVE k <= m
    <3>1. N - k \in S /\ k \in 1..N /\ m \in 1..N
      BY <2>1
    <3>2. N - m <= N - k
      BY <2>3, <2>4, <3>1
    <3> HIDE DEF N, At
    <3> QED BY <2>1, <3>1, <3>2
  <2> HIDE DEF At
  <2> QED BY <2>4, <2>5
<1> HIDE DEF last
<1>4. ASSUME i \in StepIds(p) PROVE \E n \in DOMAIN p : p[n].id = i /\ DepsOf(p, i) = p[n].deps
  BY <1>1, <1>2, <1>3, <1>4
<1>5. DepsOf(p, i) \in Seq(Names(p))
  <2>1. CASE i \in StepIds(p)
    <3>1. PICK n \in DOMAIN p : DepsOf(p, i) = p[n].deps
      BY <1>4, <2>1
    <3>2. p[n].deps \in Seq(Elements(p[n].deps)) /\ Elements(p[n].deps) \subseteq Names(p)
      BY PartsOfPlan
    <3> QED BY <3>1, <3>2
  <2>2. CASE i \notin StepIds(p)
    BY <1>1, <1>2, <2>2
  <2> QED BY <2>1, <2>2
<1> QED BY <1>1, <1>2, <1>4, <1>5

(* No step has more than so many dependencies.                             *)
LEMMA DependenciesAreBounded ==
  ASSUME NEW p, IsPlan(p)
  PROVE  \E B \in Nat : \A n \in DOMAIN p : Len(p[n].deps) <= B
<1> DEFINE N == Len(p)
           T == {k \in 0..N : \E B \in Nat : \A n \in 1..k : Len(p[n].deps) <= B}
<1>1. N \in Nat /\ DOMAIN p = 1..N /\ \A n \in 1..N : Len(p[n].deps) \in Nat
  BY PartsOfPlan
<1> HIDE DEF N
<1>2. 0 \in T
  BY <1>1
<1>3. ASSUME NEW k \in 1..N, k - 1 \in T PROVE k \in T
  <2>1. PICK B \in Nat : \A n \in 1..(k - 1) : Len(p[n].deps) <= B
    BY <1>3
  <2> DEFINE more == Len(p[k].deps)
             C == B + more
  <2>2. C \in Nat /\ \A n \in 1..k : Len(p[n].deps) <= C
    <3>1. more \in Nat /\ \A n \in 1..(k - 1) : Len(p[n].deps) \in Nat /\ Len(p[n].deps) <= B
      BY <1>1, <2>1
    <3>2. \A n \in 1..k : n = k \/ n \in 1..(k - 1)
      OBVIOUS
    <3>3. \A n \in 1..k : Len(p[n].deps) = more \/ (Len(p[n].deps) \in Nat /\ Len(p[n].deps) <= B)
      BY <3>1, <3>2
    <3> HIDE DEF more
    <3> QED BY <3>1, <3>3
  <2> HIDE DEF C
  <2> QED BY <2>2
<1>4. 0..N \subseteq T
  <2> HIDE DEF T
  <2> QED BY <1>1, <1>2, <1>3, UpTo
<1>5. N \in T
  <2>1. N \in 0..N
    BY <1>1
  <2> HIDE DEF T
  <2> QED BY <1>4, <2>1
<1>6. PICK B \in Nat : \A n \in 1..N : Len(p[n].deps) <= B
  BY <1>5
<1> QED BY <1>1, <1>6

(* What a longer path leaves of a plan.                                    *)
LEMMA PathGrows ==
  ASSUME NEW S, IsFiniteSet(S), NEW path, NEW i, i \notin path
  PROVE  /\ Cardinality(S \ path) \in Nat
         /\ i \in S => Cardinality(S \ path) = Cardinality(S \ (path \cup {i})) + 1
         /\ Cardinality(S \ (path \cup {i})) \in Nat
         /\ i \notin S => S \ (path \cup {i}) = S \ path
<1>1. IsFiniteSet(S \ path) /\ IsFiniteSet(S \ (path \cup {i}))
  BY FS_Subset
<1>2. Cardinality(S \ path) \in Nat /\ Cardinality(S \ (path \cup {i})) \in Nat
  BY <1>1, FS_CardinalityType
<1>3. ASSUME i \in S PROVE Cardinality(S \ path) = Cardinality(S \ (path \cup {i})) + 1
  <2>1. S \ path = (S \ (path \cup {i})) \cup {i} /\ i \notin S \ (path \cup {i})
    BY <1>3
  <2> QED BY <1>1, <2>1, FS_AddElement
<1> QED BY <1>2, <1>3

(* Every step of the search goes on with less: a measure of what is left   *)
(* adds to the length of the list, for every step not on the path, more    *)
(* than the length of any list of dependencies.                            *)
LEMMA WalksShrink ==
  ASSUME NEW p, IsPlan(p)
  PROVE  \E size : Shrinks(p, size)
<1> DEFINE S == StepIds(p)
           M(path) == Cardinality(S \ path)
<1>1. PICK B \in Nat : \A n \in DOMAIN p : Len(p[n].deps) <= B
  BY DependenciesAreBounded
<1> DEFINE W == B + 1
           size == [a \in Walks(p) |-> Len(a.todo) + W * M(a.path)]
<1>2. IsFiniteSet(S)
  BY PartsOfPlan
<1>3. ASSUME NEW path PROVE M(path) \in Nat
  BY <1>2, FS_Subset, FS_CardinalityType
<1>4. ASSUME NEW a \in Walks(p) PROVE a.todo \in Seq(Names(p)) /\ a.path \in SUBSET Names(p) /\ a.seen \in SUBSET Names(p)
  BY DEF Walks
<1>5. ASSUME NEW a \in Walks(p) PROVE size[a] \in Nat /\ size[a] = Len(a.todo) + W * M(a.path)
  <2>1. Len(a.todo) \in Nat /\ M(a.path) \in Nat
    <3>1. a.todo \in Seq(Names(p))
      BY <1>4
    <3>2. M(a.path) \in Nat
      BY <1>3
    <3> HIDE DEF M
    <3> QED BY <3>1, <3>2
  <2> HIDE DEF M
  <2>2. W * M(a.path) \in Nat
    BY <2>1
  <2> HIDE DEF W
  <2>3. size[a] = Len(a.todo) + W * M(a.path)
    OBVIOUS
  <2> QED BY <2>1, <2>2, <2>3
<1>6. size \in [Walks(p) -> Nat]
  <2>1. size = [a \in Walks(p) |-> size[a]]
    OBVIOUS
  <2> HIDE DEF size
  <2> QED BY <1>5, <2>1
<1>7. ASSUME NEW a \in Walks(p), a.todo # <<>>, NEW s \in SUBSET Names(p)
      PROVE  Beside(a, s) \in Walks(p) /\ size[Beside(a, s)] < size[a]
  <2>1. Beside(a, s).todo = Tail(a.todo) /\ Beside(a, s).path = a.path
    BY DEF Beside
  <2>2. Tail(a.todo) \in Seq(Names(p)) /\ Len(Tail(a.todo)) = Len(a.todo) - 1 /\ Len(a.todo) \in Nat
    BY <1>4, <1>7
  <2>3. Beside(a, s) \in Walks(p)
    BY <1>4, <2>2 DEF Beside, Walks
  <2>4. W * M(a.path) \in Nat
    <3>1. M(a.path) \in Nat
      BY <1>3
    <3> HIDE DEF M
    <3> QED BY <3>1
  <2> DEFINE b == Beside(a, s)
             rest == W * M(a.path)
  <2>5. size[b] = Len(b.todo) + rest
    <3>1. size[b] = Len(b.todo) + W * M(b.path)
      <4> HIDE DEF size, M, W, b
      <4> QED BY <1>5, <2>3 DEF b
    <3> QED BY <2>1, <3>1
  <2>6. size[a] = Len(a.todo) + rest
    <3> HIDE DEF size, M, W
    <3> QED BY <1>5
  <2>7. Len(b.todo) = Len(a.todo) - 1
    BY <2>1, <2>2
  <2> HIDE DEF size, rest, b
  <2>8. size[b] < size[a]
    BY <2>2, <2>4, <2>5, <2>6, <2>7 DEF rest
  <2> QED BY <2>3, <2>8 DEF b
<1>8. ASSUME NEW a \in Walks(p), a.todo # <<>>, Head(a.todo) \notin a.path
      PROVE  Below(p, a) \in Walks(p) /\ size[Below(p, a)] < size[a]
  <2> DEFINE i == Head(a.todo)
             b == Below(p, a)
  <2>1. b.todo = DepsOf(p, i) /\ b.path = a.path \cup {i}
    BY DEF Below
  <2>2. i \in Names(p) /\ Len(a.todo) \in Nat /\ Len(a.todo) # 0
    BY <1>4, <1>8
  <2>3. b \in Walks(p)
    BY <1>4, <2>2, DependenciesOf DEF Below, Walks
  <2>4. Len(DepsOf(p, i)) \in Nat /\ (i \in S => Len(DepsOf(p, i)) <= B) /\ (i \notin S => Len(DepsOf(p, i)) = 0)
    <3>1. DepsOf(p, i) \in Seq(Names(p))
      BY DependenciesOf
    <3>2. CASE i \in S
      <4> HIDE DEF i
      <4>1. PICK n \in DOMAIN p : DepsOf(p, i) = p[n].deps
        BY <3>2, DependenciesOf
      <4> QED BY <1>1, <3>1, <3>2, <4>1
    <3>3. CASE i \notin S
      <4>1. DepsOf(p, i) = <<>>
        BY <3>3, DependenciesOf
      <4> QED BY <3>3, <4>1
    <3> QED BY <3>2, <3>3
  <2>5. /\ M(a.path) \in Nat /\ M(b.path) \in Nat
        /\ i \in S => M(a.path) = M(b.path) + 1
        /\ i \notin S => M(b.path) = M(a.path)
    <3>1. /\ M(a.path) \in Nat /\ M(a.path \cup {i}) \in Nat
          /\ i \in S => M(a.path) = M(a.path \cup {i}) + 1
          /\ i \notin S => M(a.path \cup {i}) = M(a.path)
      <4>1. i \notin a.path
        BY <1>8
      <4> DEFINE path == a.path
      <4> HIDE DEF i, S, path
      <4>2. i \notin path
        BY <4>1 DEF path
      <4>3. /\ Cardinality(S \ path) \in Nat
            /\ i \in S => Cardinality(S \ path) = Cardinality(S \ (path \cup {i})) + 1
            /\ Cardinality(S \ (path \cup {i})) \in Nat
            /\ i \notin S => S \ (path \cup {i}) = S \ path
        BY <1>2, <4>2, PathGrows
      <4> QED BY <4>3 DEF path
    <3> HIDE DEF M, i, b
    <3> QED BY <2>1, <3>1
  <2> DEFINE L == Len(b.todo)
             LA == Len(a.todo)
             m == M(a.path)
             k == M(b.path)
  <2>6. L \in Nat /\ LA \in Nat /\ LA >= 1 /\ m \in Nat /\ k \in Nat
        /\ ((m = k + 1 /\ L <= B) \/ (m = k /\ L = 0))
    BY <2>1, <2>2, <2>4, <2>5
  <2>7. size[b] = L + W * k /\ size[a] = LA + W * m
    <3> HIDE DEF size, b, M, W
    <3> QED BY <1>5, <2>3
  <2> HIDE DEF L, LA, m, k, M, size, b
  <2>8. L + W * k < LA + W * m
    <3>1. CASE m = k + 1 /\ L <= B
      <4>1. W * (k + 1) = W * k + W /\ W * k \in Nat
        BY <2>6
      <4> QED BY <2>6, <3>1, <4>1
    <3>2. CASE m = k /\ L = 0
      <4>1. W * k \in Nat
        BY <2>6
      <4> HIDE DEF W
      <4> QED BY <2>6, <3>2, <4>1
    <3> QED BY <2>6, <3>1, <3>2
  <2>9. size[b] < size[a]
    BY <2>7, <2>8
  <2> QED BY <2>3, <2>9 DEF b
<1> HIDE DEF size
<1>9. Shrinks(p, size)
  BY <1>6, <1>7, <1>8 DEF Shrinks
<1> QED BY <1>9

(* Induction over the walks, the smaller ones first.                       *)
LEMMA WalkInduction ==
  ASSUME NEW p, NEW size, Shrinks(p, size), NEW T,
         \A a \in Walks(p) : (\A b \in Walks(p) : size[b] < size[a] => b \in T) => a \in T
  PROVE  Walks(p) \subseteq T
<1> DEFINE Bad == Walks(p) \ T
           S == {size[a] : a \in Bad}
<1> SUFFICES ASSUME Bad # {} PROVE FALSE
  OBVIOUS
<1>1. \A a \in Walks(p) : size[a] \in Nat
  BY DEF Shrinks
<1>2. S \in SUBSET Nat /\ S # {}
  BY <1>1
<1>3. PICK m \in S : \A k \in S : m <= k
  BY <1>2, LeastExists
<1>4. PICK a \in Bad : m = size[a]
  OBVIOUS
<1>5. ASSUME NEW b \in Walks(p), size[b] < size[a] PROVE b \in T
  <2>1. size[b] \in Nat /\ size[a] \in Nat /\ ~ (size[a] <= size[b])
    BY <1>1, <1>4, <1>5
  <2> QED BY <1>3, <1>4, <2>1
<1> QED BY <1>4, <1>5

(* One look of the search, given what it finds of smaller walks.           *)
Look(p, a, f) ==
  IF a.todo = <<>> THEN [cycle |-> FALSE, seen |-> a.seen]
  ELSE IF Head(a.todo) \in a.path THEN [cycle |-> TRUE, seen |-> a.seen]
  ELSE IF Head(a.todo) \in a.seen THEN f[Beside(a, a.seen)]
  ELSE IF f[Below(p, a)].cycle THEN f[Below(p, a)]
  ELSE f[Beside(a, f[Below(p, a)].seen \cup {Head(a.todo)})]

(* A look is a finding, and looks at smaller walks only.                   *)
LEMMA LooksAreFindings ==
  ASSUME NEW p, IsPlan(p), NEW size, Shrinks(p, size), NEW a \in Walks(p),
         NEW f \in [Walks(p) -> Found(p)]
  PROVE  /\ Look(p, a, f) \in Found(p)
         /\ \A g : (\A b \in Walks(p) : size[b] < size[a] => f[b] = g[b]) =>
                     Look(p, a, f) = Look(p, a, g)
<1> DEFINE i == Head(a.todo)
<1>1. /\ a.todo \in Seq(Names(p)) /\ a.seen \in SUBSET Names(p)
      /\ a.todo # <<>> => i \in Names(p)
  BY DEF Walks
<1>2. ASSUME a.todo # <<>>, NEW s \in SUBSET Names(p)
      PROVE  Beside(a, s) \in Walks(p) /\ size[Beside(a, s)] < size[a]
  BY <1>2 DEF Shrinks
<1>3. ASSUME a.todo # <<>>, i \notin a.path
      PROVE  Below(p, a) \in Walks(p) /\ size[Below(p, a)] < size[a]
  BY <1>3 DEF Shrinks
<1>4. \A b \in Walks(p) : f[b] \in Found(p)
  OBVIOUS
<1>5. \A r \in Found(p) : r.cycle \in BOOLEAN /\ r.seen \in SUBSET Names(p)
  BY DEF Found
<1>6. CASE a.todo = <<>>
  <2>1. [cycle |-> FALSE, seen |-> a.seen] \in Found(p)
    BY <1>1 DEF Found
  <2> QED BY <1>6, <2>1 DEF Look
<1>7. CASE a.todo # <<>> /\ i \in a.path
  <2>1. [cycle |-> TRUE, seen |-> a.seen] \in Found(p)
    BY <1>1 DEF Found
  <2> QED BY <1>7, <2>1 DEF Look
<1>8. CASE a.todo # <<>> /\ i \notin a.path /\ i \in a.seen
  <2>1. \A h : Look(p, a, h) = h[Beside(a, a.seen)]
    BY <1>8 DEF Look
  <2> QED BY <1>1, <1>2, <1>4, <1>8, <2>1
<1>9. CASE a.todo # <<>> /\ i \notin a.path /\ i \notin a.seen
  <2> DEFINE below == f[Below(p, a)]
             s == below.seen \cup {i}
  <2>1. \A h : Look(p, a, h) = IF h[Below(p, a)].cycle THEN h[Below(p, a)]
                               ELSE h[Beside(a, h[Below(p, a)].seen \cup {i})]
    BY <1>9 DEF Look
  <2>2. Below(p, a) \in Walks(p) /\ size[Below(p, a)] < size[a]
    BY <1>3, <1>9
  <2>3. below \in Found(p) /\ s \in SUBSET Names(p)
    BY <1>1, <1>4, <1>5, <1>9, <2>2
  <2>4. Beside(a, s) \in Walks(p) /\ size[Beside(a, s)] < size[a]
    BY <1>2, <1>9, <2>3
  <2>5. Look(p, a, f) = IF below.cycle THEN below ELSE f[Beside(a, s)]
    BY <2>1
  <2>6. Look(p, a, f) \in Found(p)
    <3> HIDE DEF below, s
    <3> QED BY <1>4, <2>3, <2>4, <2>5
  <2>7. ASSUME NEW g, \A b \in Walks(p) : size[b] < size[a] => f[b] = g[b]
        PROVE  Look(p, a, f) = Look(p, a, g)
    <3>1. g[Below(p, a)] = below
      BY <2>2, <2>7
    <3>2. Look(p, a, g) = IF below.cycle THEN below ELSE g[Beside(a, s)]
      BY <2>1, <3>1
    <3>3. g[Beside(a, s)] = f[Beside(a, s)]
      <4> HIDE DEF s
      <4> QED BY <2>4, <2>7
    <3> QED BY <2>5, <3>2, <3>3
  <2> QED BY <2>6, <2>7
<1> QED BY <1>6, <1>7, <1>8, <1>9

(* Search is what it is defined to be.                                     *)
LEMMA SearchIs ==
  ASSUME NEW p, IsPlan(p)
  PROVE  /\ Search(p) \in [Walks(p) -> Found(p)]
         /\ \A a \in Walks(p) : Search(p)[a] = Look(p, a, Search(p))
<1> DEFINE A == Walks(p)
           R == Found(p)
           body == [a \in A |-> [f \in [A -> R] |-> Look(p, a, f)]]
           Value(f) == [a \in A |-> Look(p, a, f)]
<1>1. PICK size : Shrinks(p, size)
  BY WalksShrink
<1>2. size \in [A -> Nat]
  BY <1>1 DEF Shrinks
<1>3. R # {}
  <2>1. [cycle |-> FALSE, seen |-> {}] \in R
    BY DEF Found
  <2> QED BY <2>1
<1>4. \A a \in A : \A f \in [A -> R] : Look(p, a, f) \in R
  BY <1>1, LooksAreFindings
<1>5. \A a \in A : \A f \in [A -> R] : \A g :
        (\A b \in A : size[b] < size[a] => f[b] = g[b]) => Look(p, a, f) = Look(p, a, g)
  BY <1>1, LooksAreFindings
<1> HIDE DEF A, R
<1>6. body \in [A -> [[A -> R] -> R]]
  <2>1. ASSUME NEW a \in A PROVE [f \in [A -> R] |-> Look(p, a, f)] \in [[A -> R] -> R]
    BY <1>4
  <2> QED BY <2>1
<1>7. \A a \in A : \A f \in [A -> R] : body[a][f] = Look(p, a, f)
  OBVIOUS
<1> HIDE DEF body
<1>8. LooksDown(A, R, size, body)
  BY <1>5, <1>7 DEF LooksDown
<1>9. Solvable(A, R, body)
  BY <1>2, <1>3, <1>6, <1>8, MeasuredRecursionExists
<1>10. PICK f \in [A -> R] : \A a \in A : f[a] = Look(p, a, f)
  <2>1. PICK f \in [A -> R] : \A a \in A : f[a] = body[a][f]
    BY <1>9 DEF Solvable
  <2> QED BY <1>7, <2>1
<1>11. f = Value(f)
  <2>1. f = [a \in A |-> f[a]]
    BY <1>10
  <2> QED BY <1>10, <2>1
<1> DEFINE dfs == Search(p)
<1>12. dfs = Value(dfs)
  <2>1. dfs = CHOOSE g : g = Value(g)
    BY DEF Search, Look, A
  <2> HIDE DEF Value, dfs
  <2> QED BY <1>11, <2>1
<1> HIDE DEF dfs
<1>13. \A a \in A : dfs[a] = Look(p, a, dfs)
  BY <1>12
<1>14. dfs \in [A -> R]
  <2> DEFINE T == {a \in A : dfs[a] = f[a]}
  <2>1. ASSUME NEW a \in A, \A b \in A : size[b] < size[a] => b \in T PROVE a \in T
    <3>1. \A b \in A : size[b] < size[a] => f[b] = dfs[b]
      BY <2>1
    <3>2. Look(p, a, f) = Look(p, a, dfs)
      BY <1>5, <1>10, <3>1
    <3> QED BY <1>10, <1>13, <3>2
  <2>2. A \subseteq T
    <3> HIDE DEF T
    <3> QED BY <1>1, <2>1, WalkInduction DEF A
  <2>3. \A a \in A : dfs[a] \in R
    BY <1>10, <2>2
  <2>4. dfs = [a \in A |-> dfs[a]]
    BY <1>12
  <2> QED BY <2>3, <2>4
<1> QED BY <1>13, <1>14 DEF dfs, A, R

-----------------------------------------------------------------------------
(* What the search finds.  A list is its first element and the rest.       *)
LEMMA HeadAndTail ==
  ASSUME NEW R, NEW s \in Seq(R), s # <<>>
  PROVE  Tail(s) \in Seq(R) /\ Head(s) \in R /\ Elements(s) = {Head(s)} \cup Elements(Tail(s))
<1> DEFINE t == Tail(s)
<1>1. Len(s) \in Nat /\ Len(s) # 0 /\ DOMAIN s = 1..Len(s)
  OBVIOUS
<1>2. t \in Seq(R) /\ Len(t) = Len(s) - 1 /\ Head(s) = s[1] /\ Head(s) \in R
  OBVIOUS
<1>3. \A n \in 1..Len(t) : t[n] = s[n + 1]
  BY <1>1, <1>2
<1>4. DOMAIN t = 1..Len(t)
  BY <1>2
<1> HIDE DEF t
<1>5. ASSUME NEW x \in Elements(s) PROVE x = Head(s) \/ x \in Elements(t)
  <2>1. PICK n \in 1..Len(s) : x = s[n]
    BY <1>1, <1>5 DEF Elements
  <2>2. CASE n = 1
    BY <1>2, <2>1, <2>2
  <2>3. CASE n # 1
    <3>1. n - 1 \in 1..Len(t) /\ (n - 1) + 1 = n
      BY <1>1, <1>2, <2>1, <2>3
    <3>2. t[n - 1] = x
      BY <1>3, <2>1, <3>1
    <3> QED BY <1>4, <3>1, <3>2 DEF Elements
  <2> QED BY <2>2, <2>3
<1>6. ASSUME NEW x \in Elements(t) PROVE x \in Elements(s)
  <2>1. PICK n \in 1..Len(t) : x = t[n]
    BY <1>4, <1>6 DEF Elements
  <2>2. n + 1 \in 1..Len(s)
    BY <1>1, <1>2, <2>1
  <2> QED BY <1>1, <1>3, <2>1, <2>2 DEF Elements
<1>7. Head(s) \in Elements(s)
  <2>1. 1 \in DOMAIN s
    BY <1>1
  <2> QED BY <1>2, <2>1 DEF Elements
<1> QED BY <1>2, <1>5, <1>6, <1>7 DEF t

Whole(p) == [todo |-> [n \in DOMAIN p |-> p[n].id], path |-> {}, seen |-> {}]

(* The whole plan, as the search starts.                                   *)
LEMMA WholeIsAWalk ==
  ASSUME NEW p, IsPlan(p)
  PROVE  Whole(p) \in Walks(p) /\ Elements(Whole(p).todo) = StepIds(p)
<1>1. Len(p) \in Nat /\ DOMAIN p = 1..Len(p) /\ (\A n \in DOMAIN p : p[n].id \in Names(p))
  BY PartsOfPlan
<1> DEFINE ids == [n \in DOMAIN p |-> p[n].id]
<1>2. ids \in Seq(Names(p))
  BY <1>1
<1>3. Elements(ids) = StepIds(p)
  BY DEF Elements, StepIds
<1> HIDE DEF ids
<1>4. [todo |-> ids, path |-> {}, seen |-> {}] \in Walks(p)
  BY <1>2 DEF Walks
<1> QED BY <1>3, <1>4 DEF Whole, ids

(* An order of the steps in which every step comes after what it depends   *)
(* on.                                                                     *)
Ranks(p, rank) ==
  /\ rank \in [StepIds(p) -> DOMAIN p]
  /\ \A n \in DOMAIN p : \A d \in Elements(p[n].deps) :
       d \in StepIds(p) /\ rank[d] < rank[p[n].id]

(* If there is such an order, the search never meets its own path: what it *)
(* is about to look at comes before all that is on the path.               *)
LEMMA OrderHasNoCycle ==
  ASSUME NEW p, IsPlan(p), NEW rank, Ranks(p, rank)
  PROVE  ~HasCycle(p)
<1> DEFINE dfs == Search(p)
           IsBefore(a) == \A i \in Elements(a.todo) :
                            i \in StepIds(p) /\ \A j \in a.path : j \in StepIds(p) /\ rank[i] < rank[j]
           T == {a \in Walks(p) : IsBefore(a) => ~dfs[a].cycle}
<1>1. PICK size : Shrinks(p, size)
  BY WalksShrink
<1>2. \A a \in Walks(p) : dfs[a] = Look(p, a, dfs)
  BY SearchIs
<1>3. \A i \in StepIds(p) : rank[i] \in Nat
  BY PartsOfPlan DEF Ranks
<1>4. ASSUME NEW i \in StepIds(p), NEW d \in Elements(DepsOf(p, i))
      PROVE  d \in StepIds(p) /\ rank[d] < rank[i]
  <2>1. PICK n \in DOMAIN p : p[n].id = i /\ DepsOf(p, i) = p[n].deps
    BY DependenciesOf
  <2> QED BY <1>4, <2>1 DEF Ranks
<1> HIDE DEF dfs
<1>5. ASSUME NEW a \in Walks(p), \A b \in Walks(p) : size[b] < size[a] => b \in T PROVE a \in T
  <2> SUFFICES ASSUME IsBefore(a) PROVE ~dfs[a].cycle
    OBVIOUS
  <2>1. CASE a.todo = <<>>
    <3>1. dfs[a] = [cycle |-> FALSE, seen |-> a.seen]
      BY <1>2, <2>1 DEF Look
    <3> QED BY <3>1
  <2>2. CASE a.todo # <<>>
    <3> DEFINE i == Head(a.todo)
               down == Below(p, a)
    <3>1. /\ a.todo \in Seq(Names(p)) /\ a.seen \in SUBSET Names(p)
      BY DEF Walks
    <3>2. i \in Names(p) /\ Elements(a.todo) = {i} \cup Elements(Tail(a.todo))
      BY <2>2, <3>1, HeadAndTail
    <3>3. i \in StepIds(p) /\ \A j \in a.path : j \in StepIds(p) /\ rank[i] < rank[j]
      BY <3>2
    <3>4. i \notin a.path
      BY <1>3, <3>3
    <3>5. ASSUME NEW s \in SUBSET Names(p) PROVE ~dfs[Beside(a, s)].cycle
      <4>1. Beside(a, s) \in Walks(p) /\ size[Beside(a, s)] < size[a]
        BY <1>1, <2>2 DEF Shrinks
      <4>2. Beside(a, s) \in T
        BY <1>5, <4>1
      <4>3. IsBefore(Beside(a, s))
        <5>1. Beside(a, s).todo = Tail(a.todo) /\ Beside(a, s).path = a.path
          BY DEF Beside
        <5> QED BY <3>2, <5>1
      <4> HIDE DEF IsBefore
      <4> QED BY <4>2, <4>3
    <3>6. down \in Walks(p) /\ ~dfs[down].cycle
      <4>1. down \in Walks(p) /\ size[down] < size[a]
        BY <1>1, <2>2, <3>4 DEF Shrinks
      <4>2. down \in T
        BY <1>5, <4>1
      <4>3. IsBefore(down)
        <5>1. down.todo = DepsOf(p, i) /\ down.path = a.path \cup {i}
          BY DEF Below
        <5>2. ASSUME NEW d \in Elements(DepsOf(p, i)), NEW j \in a.path \cup {i}
              PROVE  d \in StepIds(p) /\ j \in StepIds(p) /\ rank[d] < rank[j]
          <6>1. d \in StepIds(p) /\ rank[d] < rank[i]
            BY <1>4, <3>3
          <6>2. j \in StepIds(p) /\ (j = i \/ rank[i] < rank[j])
            BY <3>3
          <6>3. rank[d] \in Nat /\ rank[i] \in Nat /\ rank[j] \in Nat
            BY <1>3, <3>3, <6>1, <6>2
          <6> HIDE DEF i
          <6> QED BY <6>1, <6>2, <6>3
        <5>3. ASSUME NEW d \in Elements(DepsOf(p, i)) PROVE d \in StepIds(p)
          BY <1>4, <3>3
        <5> HIDE DEF i, down
        <5> QED BY <5>1, <5>2, <5>3
      <4> HIDE DEF IsBefore, down
      <4> QED BY <4>1, <4>2, <4>3
    <3>7. dfs[down].seen \in SUBSET Names(p)
      <4>1. dfs[down] \in Found(p)
        <5> HIDE DEF down
        <5> QED BY <3>6, SearchIs DEF dfs
      <4> HIDE DEF down
      <4> QED BY <4>1 DEF Found
    <3>8. dfs[a] = IF i \in a.seen THEN dfs[Beside(a, a.seen)]
                   ELSE dfs[Beside(a, dfs[down].seen \cup {i})]
      BY <1>2, <2>2, <3>4, <3>6 DEF Look
    <3> DEFINE s == dfs[down].seen \cup {i}
    <3>9. s \in SUBSET Names(p)
      BY <3>2, <3>7
    <3> HIDE DEF s
    <3>10. ~dfs[Beside(a, a.seen)].cycle /\ ~dfs[Beside(a, s)].cycle
      BY <3>1, <3>5, <3>9
    <3> QED BY <3>8, <3>10 DEF s
  <2> QED BY <2>1, <2>2
<1>6. Walks(p) \subseteq T
  <2> HIDE DEF T
  <2> QED BY <1>1, <1>5, WalkInduction
<1>7. Whole(p) \in T /\ IsBefore(Whole(p))
  <2>1. Whole(p) \in Walks(p) /\ Elements(Whole(p).todo) = StepIds(p)
    BY WholeIsAWalk
  <2>2. Whole(p).path = {}
    BY DEF Whole
  <2> QED BY <1>6, <2>1, <2>2
<1>8. ~dfs[Whole(p)].cycle
  <2> HIDE DEF IsBefore
  <2> QED BY <1>7
<1> QED BY <1>8 DEF HasCycle, Whole, dfs

(* Steps in such an order, of which each waits for others of them only.    *)
Sorted(p, s, r) ==
  /\ r \in [s -> 1..Cardinality(s)]
  /\ \A i \in s : \A d \in Elements(DepsOf(p, i)) : d \in s /\ r[d] < r[i]
Ordered(p, s) == s \subseteq StepIds(p) /\ \E r : Sorted(p, s, r)

(* A step comes after those it depends on, if they are in order.           *)
LEMMA OneMoreInOrder ==
  ASSUME NEW p, IsPlan(p), NEW s, Ordered(p, s), NEW i \in StepIds(p), i \notin s,
         Elements(DepsOf(p, i)) \subseteq s
  PROVE  Ordered(p, s \cup {i})
<1>1. PICK r : Sorted(p, s, r)
  BY DEF Ordered
<1>2. IsFiniteSet(s)
  BY PartsOfPlan, FS_Subset DEF Ordered
<1> DEFINE t == s \cup {i}
           n == Cardinality(s)
           q == [j \in t |-> IF j = i THEN n + 1 ELSE r[j]]
<1>3. n \in Nat /\ Cardinality(t) = n + 1
  BY <1>2, FS_AddElement, FS_CardinalityType
<1>4. r \in [s -> 1..n] /\ \A j \in s : \A d \in Elements(DepsOf(p, j)) : d \in s /\ r[d] < r[j]
  BY <1>1 DEF Sorted
<1> HIDE DEF n
<1>5. q[i] = n + 1 /\ \A j \in s : q[j] = r[j] /\ q[j] \in 1..n
  BY <1>4
<1>6. q \in [t -> 1..(n + 1)]
  <2>1. \A j \in t : q[j] \in 1..(n + 1)
    <3> HIDE DEF q
    <3> QED BY <1>3, <1>5
  <2>2. q = [j \in t |-> q[j]]
    OBVIOUS
  <2> HIDE DEF q, t
  <2> QED BY <2>1, <2>2
<1> HIDE DEF q
<1>7. ASSUME NEW j \in t, NEW d \in Elements(DepsOf(p, j)) PROVE d \in t /\ q[d] < q[j]
  <2>1. CASE j = i
    <3>1. d \in s /\ q[d] \in 1..n
      BY <1>5, <1>7, <2>1
    <3> QED BY <1>3, <1>5, <2>1, <3>1
  <2>2. CASE j # i
    <3>1. j \in s /\ d \in s /\ r[d] < r[j]
      BY <1>4, <1>7, <2>2
    <3> QED BY <1>5, <3>1
  <2> QED BY <2>1, <2>2
<1>8. Sorted(p, t, q)
  <2> HIDE DEF t
  <2> QED BY <1>3, <1>6, <1>7 DEF Sorted
<1>9. t \subseteq StepIds(p)
  BY DEF Ordered
<1> HIDE DEF t
<1>10. Ordered(p, t)
  BY <1>8, <1>9 DEF Ordered
<1> QED BY <1>10 DEF t

(* If the search finds no cycle, what it has seen is in order, step by     *)
(* step.                                                                   *)
LEMMA NoCycleHasOrder ==
  ASSUME NEW p, IsPlan(p), \A n \in DOMAIN p : Elements(p[n].deps) \subseteq StepIds(p), ~HasCycle(p)
  PROVE  Ordered(p, StepIds(p))
<1> DEFINE dfs == Search(p)
           Fine(a) == /\ Elements(a.todo) \subseteq StepIds(p) /\ a.path \cap a.seen = {}
                      /\ Ordered(p, a.seen)
           Done(a, s) == /\ Ordered(p, s) /\ a.path \cap s = {}
                         /\ a.seen \cup Elements(a.todo) \subseteq s
           T == {a \in Walks(p) : Fine(a) /\ ~dfs[a].cycle => Done(a, dfs[a].seen)}
<1>1. PICK size : Shrinks(p, size)
  BY WalksShrink
<1>2. \A a \in Walks(p) : dfs[a] = Look(p, a, dfs)
  BY SearchIs
<1>3. ASSUME NEW i \in StepIds(p) PROVE Elements(DepsOf(p, i)) \subseteq StepIds(p)
  <2>1. PICK n \in DOMAIN p : p[n].id = i /\ DepsOf(p, i) = p[n].deps
    BY DependenciesOf
  <2> QED BY <2>1
<1> HIDE DEF dfs
<1>4. ASSUME NEW a \in Walks(p), \A b \in Walks(p) : size[b] < size[a] => b \in T PROVE a \in T
  <2> SUFFICES ASSUME Fine(a), ~dfs[a].cycle PROVE Done(a, dfs[a].seen)
    OBVIOUS
  <2>1. CASE a.todo = <<>>
    <3>1. dfs[a] = [cycle |-> FALSE, seen |-> a.seen]
      BY <1>2, <2>1 DEF Look
    <3>2. dfs[a].seen = a.seen
      BY <3>1
    <3>3. Elements(a.todo) = {}
      BY <2>1 DEF Elements
    <3> QED BY <3>2, <3>3
  <2>2. CASE a.todo # <<>>
    <3> DEFINE i == Head(a.todo)
               down == Below(p, a)
    <3>1. /\ a.todo \in Seq(Names(p)) /\ a.seen \in SUBSET Names(p)
      BY DEF Walks
    <3>2. i \in Names(p) /\ Elements(a.todo) = {i} \cup Elements(Tail(a.todo))
      BY <2>2, <3>1, HeadAndTail
    <3>3. i \in StepIds(p) /\ Elements(Tail(a.todo)) \subseteq StepIds(p)
      BY <3>2
    <3>4. i \notin a.path
      <4> SUFFICES ASSUME i \in a.path PROVE FALSE
        OBVIOUS
      <4>1. dfs[a] = [cycle |-> TRUE, seen |-> a.seen]
        BY <1>2, <2>2 DEF Look
      <4> QED BY <4>1
    <3>5. ASSUME NEW s \in SUBSET Names(p), Ordered(p, s), a.path \cap s = {}, a.seen \subseteq s, i \in s,
                 dfs[a] = dfs[Beside(a, s)]
          PROVE  Done(a, dfs[a].seen)
      <4> DEFINE b == Beside(a, s)
      <4>1. b \in Walks(p) /\ size[b] < size[a]
        BY <1>1, <2>2 DEF Shrinks
      <4>2. b.todo = Tail(a.todo) /\ b.path = a.path /\ b.seen = s
        BY DEF Beside
      <4> HIDE DEF b
      <4>3. Fine(b) /\ ~dfs[b].cycle
        BY <3>3, <3>5, <4>2 DEF b
      <4>4. b \in T
        <5> HIDE DEF T
        <5> QED BY <1>4, <4>1
      <4>5. Done(b, dfs[b].seen)
        <5> HIDE DEF Done, Fine
        <5> QED BY <4>3, <4>4
      <4>6. dfs[b] = dfs[a]
        BY <3>5 DEF b
      <4> HIDE DEF i
      <4> QED BY <3>2, <3>5, <4>2, <4>5, <4>6
    <3>6. CASE i \in a.seen
      <4>1. dfs[a] = dfs[Beside(a, a.seen)]
        BY <1>2, <2>2, <3>4, <3>6 DEF Look
      <4> HIDE DEF Done, i, T
      <4> QED BY <3>1, <3>5, <3>6, <4>1
    <3>7. CASE i \notin a.seen
      <4> DEFINE below == dfs[down]
                 s == below.seen \cup {i}
      <4>1. down \in Walks(p) /\ size[down] < size[a]
        BY <1>1, <2>2, <3>4 DEF Shrinks
      <4>2. dfs[a] = IF below.cycle THEN below ELSE dfs[Beside(a, s)]
        BY <1>2, <2>2, <3>4, <3>7 DEF Look
      <4>3. ~below.cycle
        BY <4>2
      <4>4. down.todo = DepsOf(p, i) /\ down.path = a.path \cup {i} /\ down.seen = a.seen
        BY DEF Below
      <4> HIDE DEF down
      <4>5. Fine(down)
        <5>1. Elements(DepsOf(p, i)) \subseteq StepIds(p)
          BY <1>3, <3>3
        <5> HIDE DEF i
        <5> QED BY <3>7, <4>4, <5>1
      <4>6. Done(down, below.seen)
        <5>1. down \in T
          <6> HIDE DEF T
          <6> QED BY <1>4, <4>1
        <5> HIDE DEF Done, Fine
        <5> QED BY <4>3, <4>5, <5>1
      <4>7. /\ Ordered(p, below.seen) /\ i \notin below.seen /\ a.path \cap below.seen = {}
            /\ a.seen \subseteq below.seen /\ Elements(DepsOf(p, i)) \subseteq below.seen
        <5> HIDE DEF i, below
        <5> QED BY <4>4, <4>6
      <4> HIDE DEF below
      <4>8. Ordered(p, s)
        <5> HIDE DEF i
        <5> QED BY <3>3, <4>7, OneMoreInOrder
      <4>9. s \in SUBSET Names(p) /\ a.path \cap s = {} /\ a.seen \subseteq s /\ i \in s
        <5>1. below.seen \subseteq Names(p)
          BY <4>7, PartsOfPlan DEF Ordered
        <5> HIDE DEF i
        <5> QED BY <3>2, <3>4, <4>7, <5>1
      <4>10. dfs[a] = dfs[Beside(a, s)]
        BY <4>2, <4>3
      <4> HIDE DEF Done, i, T, s
      <4> QED BY <3>5, <4>8, <4>9, <4>10
    <3> QED BY <3>6, <3>7
  <2> QED BY <2>1, <2>2
<1>5. Walks(p) \subseteq T
  <2> HIDE DEF T
  <2> QED BY <1>1, <1>4, WalkInduction
<1> DEFINE all == Whole(p)
<1>6. all \in Walks(p) /\ Elements(all.todo) = StepIds(p)
  BY WholeIsAWalk
<1>7. all.path = {} /\ all.seen = {}
  BY DEF Whole
<1>8. ~dfs[all].cycle
  BY DEF HasCycle, Whole, dfs
<1> HIDE DEF all
<1>9. Fine(all)
  <2>1. Ordered(p, {})
    <3>1. Cardinality({}) = 0
      BY FS_EmptySet
    <3>2. Sorted(p, {}, [i \in {} |-> 0])
      BY <3>1 DEF Sorted
    <3> QED BY <3>2 DEF Ordered
  <2> QED BY <1>6, <1>7, <2>1
<1>10. Done(all, dfs[all].seen)
  <2>1. all \in T
    BY <1>5, <1>6
  <2> HIDE DEF Fine, Done
  <2> QED BY <1>8, <1>9, <2>1
<1>11. StepIds(p) = dfs[all].seen /\ Ordered(p, dfs[all].seen)
  BY <1>6, <1>10 DEF Ordered
<1> QED BY <1>11

(* The names of a plan that passes the other checks are told apart, ...    *)
LEMMA NamesAreToldApart ==
  ASSUME NEW p, IsPlan(p), Cardinality(StepIds(p)) = Len(p)
  PROVE  \A n, k \in DOMAIN p : p[n].id = p[k].id => n = k
<1> DEFINE N == Len(p)
<1>1. N \in Nat /\ DOMAIN p = 1..N
  BY PartsOfPlan
<1> SUFFICES ASSUME NEW n \in 1..N, NEW k \in 1..N, p[n].id = p[k].id, n # k PROVE FALSE
  BY <1>1
<1> DEFINE D == (1..N) \ {k}
           f == [m \in D |-> p[m].id]
<1>2. IsFiniteSet(1..N) /\ Cardinality(1..N) = N
  <2>1. 1 \in Int /\ N \in Int /\ N >= 1 /\ N - 1 + 1 = N /\ ~ (1 > N)
    BY <1>1
  <2> HIDE DEF N
  <2>2. IsFiniteSet(1..N) /\ Cardinality(1..N) = IF 1 > N THEN 0 ELSE N - 1 + 1
    BY <2>1, FS_Interval
  <2> QED BY <2>1, <2>2
<1>3. IsFiniteSet(D) /\ Cardinality(D) = N - 1
  <2> HIDE DEF N
  <2> QED BY <1>1, <1>2, FS_RemoveElement
<1>4. f \in Surjection(D, StepIds(p))
  <2>1. ASSUME NEW i \in StepIds(p) PROVE \E m \in D : p[m].id = i
    <3>1. PICK m \in 1..N : p[m].id = i
      BY <1>1, <2>1 DEF StepIds
    <3>2. CASE m = k
      BY <3>1, <3>2
    <3>3. CASE m # k
      BY <3>1, <3>3
    <3> QED BY <3>2, <3>3
  <2>2. ASSUME NEW m \in D PROVE p[m].id \in StepIds(p)
    BY <1>1 DEF StepIds
  <2>3. f \in [D -> StepIds(p)]
    BY <2>2
  <2> HIDE DEF D
  <2> QED BY <2>1, <2>3 DEF Surjection
<1>5. Cardinality(StepIds(p)) <= N - 1
  <2> HIDE DEF D, f, N
  <2> QED BY <1>3, <1>4, FS_Surjection
<1> QED BY <1>1, <1>5

(* ... so that a step's dependencies are those of its name.                *)
LEMMA DependenciesByName ==
  ASSUME NEW p, IsPlan(p), Cardinality(StepIds(p)) = Len(p), NEW n \in DOMAIN p
  PROVE  DepsOf(p, p[n].id) = p[n].deps
<1>1. PICK k \in DOMAIN p : p[k].id = p[n].id /\ DepsOf(p, p[n].id) = p[k].deps
  <2>1. p[n].id \in StepIds(p)
    BY PartsOfPlan
  <2> QED BY <2>1, DependenciesOf
<1>2. k = n
  BY <1>1, NamesAreToldApart
<1> QED BY <1>1, <1>2

(* The validator's verdict on a plan whose other parts are fine.           *)
LEMMA ValidIsOrderable ==
  ASSUME NEW p, IsPlan(p), Len(p) \in 1..MaxSteps, \A n \in DOMAIN p : p[n].agent \in AllowedAgents
  PROVE  Valid(p) <=> Orderable(p)
<1>1. DOMAIN p = 1..Len(p)
  BY PartsOfPlan
<1>2. ASSUME Orderable(p) PROVE Valid(p)
  <2>1. PICK rank : Ranks(p, rank)
    BY <1>2 DEF Orderable, Ranks
  <2>2. ~HasCycle(p)
    BY <2>1, OrderHasNoCycle
  <2>3. \A n \in DOMAIN p : Elements(p[n].deps) \subseteq StepIds(p)
    BY <2>1 DEF Ranks
  <2> QED BY <1>2, <2>2, <2>3 DEF Orderable, Valid
<1>3. ASSUME Valid(p) PROVE Orderable(p)
  <2>1. Cardinality(StepIds(p)) = Len(p) /\ ~HasCycle(p) /\ \A n \in DOMAIN p : Elements(p[n].deps) \subseteq StepIds(p)
    BY <1>3 DEF Valid
  <2>2. PICK rank : Sorted(p, StepIds(p), rank)
    BY <2>1, NoCycleHasOrder DEF Ordered
  <2>3. rank \in [StepIds(p) -> DOMAIN p]
    BY <1>1, <2>1, <2>2 DEF Sorted
  <2>4. ASSUME NEW n \in DOMAIN p, NEW d \in Elements(p[n].deps)
        PROVE  d \in StepIds(p) /\ rank[d] < rank[p[n].id]
    <3>1. DepsOf(p, p[n].id) = p[n].deps /\ p[n].id \in StepIds(p)
      BY <2>1, DependenciesByName, PartsOfPlan
    <3> QED BY <2>2, <2>4, <3>1 DEF Sorted
  <2> QED BY <2>1, <2>3, <2>4 DEF Orderable
<1> QED BY <1>2, <1>3

-----------------------------------------------------------------------------
(* The largest of numbers, and 0 of none.                                  *)
LEMMA LargestIs ==
  ASSUME NEW S \in SUBSET Nat, IsFiniteSet(S)
  PROVE  Largest(S) \in S \cup {0} /\ Largest(S) \in Nat /\ \A y \in S : y <= Largest(S)
<1>1. \E x \in S \cup {0} : \A y \in S : y <= x
  <2>1. CASE S = {}
    BY <2>1
  <2>2. CASE S # {}
    BY <2>2, GreatestExists
  <2> QED BY <2>1, <2>2
<1> DEFINE m == Largest(S)
<1>2. m \in S \cup {0} /\ \A y \in S : y <= m
  BY <1>1, Zenon DEF Largest
<1> HIDE DEF m
<1>3. m \in Nat
  BY <1>2
<1> QED BY <1>2, <1>3 DEF m

(* A set whose numbers are all reached by those of a part of it.           *)
LEMMA LargestOfPart ==
  ASSUME NEW S \in SUBSET Nat, NEW A \in SUBSET S, IsFiniteSet(A),
         \A y \in S : \E x \in A : y <= x
  PROVE  Largest(A) = Largest(S)
<1> DEFINE m == Largest(A)
<1>1. m \in A \cup {0} /\ m \in Nat /\ \A y \in A : y <= m
  BY LargestIs
<1> HIDE DEF m
<1>2. m \in S \cup {0} /\ \A y \in S : y <= m
  BY <1>1
<1>3. ASSUME NEW x \in S \cup {0}, \A y \in S : y <= x PROVE x = m
  BY <1>1, <1>2, <1>3
<1> QED BY <1>2, <1>3 DEF Largest, m

-----------------------------------------------------------------------------
(* The critical path.  What is added up along a list of steps.             *)
Lasting == \A i \in StepIds(plan) : Duration(i) \in Nat

LEMMA LengthsAre ==
  ASSUME Lasting, NEW k \in Nat, NEW c \in [1..k -> StepIds(plan)]
  PROVE  /\ Len(c) = k /\ Lengths(c) \in [0..k -> Nat] /\ Lengths(c)[0] = 0
         /\ \A n \in 1..k : Lengths(c)[n] = Lengths(c)[n - 1] + Duration(c[n])
<1> DEFINE d == [n \in 1..k |-> Duration(c[n])]
           step == [n \in 1..k |-> [x \in Nat |-> x + d[n]]]
           Sums(f) == [n \in 0..k |-> IF n = 0 THEN 0 ELSE f[n - 1] + Duration(c[n])]
<1>1. Len(c) = k
  OBVIOUS
<1>2. d \in [1..k -> Nat]
  BY DEF Lasting
<1> HIDE DEF d
<1>3. step \in [1..k -> [Nat -> Nat]]
  BY <1>2
<1>4. \A n \in 1..k : \A x \in Nat : step[n][x] = x + d[n]
  OBVIOUS
<1> HIDE DEF step
<1>5. Computable(k, Nat, 0, step)
  BY <1>3, RecursionExists
<1>6. PICK f \in [0..k -> Nat] : f[0] = 0 /\ \A n \in 1..k : f[n] = step[n][f[n - 1]]
  BY <1>5 DEF Computable
<1>7. \A n \in 1..k : f[n - 1] \in Nat /\ f[n] = f[n - 1] + Duration(c[n])
  <2>1. \A n \in 1..k : n - 1 \in 0..k /\ d[n] = Duration(c[n])
    BY DEF d
  <2> QED BY <1>4, <1>6, <2>1
<1>8. f = Sums(f)
  <2>1. \A n \in 0..k : f[n] = Sums(f)[n]
    BY <1>6, <1>7
  <2>2. f = [n \in 0..k |-> f[n]]
    BY <1>6
  <2> QED BY <2>1, <2>2
<1> DEFINE g == Lengths(c)
<1>9. g = Sums(g)
  <2>1. g = CHOOSE h : h = Sums(h)
    BY <1>1 DEF Lengths
  <2> HIDE DEF g, Sums
  <2> QED BY <1>8, <2>1
<1> HIDE DEF g
<1>10. g[0] = 0 /\ \A n \in 1..k : g[n] = g[n - 1] + Duration(c[n])
  BY <1>9
<1>11. \A n \in 0..k : g[n] = f[n]
  <2> DEFINE T == {n \in 0..k : g[n] = f[n]}
  <2>1. 0 \in T /\ \A n \in 1..k : n - 1 \in T => n \in T
    BY <1>6, <1>7, <1>10
  <2>2. 0..k \subseteq T
    <3> HIDE DEF T
    <3> QED BY <2>1, UpTo
  <2> QED BY <2>2
<1>12. g \in [0..k -> Nat]
  BY <1>6, <1>9, <1>11
<1> QED BY <1>1, <1>10, <1>12 DEF g

(* One step more at the end.                                               *)
LEMMA LengthGrows ==
  ASSUME Lasting, NEW k \in Nat, NEW c \in [1..k -> StepIds(plan)], NEW i \in StepIds(plan),
         NEW e \in [1..(k + 1) -> StepIds(plan)], \A n \in 1..k : e[n] = c[n], e[k + 1] = i
  PROVE  Length(e) = Length(c) + Duration(i)
<1> DEFINE f == Lengths(c)
           g == Lengths(e)
           T == {n \in 0..k : g[n] = f[n]}
<1>1. k + 1 \in Nat
  OBVIOUS
<1>2. /\ Len(c) = k /\ f \in [0..k -> Nat] /\ f[0] = 0
      /\ \A n \in 1..k : f[n] = f[n - 1] + Duration(c[n])
  BY LengthsAre
<1>3. /\ Len(e) = k + 1 /\ g[0] = 0
      /\ \A n \in 1..(k + 1) : g[n] = g[n - 1] + Duration(e[n])
  BY <1>1, LengthsAre
<1> HIDE DEF f, g
<1>4. 0 \in T /\ \A n \in 1..k : n - 1 \in T => n \in T
  BY <1>2, <1>3
<1>5. 0..k \subseteq T
  <2> HIDE DEF T
  <2> QED BY <1>4, UpTo
<1>6. g[k] = f[k]
  BY <1>5
<1>7. g[k + 1] = f[k] + Duration(i)
  <2>1. k + 1 \in 1..(k + 1) /\ (k + 1) - 1 = k
    OBVIOUS
  <2> QED BY <1>3, <1>6, <2>1
<1> QED BY <1>2, <1>3, <1>7 DEF Length, f, g

(* The totals of the steps: each on top of those it depends on.            *)
Total(t) ==
  /\ t \in [StepIds(plan) -> Nat]
  /\ \A n \in DOMAIN plan :
       t[plan[n].id] = Largest({t[d] : d \in Elements(plan[n].deps)}) + Duration(plan[n].id)
Earliest(n) == {plan[k].id : k \in 1..n}

(* Of a part of the steps, one more total.                                 *)
LEMMA OnTopIs ==
  ASSUME IsPlan(plan), Lasting, NEW n \in DOMAIN plan, NEW D \in SUBSET StepIds(plan), NEW b \in [D -> Nat]
  PROVE  /\ OnTop(plan[n], b) \in [D \cup {plan[n].id} -> Nat]
         /\ D \cup {plan[n].id} \in SUBSET StepIds(plan)
         /\ \A i \in D : i # plan[n].id => OnTop(plan[n], b)[i] = b[i]
         /\ OnTop(plan[n], b)[plan[n].id] =
              Largest({b[d] : d \in Elements(plan[n].deps) \cap D}) + Duration(plan[n].id)
<1> DEFINE s == plan[n]
           E == Elements(s.deps) \cap D
           met == {b[d] : d \in E}
           v == Largest(met) + Duration(s.id)
           f == [i \in D \cup {s.id} |-> IF i = s.id THEN v ELSE b[i]]
<1>1. s.id \in StepIds(plan) /\ IsFiniteSet(StepIds(plan))
  BY PartsOfPlan
<1>2. IsFiniteSet(met) /\ met \in SUBSET Nat
  <2>1. IsFiniteSet(E)
    BY <1>1, FS_Subset
  <2> DEFINE g == [d \in E |-> b[d]]
  <2>2. g \in Surjection(E, met)
    BY DEF Surjection
  <2>3. met \in SUBSET Nat
    OBVIOUS
  <2> HIDE DEF g, E, met
  <2> QED BY <2>1, <2>2, <2>3, FS_Surjection
<1>3. v \in Nat
  <2>1. Largest(met) \in Nat
    <3> HIDE DEF met
    <3> QED BY <1>2, LargestIs
  <2>2. Duration(s.id) \in Nat
    BY <1>1 DEF Lasting
  <2> HIDE DEF met, s
  <2> QED BY <2>1, <2>2
<1>4. OnTop(s, b) = f
  <2>1. DOMAIN b = D
    OBVIOUS
  <2> HIDE DEF s
  <2> QED BY <2>1 DEF OnTop
<1>5. v = Largest({b[d] : d \in Elements(plan[n].deps) \cap D}) + Duration(plan[n].id)
  OBVIOUS
<1> HIDE DEF v
<1>6. f \in [D \cup {s.id} -> Nat] /\ f[s.id] = v /\ \A i \in D : i # s.id => f[i] = b[i]
  <2> HIDE DEF s
  <2> QED BY <1>3
<1> HIDE DEF f
<1> QED BY <1>1, <1>4, <1>5, <1>6

(* The totals are worked out step by step, ...                             *)
LEMMA CumulativeIs ==
  ASSUME IsPlan(plan), Lasting
  PROVE  /\ Cumulative[0] = <<>>
         /\ \A n \in DOMAIN plan : Cumulative[n] = OnTop(plan[n], Cumulative[n - 1])
         /\ \A n \in 0..Len(plan) : Cumulative[n] \in [Earliest(n) -> Nat] /\ Earliest(n) \subseteq StepIds(plan)
<1> DEFINE N == Len(plan)
           S == UNION {[D -> Nat] : D \in SUBSET StepIds(plan)}
           step == [n \in 1..N |-> [b \in S |-> OnTop(plan[n], b)]]
           Values(f) == [n \in 0..N |-> IF n = 0 THEN <<>> ELSE OnTop(plan[n], f[n - 1])]
           L == Cumulative
<1>1. N \in Nat /\ DOMAIN plan = 1..N
  BY PartsOfPlan
<1>2. ASSUME NEW n \in 1..N, NEW b \in S PROVE OnTop(plan[n], b) \in S
  <2>1. PICK D \in SUBSET StepIds(plan) : b \in [D -> Nat]
    OBVIOUS
  <2>2. OnTop(plan[n], b) \in [D \cup {plan[n].id} -> Nat] /\ D \cup {plan[n].id} \in SUBSET StepIds(plan)
    BY <1>1, <2>1, OnTopIs
  <2> QED BY <2>2
<1>3. <<>> \in [{} -> Nat] /\ <<>> \in S
  <2>1. <<>> \in [{} -> Nat]
    OBVIOUS
  <2> QED BY <2>1
<1> HIDE DEF S, N
<1>4. step \in [1..N -> [S -> S]]
  BY <1>2
<1>5. \A n \in 1..N : \A b \in S : step[n][b] = OnTop(plan[n], b)
  OBVIOUS
<1> HIDE DEF step
<1>6. Computable(N, S, <<>>, step)
  BY <1>1, <1>3, <1>4, RecursionExists
<1>7. PICK f \in [0..N -> S] : f[0] = <<>> /\ \A n \in 1..N : f[n] = step[n][f[n - 1]]
  BY <1>6 DEF Computable
<1>8. \A n \in 1..N : f[n] = OnTop(plan[n], f[n - 1])
  <2>1. \A n \in 1..N : f[n - 1] \in S
    BY <1>1
  <2> QED BY <1>5, <1>7, <2>1
<1>9. f = Values(f)
  <2>1. \A n \in 0..N : f[n] = Values(f)[n]
    BY <1>1, <1>7, <1>8
  <2>2. f = [n \in 0..N |-> f[n]]
    BY <1>7
  <2> QED BY <2>1, <2>2
<1>10. L = Values(L)
  <2>1. L = CHOOSE h : h = Values(h)
    BY DEF Cumulative, N
  <2> HIDE DEF L, Values
  <2> QED BY <1>9, <2>1
<1> HIDE DEF L
<1>11. L[0] = <<>> /\ \A n \in 1..N : L[n] = OnTop(plan[n], L[n - 1])
  BY <1>1, <1>10
<1> DEFINE T == {n \in 0..N : L[n] \in [Earliest(n) -> Nat] /\ Earliest(n) \in SUBSET StepIds(plan)}
<1>12. 0 \in T
  <2>1. Earliest(0) = {}
    BY DEF Earliest
  <2>2. L[0] \in [Earliest(0) -> Nat]
    BY <1>3, <1>11, <2>1
  <2> QED BY <1>1, <2>1, <2>2
<1>13. ASSUME NEW n \in 1..N, n - 1 \in T PROVE n \in T
  <2> DEFINE D == Earliest(n - 1)
  <2>1. D \in SUBSET StepIds(plan) /\ L[n - 1] \in [D -> Nat]
    BY <1>13
  <2>2. Earliest(n) = D \cup {plan[n].id}
    <3>1. 1..n = (1..(n - 1)) \cup {n}
      BY <1>1
    <3> QED BY <3>1 DEF Earliest
  <2> HIDE DEF D
  <2>3. OnTop(plan[n], L[n - 1]) \in [D \cup {plan[n].id} -> Nat] /\ D \cup {plan[n].id} \in SUBSET StepIds(plan)
    BY <1>1, <2>1, OnTopIs
  <2> QED BY <1>11, <2>2, <2>3
<1>14. 0..N \subseteq T
  <2> HIDE DEF T
  <2> QED BY <1>1, <1>12, <1>13, UpTo
<1> QED BY <1>1, <1>11, <1>14 DEF L, N

(* ... never change once they stand, and are totals if the plan lists the  *)
(* steps in order.                                                         *)
LEMMA CumulativeIsTotal ==
  ASSUME IsPlan(plan), Lasting, Cardinality(StepIds(plan)) = Len(plan), ListedInOrder
  PROVE  Total(Cumulative[Len(plan)])
<1> DEFINE N == Len(plan)
           L == Cumulative
           t == L[N]
<1>1. N \in Nat /\ DOMAIN plan = 1..N
  BY PartsOfPlan
<1>2. /\ \A n \in 1..N : L[n] = OnTop(plan[n], L[n - 1])
      /\ \A n \in 0..N : L[n] \in [Earliest(n) -> Nat] /\ Earliest(n) \subseteq StepIds(plan)
  BY <1>1, CumulativeIs
<1>3. \A n, k \in 1..N : plan[n].id = plan[k].id => n = k
  BY <1>1, NamesAreToldApart
<1>4. \A n \in 1..N : Elements(plan[n].deps) \subseteq Earliest(n - 1)
  BY <1>1 DEF ListedInOrder, Earliest
<1> HIDE DEF L
<1>5. ASSUME NEW n \in 1..N
      PROVE  /\ \A i \in Earliest(n - 1) : L[n][i] = L[n - 1][i] /\ i \in Earliest(n)
             /\ L[n][plan[n].id] = Largest({L[n - 1][d] : d \in Elements(plan[n].deps)}) + Duration(plan[n].id)
  <2> DEFINE D == Earliest(n - 1)
  <2>1. D \in SUBSET StepIds(plan) /\ L[n - 1] \in [D -> Nat]
    <3>1. n - 1 \in 0..N
      BY <1>1
    <3> QED BY <1>2, <3>1
  <2>2. \A i \in D : i # plan[n].id
    BY <1>1, <1>3 DEF Earliest
  <2>3. Elements(plan[n].deps) \cap D = Elements(plan[n].deps)
    BY <1>4
  <2>4. D \subseteq Earliest(n)
    BY <1>1 DEF Earliest
  <2> HIDE DEF D
  <2>5. /\ \A i \in D : i # plan[n].id => OnTop(plan[n], L[n - 1])[i] = L[n - 1][i]
        /\ OnTop(plan[n], L[n - 1])[plan[n].id] =
             Largest({L[n - 1][d] : d \in Elements(plan[n].deps) \cap D}) + Duration(plan[n].id)
    <3> DEFINE b == L[n - 1]
    <3>1. n \in DOMAIN plan /\ b \in [D -> Nat]
      BY <1>1, <2>1
    <3> HIDE DEF b
    <3>2. /\ \A i \in D : i # plan[n].id => OnTop(plan[n], b)[i] = b[i]
          /\ OnTop(plan[n], b)[plan[n].id] =
               Largest({b[d] : d \in Elements(plan[n].deps) \cap D}) + Duration(plan[n].id)
      BY <2>1, <3>1, OnTopIs
    <3> QED BY <3>2 DEF b
  <2>6. \A i \in D : L[n][i] = L[n - 1][i] /\ i \in Earliest(n)
    BY <1>2, <2>2, <2>4, <2>5
  <2>7. L[n][plan[n].id] = Largest({L[n - 1][d] : d \in Elements(plan[n].deps)}) + Duration(plan[n].id)
    BY <1>2, <2>3, <2>5
  <2> QED BY <2>6, <2>7 DEF D
<1> DEFINE T == {k \in 0..N : \A i \in Earliest(N - k) : t[i] = L[N - k][i]}
<1>6. 0 \in T
  BY <1>1
<1>7. ASSUME NEW k \in 1..N, k - 1 \in T PROVE k \in T
  <2> DEFINE n == N - k + 1
  <2>1. n \in 1..N /\ N - k = n - 1 /\ N - (k - 1) = n
    BY <1>1
  <2>2. \A i \in Earliest(n) : t[i] = L[n][i]
    BY <1>7, <2>1
  <2> HIDE DEF n
  <2>3. \A i \in Earliest(n - 1) : t[i] = L[n - 1][i]
    BY <1>5, <2>1, <2>2
  <2> QED BY <2>1, <2>3
<1>8. 0..N \subseteq T
  <2> HIDE DEF T
  <2> QED BY <1>1, <1>6, <1>7, UpTo
<1>9. ASSUME NEW n \in 0..N, NEW i \in Earliest(n) PROVE t[i] = L[n][i]
  <2>1. N - n \in 0..N /\ N - (N - n) = n
    BY <1>1
  <2>2. N - n \in T
    <3> HIDE DEF T
    <3> QED BY <1>8, <2>1
  <2> HIDE DEF t
  <2>3. \A j \in Earliest(N - (N - n)) : t[j] = L[N - (N - n)][j]
    BY <2>2
  <2> QED BY <2>1, <2>3
<1>10. ASSUME NEW n \in 1..N
       PROVE  t[plan[n].id] = Largest({t[d] : d \in Elements(plan[n].deps)}) + Duration(plan[n].id)
  <2>1. n \in 0..N /\ n - 1 \in 0..N
    BY <1>1
  <2>2. t[plan[n].id] = L[n][plan[n].id]
    <3>1. plan[n].id \in Earliest(n)
      BY <1>1 DEF Earliest
    <3> QED BY <1>9, <2>1, <3>1
  <2>3. {t[d] : d \in Elements(plan[n].deps)} = {L[n - 1][d] : d \in Elements(plan[n].deps)}
    <3>1. \A d \in Elements(plan[n].deps) : t[d] = L[n - 1][d]
      BY <1>4, <1>9, <2>1
    <3> HIDE DEF t
    <3> QED BY <3>1
  <2> HIDE DEF t
  <2> QED BY <1>5, <2>2, <2>3
<1>11. t \in [StepIds(plan) -> Nat]
  <2>1. Earliest(N) = StepIds(plan)
    BY <1>1 DEF Earliest, StepIds
  <2>2. N \in 0..N
    BY <1>1
  <2> QED BY <1>2, <2>1, <2>2
<1> HIDE DEF t
<1>12. Total(t)
  BY <1>1, <1>10, <1>11 DEF Total
<1> QED BY <1>12 DEF t, L

-----------------------------------------------------------------------------
(* Chains.  No chain is longer than the total of its last step.            *)
LEMMA ChainsAreNotLonger ==
  ASSUME IsPlan(plan), Lasting, Cardinality(StepIds(plan)) = Len(plan), NEW t, Total(t),
         \A n \in DOMAIN plan : Elements(plan[n].deps) \subseteq StepIds(plan), NEW c \in Chains
  PROVE  \E i \in StepIds(plan) : Length(c) <= t[i]
<1>1. PICK k \in 1..Len(plan) : c \in [1..k -> StepIds(plan)]
  BY DEF Chains
<1>2. k \in Nat /\ k \in 1..k /\ Len(plan) \in Nat
  BY PartsOfPlan
<1> DEFINE g == Lengths(c)
           T == {n \in 0..k : n = 0 \/ g[n] <= t[c[n]]}
<1>3. /\ Len(c) = k /\ g \in [0..k -> Nat] /\ g[0] = 0
      /\ \A n \in 1..k : g[n] = g[n - 1] + Duration(c[n])
  BY <1>1, <1>2, LengthsAre
<1> HIDE DEF g
<1>4. \A n \in 1..k : c[n] \in StepIds(plan)
  BY <1>1
<1>5. ASSUME NEW n \in 1..k, n - 1 \in T PROVE n \in T
  <2>1. PICK m \in DOMAIN plan : plan[m].id = c[n]
    BY <1>4 DEF StepIds
  <2> DEFINE met == {t[d] : d \in Elements(plan[m].deps)}
  <2>2. DepsOf(plan, c[n]) = plan[m].deps
    BY <2>1, DependenciesByName
  <2>3. IsFiniteSet(met) /\ met \in SUBSET Nat
    <3> DEFINE E == Elements(plan[m].deps)
               h == [d \in E |-> t[d]]
    <3>1. E \subseteq StepIds(plan)
      OBVIOUS
    <3>2. IsFiniteSet(E)
      BY <3>1, PartsOfPlan, FS_Subset
    <3>3. h \in Surjection(E, met)
      BY DEF Surjection
    <3>4. met \in SUBSET Nat
      BY <3>1 DEF Total
    <3> HIDE DEF h, E, met
    <3> QED BY <3>2, <3>3, <3>4, FS_Surjection
  <2>4. t[c[n]] = Largest(met) + Duration(c[n])
    BY <2>1 DEF Total
  <2>5. Largest(met) \in Nat /\ \A y \in met : y <= Largest(met)
    <3> HIDE DEF met
    <3> QED BY <2>3, LargestIs
  <2>6. g[n - 1] <= Largest(met)
    <3>1. CASE n = 1
      BY <1>3, <2>5, <3>1
    <3>2. CASE n # 1
      <4>1. n \in 2..Len(c) /\ n - 1 # 0
        BY <1>2, <1>3, <3>2
      <4>2. c[n - 1] \in Elements(plan[m].deps)
        BY <2>2, <4>1 DEF Chains
      <4>3. t[c[n - 1]] \in met
        BY <4>2
      <4>4. g[n - 1] <= t[c[n - 1]]
        BY <1>5, <4>1
      <4>5. g[n - 1] \in Nat /\ t[c[n - 1]] \in Nat
        BY <1>2, <1>3, <2>3, <4>3
      <4> HIDE DEF met
      <4> QED BY <2>5, <4>3, <4>4, <4>5
    <3> QED BY <3>1, <3>2
  <2>7. Duration(c[n]) \in Nat /\ g[n - 1] \in Nat
    <3>1. Duration(c[n]) \in Nat
      BY <1>4 DEF Lasting
    <3>2. n - 1 \in 0..k
      BY <1>2
    <3> QED BY <1>3, <3>1, <3>2
  <2> HIDE DEF met
  <2>8. g[n] <= t[c[n]]
    <3>1. g[n] = g[n - 1] + Duration(c[n])
      BY <1>3
    <3> DEFINE lasts == Duration(c[n])
               most == Largest(met)
               before == g[n - 1]
    <3>2. {lasts, most, before} \subseteq Nat /\ before <= most
      BY <2>5, <2>6, <2>7
    <3> HIDE DEF lasts, most, before
    <3>3. before + lasts <= most + lasts
      BY <3>2
    <3> QED BY <2>4, <3>1, <3>3 DEF lasts, most, before
  <2> QED BY <2>8
<1>6. 0 \in T
  BY <1>2
<1>7. 0..k \subseteq T
  <2> HIDE DEF T
  <2> QED BY <1>2, <1>5, <1>6, UpTo
<1>8. g[k] <= t[c[k]]
  BY <1>2, <1>7
<1> QED BY <1>2, <1>3, <1>4, <1>8 DEF Length, g

(* The total of a step is the length of a chain that ends with it.         *)
EndsWith(c, n) == c \in Chains /\ Len(c) <= n /\ Len(c) # 0 /\ c[Len(c)] = plan[n].id

(* One step.                                                               *)
LEMMA ShortestChain ==
  ASSUME IsPlan(plan), Lasting, NEW n \in DOMAIN plan
  PROVE  \E c : EndsWith(c, n) /\ Length(c) = Duration(plan[n].id)
<1> DEFINE i == plan[n].id
           none == [m \in 1..0 |-> i]
           e == [m \in 1..1 |-> i]
<1>1. i \in StepIds(plan) /\ Len(plan) \in Nat /\ n \in 1..Len(plan)
  BY PartsOfPlan
<1> HIDE DEF i
<1>2. none \in [1..0 -> StepIds(plan)] /\ e \in [1..(0 + 1) -> StepIds(plan)] /\ e[0 + 1] = i
  BY <1>1
<1>3. Len(none) = 0 /\ Lengths(none)[0] = 0 /\ Length(none) = 0
  <2> HIDE DEF none
  <2>1. 0 \in Nat
    OBVIOUS
  <2>2. Len(none) = 0 /\ Lengths(none)[0] = 0
    BY <1>2, <2>1, LengthsAre
  <2> QED BY <2>2 DEF Length
<1>4. Len(e) = 1
  OBVIOUS
<1>5. e \in Chains
  <2>1. e \in UNION {[1..k -> StepIds(plan)] : k \in 1..Len(plan)}
    <3>1. 1 \in 1..Len(plan) /\ e \in [1..1 -> StepIds(plan)]
      BY <1>1, <1>2
    <3> QED BY <3>1
  <2>2. \A m \in 2..Len(e) : FALSE
    BY <1>4
  <2> HIDE DEF e
  <2> QED BY <2>1, <2>2 DEF Chains
<1>6. Length(e) = 0 + Duration(i)
  <2> DEFINE k == 0
  <2>1. k \in Nat /\ none \in [1..k -> StepIds(plan)] /\ e \in [1..(k + 1) -> StepIds(plan)] /\ e[k + 1] = i
        /\ \A m \in 1..k : e[m] = none[m]
    BY <1>2
  <2> HIDE DEF k, none, e
  <2>2. Length(e) = Length(none) + Duration(i)
    BY <1>1, <2>1, LengthGrows
  <2> QED BY <1>3, <2>2
<1>7. EndsWith(e, n)
  <2>1. e[1] = i
    OBVIOUS
  <2> HIDE DEF e
  <2> QED BY <1>1, <1>4, <1>5, <2>1 DEF EndsWith, i
<1>8. Duration(i) \in Nat
  BY <1>1 DEF Lasting
<1> HIDE DEF e
<1> QED BY <1>6, <1>7, <1>8 DEF i

(* One step more.                                                          *)
LEMMA LongerChain ==
  ASSUME IsPlan(plan), Lasting, Cardinality(StepIds(plan)) = Len(plan), NEW n \in DOMAIN plan,
         NEW m \in 1..(n - 1), NEW c, EndsWith(c, m), plan[m].id \in Elements(plan[n].deps)
  PROVE  \E e : EndsWith(e, n) /\ Length(e) = Length(c) + Duration(plan[n].id)
<1> DEFINE i == plan[n].id
           k == Len(c)
           e == [j \in 1..(k + 1) |-> IF j = k + 1 THEN i ELSE c[j]]
<1>1. i \in StepIds(plan) /\ Len(plan) \in Nat /\ n \in 1..Len(plan)
  BY PartsOfPlan
<1>2. k \in 1..Len(plan) /\ c \in [1..k -> StepIds(plan)]
  <2>1. PICK l \in 1..Len(plan) : c \in [1..l -> StepIds(plan)]
    BY DEF EndsWith, Chains
  <2>2. Len(c) = l
    BY <1>1, <2>1
  <2> QED BY <2>1, <2>2
<1>3. k <= m /\ c[k] = plan[m].id /\ \A j \in 2..k : c[j - 1] \in Elements(DepsOf(plan, c[j]))
  BY DEF EndsWith, Chains
<1>4. DepsOf(plan, i) = plan[n].deps
  BY DependenciesByName
<1> HIDE DEF i, k
<1>5. /\ e \in [1..(k + 1) -> StepIds(plan)] /\ Len(e) = k + 1
      /\ e[k + 1] = i /\ \A j \in 1..k : e[j] = c[j]
  BY <1>1, <1>2
<1> HIDE DEF e
<1>6. k \in Nat /\ k + 1 \in 1..Len(plan) /\ k + 1 <= n
  BY <1>1, <1>2, <1>3
<1>7. ASSUME NEW j \in 2..(k + 1) PROVE e[j - 1] \in Elements(DepsOf(plan, e[j]))
  <2>1. CASE j = k + 1
    <3>1. e[j - 1] = c[k] /\ e[j] = i
      BY <1>2, <1>5, <2>1
    <3> QED BY <1>3, <1>4, <3>1
  <2>2. CASE j # k + 1
    <3>1. e[j - 1] = c[j - 1] /\ e[j] = c[j] /\ j \in 2..k
      BY <1>5, <1>6, <1>7, <2>2
    <3> QED BY <1>3, <3>1
  <2> QED BY <2>1, <2>2
<1>8. e \in Chains
  <2>1. e \in UNION {[1..l -> StepIds(plan)] : l \in 1..Len(plan)}
    BY <1>5, <1>6
  <2> QED BY <1>5, <1>7, <2>1 DEF Chains
<1>9. EndsWith(e, n)
  BY <1>5, <1>6, <1>8 DEF EndsWith, i
<1>10. Length(e) = Length(c) + Duration(i)
  BY <1>1, <1>2, <1>5, <1>6, LengthGrows
<1> QED BY <1>9, <1>10 DEF i

(* By induction along the plan.                                            *)
LEMMA TotalsAreLengths ==
  ASSUME IsPlan(plan), Lasting, Cardinality(StepIds(plan)) = Len(plan), ListedInOrder, NEW t, Total(t)
  PROVE  \A i \in StepIds(plan) : \E c \in Chains : Length(c) = t[i]
<1> DEFINE N == Len(plan)
           Reached(n) == \E c : EndsWith(c, n) /\ Length(c) = t[plan[n].id]
           T == {k \in 0..N : \A n \in 1..k : Reached(n)}
<1>1. N \in Nat /\ DOMAIN plan = 1..N
  BY PartsOfPlan
<1>2. ASSUME NEW n \in 1..N PROVE Elements(plan[n].deps) \subseteq {plan[k].id : k \in 1..(n - 1)}
  BY <1>1 DEF ListedInOrder
<1>3. 0 \in T
  BY <1>1
<1>4. ASSUME NEW n \in 1..N, n - 1 \in T PROVE n \in T
  <2> DEFINE E == Elements(plan[n].deps)
             met == {t[d] : d \in E}
             i == plan[n].id
  <2>1. E \subseteq StepIds(plan) /\ i \in StepIds(plan)
    <3>1. \A k \in 1..N : plan[k].id \in StepIds(plan)
      BY <1>1, PartsOfPlan
    <3>2. {plan[k].id : k \in 1..(n - 1)} \subseteq StepIds(plan)
      BY <1>1, <3>1
    <3> QED BY <1>2, <3>1, <3>2
  <2>2. IsFiniteSet(met) /\ met \in SUBSET Nat
    <3> DEFINE h == [d \in E |-> t[d]]
    <3>1. IsFiniteSet(E)
      <4> HIDE DEF E
      <4> QED BY <2>1, PartsOfPlan, FS_Subset
    <3>2. h \in Surjection(E, met)
      BY DEF Surjection
    <3>3. met \in SUBSET Nat
      BY <2>1 DEF Total
    <3> HIDE DEF h, E, met
    <3> QED BY <3>1, <3>2, <3>3, FS_Surjection
  <2>3. Largest(met) \in met \cup {0}
    <3> HIDE DEF met
    <3> QED BY <2>2, LargestIs
  <2>4. t[i] = Largest(met) + Duration(i) /\ Duration(i) \in Nat
    BY <1>1, <2>1 DEF Total, Lasting
  <2>5. Reached(n)
    <3>1. CASE Largest(met) \in met
      <4>1. PICK d \in E : Largest(met) = t[d]
        BY <3>1
      <4>2. PICK m \in 1..(n - 1) : plan[m].id = d
        BY <1>2, <4>1
      <4>3. PICK c : EndsWith(c, m) /\ Length(c) = t[d]
        <5>1. Reached(m)
          BY <1>4, <4>2
        <5> QED BY <4>2, <5>1
      <4>4. plan[m].id \in Elements(plan[n].deps) /\ n \in DOMAIN plan
        BY <1>1, <4>1, <4>2
      <4> HIDE DEF E, met, i
      <4>5. PICK e : EndsWith(e, n) /\ Length(e) = Length(c) + Duration(plan[n].id)
        BY <4>3, <4>4, LongerChain
      <4>6. Length(e) = t[i]
        BY <2>4, <4>1, <4>3, <4>5 DEF i
      <4> QED BY <4>5, <4>6 DEF i
    <3>2. CASE Largest(met) = 0
      <4>1. n \in DOMAIN plan
        BY <1>1
      <4> HIDE DEF E, met, i
      <4>2. PICK e : EndsWith(e, n) /\ Length(e) = Duration(plan[n].id)
        BY <4>1, ShortestChain
      <4>3. Length(e) = t[i]
        BY <2>4, <3>2, <4>2 DEF i
      <4> QED BY <4>2, <4>3 DEF i
    <3> HIDE DEF Reached, met
    <3> QED BY <2>3, <3>1, <3>2
  <2> HIDE DEF Reached
  <2>6. \A m \in 1..n : Reached(m)
    <3>1. \A m \in 1..(n - 1) : Reached(m)
      BY <1>4
    <3> QED BY <1>1, <2>5, <3>1
  <2> QED BY <2>6
<1>5. 0..N \subseteq T
  <2> HIDE DEF T
  <2> QED BY <1>1, <1>3, <1>4, UpTo
<1>6. \A n \in 1..N : Reached(n)
  <2> HIDE DEF Reached
  <2>1. N \in T
    <3> HIDE DEF T
    <3> QED BY <1>1, <1>5
  <2> QED BY <2>1
<1> QED BY <1>1, <1>6 DEF EndsWith, StepIds

(* So the critical path is as long as the longest chain.                   *)
LEMMA LongestChain ==
  ASSUME IsPlan(plan), Lasting, Valid(plan), ListedInOrder
  PROVE  CriticalPath = Largest({Length(c) : c \in Chains})
<1> DEFINE t == Cumulative[Len(plan)]
           A == {t[i] : i \in StepIds(plan)}
           S == {Length(c) : c \in Chains}
<1>1. Cardinality(StepIds(plan)) = Len(plan) /\ \A n \in DOMAIN plan : Elements(plan[n].deps) \subseteq StepIds(plan)
  BY DEF Valid
<1>2. Total(t)
  BY <1>1, CumulativeIsTotal
<1>3. CriticalPath = Largest(A)
  <2>1. DOMAIN t = StepIds(plan)
    BY <1>2 DEF Total
  <2>2. Elements(t) = A
    BY <2>1 DEF Elements
  <2> QED BY <2>2 DEF CriticalPath
<1>4. t \in [StepIds(plan) -> Nat]
  BY <1>2 DEF Total
<1> HIDE DEF t
<1>5. IsFiniteSet(A)
  <2>1. t \in Surjection(StepIds(plan), A)
    BY <1>4 DEF Surjection
  <2> HIDE DEF A
  <2> QED BY <2>1, PartsOfPlan, FS_Surjection
<1>6. S \in SUBSET Nat
  <2> SUFFICES ASSUME NEW c \in Chains PROVE Length(c) \in Nat
    OBVIOUS
  <2>1. PICK k \in 1..Len(plan) : c \in [1..k -> StepIds(plan)]
    BY DEF Chains
  <2>2. k \in Nat
    BY PartsOfPlan
  <2>3. Len(c) = k /\ Lengths(c) \in [0..k -> Nat]
    BY <2>1, <2>2, LengthsAre
  <2> QED BY <2>2, <2>3 DEF Length
<1>7. A \in SUBSET S
  BY <1>1, <1>2, TotalsAreLengths
<1>8. \A y \in S : \E x \in A : y <= x
  BY <1>1, <1>2, ChainsAreNotLonger
<1> HIDE DEF A, S
<1>9. Largest(A) = Largest(S)
  BY <1>5, <1>6, <1>7, <1>8, LargestOfPart
<1> QED BY <1>3, <1>9 DEF S

-----------------------------------------------------------------------------
(* The validator lets a plan pass exactly if its steps can be put in an    *)
(* order in which every step comes after what it depends on, for every     *)
(* plan: a depth-first search of any depth (validator.py:41-66).           *)
THEOREM ValidPlansAreAlwaysOrderable == Spec => []ValidPlansAreOrderable
<1>1. IInv => ValidPlansAreOrderable
  <2> SUFFICES ASSUME IInv, Len(plan) \in 1..MaxSteps, \A n \in DOMAIN plan : plan[n].agent \in AllowedAgents
               PROVE  Valid(plan) <=> Orderable(plan)
    BY DEF ValidPlansAreOrderable
  <2>1. IsPlan(plan)
    BY PlanFacts DEF IInv, Types, TypeOK
  <2> QED BY <2>1, ValidIsOrderable
<1> QED BY <1>1, AlwaysGood, PTL

(* The latency reported for the critical path is that of the longest chain *)
(* of dependent steps, if the plan lists every step after those it depends *)
(* on (finalize_node.py:43-66).                                            *)
THEOREM CriticalPathIsAlwaysLongest == Spec => []CriticalPathIsLongest
<1>1. IInv => CriticalPathIsLongest
  <2> SUFFICES ASSUME IInv, Valid(plan), ListedInOrder
               PROVE  CriticalPath = Largest({Length(c) : c \in Chains})
    BY DEF CriticalPathIsLongest
  <2>1. IsPlan(plan)
    BY PlanFacts DEF IInv, Types, TypeOK
  <2>2. Lasting
    <3>1. \A i \in DOMAIN results : results[i].attempt \in 1..MaxAttempts /\ MaxAttempts \in Nat
      BY PlanAssumption DEF IInv, Types, TypeOK
    <3> QED BY <3>1 DEF Lasting, Duration
  <2> QED BY <2>1, <2>2, LongestChain
<1> QED BY <1>1, AlwaysGood, PTL
=============================================================================
