--------------------------- MODULE TraceRecorder ---------------------------
(***************************************************************************)
(* The recorder of one turn's trace (observability/service.py) with the    *)
(* registry that holds it and the tables it writes.  A span is open while  *)
(* its with-block runs, its row is written when it closes; a finished      *)
(* recorder takes nothing more.  Nothing that fails here may fail the      *)
(* turn: a failed call is an entry of the recorder's list of errors.       *)
(***************************************************************************)
EXTENDS Naturals, Sequences, FiniteSets

CONSTANTS
  Faults   \* bound: calls of the store that fail or whose commit is not heard of

ASSUME FaultsAssumption == Faults \in Nat

VARIABLES
  spans,   \* open, closed (with its status), and known to be written
  rows,    \* the tables: the trace's status, and the spans that have a row
  rec      \* the rest of the recorder, and whether the registry holds it

traceVars == <<spans, rows, rec>>

NoRow == "no row"

(* What a call of the store comes to: a row is written and the caller      *)
(* told, or not written, or written although the caller hears an error.    *)
Outcomes == IF rec.faults < Faults THEN {"ok", "lost", "unheard"} ELSE {"ok"}
Written(w) == w \in {"ok", "unheard"}
Fault(w) == IF w = "ok" THEN 0 ELSE 1

(* A row that belongs to the trace, or updates it, needs the trace's row.   *)
Persists(w) == w = "ok" /\ rows.trace # NoRow

(* TraceRegistry.start with TraceRecorder.__init__: create_trace.          *)
TraceInit ==
  /\ spans = [open |-> {}, closed |-> {}, known |-> {}]
  /\ \E w \in (IF Faults > 0 THEN {"ok", "lost", "unheard"} ELSE {"ok"}) :
       /\ rows = [trace |-> IF Written(w) THEN "running" ELSE NoRow, spans |-> {}]
       /\ rec = [faults |-> Fault(w), finished |-> FALSE, persisted |-> FALSE, registered |-> TRUE]

(* span: entered while the recorder is open, otherwise the block runs      *)
(* without one.                                                            *)
OpenSpan(s) ==
  spans' = IF rec.finished THEN spans ELSE [spans EXCEPT !.open = @ \cup {s}]

(* _complete_span.  A span's row needs its trace's (foreign key); a span   *)
(* that was not open, or closes too late, leaves nothing.                  *)
Recorded(s, status, w) ==
  /\ spans' = [open   |-> spans.open \ {s},
               closed |-> spans.closed \cup {<<s, status>>},
               known  |-> IF Persists(w) THEN spans.known \cup {s} ELSE spans.known]
  /\ rows' = IF Written(w) /\ rows.trace # NoRow
             THEN [rows EXCEPT !.spans = @ \cup {s}] ELSE rows
  /\ rec' = [rec EXCEPT !.faults = @ + Fault(w)]

(* Mutant of CloseSpan: a span whose block raised is not completed.         *)
CloseSpanOfSuccess(s, status, w) ==
  IF ~rec.finished /\ s \in spans.open /\ status # "failed"
  THEN Recorded(s, status, w)
  ELSE spans' = [spans EXCEPT !.open = @ \ {s}] /\ UNCHANGED <<rows, rec>>

CloseSpan(s, status, w) ==
  IF ~rec.finished /\ s \in spans.open
  THEN Recorded(s, status, w)
  ELSE spans' = [spans EXCEPT !.open = @ \ {s}] /\ UNCHANGED <<rows, rec>>

(* TraceRegistry.finish and TraceRecorder.finish: open spans are waited    *)
(* for, then left behind; the row is updated if there is one.              *)
(* Mutant of FinishTrace: a recorder whose row cannot be written stays.     *)
FinishTraceIfPersisted(status, w) ==
  IF ~rec.registered
  THEN UNCHANGED <<rows, rec>>
  ELSE /\ rows' = IF Written(w) /\ rows.trace # NoRow
                  THEN [rows EXCEPT !.trace = status] ELSE rows
       /\ rec' = [rec EXCEPT !.finished = TRUE, !.registered = ~Persists(w),
                             !.persisted = Persists(w), !.faults = @ + Fault(w)]

FinishTrace(status, w) ==
  IF ~rec.registered
  THEN UNCHANGED <<rows, rec>>
  ELSE /\ rows' = IF Written(w) /\ rows.trace # NoRow
                  THEN [rows EXCEPT !.trace = status] ELSE rows
       /\ rec' = [rec EXCEPT !.finished = TRUE, !.registered = FALSE,
                             !.persisted = Persists(w), !.faults = @ + Fault(w)]

(* update_span_artifact: refused unless the finish was persisted and the   *)
(* span is known to be written.  p says that the finish was.               *)
(* Mutant of SpanArtifactKept: spans that are not known are not refused.    *)
SpanArtifactAnyhow(s, p, w) == p /\ w = "ok"

SpanArtifactKept(s, p, w) == p /\ s \in spans.known /\ w = "ok"
=============================================================================
