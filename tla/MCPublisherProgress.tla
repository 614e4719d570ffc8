------------------------ MODULE MCPublisherProgress ------------------------
(***************************************************************************)
(* What the publishers get done in the end, in two deployments: a worker   *)
(* that is alone, with crashes and every fault, and one beside the command *)
(* line of an operator, with neither.  A behaviour is one of the           *)
(* deployment chosen at its start.                                         *)
(***************************************************************************)
EXTENDS Naturals

CONSTANTS Drafts, Sources, Builds, Worker, Operators, Orphan, None

VARIABLES
  deployment,
  draft, source, jobs, njobs, release, releasedBy, built, artifact, pointer,
  lease, lapsed, pc, op, crashes

(* Some member of a set, as a set.                                         *)
One(S) == {CHOOSE x \in S : TRUE}

Alone  == INSTANCE KnowledgePublication WITH
  Sources <- One(Sources), Operators <- {}, MaxJobs <- 4, MaxCrashes <- 2,
  Faults <- {"database", "redis", "chroma", "files", "stall"}
Beside == INSTANCE KnowledgePublication WITH
  Drafts <- One(Drafts), MaxJobs <- 3, MaxCrashes <- 0, Faults <- {}

progressVars == <<deployment, Alone!vars>>

ProgressInit ==
  \/ deployment = "alone" /\ Alone!Init
  \/ deployment = "beside" /\ Beside!Init

In(d, step) == deployment = d /\ step /\ UNCHANGED deployment

ProgressNext == In("alone", Alone!Next) \/ In("beside", Beside!Next)

(* The worker's loop runs for as long as its process does and its process  *)
(* is restarted; a started command line runs to its end.  Administrators,  *)
(* operators, faults and crashes are under no obligation.                  *)
WorkerSteps ==
  \/ In("alone", Alone!WorkerStep)
  \/ In("beside", Beside!WorkerStep)
Restarts == In("alone", Alone!Restart)
OperatorSteps(p) == In("beside", Beside!IndexerStep(p))

ProgressSpec ==
  /\ ProgressInit /\ [][ProgressNext]_progressVars
  /\ WF_progressVars(WorkerSteps)
  /\ WF_progressVars(Restarts)
  /\ \A p \in Operators : WF_progressVars(OperatorSteps(p))

-----------------------------------------------------------------------------
(* A job queued for a worker that is alone is claimed, however many jobs   *)
(* before it fail, crash the worker or cannot be reported.                 *)
Waiting(j) == deployment = "alone" /\ jobs[j].status = "queued"
QueuedJobsAreClaimed == \A j \in Alone!JobIds : Waiting(j) ~> ~Waiting(j)

(* While no call fails and nothing crashes, no draft stays in validating   *)
(* or publishing beside an operator's command line.                        *)
Unsettled(d) == deployment = "beside" /\ draft[d] \in {"validating", "publishing"}
DraftsSettle == \A d \in One(Drafts) : Unsettled(d) ~> ~Unsettled(d)
=============================================================================
