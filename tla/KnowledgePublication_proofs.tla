--------------------- MODULE KnowledgePublication_proofs ---------------------
(***************************************************************************)
(* Proofs about KnowledgePublication, for any number of drafts, builds,    *)
(* operators, jobs and crashes and any set of faults.                      *)
(*                                                                         *)
(* The inductive invariant grows in layers, each proved on those above it: *)
(*   Structure   types, the shape of the job table, what the worker and a  *)
(*               command line hold at each label;                          *)
(*   Validity    what the pointer, and whoever is about to move it, name;  *)
(*   Agreement   drafts and their jobs (on Structure alone);               *)
(*   Ledger      drafts and their rows in the release table;               *)
(*   Custody     what a sole publisher knows (without command lines);      *)
(*   Exclusion   who holds the lease where (without stalls);               *)
(*   Reports     what the holder of the lease has in its hands (likewise). *)
(***************************************************************************)
EXTENDS KnowledgePublication, TLAPS

-----------------------------------------------------------------------------
(* Structure.                                                              *)

Busy == pc[Worker] \notin {"idle", "down"}

(* Rows exist up to njobs; a row of a draft is of an uploaded draft, a     *)
(* rollback row names its release.                                         *)
JobsWellFormed ==
  \A j \in JobIds :
    /\ j > njobs <=> jobs[j].status = "absent"
    /\ jobs[j].status # "absent" =>
         /\ jobs[j].kind \in JobKind
         /\ jobs[j].kind # "rollback_release" =>
              jobs[j].draft \in Drafts /\ source[jobs[j].draft] # None
         /\ jobs[j].kind = "rollback_release" =>
              jobs[j].draft = None /\ jobs[j].build \in Builds

DraftsHaveContent == \A d \in Drafts : draft[d] # "absent" <=> source[d] # None

JobLabels == {"validate", "prepare", "fail"}
BuildLabels == {"peek", "peekPointer", "recheck", "recheckPointer", "build", "artifact"}

(* The worker works on a claimed job, whose transaction may have committed *)
(* unnoticed when it is about to fail it.                                  *)
WorkerHasJob ==
  Busy => /\ op[Worker].job \in JobIds
          /\ jobs[op[Worker].job].status # "absent"
          /\ op[Worker].task = jobs[op[Worker].job].kind
          /\ op[Worker].task \in JobKind
          /\ pc[Worker] = "validate" => op[Worker].task = "validate_draft"
          /\ pc[Worker] = "prepare" => op[Worker].task = "publish_draft"
          /\ pc[Worker] \notin {"validate", "fail"} => op[Worker].task # "validate_draft"

OperatorsHaveTask ==
  \A p \in Operators :
    /\ pc[p] \notin JobLabels \cup {"down"}
    /\ pc[p] # "idle" => op[p].task \in CliTasks

TaskHasContent(p) ==
  /\ pc[p] \in BuildLabels => op[p].task \in BuildTasks
  /\ pc[p] = "restore" => op[p].task = "rollback_release"
  /\ op[p].task \in BuildTasks => op[p].src # None
TasksHaveContent == \A p \in Procs : TaskHasContent(p)

Structure == /\ TypeOK /\ JobsWellFormed /\ DraftsHaveContent
             /\ WorkerHasJob /\ OperatorsHaveTask /\ TasksHaveContent

-----------------------------------------------------------------------------
(* Agreement and Ledger.                                                   *)

RowsHaveDrafts ==
  \A b \in Builds : release[b] = "absent" <=> releasedBy[b] = None

RollbacksHaveRows ==
  \A j \in JobIds : jobs[j].status # "absent" /\ jobs[j].kind = "rollback_release" =>
    release[jobs[j].build] # "absent"

WorkerRestoresJobsBuild ==
  Busy /\ op[Worker].task = "rollback_release" =>
    op[Worker].build = jobs[op[Worker].job].build /\ pc[Worker] # "readSwap"

Ledger == /\ RowsHaveDrafts /\ RollbacksHaveRows /\ WorkerRestoresJobsBuild
          /\ OneCurrentRelease /\ PublishedDraftsHaveTheirRelease

-----------------------------------------------------------------------------
(* Validity.                                                               *)

Valid(b) == b \in Builds /\ artifact[b] # None /\ b \in built

HoldsValidated(p) ==
  /\ pc[p] \in {"peekPointer", "recheckPointer"} /\ op[p].matched => pointer.current # None
  /\ pc[p] = "artifact" => op[p].build \in built
  /\ pc[p] \in {"assert", "readPointer", "upsert", "unlock", "log", "complete"} =>
       Valid(op[p].build)
  /\ op[p].seen # None => Valid(op[p].seen)

Validity == PointerNamesValidated /\ \A p \in Procs : HoldsValidated(p)

-----------------------------------------------------------------------------
(* Exclusion.                                                              *)

Holding == Critical \cup {"unlock", "abort"}

HoldsLease(p) ==
  /\ p \in lapsed => pc[p] \in Holding
  /\ lease = p => pc[p] \in Holding
  /\ pc[p] \in Critical /\ p \notin lapsed => lease = p
  /\ pc[p] \in {"readPointer", "upsert"} => lease = p
  /\ ( \/ pc[p] = "upsert"
       \/ pc[p] = "assert" /\ p \notin lapsed /\ op[p].task = "rollback" )
     => op[p].seen = pointer.current

LeaseHolders == \A p \in Procs : HoldsLease(p)

-----------------------------------------------------------------------------
(* Types.                                                                  *)

(* The idle local state has its type.                                      *)
LEMMA NoOpType == NoOp \in Ops
  BY ConstantsAssumption DEF NoOp, Ops

(* What a run of the command line starts with.                             *)
LEMMA CliTaskType ==
  ASSUME NEW t \in CliTasks, NEW s \in Sources \cup {None}
  PROVE  /\ [NoOp EXCEPT !.task = t, !.src = s] \in Ops
         /\ [NoOp EXCEPT !.task = t] \in Ops
         /\ [NoOp EXCEPT !.task = t, !.src = s].seen = None
         /\ [NoOp EXCEPT !.task = t].seen = None
<1>1. [NoOp EXCEPT !.task = t, !.src = s] \in Ops
  BY NoOpType DEF Ops
<1>2. [NoOp EXCEPT !.task = t] \in Ops
  BY NoOpType DEF Ops
<1> QED
  BY <1>1, <1>2 DEF NoOp

(* What the operators that actions share do to the types.                  *)
LEMMA GotoType ==
  ASSUME TypeOK, NEW p \in Procs, NEW label \in Labels, Goto(p, label)
  PROVE  pc' \in [Procs -> Labels]
  BY DEF TypeOK, Goto

(* Ending a unit of work keeps the local types.                            *)
LEMMA FinishType ==
  ASSUME TypeOK, NEW p \in Procs, Finish(p)
  PROVE  pc' \in [Procs -> Labels] /\ op' \in [Procs -> Ops]
  BY NoOpType DEF TypeOK, Finish, Goto, Labels

(* So does an exception,                                                   *)
LEMMA RaiseType ==
  ASSUME TypeOK, NEW p \in Procs, Raise(p)
  PROVE  pc' \in [Procs -> Labels] /\ op' \in [Procs -> Ops]
  BY FinishType DEF TypeOK, Raise, Goto, Labels

(* and a commit, heard of or not.                                          *)
LEMMA CommitType ==
  ASSUME TypeOK, Commit
  PROVE  pc' \in [Procs -> Labels] /\ op' \in [Procs -> Ops]
  BY FinishType, RaiseType DEF Commit, Procs

(* A draft moves between statuses.                                         *)
LEMMA MoveDraftType ==
  ASSUME TypeOK, NEW d, NEW target \in DraftStatus, MoveDraft(d, target)
  PROVE  draft' \in [Drafts -> DraftStatus]
  BY DEF TypeOK, MoveDraft

(* An enqueued job is a row of the table.                                  *)
LEMMA EnqueueType ==
  ASSUME TypeOK, NEW kind \in JobKind, NEW d \in Drafts \cup {None},
         NEW b \in Builds \cup {None}, Enqueue(kind, d, b)
  PROVE  jobs' \in [JobIds -> Jobs] /\ njobs' \in 0..MaxJobs
<1>1. jobs' \in [JobIds -> Jobs]
  BY DEF TypeOK, Enqueue, Jobs, JobStatus
<1>2. njobs' \in 0..MaxJobs
  BY ConstantsAssumption DEF TypeOK, Enqueue
<1> QED
  BY <1>1, <1>2

(* Setting a status keeps every row a row.                                 *)
LEMMA JobStatusType ==
  ASSUME TypeOK, NEW j, NEW status \in JobStatus,
         jobs' = [jobs EXCEPT ![j].status = status]
  PROVE  jobs' \in [JobIds -> Jobs]
<1>1. \A r \in Jobs : [r EXCEPT !.status = status] \in Jobs
  BY DEF Jobs
<1>2. \A i \in JobIds : jobs'[i] \in Jobs
  BY <1>1 DEF TypeOK
<1> QED
  BY <1>2 DEF TypeOK

(* So does setting a field of the local state.                             *)
LEMMA FieldType ==
  ASSUME TypeOK, NEW p \in Procs, NEW b \in Builds \cup {None},
         \/ op' = [op EXCEPT ![p].seen = b]
         \/ op' = [op EXCEPT ![p].build = b]
         \/ \E m \in BOOLEAN : op' = [op EXCEPT ![p].matched = m]
         \/ \E c \in Builds \cup {None} :
              op' = [op EXCEPT ![p].build = b, ![p].seen = c]
  PROVE  op' \in [Procs -> Ops]
  BY SMTT(30) DEF TypeOK, Ops

(* Every action keeps the types.                                           *)
LEMMA TypeStep ==
  ASSUME Structure, [Next]_vars
  PROVE  TypeOK'
<1> USE DEF Structure, TypeOK, db, storage, redis
<1>1. ASSUME NEW d \in Drafts, NEW s \in Sources, Upload(d, s) PROVE TypeOK'
  BY <1>1, EnqueueType DEF Upload, JobKind, DraftStatus
<1>2. ASSUME NEW d \in Drafts, QueueValidation(d) PROVE TypeOK'
  BY <1>2, EnqueueType, MoveDraftType DEF QueueValidation, JobKind, DraftStatus
<1>3. ASSUME NEW d \in Drafts, QueuePublish(d) PROVE TypeOK'
  BY <1>3, EnqueueType, MoveDraftType DEF QueuePublish, JobKind, DraftStatus
<1>4. ASSUME NEW b \in Builds, QueueRollback(b) PROVE TypeOK'
  BY <1>4, EnqueueType DEF QueueRollback, JobKind
<1>5. ASSUME Claim PROVE TypeOK'
  <2>1. jobs' \in [JobIds -> Jobs]
    BY <1>5, JobStatusType DEF Claim, JobStatus
  <2>2. pc' \in [Procs -> Labels]
    BY <1>5, GotoType DEF Claim, FirstCall, JobsWellFormed, JobKind, Labels, Procs
  <2>3. op' \in [Procs -> Ops]
    <3>1. ASSUME NEW j \in JobIds, jobs[j].status # "absent"
          PROVE  [task    |-> jobs[j].kind, job |-> j,
                  src     |-> IF jobs[j].kind = "publish_draft"
                                THEN source[jobs[j].draft] ELSE None,
                  matched |-> FALSE, seen |-> None, build |-> jobs[j].build] \in Ops
      BY <3>1, ConstantsAssumption DEF JobsWellFormed, JobIds, Jobs, Ops, JobKind
    <3>2. CASE op' = op
      BY <3>2
    <3>3. CASE op' # op
      <4>1. PICK j \in JobIds :
              /\ jobs[j].status = "queued"
              /\ op' = [op EXCEPT ![Worker] =
                   [task    |-> jobs[j].kind, job |-> j,
                    src     |-> IF jobs[j].kind = "publish_draft"
                                  THEN source[jobs[j].draft] ELSE None,
                    matched |-> FALSE, seen |-> None, build |-> jobs[j].build]]
        BY <1>5, <3>3 DEF Claim
      <4> DEFINE taken == [task    |-> jobs[j].kind, job |-> j,
                           src     |-> IF jobs[j].kind = "publish_draft"
                                         THEN source[jobs[j].draft] ELSE None,
                           matched |-> FALSE, seen |-> None, build |-> jobs[j].build]
      <4>2. taken \in Ops
        BY <3>1, <4>1
      <4>3. op' = [op EXCEPT ![Worker] = taken]
        BY <4>1
      <4> HIDE DEF taken
      <4> QED BY <4>2, <4>3
    <3> QED BY <3>2, <3>3
  <2> QED
    BY <1>5, <2>1, <2>2, <2>3 DEF Claim
<1>6. ASSUME CompleteValidation PROVE TypeOK'
  BY <1>6, CommitType, MoveDraftType, JobStatusType DEF CompleteValidation, Succeed, JobStatus, DraftStatus
<1>7. ASSUME Prepare PROVE TypeOK'
  BY <1>7, GotoType DEF Prepare, Labels, Procs
<1>8. ASSUME RecordRelease PROVE TypeOK'
  <2>1. MyDraft \in Drafts \cup {None}
    BY <1>8 DEF RecordRelease, WorkerHasJob, Busy, MyDraft, MyJob, Jobs
  <2> QED
    BY <1>8, <2>1, CommitType, JobStatusType
    DEF RecordRelease, Succeed, JobStatus, DraftStatus, ReleaseStatus
<1>9. ASSUME RecordRollback PROVE TypeOK'
  BY <1>9, CommitType, JobStatusType DEF RecordRollback, Succeed, JobStatus, ReleaseStatus
<1>10. ASSUME FailJob PROVE TypeOK'
  <2>1. draft' \in [Drafts -> DraftStatus]
    BY <1>10, MoveDraftType
    DEF FailJob, FailedStatus, WorkerHasJob, Busy, JobKind, DraftStatus
  <2> QED
    BY <1>10, <2>1, FinishType, JobStatusType DEF FailJob, JobStatus, Procs
<1>11. ASSUME FailJobRaises PROVE TypeOK'
  BY <1>11, FinishType DEF FailJobRaises, Procs
<1>12. ASSUME NEW p \in Procs, ReadDescriptor(p) PROVE TypeOK'
  <2> DEFINE m == /\ op[p].task # "force_rebuild"
                  /\ pointer.current # None
                  /\ artifact[pointer.current] = op[p].src
  <2>1. pc' \in [Procs -> Labels]
    BY <1>12, GotoType DEF ReadDescriptor, Labels, Critical
  <2>2. op' = [op EXCEPT ![p].matched = m]
    BY <1>12 DEF ReadDescriptor
  <2>3. m \in BOOLEAN
    OBVIOUS
  <2> HIDE DEF m
  <2>4. op' \in [Procs -> Ops]
    BY <2>2, <2>3, FieldType
  <2> QED
    BY <1>12, <2>1, <2>4 DEF ReadDescriptor
<1>13. ASSUME NEW p \in Procs, ReadCurrentBuild(p) PROVE TypeOK'
  <2>1. pc' \in [Procs -> Labels]
    BY <1>13, GotoType DEF ReadCurrentBuild, Labels, Critical
  <2> QED
    BY <1>13, <2>1, FieldType DEF ReadCurrentBuild
<1>14. ASSUME NEW p \in Procs, Acquire(p) PROVE TypeOK'
  BY <1>14, GotoType DEF Acquire, Labels, Critical
<1>15. ASSUME NEW p \in Procs, AcquireRefused(p) PROVE TypeOK'
  BY <1>15, RaiseType DEF AcquireRefused
<1>16. ASSUME NEW p \in Procs, AcquireUnproved(p) PROVE TypeOK'
  BY <1>16, RaiseType DEF AcquireUnproved
<1>17. ASSUME NEW p \in Procs, BuildCollection(p) PROVE TypeOK'
  <2>1. PICK b \in Builds \ built : /\ built' = built \cup {b}
                                    /\ op' = [op EXCEPT ![p].build = b]
    BY <1>17 DEF BuildCollection
  <2>2. op' \in [Procs -> Ops]
    BY <2>1, FieldType
  <2>3. pc' \in [Procs -> Labels]
    BY <1>17, GotoType DEF BuildCollection, Labels, Critical
  <2> QED
    BY <1>17, <2>1, <2>2, <2>3 DEF BuildCollection
<1>18. ASSUME NEW p \in Procs, CreateArtifact(p) PROVE TypeOK'
  BY <1>18, GotoType DEF CreateArtifact, Labels, Critical, Ops
<1>19. ASSUME NEW p \in Procs, ReadTarget(p) PROVE TypeOK'
  BY <1>19, GotoType DEF ReadTarget, Labels, Critical
<1>20. ASSUME NEW p \in Procs, ReadSwap(p) PROVE TypeOK'
  BY <1>20, GotoType, FieldType DEF ReadSwap, Labels, Critical
<1>21. ASSUME NEW p \in Procs, AssertHeld(p) PROVE TypeOK'
  BY <1>21, GotoType DEF AssertHeld, Labels, Critical
<1>22. ASSUME NEW p \in Procs, ReadPointer(p) PROVE TypeOK'
  BY <1>22, GotoType, FieldType DEF ReadPointer, Labels, Critical
<1>23. ASSUME NEW p \in Procs, Upsert(p) PROVE TypeOK'
  BY <1>23, GotoType DEF Upsert, Labels, Ops
<1>24. ASSUME NEW p \in Procs, Release(p) PROVE TypeOK'
  BY <1>24, GotoType, RaiseType DEF Release, AfterRelease, Labels
<1>25. ASSUME NEW p \in Procs, ReleaseRaises(p) PROVE TypeOK'
  BY <1>25, RaiseType DEF ReleaseRaises
<1>26. ASSUME NEW p \in Procs, LogSuccess(p) PROVE TypeOK'
  BY <1>26, GotoType DEF LogSuccess, Labels
<1>27. ASSUME NEW p \in Procs, CliExit(p) PROVE TypeOK'
  BY <1>27, FinishType DEF CliExit
<1>28. ASSUME NEW p \in Procs, CallRaises(p) PROVE TypeOK'
  BY <1>28, GotoType, RaiseType DEF CallRaises, Labels
<1>29. ASSUME LeaseExpires PROVE TypeOK'
  BY <1>29 DEF LeaseExpires
<1>30. ASSUME Restart PROVE TypeOK'
  BY <1>30, GotoType DEF Restart, Labels, Procs
<1>31. ASSUME NEW p \in Procs, CliStart(p) PROVE TypeOK'
  <2>1. PICK o \in Ops : op' = [op EXCEPT ![p] = o]
    BY <1>31, CliTaskType DEF CliStart, CliTasks
  <2>2. op' \in [Procs -> Ops]
    BY <2>1
  <2> QED
    BY <1>31, <2>2, GotoType DEF CliStart, Labels
<1>32. ASSUME NEW p \in Procs, HeartbeatFails(p) PROVE TypeOK'
  BY <1>32 DEF HeartbeatFails
<1>33. ASSUME NEW p \in Procs, Crash(p) PROVE TypeOK'
  <2>1. pc' \in [Procs -> Labels]
    BY <1>33, GotoType DEF Crash, Labels
  <2>2. op' \in [Procs -> Ops]
    BY <1>33, NoOpType DEF Crash
  <2>3. crashes' \in 0..MaxCrashes
    BY <1>33, ConstantsAssumption DEF Crash
  <2>4. lease' \in Procs \cup {None, Orphan} /\ lapsed' \subseteq Procs
    BY <1>33 DEF Crash
  <2> QED
    BY <1>33, <2>1, <2>2, <2>3, <2>4 DEF Crash
<1>34. CASE UNCHANGED vars
  BY <1>34 DEF vars
<1> QED
  BY <1>1, <1>2, <1>3, <1>4, <1>5, <1>6, <1>7, <1>8, <1>9, <1>10, <1>11,
     <1>12, <1>13, <1>14, <1>15, <1>16, <1>17, <1>18, <1>19, <1>20, <1>21,
     <1>22, <1>23, <1>24, <1>25, <1>26, <1>27, <1>28, <1>29, <1>30, <1>31,
     <1>32, <1>33, <1>34
  DEF Next, Admin, JobStep, IndexerStep, Environment
-----------------------------------------------------------------------------
(* The rest of Structure.                                                  *)

(* An indexer step moves one process, which was at work, and ends its unit *)
(* of work or keeps its task and content.                                  *)
KeepsTask(p) ==
  /\ op'[p].task = op[p].task /\ op'[p].job = op[p].job /\ op'[p].src = op[p].src
  /\ pc'[p] \notin {"idle", "down", "validate", "prepare"}
  /\ pc'[p] = "fail" => p = Worker
  /\ pc'[p] # "fail" => pc[p] \notin {"validate", "fail"}
  /\ pc'[p] \in BuildLabels => op[p].task \in BuildTasks
  /\ pc'[p] = "restore" => op[p].task = "rollback_release"

MovesAlone(p) ==
  /\ \A q \in Procs \ {p} : pc'[q] = pc[q] /\ op'[q] = op[q]
  /\ pc[p] \notin {"idle", "down"}
  /\ (pc'[p] = "idle" /\ op'[p] = NoOp) \/ KeepsTask(p)

(* An exception moves its own process only.                                *)
LEMMA RaiseMoves ==
  ASSUME TypeOK, NEW p \in Procs, pc[p] \notin {"idle", "down"}, Raise(p)
  PROVE  MovesAlone(p)
  BY DEF TypeOK, Raise, Finish, Goto, MovesAlone, KeepsTask, BuildLabels

(* So does reaching the next call inside the indexer.                      *)
LEMMA GotoMoves ==
  ASSUME TypeOK, NEW p \in Procs,
         NEW label \in Labels \ {"idle", "down", "validate", "prepare", "fail"},
         Goto(p, label), pc[p] \notin {"idle", "down", "validate", "fail"},
         label \in BuildLabels => op[p].task \in BuildTasks,
         label = "restore" => op[p].task = "rollback_release",
         \A q \in Procs \ {p} : op'[q] = op[q],
         op'[p].task = op[p].task, op'[p].job = op[p].job, op'[p].src = op[p].src
  PROVE  MovesAlone(p)
  BY DEF TypeOK, Goto, MovesAlone, KeepsTask

(* Setting the fields that record what was read leaves the task alone.     *)
LEMMA FieldKeepsTask ==
  ASSUME TypeOK, NEW p \in Procs, NEW b,
         \/ op' = [op EXCEPT ![p].seen = b]
         \/ op' = [op EXCEPT ![p].build = b]
         \/ op' = [op EXCEPT ![p].matched = b]
         \/ \E c : op' = [op EXCEPT ![p].build = b, ![p].seen = c]
  PROVE  /\ \A q \in Procs \ {p} : op'[q] = op[q]
         /\ op'[p].task = op[p].task /\ op'[p].job = op[p].job /\ op'[p].src = op[p].src
  BY DEF TypeOK, Ops

(* Every step of the indexer is such a move.                               *)
LEMMA IndexerMoves ==
  ASSUME Structure, NEW p \in Procs, IndexerStep(p)
  PROVE  MovesAlone(p)
<1> USE DEF Structure, TaskHasContent
<1>1. CASE ReadDescriptor(p)
  BY <1>1, GotoMoves, FieldKeepsTask DEF ReadDescriptor, TasksHaveContent, Labels, Critical, BuildLabels
<1>2. CASE ReadCurrentBuild(p)
  BY <1>2, GotoMoves, FieldKeepsTask DEF ReadCurrentBuild, TasksHaveContent, Labels, Critical, BuildLabels
<1>3. CASE Acquire(p)
  <2>1. op[p].task \in BuildTasks \cup {"rollback", "rollback_release"}
    BY <1>3 DEF Acquire, WorkerHasJob, Busy, OperatorsHaveTask, JobKind, CliTasks, BuildTasks, Procs
  <2> QED
    BY <1>3, <2>1, GotoMoves DEF Acquire, Labels, Critical, BuildLabels
<1>4. CASE AcquireRefused(p)
  BY <1>4, RaiseMoves DEF AcquireRefused
<1>5. CASE AcquireUnproved(p)
  BY <1>5, RaiseMoves DEF AcquireUnproved
<1>6. CASE BuildCollection(p)
  BY <1>6, GotoMoves, FieldKeepsTask DEF BuildCollection, TasksHaveContent, Labels, Critical, BuildLabels
<1>7. CASE CreateArtifact(p)
  BY <1>7, GotoMoves DEF CreateArtifact, Labels, Critical, BuildLabels
<1>8. CASE ReadTarget(p)
  BY <1>8, GotoMoves DEF ReadTarget, Labels, Critical, BuildLabels
<1>9. CASE ReadSwap(p)
  BY <1>9, GotoMoves, FieldKeepsTask DEF ReadSwap, Labels, Critical, BuildLabels
<1>10. CASE AssertHeld(p)
  BY <1>10, GotoMoves DEF AssertHeld, Labels, Critical, BuildLabels
<1>11. CASE ReadPointer(p)
  BY <1>11, GotoMoves, FieldKeepsTask DEF ReadPointer, Labels, Critical, BuildLabels
<1>12. CASE Upsert(p)
  BY <1>12, GotoMoves DEF Upsert, Labels, Critical, BuildLabels
<1>13. CASE Release(p)
  BY <1>13, RaiseMoves, GotoMoves DEF Release, AfterRelease, Labels, Critical, BuildLabels
<1>14. CASE ReleaseRaises(p)
  BY <1>14, RaiseMoves DEF ReleaseRaises
<1>15. CASE LogSuccess(p)
  BY <1>15, GotoMoves DEF LogSuccess, Labels, BuildLabels
<1>16. CASE CliExit(p)
  BY <1>16 DEF CliExit, Finish, Goto, MovesAlone, TypeOK
<1>17. CASE CallRaises(p)
  BY <1>17, RaiseMoves, GotoMoves DEF CallRaises, Labels, Critical, BuildLabels
<1> QED
  BY <1>1, <1>2, <1>3, <1>4, <1>5, <1>6, <1>7, <1>8, <1>9, <1>10, <1>11,
     <1>12, <1>13, <1>14, <1>15, <1>16, <1>17 DEF IndexerStep

(* The indexer, the lease, failures and crashes leave the database alone.  *)
LEMMA OthersKeepDb ==
  ASSUME \/ \E p \in Procs : IndexerStep(p)
         \/ Environment \/ Prepare \/ FailJobRaises \/ UNCHANGED vars
  PROVE  UNCHANGED db
<1>1. ASSUME NEW p \in Procs, IndexerStep(p) PROVE UNCHANGED db
  BY <1>1 DEF IndexerStep, ReadDescriptor, ReadCurrentBuild, Acquire, AcquireRefused,
     AcquireUnproved, BuildCollection, CreateArtifact, ReadTarget, ReadSwap, AssertHeld,
     ReadPointer, Upsert, Release, ReleaseRaises, LogSuccess, CliExit, CallRaises
<1>2. CASE Environment
  BY <1>2 DEF Environment, LeaseExpires, Restart, CliStart, HeartbeatFails, Crash
<1> QED
  BY <1>1, <1>2 DEF Prepare, FailJobRaises, vars

(* A new row is queued in a free place; a status change keeps the rest.    *)
LEMMA EnqueueRow ==
  ASSUME TypeOK, JobsWellFormed, NEW kind, NEW d, NEW b, Enqueue(kind, d, b)
  PROVE  /\ njobs + 1 \in JobIds /\ njobs' = njobs + 1
         /\ jobs[njobs + 1].status = "absent"
         /\ jobs'[njobs + 1] = [kind |-> kind, status |-> "queued", draft |-> d, build |-> b]
         /\ \A j \in JobIds \ {njobs + 1} : jobs'[j] = jobs[j]
  BY ConstantsAssumption DEF TypeOK, Enqueue, JobsWellFormed, JobIds

(* The row that appears is the one enqueued.                               *)
LEMMA NewRow ==
  ASSUME TypeOK, JobsWellFormed, NEW kind, NEW d, NEW b, Enqueue(kind, d, b),
         NEW j \in JobIds, jobs[j].status = "absent", jobs'[j].status # "absent"
  PROVE  jobs'[j].kind = kind /\ jobs'[j].draft = d /\ jobs'[j].build = b
<1>1. /\ njobs + 1 \in JobIds
      /\ jobs'[njobs + 1] = [kind |-> kind, status |-> "queued", draft |-> d, build |-> b]
      /\ \A i \in JobIds \ {njobs + 1} : jobs'[i] = jobs[i]
  BY EnqueueRow
<1>2. j = njobs + 1
  BY <1>1
<1> QED
  BY <1>1, <1>2

SetsStatus(j, status) ==
  /\ jobs'[j].status = status
  /\ jobs'[j].kind = jobs[j].kind
  /\ jobs'[j].draft = jobs[j].draft
  /\ jobs'[j].build = jobs[j].build
  /\ \A i \in JobIds \ {j} : jobs'[i] = jobs[i]

(* Setting the status of a row leaves the rest of the table alone.         *)
LEMMA StatusRow ==
  ASSUME TypeOK, NEW j \in JobIds, NEW status,
         jobs' = [jobs EXCEPT ![j].status = status]
  PROVE  SetsStatus(j, status)
  BY DEF TypeOK, Jobs, SetsStatus

(* The worker's transactions change the status of its own job.             *)
LEMMA TransactionRow ==
  ASSUME Structure
  PROVE  /\ Claim => \E j \in JobIds : jobs[j].status = "queued" /\ SetsStatus(j, "running")
         /\ CompleteValidation \/ RecordRelease \/ RecordRollback =>
              MyJob \in JobIds /\ jobs[MyJob].status = "running" /\ SetsStatus(MyJob, "succeeded")
         /\ FailJob =>
              MyJob \in JobIds /\ jobs[MyJob].status = "running" /\ SetsStatus(MyJob, "failed")
<1> USE DEF Structure
<1>1. Claim => \E j \in JobIds : jobs[j].status = "queued" /\ SetsStatus(j, "running")
  BY StatusRow DEF Claim
<1>2. CompleteValidation \/ RecordRelease \/ RecordRollback =>
        MyJob \in JobIds /\ jobs[MyJob].status = "running" /\ SetsStatus(MyJob, "succeeded")
  BY StatusRow DEF CompleteValidation, RecordRelease, RecordRollback, CanRecordRelease,
     Succeed, WorkerHasJob, Busy, MyJob
<1>3. FailJob => MyJob \in JobIds /\ jobs[MyJob].status = "running" /\ SetsStatus(MyJob, "failed")
  BY StatusRow DEF FailJob, CanFail, WorkerHasJob, Busy, MyJob
<1> QED
  BY <1>1, <1>2, <1>3

(* How a step changes the job table: not at all, by a new queued row, or   *)
(* by the status of a row that is queued or running.                       *)
JobsStep ==
  \/ UNCHANGED <<jobs, njobs>>
  \/ \E kind \in JobKind, d \in Drafts \cup {None}, b \in Builds \cup {None} :
       /\ Enqueue(kind, d, b)
       /\ kind # "rollback_release" => d \in Drafts /\ source'[d] # None
       /\ kind = "rollback_release" => d = None /\ b \in Builds
  \/ UNCHANGED njobs /\ \E j \in JobIds, status \in {"running", "succeeded", "failed"} :
       jobs[j].status \in Active /\ SetsStatus(j, status)

(* Every step changes the job table in one of these ways.                  *)
LEMMA NextJobs ==
  ASSUME Structure, [Next]_vars
  PROVE  JobsStep
<1> USE DEF Structure
<1>1. ASSUME NEW d \in Drafts, NEW s \in Sources, Upload(d, s) PROVE JobsStep
  BY <1>1, ConstantsAssumption DEF Upload, JobsStep, JobKind, TypeOK
<1>2. ASSUME NEW d \in Drafts, QueueValidation(d) \/ QueuePublish(d) PROVE JobsStep
  <2>1. draft[d] # "absent"
    BY <1>2 DEF QueueValidation, QueuePublish, MoveDraft, Transitions, DraftStatus
  <2> QED
    BY <1>2, <2>1 DEF QueueValidation, QueuePublish, DraftsHaveContent, JobsStep, JobKind
<1>3. ASSUME NEW b \in Builds, QueueRollback(b) PROVE JobsStep
  BY <1>3 DEF QueueRollback, JobsStep, JobKind
<1>4. CASE Claim \/ CompleteValidation \/ RecordRelease \/ RecordRollback \/ FailJob
  BY <1>4, TransactionRow
  DEF Claim, CompleteValidation, RecordRelease, RecordRollback, FailJob, JobsStep, Active
<1>5. CASE UNCHANGED db
  BY <1>5 DEF db, JobsStep
<1> QED
  BY <1>1, <1>2, <1>3, <1>4, <1>5, OthersKeepDb DEF Next, Admin, JobStep

(* The content of a draft is staged once, when the draft is created.       *)
LEMMA MovedDraftExists ==
  ASSUME TypeOK, NEW d, NEW target \in DraftStatus \ {"absent"}, MoveDraft(d, target)
  PROVE  \A e \in Drafts : draft'[e] = "absent" <=> draft[e] = "absent"
  BY DEF TypeOK, MoveDraft, Transitions, DraftStatus

(* No step restages a draft, or makes one without content.                 *)
LEMMA NextSource ==
  ASSUME Structure, [Next]_vars
  PROVE  DraftsHaveContent' /\ \A d \in Drafts : source[d] # None => source'[d] = source[d]
<1> USE DEF Structure
<1>1. ASSUME NEW d \in Drafts, NEW s \in Sources, Upload(d, s)
      PROVE  DraftsHaveContent' /\ \A e \in Drafts : source[e] # None => source'[e] = source[e]
  BY <1>1, ConstantsAssumption DEF Upload, DraftsHaveContent, TypeOK
<1>2. ASSUME UNCHANGED source, \A e \in Drafts : draft'[e] = "absent" <=> draft[e] = "absent"
      PROVE  DraftsHaveContent' /\ \A e \in Drafts : source[e] # None => source'[e] = source[e]
  BY <1>2 DEF DraftsHaveContent
<1>3. CASE \E d \in Drafts : QueueValidation(d) \/ QueuePublish(d)
  BY <1>2, <1>3, MovedDraftExists DEF QueueValidation, QueuePublish, DraftStatus
<1>4. CASE CompleteValidation
  BY <1>2, <1>4, MovedDraftExists DEF CompleteValidation, DraftStatus
<1>5. CASE RecordRelease
  <2>1. draft[MyDraft] # "absent" /\ draft' = [draft EXCEPT ![MyDraft] = "published"]
    BY <1>5 DEF RecordRelease, CanRecordRelease
  <2>2. UNCHANGED source
    BY <1>5 DEF RecordRelease
  <2> QED
    BY <1>2, <2>1, <2>2 DEF TypeOK
<1>6. CASE FailJob
  BY <1>2, <1>6, MovedDraftExists
  DEF FailJob, FailedStatus, WorkerHasJob, Busy, JobKind, DraftStatus
<1>7. CASE Claim \/ RecordRollback \/ UNCHANGED db \/ \E b \in Builds : QueueRollback(b)
  BY <1>2, <1>7 DEF Claim, RecordRollback, QueueRollback, db
<1> QED
  BY <1>1, <1>3, <1>4, <1>5, <1>6, <1>7, OthersKeepDb DEF Next, Admin, JobStep

(* Every step keeps the job table well formed.                             *)
LEMMA JobsWellFormedStep ==
  ASSUME Structure, [Next]_vars
  PROVE  JobsWellFormed'
<1> USE DEF Structure
<1>0. JobsStep /\ \A d \in Drafts : source[d] # None => source'[d] = source[d]
  BY NextJobs, NextSource
<1>1. CASE UNCHANGED <<jobs, njobs>>
  BY <1>0, <1>1 DEF JobsWellFormed
<1>2. ASSUME NEW kind \in JobKind, NEW d \in Drafts \cup {None}, NEW b \in Builds \cup {None},
             Enqueue(kind, d, b),
             kind # "rollback_release" => d \in Drafts /\ source'[d] # None,
             kind = "rollback_release" => d = None /\ b \in Builds
      PROVE  JobsWellFormed'
  <2>0. /\ njobs + 1 \in JobIds /\ njobs' = njobs + 1
        /\ jobs'[njobs + 1] = [kind |-> kind, status |-> "queued", draft |-> d, build |-> b]
        /\ \A j \in JobIds \ {njobs + 1} : jobs'[j] = jobs[j]
    BY <1>2, EnqueueRow
  <2>1. ASSUME NEW j \in JobIds PROVE j > njobs' <=> jobs'[j].status = "absent"
    <3>1. j \in Nat /\ njobs \in Nat
      BY ConstantsAssumption DEF JobIds, TypeOK
    <3>2. CASE j = njobs + 1
      BY <2>0, <3>1, <3>2
    <3>3. CASE j # njobs + 1
      BY <2>0, <3>1, <3>3 DEF JobsWellFormed
    <3> QED
      BY <3>2, <3>3
  <2>2. ASSUME NEW j \in JobIds, jobs'[j].status # "absent"
        PROVE  /\ jobs'[j].kind \in JobKind
               /\ jobs'[j].kind # "rollback_release" =>
                    jobs'[j].draft \in Drafts /\ source'[jobs'[j].draft] # None
               /\ jobs'[j].kind = "rollback_release" =>
                    jobs'[j].draft = None /\ jobs'[j].build \in Builds
    <3>1. CASE j = njobs + 1
      <4>1. /\ jobs'[j].kind = kind /\ jobs'[j].draft = d /\ jobs'[j].build = b
        BY <2>0, <3>1
      <4> QED
        BY <1>2, <4>1
    <3>2. CASE j # njobs + 1
      BY <1>0, <2>0, <2>2, <3>2 DEF JobsWellFormed
    <3> QED
      BY <3>1, <3>2
  <2> QED
    BY <2>1, <2>2 DEF JobsWellFormed
<1>3. ASSUME NEW i \in JobIds, NEW status \in {"running", "succeeded", "failed"},
             UNCHANGED njobs, jobs[i].status \in Active, SetsStatus(i, status)
      PROVE  JobsWellFormed'
  <2>1. \A j \in JobIds : /\ jobs'[j].status = "absent" <=> jobs[j].status = "absent"
                          /\ jobs'[j].kind = jobs[j].kind /\ jobs'[j].draft = jobs[j].draft
                          /\ jobs'[j].build = jobs[j].build
    BY <1>3 DEF SetsStatus, Active
  <2> QED
    BY <1>0, <1>3, <2>1 DEF JobsWellFormed
<1> QED
  BY <1>0, <1>1, <1>2, <1>3 DEF JobsStep

(* A row keeps its kind; what it is for never changes.                     *)
LEMMA RowsStay ==
  ASSUME Structure, [Next]_vars
  PROVE  \A j \in JobIds : jobs[j].status # "absent" =>
           /\ jobs'[j].status # "absent" /\ jobs'[j].kind = jobs[j].kind
           /\ jobs'[j].draft = jobs[j].draft /\ jobs'[j].build = jobs[j].build
<1> USE DEF Structure
<1>1. CASE UNCHANGED <<jobs, njobs>>
  BY <1>1
<1>2. CASE \E kind \in JobKind, d \in Drafts \cup {None}, b \in Builds \cup {None} :
             Enqueue(kind, d, b)
  BY <1>2, EnqueueRow
<1>3. CASE \E j \in JobIds, status \in {"running", "succeeded", "failed"} : SetsStatus(j, status)
  BY <1>3 DEF SetsStatus
<1> QED
  BY NextJobs, <1>1, <1>2, <1>3 DEF JobsStep

(* Only the worker takes its steps; each ends its job, fails it, or leads  *)
(* on to the indexer.                                                      *)
StartsJob ==
  \E j \in JobIds :
    /\ jobs[j].status = "queued"
    /\ op'[Worker].job = j /\ op'[Worker].task = jobs[j].kind
    /\ op'[Worker].src = IF jobs[j].kind = "publish_draft" THEN source[jobs[j].draft] ELSE None
    /\ op'[Worker].build = jobs[j].build /\ op'[Worker].seen = None
    /\ pc'[Worker] = FirstCall(jobs[j].kind)

EndsOrFails ==
  \/ pc'[Worker] = "idle" /\ op'[Worker] = NoOp
  \/ pc'[Worker] = "fail" /\ op'[Worker] = op[Worker]

(* A commit ends the job or lets the worker fail it.                       *)
LEMMA CommitMoves ==
  ASSUME TypeOK, Commit
  PROVE  EndsOrFails /\ \A q \in Operators : pc'[q] = pc[q] /\ op'[q] = op[q]
  BY ConstantsAssumption DEF TypeOK, Commit, Finish, Raise, Goto, EndsOrFails, Procs

(* The four ways the worker moves in a step of its own.                    *)
LEMMA WorkerMoves ==
  ASSUME Structure, JobStep
  PROVE  /\ \A q \in Operators : pc'[q] = pc[q] /\ op'[q] = op[q]
         /\ \/ pc'[Worker] = pc[Worker] /\ op'[Worker] = op[Worker]
            \/ StartsJob
            \/ Busy /\ EndsOrFails
            \/ pc[Worker] = "prepare" /\ pc'[Worker] = "peek" /\ op'[Worker] = op[Worker]
<1> USE DEF Structure
<1>1. CASE Claim
  <2>1. /\ \A q \in Operators : pc'[q] = pc[q] /\ op'[q] = op[q]
        /\ \/ pc'[Worker] = pc[Worker] /\ op'[Worker] = op[Worker]
           \/ StartsJob
    <3>1. CASE UNCHANGED <<pc, op>>
      BY <3>1
    <3>2. ASSUME NEW j \in JobIds,
                 jobs[j].status = "queued",
                 Goto(Worker, FirstCall(jobs[j].kind)),
                 op' = [op EXCEPT ![Worker] =
                   [task    |-> jobs[j].kind,
                    job     |-> j,
                    src     |-> IF jobs[j].kind = "publish_draft"
                                  THEN source[jobs[j].draft] ELSE None,
                    matched |-> FALSE,
                    seen    |-> None,
                    build   |-> jobs[j].build]]
          PROVE  StartsJob /\ \A q \in Operators : pc'[q] = pc[q] /\ op'[q] = op[q]
      BY <3>2, ConstantsAssumption DEF Goto, TypeOK, Procs, StartsJob
    <3> QED
      BY <1>1, <3>1, <3>2 DEF Claim
  <2> QED
    BY <2>1
<1>2. CASE CompleteValidation \/ RecordRelease \/ RecordRollback
  BY <1>2, CommitMoves DEF CompleteValidation, RecordRelease, RecordRollback, Busy
<1>3. CASE Prepare
  BY <1>3, ConstantsAssumption DEF Prepare, Goto, TypeOK, Procs
<1>4. CASE FailJob \/ FailJobRaises
  BY <1>4, ConstantsAssumption
  DEF FailJob, FailJobRaises, Finish, Goto, TypeOK, Procs, EndsOrFails, Busy
<1> QED
  BY <1>1, <1>2, <1>3, <1>4 DEF JobStep

(* Every step keeps what is known of the local states.                     *)
LEMMA LocalsStep ==
  ASSUME Structure, [Next]_vars
  PROVE  WorkerHasJob' /\ OperatorsHaveTask' /\ TasksHaveContent'
<1> USE DEF Structure, TaskHasContent
<1>1. \A j \in JobIds : jobs[j].status # "absent" =>
        jobs'[j].status # "absent" /\ jobs'[j].kind = jobs[j].kind
  BY RowsStay
<1>2. CASE UNCHANGED <<pc, op>>
  BY <1>1, <1>2 DEF WorkerHasJob, Busy, OperatorsHaveTask, TasksHaveContent
<1>3. ASSUME NEW p \in Procs, IndexerStep(p)
      PROVE  WorkerHasJob' /\ OperatorsHaveTask' /\ TasksHaveContent'
  <2>1. MovesAlone(p)
    BY <1>3, IndexerMoves
  <2>2. WorkerHasJob'
    BY <1>1, <2>1 DEF MovesAlone, KeepsTask, WorkerHasJob, Busy, Procs
  <2>3. OperatorsHaveTask'
    BY <2>1, ConstantsAssumption DEF MovesAlone, KeepsTask, OperatorsHaveTask, JobLabels, Procs
  <2>4. TasksHaveContent'
    BY <2>1 DEF MovesAlone, KeepsTask, TasksHaveContent, NoOp, BuildLabels, BuildTasks
  <2> QED
    BY <2>2, <2>3, <2>4
<1>4. CASE JobStep
  <2>1. OperatorsHaveTask'
    BY <1>4, WorkerMoves DEF OperatorsHaveTask
  <2>2. CASE pc'[Worker] = pc[Worker] /\ op'[Worker] = op[Worker]
    BY <1>1, <1>4, <2>1, <2>2, WorkerMoves DEF WorkerHasJob, Busy, TasksHaveContent, Procs
  <2>3. CASE StartsJob
    <3>1. PICK j \in JobIds :
            /\ jobs[j].status = "queued"
            /\ op'[Worker].job = j /\ op'[Worker].task = jobs[j].kind
            /\ op'[Worker].src = IF jobs[j].kind = "publish_draft"
                                   THEN source[jobs[j].draft] ELSE None
            /\ pc'[Worker] = FirstCall(jobs[j].kind)
      BY <2>3 DEF StartsJob
    <3>2. WorkerHasJob'
      BY <1>1, <3>1 DEF FirstCall, JobsWellFormed, WorkerHasJob, Busy, JobKind
    <3>3. TaskHasContent(Worker)'
      BY <3>1 DEF FirstCall, JobsWellFormed, JobKind, BuildLabels, BuildTasks
    <3> QED
      BY <1>4, <2>1, <3>2, <3>3, WorkerMoves DEF TasksHaveContent, Procs
  <2>4. CASE Busy /\ EndsOrFails
    <3>1. WorkerHasJob'
      BY <1>1, <2>4 DEF EndsOrFails, WorkerHasJob, Busy
    <3>2. TaskHasContent(Worker)'
      BY <2>4 DEF EndsOrFails, TasksHaveContent, NoOp, BuildLabels, BuildTasks, Procs
    <3> QED
      BY <1>4, <2>1, <3>1, <3>2, WorkerMoves DEF TasksHaveContent, Procs
  <2>5. CASE pc[Worker] = "prepare" /\ pc'[Worker] = "peek" /\ op'[Worker] = op[Worker]
    <3>1. WorkerHasJob'
      BY <1>1, <2>5 DEF WorkerHasJob, Busy
    <3>2. TaskHasContent(Worker)'
      BY <2>5 DEF WorkerHasJob, Busy, TasksHaveContent, BuildTasks, Procs
    <3> QED
      BY <1>4, <2>1, <3>1, <3>2, WorkerMoves DEF TasksHaveContent, Procs
  <2> QED
    BY <1>4, WorkerMoves, <2>2, <2>3, <2>4, <2>5
<1>5. CASE Restart
  BY <1>1, <1>5, ConstantsAssumption
  DEF Restart, Goto, TypeOK, Procs, WorkerHasJob, Busy, OperatorsHaveTask, TasksHaveContent,
      BuildLabels
<1>6. ASSUME NEW p \in Procs, CliStart(p)
      PROVE  WorkerHasJob' /\ OperatorsHaveTask' /\ TasksHaveContent'
  <2>1. /\ p \in Operators /\ p # Worker
        /\ \A q \in Procs \ {p} : pc'[q] = pc[q] /\ op'[q] = op[q]
        /\ \/ pc'[p] = "peek" /\ op'[p].task \in BuildTasks \cap CliTasks /\ op'[p].src # None
           \/ pc'[p] = "acquire" /\ op'[p].task = "rollback"
    <3>1. ASSUME NEW s \in Sources, NEW k \in {"build_and_publish", "force_rebuild"},
                 op' = [op EXCEPT ![p] = [NoOp EXCEPT !.task = k, !.src = s]],
                 Goto(p, "peek")
          PROVE  /\ \A q \in Procs \ {p} : pc'[q] = pc[q] /\ op'[q] = op[q]
                 /\ pc'[p] = "peek" /\ op'[p].task = k /\ op'[p].src = s
      BY <3>1 DEF Goto, TypeOK, NoOp
    <3>2. CASE op' = [op EXCEPT ![p] = [NoOp EXCEPT !.task = "rollback"]] /\ Goto(p, "acquire")
      BY <1>6, <3>2, ConstantsAssumption DEF CliStart, Goto, TypeOK, NoOp
    <3> QED
      BY <1>6, <3>1, <3>2, ConstantsAssumption DEF CliStart, BuildTasks, CliTasks
  <2>2. WorkerHasJob'
    BY <1>1, <2>1 DEF WorkerHasJob, Busy, Procs
  <2>3. OperatorsHaveTask'
    BY <2>1 DEF OperatorsHaveTask, JobLabels, CliTasks, Procs
  <2>4. TasksHaveContent'
    BY <2>1 DEF TasksHaveContent, BuildLabels, BuildTasks
  <2> QED
    BY <2>2, <2>3, <2>4
<1>7. ASSUME NEW p \in Procs, Crash(p)
      PROVE  WorkerHasJob' /\ OperatorsHaveTask' /\ TasksHaveContent'
  BY <1>1, <1>7, ConstantsAssumption
  DEF Crash, Goto, TypeOK, Procs, WorkerHasJob, Busy, OperatorsHaveTask, TasksHaveContent,
      BuildLabels, BuildTasks, JobLabels, NoOp
<1> QED
  BY <1>2, <1>3, <1>4, <1>5, <1>6, <1>7
  DEF Next, vars, Admin, Upload, QueueValidation, QueuePublish, QueueRollback, Environment,
      LeaseExpires, HeartbeatFails

(* The structure holds of the empty system ...                             *)
LEMMA StructureInit == Init => Structure
<1> SUFFICES ASSUME Init PROVE Structure
  OBVIOUS
<1>1. TypeOK
  BY ConstantsAssumption, NoOpType
  DEF Init, TypeOK, Labels, DraftStatus, ReleaseStatus, Jobs, NoJob, JobStatus
<1>2. JobsWellFormed
  BY DEF Init, JobsWellFormed, NoJob, JobIds
<1>3. DraftsHaveContent
  BY DEF Init, DraftsHaveContent
<1>4. WorkerHasJob /\ OperatorsHaveTask
  BY DEF Init, WorkerHasJob, Busy, OperatorsHaveTask, JobLabels, Procs
<1>5. TasksHaveContent
  BY DEF Init, TasksHaveContent, TaskHasContent, NoOp, BuildLabels, BuildTasks
<1> QED
  BY <1>1, <1>2, <1>3, <1>4, <1>5 DEF Structure

(* ... and is kept by every step.                                          *)
LEMMA StructureStep == Structure /\ [Next]_vars => Structure'
  BY TypeStep, JobsWellFormedStep, NextSource, LocalsStep DEF Structure

(* Types, the job table's shape and what each process does, always.        *)
THEOREM StructureCorrect == Spec => []Structure
  BY StructureInit, StructureStep, PTL DEF Spec

(* Every variable keeps its type, in particular the statuses the models    *)
(* and the repository spell apart (models.py).                             *)
THEOREM TypeCorrect == Spec => []TypeOK
  BY StructureCorrect, PTL DEF Structure
-----------------------------------------------------------------------------
(* Validity.                                                               *)

(* What is valid stays valid, and the pointer is never emptied.            *)
LEMMA KeepsValid ==
  ASSUME Structure, Validity, [Next]_vars
  PROVE  /\ built \subseteq built'
         /\ \A b : Valid(b) => Valid(b)'
         /\ pointer.current # None => pointer'.current # None
<1> USE DEF Structure, TypeOK
<1>1. ASSUME NEW p \in Procs, BuildCollection(p)
      PROVE  built \subseteq built' /\ (\A b : Valid(b) => Valid(b)') /\ UNCHANGED pointer
  BY <1>1 DEF BuildCollection, Valid
<1>2. ASSUME NEW p \in Procs, CreateArtifact(p)
      PROVE  built \subseteq built' /\ (\A b : Valid(b) => Valid(b)') /\ UNCHANGED pointer
  <2>1. op[p].src # None
    BY <1>2 DEF CreateArtifact, TasksHaveContent, TaskHasContent, BuildLabels
  <2> QED
    BY <1>2, <2>1 DEF CreateArtifact, Valid
<1>3. ASSUME NEW p \in Procs, Upsert(p)
      PROVE  built \subseteq built' /\ (\A b : Valid(b) => Valid(b)') /\ pointer'.current # None
  BY <1>3, ConstantsAssumption DEF Upsert, Valid, Validity, HoldsValidated
<1>4. CASE UNCHANGED storage
  BY <1>4 DEF storage, Valid
<1>5. CASE \E p \in Procs : IndexerStep(p)
  BY <1>1, <1>2, <1>3, <1>4, <1>5
  DEF IndexerStep, ReadDescriptor, ReadCurrentBuild, Acquire, AcquireRefused, AcquireUnproved,
      ReadTarget, ReadSwap, AssertHeld, ReadPointer, Release, ReleaseRaises, LogSuccess,
      CliExit, CallRaises
<1>6. CASE Admin \/ JobStep \/ Environment \/ UNCHANGED vars
  BY <1>4, <1>6
  DEF Admin, Upload, QueueValidation, QueuePublish, QueueRollback, JobStep, Claim,
      CompleteValidation, Prepare, RecordRelease, RecordRollback, FailJob, FailJobRaises,
      Environment, LeaseExpires, Restart, CliStart, HeartbeatFails, Crash, vars
<1> QED
  BY <1>5, <1>6 DEF Next

(* The pointer changes by an upsert of a valid build.                      *)
LEMMA PointerStaysValid ==
  ASSUME Structure, Validity, [Next]_vars
  PROVE  PointerNamesValidated'
<1> USE DEF Structure, TypeOK
<1>1. \A b : Valid(b) => Valid(b)'
  BY KeepsValid
<1>2. ASSUME NEW p \in Procs, Upsert(p) PROVE PointerNamesValidated'
  <2>1. Valid(op[p].build) /\ (op[p].seen # None => Valid(op[p].seen))
    BY <1>2 DEF Upsert, Validity, HoldsValidated
  <2> QED
    BY <1>1, <1>2, <2>1 DEF Upsert, PointerNamesValidated, Valid
<1>3. CASE UNCHANGED pointer
  BY <1>1, <1>3 DEF Validity, PointerNamesValidated, Valid
<1>4. CASE \E p \in Procs : IndexerStep(p)
  BY <1>2, <1>3, <1>4
  DEF IndexerStep, ReadDescriptor, ReadCurrentBuild, Acquire, AcquireRefused, AcquireUnproved,
      BuildCollection, CreateArtifact, ReadTarget, ReadSwap, AssertHeld, ReadPointer, Release,
      ReleaseRaises, LogSuccess, CliExit, CallRaises, storage
<1>5. CASE Admin \/ JobStep \/ Environment \/ UNCHANGED vars
  BY <1>3, <1>5
  DEF Admin, Upload, QueueValidation, QueuePublish, QueueRollback, JobStep, Claim,
      CompleteValidation, Prepare, RecordRelease, RecordRollback, FailJob, FailJobRaises,
      Environment, LeaseExpires, Restart, CliStart, HeartbeatFails, Crash, vars, storage
<1> QED
  BY <1>4, <1>5 DEF Next

(* A process whose local state stays holds what its new label needs.       *)
LEMMA SameOpHolds ==
  ASSUME Structure, Validity, [Next]_vars, NEW q \in Procs, op'[q] = op[q],
         \/ pc'[q] = pc[q]
         \/ pc'[q] \in {"idle", "down", "validate", "prepare", "peek", "recheck", "acquire",
                        "build", "restore", "readSwap", "abort", "fail"}
         \/ pc'[q] \in {"assert", "readPointer", "upsert", "unlock", "log", "complete"}
            /\ (Valid(op[q].build) \/ Valid(op[q].build)')
         \/ pc'[q] = "artifact" /\ op[q].build \in built
  PROVE  HoldsValidated(q)'
  BY KeepsValid DEF Validity, HoldsValidated, Valid

(* After an exception nothing is needed but what was seen.                 *)
LEMMA RaiseHolds ==
  ASSUME Structure, Validity, [Next]_vars, NEW p \in Procs, Raise(p)
  PROVE  HoldsValidated(p)'
<1>1. CASE Goto(p, "fail") /\ UNCHANGED op
  BY <1>1, SameOpHolds DEF Goto, Structure, TypeOK
<1>2. CASE Finish(p)
  BY <1>2 DEF Finish, Goto, Structure, TypeOK, HoldsValidated, NoOp
<1> QED
  BY <1>1, <1>2 DEF Raise

(* Every indexer step gives its process what the next label needs.         *)
LEMMA IndexerHolds ==
  ASSUME Structure, Validity, NEW p \in Procs, IndexerStep(p)
  PROVE  HoldsValidated(p)'
<1> USE DEF Structure, TypeOK, Goto
<1>0. [Next]_vars
  BY DEF Next
<1>1. CASE ReadDescriptor(p)
  BY <1>0, <1>1, KeepsValid DEF ReadDescriptor, Validity, HoldsValidated, storage, Ops
<1>2. CASE ReadCurrentBuild(p)
  BY <1>0, <1>2, KeepsValid
  DEF ReadCurrentBuild, Validity, HoldsValidated, Ops, PointerNamesValidated, Valid, storage
<1>3. CASE Acquire(p)
  BY <1>0, <1>3, SameOpHolds DEF Acquire
<1>4. CASE AcquireRefused(p)
  BY <1>0, <1>4, RaiseHolds DEF AcquireRefused
<1>5. CASE AcquireUnproved(p)
  BY <1>0, <1>5, RaiseHolds DEF AcquireUnproved
<1>6. CASE BuildCollection(p)
  BY <1>0, <1>6, KeepsValid DEF BuildCollection, Validity, HoldsValidated, Ops
<1>7. CASE CreateArtifact(p)
  <2>1. op[p].build \in built /\ op[p].src # None
    BY <1>7
    DEF CreateArtifact, Validity, HoldsValidated, TasksHaveContent, TaskHasContent, BuildLabels
  <2> QED
    BY <1>0, <1>7, <2>1, SameOpHolds DEF CreateArtifact, Valid
<1>8. CASE ReadTarget(p)
  BY <1>0, <1>8, SameOpHolds DEF ReadTarget, Valid, storage
<1>9. CASE ReadSwap(p)
  BY <1>0, <1>9, KeepsValid
  DEF ReadSwap, Validity, HoldsValidated, Ops, PointerNamesValidated, Valid, storage
<1>10. CASE AssertHeld(p)
  BY <1>0, <1>10, SameOpHolds DEF AssertHeld, Validity, HoldsValidated
<1>11. CASE ReadPointer(p)
  BY <1>0, <1>11, KeepsValid
  DEF ReadPointer, Validity, HoldsValidated, Ops, PointerNamesValidated, Valid, storage
<1>12. CASE Upsert(p)
  BY <1>0, <1>12, SameOpHolds DEF Upsert, Validity, HoldsValidated
<1>13. CASE Release(p)
  BY <1>0, <1>13, SameOpHolds, RaiseHolds DEF Release, AfterRelease, Validity, HoldsValidated
<1>14. CASE ReleaseRaises(p)
  BY <1>0, <1>14, RaiseHolds DEF ReleaseRaises
<1>15. CASE LogSuccess(p)
  BY <1>0, <1>15, SameOpHolds DEF LogSuccess, Validity, HoldsValidated
<1>16. CASE CliExit(p)
  BY <1>16 DEF CliExit, Finish, HoldsValidated, NoOp
<1>17. CASE CallRaises(p)
  BY <1>0, <1>17, SameOpHolds, RaiseHolds DEF CallRaises
<1> QED
  BY <1>1, <1>2, <1>3, <1>4, <1>5, <1>6, <1>7, <1>8, <1>9, <1>10, <1>11,
     <1>12, <1>13, <1>14, <1>15, <1>16, <1>17 DEF IndexerStep

(* Validity is kept by every step.                                         *)
LEMMA ValidityStep == Structure /\ Validity /\ [Next]_vars => Validity'
<1> SUFFICES ASSUME Structure, Validity, [Next]_vars PROVE Validity'
  OBVIOUS
<1> SUFFICES ASSUME NEW q \in Procs PROVE HoldsValidated(q)'
  BY PointerStaysValid DEF Validity
<1>1. CASE pc'[q] = pc[q] /\ op'[q] = op[q]
  BY <1>1, SameOpHolds
<1>2. ASSUME NEW p \in Procs, IndexerStep(p) PROVE HoldsValidated(q)'
  BY <1>1, <1>2, IndexerHolds, IndexerMoves DEF MovesAlone
<1>3. CASE JobStep
  <2>1. CASE q # Worker
    BY <1>1, <1>3, <2>1, WorkerMoves DEF Procs
  <2>2. CASE q = Worker /\ StartsJob
    <3>1. pc'[Worker] \in {"validate", "prepare", "acquire"} /\ op'[Worker].seen = None
      BY <2>2 DEF StartsJob, FirstCall, Structure, JobsWellFormed, JobKind
    <3> QED
      BY <2>2, <3>1 DEF HoldsValidated
  <2>3. CASE q = Worker /\ EndsOrFails
    BY <2>3, SameOpHolds DEF EndsOrFails, HoldsValidated, NoOp
  <2>4. CASE q = Worker /\ pc'[Worker] = "peek" /\ op'[Worker] = op[Worker]
    BY <2>4, SameOpHolds
  <2> QED
    BY <1>1, <1>3, <2>1, <2>2, <2>3, <2>4, WorkerMoves
<1>4. ASSUME NEW p \in Procs, Crash(p) PROVE HoldsValidated(q)'
  BY <1>1, <1>4 DEF Crash, Goto, Structure, TypeOK, HoldsValidated, NoOp
<1>5. ASSUME NEW p \in Procs, CliStart(p) PROVE HoldsValidated(q)'
  <2>1. CASE q # p
    BY <1>1, <1>5, <2>1 DEF CliStart, Goto, Structure, TypeOK
  <2>2. CASE q = p
    <3>1. pc'[p] \in {"peek", "acquire"} /\ op'[p].seen = None
      <4>1. pc'[p] \in {"peek", "acquire"}
        BY <1>5 DEF CliStart, Goto, Structure, TypeOK
      <4>2. ASSUME NEW s \in Sources, NEW k \in CliTasks,
                   op' = [op EXCEPT ![p] = [NoOp EXCEPT !.task = k, !.src = s]]
            PROVE  op'[p].seen = None
        BY <4>2, CliTaskType DEF Structure, TypeOK
      <4>3. ASSUME NEW k \in CliTasks, op' = [op EXCEPT ![p] = [NoOp EXCEPT !.task = k]]
            PROVE  op'[p].seen = None
        BY <4>3 DEF Structure, TypeOK, NoOp
      <4> QED
        BY <1>5, <4>1, <4>2, <4>3 DEF CliStart, CliTasks
    <3> QED
      BY <2>2, <3>1 DEF HoldsValidated
  <2> QED
    BY <2>1, <2>2
<1>6. CASE Restart
  BY <1>1, <1>6, SameOpHolds DEF Restart, Goto, Structure, TypeOK
<1> QED
  BY <1>1, <1>2, <1>3, <1>4, <1>5, <1>6
  DEF Next, vars, Admin, Upload, QueueValidation, QueuePublish, QueueRollback, Environment,
      LeaseExpires, HeartbeatFails

(* Nothing is published at first.                                          *)
LEMMA ValidityInit == Init => Validity
  BY DEF Init, Validity, PointerNamesValidated, HoldsValidated, NoOp

(* Validity holds always.                                                  *)
LEMMA ValidityCorrect == Spec => []Validity
  BY StructureCorrect, ValidityInit, ValidityStep, PTL DEF Spec

(* Queries and rollbacks only ever reach releases whose descriptor is      *)
(* complete and whose collection exists (releases.py), with any number of  *)
(* command lines beside the worker, whatever fails, crashes or stalls.     *)
THEOREM PointerAlwaysValidated == Spec => []PointerNamesValidated
  BY ValidityCorrect, PTL DEF Validity
-----------------------------------------------------------------------------
(* Agreement.                                                              *)

(* Drafts whose active jobs and status are untouched still agree.          *)
LEMMA SameActiveAgree ==
  ASSUME Structure, DraftsAndJobsAgree, UNCHANGED draft,
         \A j \in JobIds, kind \in JobKind, d \in Drafts :
           IsActiveJobOf(j, kind, d)' <=> IsActiveJobOf(j, kind, d)
  PROVE  DraftsAndJobsAgree'
  BY DEF DraftsAndJobsAgree, JobKind

(* A job enqueued with the move of its draft agrees with it.               *)
LEMMA NewJobAgrees ==
  ASSUME Structure, DraftsAndJobsAgree, NEW d \in Drafts,
         draft[d] \notin {"validating", "publishing"},
         NEW kind \in JobKind, NEW target,
         \/ kind = "validate_draft" /\ target = "validating"
         \/ kind = "publish_draft" /\ target = "publishing",
         draft' = [draft EXCEPT ![d] = target], Enqueue(kind, d, None)
  PROVE  DraftsAndJobsAgree'
<1> USE DEF Structure
<1>1. \A j \in JobIds, k \in JobKind : ~ IsActiveJobOf(j, k, d)
  BY ConstantsAssumption DEF DraftsAndJobsAgree, IsActiveJobOf, JobsWellFormed, Active, JobKind
<1>2. /\ njobs + 1 \in JobIds
      /\ jobs[njobs + 1].status = "absent"
      /\ jobs'[njobs + 1] = [kind |-> kind, status |-> "queued", draft |-> d, build |-> None]
      /\ \A j \in JobIds \ {njobs + 1} : jobs'[j] = jobs[j]
  BY EnqueueRow
<1>3. \A j \in JobIds, k \in JobKind, e \in Drafts :
        IsActiveJobOf(j, k, e)' <=>
          \/ e # d /\ IsActiveJobOf(j, k, e)
          \/ e = d /\ k = kind /\ j = njobs + 1
  BY <1>1, <1>2 DEF IsActiveJobOf, Active
<1>4. draft'[d] = target /\ \A e \in Drafts \ {d} : draft'[e] = draft[e]
  BY DEF TypeOK
<1> HIDE DEF Structure
<1>5. ASSUME NEW e \in Drafts
      PROVE  /\ (draft'[e] = "validating") <=>
                  \E j \in JobIds : IsActiveJobOf(j, "validate_draft", e)'
             /\ (draft'[e] = "publishing") <=>
                  \E j \in JobIds : IsActiveJobOf(j, "publish_draft", e)'
             /\ \A i, j \in JobIds, k1, k2 \in JobKind :
                  IsActiveJobOf(i, k1, e)' /\ IsActiveJobOf(j, k2, e)' => i = j
  <2>1. CASE e = d
    BY <1>2, <1>3, <1>4, <2>1 DEF JobKind
  <2>2. CASE e # d
    BY <1>3, <1>4, <2>2 DEF DraftsAndJobsAgree, JobKind
  <2> QED
    BY <2>1, <2>2
<1> QED
  BY <1>5 DEF DraftsAndJobsAgree

(* A job that ends with the move of its draft leaves no claim on it.       *)
LEMMA EndedJobAgrees ==
  ASSUME Structure, DraftsAndJobsAgree, NEW i \in JobIds, jobs[i].status \in Active,
         jobs[i].draft \in Drafts,
         NEW status \in {"succeeded", "failed"}, SetsStatus(i, status),
         NEW target, target \notin {"validating", "publishing"},
         draft' = [draft EXCEPT ![jobs[i].draft] = target]
  PROVE  DraftsAndJobsAgree'
<1> DEFINE d == jobs[i].draft
<1>1. \A j \in JobIds, k \in JobKind : IsActiveJobOf(j, k, d) => j = i
  <2>1. \E k \in JobKind : IsActiveJobOf(i, k, d)
    BY DEF Structure, JobsWellFormed, IsActiveJobOf, Active
  <2> QED
    BY <2>1 DEF DraftsAndJobsAgree
<1>2. \A j \in JobIds, k \in JobKind, e \in Drafts :
        IsActiveJobOf(j, k, e)' <=> e # d /\ IsActiveJobOf(j, k, e)
  BY <1>1 DEF SetsStatus, IsActiveJobOf, Active
<1>3. draft'[d] = target /\ \A e \in Drafts \ {d} : draft'[e] = draft[e]
  BY DEF Structure, TypeOK
<1> HIDE DEF d
<1>5. ASSUME NEW e \in Drafts
      PROVE  /\ (draft'[e] = "validating") <=>
                  \E j \in JobIds : IsActiveJobOf(j, "validate_draft", e)'
             /\ (draft'[e] = "publishing") <=>
                  \E j \in JobIds : IsActiveJobOf(j, "publish_draft", e)'
             /\ \A m, j \in JobIds, k1, k2 \in JobKind :
                  IsActiveJobOf(m, k1, e)' /\ IsActiveJobOf(j, k2, e)' => m = j
  <2>1. CASE e = d
    BY <1>2, <1>3, <2>1 DEF JobKind
  <2>2. CASE e # d
    BY <1>2, <1>3, <2>2 DEF DraftsAndJobsAgree, JobKind
  <2> QED
    BY <2>1, <2>2
<1> QED
  BY <1>5 DEF DraftsAndJobsAgree

(* Agreement is kept by every step.                                        *)
LEMMA AgreementStep == Structure /\ DraftsAndJobsAgree /\ [Next]_vars => DraftsAndJobsAgree'
<1> SUFFICES ASSUME Structure, DraftsAndJobsAgree, [Next]_vars PROVE DraftsAndJobsAgree'
  OBVIOUS
<1> USE DEF Structure
<1>1. ASSUME NEW d \in Drafts, NEW s \in Sources, Upload(d, s) PROVE DraftsAndJobsAgree'
  BY <1>1, NewJobAgrees DEF Upload, JobKind
<1>2. ASSUME NEW d \in Drafts, QueueValidation(d) \/ QueuePublish(d) PROVE DraftsAndJobsAgree'
  <2>1. draft[d] \notin {"validating", "publishing"}
    BY <1>2 DEF QueueValidation, QueuePublish, MoveDraft, Transitions, DraftStatus
  <2> QED
    BY <1>2, <2>1, NewJobAgrees DEF QueueValidation, QueuePublish, MoveDraft, JobKind
<1>3. ASSUME NEW b \in Builds, QueueRollback(b) PROVE DraftsAndJobsAgree'
  <2>1. \A j \in JobIds, kind \in JobKind, d \in Drafts :
          IsActiveJobOf(j, kind, d)' <=> IsActiveJobOf(j, kind, d)
    <3>1. /\ jobs[njobs + 1].status = "absent"
          /\ jobs'[njobs + 1] =
               [kind |-> "rollback_release", status |-> "queued", draft |-> None, build |-> b]
          /\ \A j \in JobIds \ {njobs + 1} : jobs'[j] = jobs[j]
      BY <1>3, EnqueueRow DEF QueueRollback
    <3> QED
      BY <3>1, ConstantsAssumption DEF IsActiveJobOf, Active
  <2> QED
    BY <1>3, <2>1, SameActiveAgree DEF QueueRollback
<1>4. CASE Claim
  <2>1. \A j \in JobIds, kind \in JobKind, d \in Drafts :
          IsActiveJobOf(j, kind, d)' <=> IsActiveJobOf(j, kind, d)
    BY <1>4, TransactionRow DEF SetsStatus, IsActiveJobOf, Active
  <2> QED
    BY <1>4, <2>1, SameActiveAgree DEF Claim
<1>5. ASSUME MyJob \in JobIds, jobs[MyJob].status = "running",
             MyDraft \notin Drafts, UNCHANGED draft,
             NEW status, SetsStatus(MyJob, status)
      PROVE  DraftsAndJobsAgree'
  <2>1. \A j \in JobIds, kind \in JobKind, d \in Drafts :
          IsActiveJobOf(j, kind, d)' <=> IsActiveJobOf(j, kind, d)
    BY <1>5 DEF SetsStatus, IsActiveJobOf, Active, MyDraft
  <2> QED
    BY <1>5, <2>1, SameActiveAgree
<1>6. MyJob \in JobIds /\ jobs[MyJob].status = "running" /\ Busy =>
        IF op[Worker].task = "rollback_release" THEN MyDraft \notin Drafts ELSE MyDraft \in Drafts
  BY ConstantsAssumption DEF JobsWellFormed, WorkerHasJob, MyJob, MyDraft
<1>7. CASE CompleteValidation \/ RecordRelease
  <2>1. Busy /\ op[Worker].task # "rollback_release"
    BY <1>7 DEF CompleteValidation, RecordRelease, Busy, WorkerHasJob
  <2>2. PICK target \in {"ready_to_publish", "published"} :
          draft' = [draft EXCEPT ![MyDraft] = target]
    BY <1>7 DEF CompleteValidation, RecordRelease, MoveDraft
  <2>3. /\ MyJob \in JobIds /\ jobs[MyJob].status = "running"
        /\ SetsStatus(MyJob, "succeeded")
    BY <1>7, TransactionRow
  <2> QED
    BY <1>6, <2>1, <2>2, <2>3, EndedJobAgrees DEF MyDraft, Active
<1>8. CASE RecordRollback
  <2>1. Busy /\ op[Worker].task = "rollback_release" /\ UNCHANGED draft
    BY <1>8 DEF RecordRollback, Busy
  <2> QED
    BY <1>5, <1>6, <1>8, <2>1, TransactionRow
<1>9. CASE FailJob
  <2>1. Busy /\ op[Worker].task \in JobKind
    BY <1>9 DEF FailJob, Busy, WorkerHasJob
  <2>2. CASE op[Worker].task = "rollback_release"
    BY <1>5, <1>6, <1>9, <2>1, <2>2, TransactionRow DEF FailJob
  <2>3. CASE op[Worker].task # "rollback_release"
    BY <1>6, <1>9, <2>1, <2>3, TransactionRow, EndedJobAgrees, SMTT(30)
    DEF FailJob, FailedStatus, MoveDraft, MyDraft, Active, JobKind
  <2> QED
    BY <2>2, <2>3
<1>10. CASE UNCHANGED db
  BY <1>10 DEF db, DraftsAndJobsAgree, IsActiveJobOf
<1> QED
  BY <1>1, <1>2, <1>3, <1>4, <1>7, <1>8, <1>9, <1>10, OthersKeepDb DEF Next, Admin, JobStep

(* There are no drafts and no jobs at first.                               *)
LEMMA AgreementInit == Init => DraftsAndJobsAgree
<1> SUFFICES ASSUME Init PROVE DraftsAndJobsAgree
  OBVIOUS
<1>1. \A j \in JobIds : \A kind, d : ~ IsActiveJobOf(j, kind, d)
  BY DEF Init, IsActiveJobOf, NoJob, Active
<1>2. \A d \in Drafts : draft[d] = "absent"
  BY DEF Init
<1> QED
  BY <1>1, <1>2 DEF DraftsAndJobsAgree

(* A draft is validating or publishing exactly when one active job is      *)
(* going to end that (repository.py): whatever fails, crashes or is        *)
(* retried, however many drafts, jobs and operators there are.             *)
THEOREM DraftsAndJobsAlwaysAgree == Spec => []DraftsAndJobsAgree
  BY StructureCorrect, AgreementInit, AgreementStep, PTL DEF Spec
-----------------------------------------------------------------------------
(* Ledger.                                                                 *)

(* Only the two completions write the release table, and only one of them  *)
(* publishes a draft.                                                      *)
LEMMA LedgerElsewhere ==
  ASSUME Structure, [Next]_vars, ~RecordRelease, ~RecordRollback
  PROVE  /\ UNCHANGED <<release, releasedBy>>
         /\ \A d \in Drafts : draft'[d] = "published" <=> draft[d] = "published"
<1> USE DEF Structure, TypeOK
<1>1. ASSUME NEW d \in Drafts, NEW s \in Sources, Upload(d, s)
      PROVE  /\ UNCHANGED <<release, releasedBy>>
             /\ \A e \in Drafts : draft'[e] = "published" <=> draft[e] = "published"
  BY <1>1 DEF Upload
<1>2. ASSUME NEW d, NEW target \in DraftStatus \ {"published"}, MoveDraft(d, target)
      PROVE  \A e \in Drafts : draft'[e] = "published" <=> draft[e] = "published"
  BY <1>2 DEF MoveDraft, Transitions, DraftStatus
<1>3. CASE \E d \in Drafts : QueueValidation(d) \/ QueuePublish(d)
  BY <1>2, <1>3 DEF QueueValidation, QueuePublish, DraftStatus
<1>4. CASE CompleteValidation
  BY <1>2, <1>4 DEF CompleteValidation, DraftStatus
<1>5. CASE FailJob
  BY <1>2, <1>5 DEF FailJob, FailedStatus, WorkerHasJob, Busy, JobKind, DraftStatus
<1>6. CASE Claim \/ UNCHANGED db \/ \E b \in Builds : QueueRollback(b)
  BY <1>6 DEF Claim, QueueRollback, db
<1> QED
  BY <1>1, <1>3, <1>4, <1>5, <1>6, OthersKeepDb DEF Next, Admin, JobStep

(* complete_publish_job adds the one row of its draft.                     *)
LEMMA RecordReleaseKeepsLedger ==
  ASSUME Structure, Validity, Ledger, RecordRelease
  PROVE  /\ RowsHaveDrafts' /\ OneCurrentRelease' /\ PublishedDraftsHaveTheirRelease'
         /\ \A b \in Builds : release[b] # "absent" => release'[b] # "absent"
<1> DEFINE build == op[Worker].build
           d == MyDraft
<1> USE DEF Structure, TypeOK
<1>1. build \in Builds /\ release[build] = "absent" /\ releasedBy[build] = None
  BY DEF RecordRelease, CanRecordRelease, Validity, HoldsValidated, Valid, Ledger,
         RowsHaveDrafts, Procs
<1>2. d \in Drafts /\ d # None
  BY ConstantsAssumption
  DEF RecordRelease, WorkerHasJob, Busy, MyJob, MyDraft, JobsWellFormed
<1>3. draft[d] # "published"
  BY DEF RecordRelease, CanRecordRelease
<1>4. \A b \in Builds : releasedBy[b] # d
  BY <1>2, <1>3 DEF Ledger, PublishedDraftsHaveTheirRelease, RowsHaveDrafts
<1>5. /\ release' = [b \in Builds |-> IF b = build THEN "current"
                                      ELSE IF release[b] = "current" THEN "superseded"
                                      ELSE release[b]]
      /\ releasedBy' = [releasedBy EXCEPT ![build] = d]
      /\ draft' = [draft EXCEPT ![d] = "published"]
  BY DEF RecordRelease
<1> HIDE DEF build, d
<1>6. RowsHaveDrafts'
  BY <1>1, <1>2, <1>5 DEF Ledger, RowsHaveDrafts
<1>7. OneCurrentRelease'
  BY <1>5 DEF OneCurrentRelease
<1>8. ASSUME NEW e \in Drafts
      PROVE  draft'[e] = "published" <=> \E b \in Builds : release'[b] # "absent" /\ releasedBy'[b] = e
  <2>1. CASE e = d
    BY <1>1, <1>2, <1>5, <2>1
  <2>2. CASE e # d
    <3>1. \A b \in Builds : releasedBy'[b] = e <=> releasedBy[b] = e
      BY <1>1, <1>2, <1>5, <2>2, ConstantsAssumption
    <3>2. \A b \in Builds \ {build} : release'[b] # "absent" <=> release[b] # "absent"
      BY <1>5
    <3> QED
      BY <1>1, <1>2, <1>5, <2>2, <3>1, <3>2, ConstantsAssumption
      DEF Ledger, PublishedDraftsHaveTheirRelease
  <2> QED
    BY <2>1, <2>2
<1>9. \A b1, b2 \in Builds : releasedBy'[b1] = releasedBy'[b2] /\ releasedBy'[b1] # None => b1 = b2
  BY <1>1, <1>4, <1>5 DEF Ledger, PublishedDraftsHaveTheirRelease
<1> QED
  BY <1>5, <1>6, <1>7, <1>8, <1>9 DEF PublishedDraftsHaveTheirRelease

(* complete_rollback_job restores a row that exists.                       *)
LEMMA RecordRollbackKeepsLedger ==
  ASSUME Structure, Ledger, RecordRollback
  PROVE  /\ RowsHaveDrafts' /\ OneCurrentRelease' /\ PublishedDraftsHaveTheirRelease'
         /\ \A b \in Builds : release[b] # "absent" => release'[b] # "absent"
<1>1. release[op[Worker].build] # "absent"
  BY DEF RecordRollback, Structure, WorkerHasJob, Busy, Ledger, RollbacksHaveRows,
         WorkerRestoresJobsBuild
<1>2. /\ release' = [b \in Builds |-> IF b = op[Worker].build THEN "current"
                                      ELSE IF release[b] = "current" THEN "rolled_back"
                                      ELSE release[b]]
      /\ UNCHANGED <<draft, releasedBy>>
  BY DEF RecordRollback
<1>3. \A b \in Builds : release'[b] # "absent" <=> release[b] # "absent"
  BY <1>1, <1>2
<1>4. OneCurrentRelease'
  BY <1>2 DEF OneCurrentRelease
<1> QED
  BY <1>2, <1>3, <1>4 DEF Ledger, RowsHaveDrafts, PublishedDraftsHaveTheirRelease

(* The worker of a rollback job restores the release the job names.        *)
LEMMA RestoresStep ==
  ASSUME Structure, Ledger, [Next]_vars
  PROVE  WorkerRestoresJobsBuild'
<1> USE DEF Structure, TypeOK
<1>1. \A j \in JobIds : jobs[j].status # "absent" => jobs'[j].build = jobs[j].build
  BY RowsStay
<1>2. CASE pc'[Worker] = pc[Worker] /\ op'[Worker] = op[Worker]
  BY <1>1, <1>2 DEF Ledger, WorkerRestoresJobsBuild, WorkerHasJob, Busy
<1>3. CASE pc'[Worker] \in {"idle", "down"}
  BY <1>3 DEF WorkerRestoresJobsBuild, Busy
<1>4. CASE /\ Busy /\ pc'[Worker] # "readSwap"
           /\ op'[Worker].build = op[Worker].build /\ op'[Worker].task = op[Worker].task
           /\ op'[Worker].job = op[Worker].job
  BY <1>1, <1>4 DEF Ledger, WorkerRestoresJobsBuild, WorkerHasJob, Busy
<1>5. CASE IndexerStep(Worker)
  <2>1. MovesAlone(Worker) /\ Busy
    BY <1>5, IndexerMoves DEF MovesAlone, Busy, Procs
  <2>2. CASE op[Worker].task \in BuildTasks
    BY <1>3, <2>1, <2>2 DEF MovesAlone, KeepsTask, WorkerRestoresJobsBuild, BuildTasks
  <2>3. CASE op[Worker].task \notin BuildTasks
    <3>1. pc[Worker] \notin BuildLabels
      BY <2>3 DEF TasksHaveContent, TaskHasContent, Procs
    <3>2. op'[Worker] = NoOp \/ op'[Worker].build = op[Worker].build
          \/ pc[Worker] = "readSwap"
      BY <1>5, <3>1
      DEF IndexerStep, ReadDescriptor, ReadCurrentBuild, Acquire, AcquireRefused,
          AcquireUnproved, BuildCollection, CreateArtifact, ReadTarget, ReadSwap, AssertHeld,
          ReadPointer, Upsert, Release, ReleaseRaises, LogSuccess, CliExit, CallRaises,
          AfterRelease, Raise, Finish, BuildLabels, Procs, Ops
    <3>3. pc'[Worker] # "readSwap"
      BY <1>5, ConstantsAssumption
      DEF IndexerStep, ReadDescriptor, ReadCurrentBuild, Acquire, AcquireRefused,
          AcquireUnproved, BuildCollection, CreateArtifact, ReadTarget, ReadSwap, AssertHeld,
          ReadPointer, Upsert, Release, ReleaseRaises, LogSuccess, CliExit, CallRaises,
          AfterRelease, Raise, Finish, Goto, Procs, WorkerHasJob, Busy, JobKind
    <3> QED
      BY <1>3, <1>4, <2>1, <3>2, <3>3
      DEF MovesAlone, KeepsTask, WorkerRestoresJobsBuild, Ledger, NoOp
  <2> QED
    BY <2>2, <2>3
<1>6. ASSUME NEW p \in Operators, IndexerStep(p) PROVE WorkerRestoresJobsBuild'
  BY <1>2, <1>6, IndexerMoves, ConstantsAssumption DEF MovesAlone, Procs
<1>7. CASE JobStep
  <2>1. CASE StartsJob
    <3>1. PICK j \in JobIds :
            /\ jobs[j].status = "queued"
            /\ op'[Worker].job = j /\ op'[Worker].build = jobs[j].build
            /\ pc'[Worker] = FirstCall(jobs[j].kind)
      BY <2>1 DEF StartsJob
    <3> QED
      BY <1>1, <3>1
      DEF FirstCall, WorkerRestoresJobsBuild, JobsWellFormed, JobKind
  <2> QED
    BY <1>2, <1>3, <1>4, <1>7, <2>1, WorkerMoves DEF EndsOrFails, Busy
<1>8. ASSUME NEW p \in Procs, CliStart(p) PROVE WorkerRestoresJobsBuild'
  BY <1>2, <1>8, ConstantsAssumption DEF CliStart, Goto, Procs
<1>9. ASSUME NEW p \in Procs, Crash(p) PROVE WorkerRestoresJobsBuild'
  BY <1>2, <1>3, <1>9 DEF Crash, Goto, Procs
<1>10. CASE Restart
  BY <1>3, <1>10 DEF Restart, Goto, Procs
<1> QED
  BY <1>2, <1>5, <1>6, <1>7, <1>8, <1>9, <1>10
  DEF Next, Procs, vars, Admin, Upload, QueueValidation, QueuePublish, QueueRollback,
      Environment, LeaseExpires, HeartbeatFails

(* The ledger is kept by every step.                                       *)
LEMMA LedgerStep ==
  Structure /\ Validity /\ Ledger /\ [Next]_vars => Ledger'
<1> SUFFICES ASSUME Structure, Validity, Ledger, [Next]_vars PROVE Ledger'
  OBVIOUS
<1>1. WorkerRestoresJobsBuild'
  BY RestoresStep
<1>2. /\ RowsHaveDrafts' /\ OneCurrentRelease' /\ PublishedDraftsHaveTheirRelease'
      /\ \A b \in Builds : release[b] # "absent" => release'[b] # "absent"
  <2>1. CASE RecordRelease
    BY <2>1, RecordReleaseKeepsLedger
  <2>2. CASE RecordRollback
    BY <2>2, RecordRollbackKeepsLedger
  <2>3. CASE ~RecordRelease /\ ~RecordRollback
    BY <2>3, LedgerElsewhere
    DEF Ledger, RowsHaveDrafts, OneCurrentRelease, PublishedDraftsHaveTheirRelease
  <2> QED
    BY <2>1, <2>2, <2>3
<1>3. RollbacksHaveRows'
  <2> SUFFICES ASSUME NEW j \in JobIds, jobs'[j].status # "absent",
                      jobs'[j].kind = "rollback_release"
               PROVE  release'[jobs'[j].build] # "absent"
    BY DEF RollbacksHaveRows
  <2>1. CASE jobs[j].status # "absent"
    BY <1>2, <2>1, RowsStay DEF Structure, JobsWellFormed, Ledger, RollbacksHaveRows
  <2>2. CASE jobs[j].status = "absent"
    <3>1. \E b \in Builds : QueueRollback(b)
      <4>1. ~ (Claim \/ CompleteValidation \/ RecordRelease \/ RecordRollback \/ FailJob)
        BY <2>2, TransactionRow DEF SetsStatus
      <4>2. jobs' # jobs
        BY <2>2
      <4>3. \A d \in Drafts : ~QueueValidation(d) /\ ~QueuePublish(d) /\ \A s \in Sources : ~Upload(d, s)
        BY <2>2, NewRow
        DEF Structure, QueueValidation, QueuePublish, Upload
      <4> QED
        BY <4>1, <4>2, <4>3, OthersKeepDb DEF Next, Admin, JobStep, db
    <3> QED
      BY <1>2, <2>2, <3>1, NewRow DEF Structure, QueueRollback
  <2> QED
    BY <2>1, <2>2
<1> QED
  BY <1>1, <1>2, <1>3 DEF Ledger

(* The release table is empty at first.                                    *)
LEMMA LedgerInit == Init => Ledger
<1> SUFFICES ASSUME Init PROVE Ledger
  OBVIOUS
<1>1. RowsHaveDrafts /\ RollbacksHaveRows /\ WorkerRestoresJobsBuild
  BY DEF Init, RowsHaveDrafts, RollbacksHaveRows, NoJob, WorkerRestoresJobsBuild, Busy, Procs
<1>2. OneCurrentRelease /\ PublishedDraftsHaveTheirRelease
  BY DEF Init, OneCurrentRelease, PublishedDraftsHaveTheirRelease
<1> QED
  BY <1>1, <1>2 DEF Ledger

(* The ledger holds always.                                                *)
LEMMA LedgerCorrect == Spec => []Ledger
  BY StructureCorrect, ValidityCorrect, LedgerInit, LedgerStep, PTL DEF Spec

(* The release table (complete_publish_job, complete_rollback_job) never   *)
(* has two current releases.                                               *)
THEOREM AlwaysOneCurrentRelease == Spec => []OneCurrentRelease
  BY LedgerCorrect, PTL DEF Ledger

(* A draft is published exactly when one release row is its own, whatever  *)
(* commits were not heard of and whatever was retried.                     *)
THEOREM PublishedDraftsAlwaysHaveTheirRelease == Spec => []PublishedDraftsHaveTheirRelease
  BY LedgerCorrect, PTL DEF Ledger
-----------------------------------------------------------------------------
(* Who writes the stores readers use.                                      *)

(* Only an upsert changes the pointer.                                     *)
LEMMA PointerChanges ==
  ASSUME [Next]_vars, pointer' # pointer
  PROVE  \E p \in Procs : Upsert(p)
<1>1. CASE \E p \in Procs : IndexerStep(p)
  BY <1>1
  DEF IndexerStep, ReadDescriptor, ReadCurrentBuild, Acquire, AcquireRefused, AcquireUnproved,
      BuildCollection, CreateArtifact, ReadTarget, ReadSwap, AssertHeld, ReadPointer, Release,
      ReleaseRaises, LogSuccess, CliExit, CallRaises, storage
<1>2. ~ (Admin \/ JobStep \/ Environment \/ UNCHANGED vars)
  BY DEF Admin, Upload, QueueValidation, QueuePublish, QueueRollback, JobStep, Claim,
      CompleteValidation, Prepare, RecordRelease, RecordRollback, FailJob, FailJobRaises,
      Environment, LeaseExpires, Restart, CliStart, HeartbeatFails, Crash, vars, storage
<1> QED
  BY <1>1, <1>2 DEF Next

(* Only create_validated_release writes a descriptor.                      *)
LEMMA ArtifactChanges ==
  ASSUME [Next]_vars, artifact' # artifact
  PROVE  \E p \in Procs : CreateArtifact(p)
<1>1. CASE \E p \in Procs : IndexerStep(p)
  BY <1>1
  DEF IndexerStep, ReadDescriptor, ReadCurrentBuild, Acquire, AcquireRefused, AcquireUnproved,
      BuildCollection, Upsert, ReadTarget, ReadSwap, AssertHeld, ReadPointer, Release,
      ReleaseRaises, LogSuccess, CliExit, CallRaises, storage
<1>2. ~ (Admin \/ JobStep \/ Environment \/ UNCHANGED vars)
  BY DEF Admin, Upload, QueueValidation, QueuePublish, QueueRollback, JobStep, Claim,
      CompleteValidation, Prepare, RecordRelease, RecordRollback, FailJob, FailJobRaises,
      Environment, LeaseExpires, Restart, CliStart, HeartbeatFails, Crash, vars, storage
<1> QED
  BY <1>1, <1>2 DEF Next
-----------------------------------------------------------------------------
(* The sole publisher.                                                     *)

Moving == {"assert", "readPointer", "upsert"}
Visible == {"unlock", "log", "complete"}

(* With no other publisher the pointer stays where the worker has put it,  *)
(* or has found it.                                                        *)
Custody == /\ pc[Worker] \in Visible => pointer.current = op[Worker].build
           /\ pc[Worker] # "readSwap"

(* Where nothing is known nothing can be wrong.                            *)
LEMMA KnowsNothing ==
  ASSUME pc'[Worker] \notin {"readSwap"} \cup Visible
  PROVE  Custody'
  BY DEF Custody

(* After an exception nothing is known.                                    *)
LEMMA RaiseKnowsNothing ==
  ASSUME TypeOK, Raise(Worker)
  PROVE  Custody'
<1>1. pc'[Worker] \in {"idle", "fail"}
  BY DEF TypeOK, Raise, Finish, Goto, Procs
<1> QED
  BY <1>1, KnowsNothing DEF Visible

(* Every indexer step keeps what the worker knows.                         *)
LEMMA IndexerKnows ==
  ASSUME Structure, Custody, IndexerStep(Worker)
  PROVE  Custody'
<1> USE DEF Structure, TypeOK, Goto, Procs, storage
<1>1. CASE ReadCurrentBuild(Worker)
  BY <1>1 DEF ReadCurrentBuild, Custody, Visible, Ops
<1>2. CASE Acquire(Worker)
  BY <1>2, KnowsNothing DEF Acquire, Visible, WorkerHasJob, Busy, JobKind
<1>3. CASE ReadSwap(Worker)
  BY <1>3 DEF ReadSwap, Custody
<1>4. CASE Upsert(Worker)
  BY <1>4 DEF Upsert, Custody, Visible
<1>5. CASE Release(Worker)
  BY <1>5, RaiseKnowsNothing DEF Release, AfterRelease, Custody, Visible
<1>6. CASE AcquireRefused(Worker) \/ AcquireUnproved(Worker) \/ ReleaseRaises(Worker)
  BY <1>6, RaiseKnowsNothing DEF AcquireRefused, AcquireUnproved, ReleaseRaises
<1>7. CASE LogSuccess(Worker)
  BY <1>7 DEF LogSuccess, Custody, Visible
<1>8. CASE CliExit(Worker)
  BY <1>8, ConstantsAssumption DEF CliExit
<1>9. CASE CallRaises(Worker)
  BY <1>9, RaiseKnowsNothing, KnowsNothing DEF CallRaises, Visible
<1>10. CASE pc'[Worker] \in {"peekPointer", "recheckPointer", "artifact", "assert",
                             "readPointer", "upsert"}
  BY <1>10, KnowsNothing DEF Visible
<1> QED
  BY <1>1, <1>2, <1>3, <1>4, <1>5, <1>6, <1>7, <1>8, <1>9, <1>10
  DEF IndexerStep, ReadDescriptor, BuildCollection, CreateArtifact, ReadTarget, AssertHeld,
      ReadPointer

(* Every step of a sole publisher keeps its custody.                       *)
LEMMA CustodyStep ==
  ASSUME Operators = {}
  PROVE  Structure /\ Custody /\ [Next]_vars => Custody'
<1> SUFFICES ASSUME Structure, Custody, [Next]_vars PROVE Custody'
  OBVIOUS
<1> USE DEF Structure, TypeOK, Procs
<1>1. CASE pc'[Worker] = pc[Worker] /\ op'[Worker] = op[Worker] /\ UNCHANGED pointer
  BY <1>1 DEF Custody
<1>2. CASE IndexerStep(Worker)
  BY <1>2, IndexerKnows
<1>3. CASE JobStep
  <2>1. UNCHANGED pointer
    BY <1>3
    DEF JobStep, Claim, CompleteValidation, Prepare, RecordRelease, RecordRollback, FailJob,
        FailJobRaises, storage
  <2>2. CASE pc'[Worker] \in {"idle", "validate", "prepare", "acquire", "fail", "peek"}
    BY <2>2, KnowsNothing DEF Visible
  <2>3. StartsJob => pc'[Worker] \in {"validate", "prepare", "acquire"}
    BY DEF StartsJob, FirstCall, JobsWellFormed, JobKind
  <2> QED
    BY <1>1, <1>3, <2>1, <2>2, <2>3, WorkerMoves DEF EndsOrFails
<1>4. CASE Crash(Worker) \/ Restart
  BY <1>4, KnowsNothing DEF Crash, Restart, Goto, Visible
<1> QED
  BY <1>1, <1>2, <1>3, <1>4
  DEF Next, vars, storage, Admin, Upload, QueueValidation, QueuePublish, QueueRollback,
      Environment, LeaseExpires, HeartbeatFails, CliStart

(* Nothing is published and nobody is at work at first.                    *)
LEMMA CustodyInit == Init => Custody
  BY DEF Init, Custody, Visible, Procs

(* A job that succeeds leaves the visible release current in the database. *)
LEMMA SucceedsVisibly ==
  ASSUME Structure, Validity, Ledger, Custody, [Next]_vars,
         NEW j \in JobIds, jobs[j].kind \in {"publish_draft", "rollback_release"},
         jobs[j].status = "running", jobs'[j].status = "succeeded"
  PROVE  pointer.current # None /\ release'[pointer.current] = "current"
<1> USE DEF Structure, TypeOK
<1>1. RecordRelease \/ RecordRollback
  <2>1. CASE CompleteValidation
    BY <2>1, TransactionRow
    DEF SetsStatus, CompleteValidation, WorkerHasJob, Busy, MyJob
  <2>2. ~ (Claim \/ FailJob)
    BY TransactionRow DEF SetsStatus
  <2>3. ~ (Admin \/ UNCHANGED db)
    BY EnqueueRow
    DEF Admin, Upload, QueueValidation, QueuePublish, QueueRollback, db
  <2> QED
    BY <2>1, <2>2, <2>3, OthersKeepDb DEF Next, JobStep
<1>2. op[Worker].build \in Builds /\ pointer.current = op[Worker].build
  BY <1>1
  DEF RecordRelease, RecordRollback, Validity, HoldsValidated, Valid, Procs, Custody, Visible
<1>3. release'[op[Worker].build] = "current"
  BY <1>1, <1>2 DEF RecordRelease, RecordRollback
<1> QED
  BY <1>2, <1>3, ConstantsAssumption

(* When a publish or rollback job is reported as succeeded                 *)
(* (complete_publish_job, complete_rollback_job), the release the database *)
(* calls current is the one queries are answered from, whatever stalled,   *)
(* failed or crashed on the way there.                                     *)
THEOREM SuccessIsAlwaysVisible == Spec => SuccessIsVisible
<1>1. CASE Operators = {}
  <2>1. Structure /\ Custody /\ [Next]_vars => Custody'
    BY <1>1, CustodyStep
  <2>2. Structure /\ Validity /\ Ledger /\ Custody /\ [Next]_vars =>
          [ \A j \in JobIds :
              ( /\ Operators = {}
                /\ jobs[j].kind \in {"publish_draft", "rollback_release"}
                /\ jobs[j].status = "running" /\ jobs'[j].status = "succeeded" )
              => ( /\ pointer.current # None
                   /\ release'[pointer.current] = "current" ) ]_vars
    BY SucceedsVisibly
  <2> QED
    BY <2>1, <2>2, CustodyInit, StructureCorrect, ValidityCorrect, LedgerCorrect, PTL
    DEF Spec, SuccessIsVisible
<1>2. CASE Operators # {}
  <2>1. [Next]_vars =>
          [ \A j \in JobIds :
              ( /\ Operators = {}
                /\ jobs[j].kind \in {"publish_draft", "rollback_release"}
                /\ jobs[j].status = "running" /\ jobs'[j].status = "succeeded" )
              => ( /\ pointer.current # None
                   /\ release'[pointer.current] = "current" ) ]_vars
    BY <1>2
  <2> QED
    BY <2>1, PTL DEF Spec, SuccessIsVisible
<1> QED
  BY <1>1, <1>2
-----------------------------------------------------------------------------
(* Exclusion.                                                              *)

(* Whoever does not act still holds what it held.                          *)
LEMMA OthersHold ==
  ASSUME LeaseHolders, NEW p \in Procs, NEW q \in Procs \ {p},
         pc'[q] = pc[q], op'[q] = op[q], q \in lapsed' <=> q \in lapsed,
         lease' = lease \/ (lease # q /\ lease' # q),
         pointer' = pointer \/ lease = p
  PROVE  HoldsLease(q)'
  BY DEF LeaseHolders, HoldsLease, Critical

(* A process that holds nothing needs nothing.                             *)
LEMMA OutsideHolds ==
  ASSUME NEW p \in Procs, pc'[p] \notin Critical, pc'[p] \in Holding \/ (p \notin lapsed' /\ lease' # p)
  PROVE  HoldsLease(p)'
  BY DEF HoldsLease, Holding, Critical

(* An exception leaves the with-statement.                                 *)
LEMMA RaiseOutside ==
  ASSUME TypeOK, NEW p \in Procs, Raise(p)
  PROVE  pc'[p] \notin Critical
  BY DEF TypeOK, Raise, Finish, Goto, Critical

(* Every indexer step keeps what its process needs of the lease.           *)
LEMMA IndexerKeepsLease ==
  ASSUME Structure, LeaseHolders, NEW p \in Procs, IndexerStep(p)
  PROVE  HoldsLease(p)'
<1> USE DEF Structure, TypeOK, Goto, redis, storage
<1>1. CASE ReadDescriptor(p)
  BY <1>1 DEF ReadDescriptor, LeaseHolders, HoldsLease, Holding, Critical
<1>2. CASE ReadCurrentBuild(p)
  BY <1>2 DEF ReadCurrentBuild, LeaseHolders, HoldsLease, Holding, Critical
<1>3. CASE Acquire(p)
  BY <1>3 DEF Acquire, HoldsLease, Holding, Critical
<1>4. CASE AcquireRefused(p)
  BY <1>4, RaiseOutside, OutsideHolds
  DEF AcquireRefused, LeaseHolders, HoldsLease, Holding, Critical
<1>5. CASE AcquireUnproved(p)
  BY <1>5, RaiseOutside, OutsideHolds, ConstantsAssumption
  DEF AcquireUnproved, LeaseHolders, HoldsLease, Holding, Critical
<1>6. CASE BuildCollection(p)
  BY <1>6 DEF BuildCollection, LeaseHolders, HoldsLease, Holding, Critical
<1>7. CASE CreateArtifact(p)
  <2>1. op[p].task # "rollback"
    BY <1>7 DEF CreateArtifact, TasksHaveContent, TaskHasContent, BuildLabels, BuildTasks
  <2> QED
    BY <1>7, <2>1 DEF CreateArtifact, LeaseHolders, HoldsLease, Holding, Critical
<1>8. CASE ReadTarget(p)
  <2>1. op[p].task # "rollback"
    BY <1>8 DEF ReadTarget, TasksHaveContent, TaskHasContent
  <2> QED
    BY <1>8, <2>1 DEF ReadTarget, LeaseHolders, HoldsLease, Holding, Critical
<1>9. CASE ReadSwap(p)
  BY <1>9 DEF ReadSwap, LeaseHolders, HoldsLease, Holding, Critical, Ops
<1>10. CASE AssertHeld(p)
  BY <1>10 DEF AssertHeld, LeaseHolders, HoldsLease, Holding, Critical
<1>11. CASE ReadPointer(p)
  BY <1>11 DEF ReadPointer, LeaseHolders, HoldsLease, Holding, Critical, Ops
<1>12. CASE Upsert(p)
  BY <1>12, OutsideHolds DEF Upsert, Holding, Critical
<1>13. CASE Release(p)
  BY <1>13, RaiseOutside, OutsideHolds, ConstantsAssumption
  DEF Release, AfterRelease, Holding, Critical
<1>14. CASE ReleaseRaises(p)
  BY <1>14, RaiseOutside, OutsideHolds, ConstantsAssumption DEF ReleaseRaises, Holding, Critical
<1>15. CASE LogSuccess(p)
  BY <1>15, OutsideHolds DEF LogSuccess, LeaseHolders, HoldsLease, Holding, Critical
<1>16. CASE CliExit(p)
  BY <1>16, OutsideHolds DEF CliExit, Finish, LeaseHolders, HoldsLease, Holding, Critical
<1>17. CASE CallRaises(p)
  BY <1>17, RaiseOutside, OutsideHolds
  DEF CallRaises, LeaseHolders, HoldsLease, Holding, Critical
<1> QED
  BY <1>1, <1>2, <1>3, <1>4, <1>5, <1>6, <1>7, <1>8, <1>9, <1>10, <1>11,
     <1>12, <1>13, <1>14, <1>15, <1>16, <1>17 DEF IndexerStep

(* What an indexer step of one process does to the others' lease.          *)
LEMMA IndexerSpares ==
  ASSUME Structure, LeaseHolders, NEW p \in Procs, NEW q \in Procs \ {p}, IndexerStep(p)
  PROVE  /\ q \in lapsed' <=> q \in lapsed
         /\ lease' = lease \/ (lease # q /\ lease' # q)
         /\ pointer' = pointer \/ lease = p
<1> USE DEF redis, storage
<1>1. CASE Acquire(p) \/ AcquireUnproved(p)
  BY <1>1, ConstantsAssumption DEF Acquire, AcquireUnproved
<1>2. CASE Release(p) \/ ReleaseRaises(p)
  BY <1>2, ConstantsAssumption DEF Release, ReleaseRaises
<1>3. CASE Upsert(p)
  BY <1>3 DEF Upsert, LeaseHolders, HoldsLease
<1>4. CASE UNCHANGED <<lease, lapsed, pointer>>
  BY <1>4
<1> QED
  BY <1>1, <1>2, <1>3, <1>4
  DEF IndexerStep, ReadDescriptor, ReadCurrentBuild, AcquireRefused, BuildCollection,
      CreateArtifact, ReadTarget, ReadSwap, AssertHeld, ReadPointer, LogSuccess, CliExit,
      CallRaises

(* Without stalls every step keeps what is known of the lease.             *)
LEMMA LeaseHoldersStep ==
  ASSUME "stall" \notin Faults
  PROVE  Structure /\ LeaseHolders /\ [Next]_vars => LeaseHolders'
<1> SUFFICES ASSUME Structure, LeaseHolders, [Next]_vars, NEW q \in Procs PROVE HoldsLease(q)'
  BY DEF LeaseHolders
<1> USE DEF Structure, TypeOK, redis, storage
<1>1. CASE pc'[q] = pc[q] /\ op'[q] = op[q] /\ UNCHANGED <<lease, lapsed, pointer>>
  BY <1>1 DEF LeaseHolders, HoldsLease
<1>2. ASSUME NEW p \in Procs, IndexerStep(p) PROVE HoldsLease(q)'
  <2>1. CASE q = p
    BY <1>2, <2>1, IndexerKeepsLease
  <2>2. CASE q # p
    BY <1>2, <2>2, IndexerMoves, IndexerSpares, OthersHold DEF MovesAlone
  <2> QED
    BY <2>1, <2>2
<1>3. CASE JobStep
  <2>1. UNCHANGED <<lease, lapsed, pointer>>
    BY <1>3
    DEF JobStep, Claim, CompleteValidation, Prepare, RecordRelease, RecordRollback, FailJob,
        FailJobRaises
  <2>2. CASE q # Worker
    BY <1>1, <1>3, <2>1, <2>2, WorkerMoves DEF Procs
  <2>3. pc[Worker] \notin Holding
    BY <1>3
    DEF JobStep, Claim, CompleteValidation, Prepare, RecordRelease, RecordRollback, FailJob,
        FailJobRaises, Holding, Critical
  <2>4. pc'[Worker] \notin Critical
    BY <1>3, <2>3, WorkerMoves
    DEF StartsJob, FirstCall, EndsOrFails, JobsWellFormed, JobKind, Holding, Critical
  <2> QED
    BY <2>1, <2>2, <2>3, <2>4, OutsideHolds DEF LeaseHolders, HoldsLease
<1>4. CASE LeaseExpires
  BY <1>4, ConstantsAssumption DEF LeaseExpires, LeaseHolders, HoldsLease
<1>5. ASSUME NEW p \in Procs, HeartbeatFails(p) PROVE HoldsLease(q)'
  BY <1>5 DEF HeartbeatFails, LeaseHolders, HoldsLease, Holding
<1>6. ASSUME NEW p \in Procs, Crash(p) PROVE HoldsLease(q)'
  <2>1. CASE q = p
    BY <1>6, <2>1, OutsideHolds, ConstantsAssumption DEF Crash, Goto, Critical
  <2>2. CASE q # p
    BY <1>6, <2>2, OthersHold, ConstantsAssumption DEF Crash, Goto
  <2> QED
    BY <2>1, <2>2
<1>7. ASSUME NEW p \in Procs, CliStart(p) PROVE HoldsLease(q)'
  <2>1. CASE q = p
    <3>1. pc'[p] \in {"peek", "acquire"} /\ pc[p] = "idle" /\ UNCHANGED redis
      BY <1>7 DEF CliStart, Goto
    <3> QED
      BY <2>1, <3>1, OutsideHolds DEF LeaseHolders, HoldsLease, Holding, Critical
  <2>2. CASE q # p
    BY <1>1, <1>7, <2>2 DEF CliStart, Goto
  <2> QED
    BY <2>1, <2>2
<1>8. CASE Restart
  <2>1. CASE q = Worker
    BY <1>8, <2>1, OutsideHolds DEF Restart, Goto, LeaseHolders, HoldsLease, Holding, Critical
  <2>2. CASE q # Worker
    BY <1>1, <1>8, <2>2 DEF Restart, Goto
  <2> QED
    BY <2>1, <2>2
<1> QED
  BY <1>1, <1>2, <1>3, <1>4, <1>5, <1>6, <1>7, <1>8
  DEF Next, vars, Admin, Upload, QueueValidation, QueuePublish, QueueRollback, Environment

(* Nobody holds the lease at first.                                        *)
LEMMA LeaseHoldersInit == Init => LeaseHolders
  BY ConstantsAssumption DEF Init, LeaseHolders, HoldsLease, Critical, Procs

(* It is made by the holder, over the pointer it has read.                 *)
LEMMA MovesUnderLease ==
  ASSUME LeaseHolders, [Next]_vars, pointer' # pointer
  PROVE  /\ lease \in Procs /\ pc[lease] = "upsert"
         /\ pointer'.previous = pointer.current
<1>1. PICK p \in Procs : Upsert(p)
  BY PointerChanges
<1>2. lease = p /\ op[p].seen = pointer.current
  BY <1>1 DEF Upsert, LeaseHolders, HoldsLease
<1> QED
  BY <1>1, <1>2 DEF Upsert

(* The lease (publication_lock.py) serialises worker and operators as long *)
(* as no process stands still for the 15 minutes the key lives between     *)
(* assert_held and the upsert: no publication or rollback is overwritten.  *)
THEOREM PointerAlwaysMovesUnderLease ==
  ASSUME "stall" \notin Faults
  PROVE  Spec => PointerMovesUnderLease
<1>1. Structure /\ LeaseHolders /\ [Next]_vars => LeaseHolders'
  BY LeaseHoldersStep
<1>2. LeaseHolders /\ [Next]_vars =>
        [pointer' # pointer => /\ lease \in Procs /\ pc[lease] = "upsert"
                               /\ pointer'.previous = pointer.current]_vars
  BY MovesUnderLease
<1> QED
  BY <1>1, <1>2, StructureCorrect, LeaseHoldersInit, PTL DEF Spec, PointerMovesUnderLease

-----------------------------------------------------------------------------
(* Reports.                                                                *)

(* A build in the making has no descriptor and, once it has one, has the   *)
(* content asked for; what the holder of the lease has read or written of  *)
(* the pointer still stands.                                               *)
HasItsBuild(p) ==
  /\ pc[p] = "readSwap" => op[p].task \notin BuildTasks
  /\ pc[p] = "artifact" => artifact[op[p].build] = None
  /\ pc[p] \in Moving /\ op[p].task \in BuildTasks => artifact[op[p].build] = op[p].src
  /\ lease = p /\ pc[p] = "recheckPointer" /\ op[p].matched =>
       artifact[pointer.current] = op[p].src
  /\ lease = p /\ pc[p] = "unlock" =>
       /\ pointer.current = op[p].build
       /\ op[p].task \in BuildTasks => artifact[op[p].build] = op[p].src

DescriptorsAreOfBuilt == \A b \in Builds : artifact[b] # None => b \in built

BuildsAreApart ==
  \A p, q \in Procs :
    p # q /\ pc[p] = "artifact" /\ pc[q] = "artifact" => op[p].build # op[q].build

Reports == DescriptorsAreOfBuilt /\ BuildsAreApart /\ \A p \in Procs : HasItsBuild(p)

(* A descriptor is written once, for a collection that was built.          *)
LEMMA DescriptorsStay ==
  ASSUME Structure, Validity, Reports, [Next]_vars
  PROVE  /\ DescriptorsAreOfBuilt'
         /\ \A b \in Builds : artifact[b] # None => artifact'[b] = artifact[b]
<1> USE DEF Structure, TypeOK
<1>1. CASE artifact' = artifact
  BY <1>1, KeepsValid DEF Reports, DescriptorsAreOfBuilt
<1>2. ASSUME NEW p \in Procs, CreateArtifact(p)
      PROVE  /\ DescriptorsAreOfBuilt'
             /\ \A b \in Builds : artifact[b] # None => artifact'[b] = artifact[b]
  BY <1>2
  DEF CreateArtifact, Reports, DescriptorsAreOfBuilt, HasItsBuild, Validity, HoldsValidated
<1> QED
  BY <1>1, <1>2, ArtifactChanges

(* Whoever does not act keeps its build, and its view of the pointer while *)
(* it holds the lease.                                                     *)
LEMMA OthersKeepBuild ==
  ASSUME Structure, Validity, Reports, [Next]_vars, NEW q \in Procs,
         pc'[q] = pc[q], op'[q] = op[q],
         lease' = q => lease = q,
         lease = q => pointer' = pointer,
         pc[q] = "artifact" => artifact'[op[q].build] = artifact[op[q].build]
  PROVE  HasItsBuild(q)'
<1> USE DEF Structure, TypeOK
<1>1. \A b \in Builds : artifact[b] # None => artifact'[b] = artifact[b]
  BY DescriptorsStay
<1>2. CASE pc[q] \in {"readSwap", "artifact"}
  BY <1>2 DEF Reports, HasItsBuild, Moving
<1>3. CASE pc[q] \in Moving
  <2>1. op[q].build \in Builds /\ artifact[op[q].build] # None
    BY <1>3 DEF Validity, HoldsValidated, Valid, Moving
  <2> QED
    BY <1>1, <1>3, <2>1 DEF Reports, HasItsBuild, Moving
<1>4. CASE pc[q] = "unlock"
  <2>1. op[q].build \in Builds /\ artifact[op[q].build] # None
    BY <1>4 DEF Validity, HoldsValidated, Valid
  <2> QED
    BY <1>1, <1>4, <2>1 DEF Reports, HasItsBuild, Moving
<1>5. CASE pc[q] = "recheckPointer"
  <2>1. op[q].matched => pointer.current \in Builds /\ artifact[pointer.current] # None
    BY <1>5 DEF Validity, HoldsValidated, PointerNamesValidated
  <2> QED
    BY <1>1, <1>5, <2>1 DEF Reports, HasItsBuild, Moving
<1> QED
  BY <1>2, <1>3, <1>4, <1>5 DEF HasItsBuild

(* A process elsewhere has nothing to keep.                                *)
LEMMA HasNoBuild ==
  ASSUME NEW p \in Procs,
         pc'[p] \notin {"readSwap", "artifact", "recheckPointer", "unlock"} \cup Moving
  PROVE  HasItsBuild(p)'
  BY DEF HasItsBuild

(* An exception ends there.                                                *)
LEMMA RaiseHasNoBuild ==
  ASSUME TypeOK, NEW p \in Procs, Raise(p)
  PROVE  HasItsBuild(p)'
<1>1. pc'[p] \in {"idle", "fail"}
  BY DEF TypeOK, Raise, Finish, Goto
<1> QED
  BY <1>1, HasNoBuild DEF Moving

(* Every indexer step leaves its process with what the next label needs.   *)
LEMMA IndexerHasItsBuild ==
  ASSUME Structure, Validity, LeaseHolders, Reports, NEW p \in Procs, IndexerStep(p)
  PROVE  HasItsBuild(p)'
<1> USE DEF Structure, TypeOK, Goto, storage
<1>1. CASE ReadDescriptor(p)
  BY <1>1 DEF ReadDescriptor, HasItsBuild, Moving, Ops
<1>2. CASE ReadCurrentBuild(p)
  BY <1>2 DEF ReadCurrentBuild, Reports, HasItsBuild, Moving, Ops, redis
<1>3. CASE Acquire(p)
  BY <1>3 DEF Acquire, HasItsBuild, Moving, BuildTasks
<1>4. CASE AcquireRefused(p) \/ AcquireUnproved(p) \/ ReleaseRaises(p)
  BY <1>4, RaiseHasNoBuild DEF AcquireRefused, AcquireUnproved, ReleaseRaises
<1>5. CASE BuildCollection(p)
  BY <1>5 DEF BuildCollection, Reports, DescriptorsAreOfBuilt, HasItsBuild, Moving, Ops
<1>6. CASE CreateArtifact(p)
  BY <1>6 DEF CreateArtifact, HasItsBuild, Moving, Validity, HoldsValidated
<1>7. CASE ReadTarget(p)
  BY <1>7 DEF ReadTarget, TasksHaveContent, TaskHasContent, HasItsBuild, Moving, BuildTasks
<1>8. CASE ReadSwap(p)
  BY <1>8 DEF ReadSwap, Reports, HasItsBuild, Moving, Ops
<1>9. CASE AssertHeld(p)
  BY <1>9 DEF AssertHeld, Reports, HasItsBuild, Moving
<1>10. CASE ReadPointer(p)
  BY <1>10 DEF ReadPointer, Reports, HasItsBuild, Moving, Ops
<1>11. CASE Upsert(p)
  BY <1>11 DEF Upsert, Reports, HasItsBuild, Moving
<1>12. CASE Release(p)
  BY <1>12, RaiseHasNoBuild, HasNoBuild DEF Release, AfterRelease, Moving
<1>13. CASE LogSuccess(p)
  BY <1>13, HasNoBuild DEF LogSuccess, Moving
<1>14. CASE CliExit(p)
  BY <1>14, HasNoBuild DEF CliExit, Finish, Moving
<1>15. CASE CallRaises(p)
  BY <1>15, RaiseHasNoBuild, HasNoBuild DEF CallRaises, Moving
<1> QED
  BY <1>1, <1>2, <1>3, <1>4, <1>5, <1>6, <1>7, <1>8, <1>9, <1>10, <1>11,
     <1>12, <1>13, <1>14, <1>15 DEF IndexerStep

(* A descriptor is due only for a collection just written.                 *)
LEMMA ReachesArtifact ==
  ASSUME Structure, [Next]_vars, NEW q \in Procs, pc'[q] = "artifact"
  PROVE  \/ pc[q] = "artifact" /\ op'[q] = op[q]
         \/ BuildCollection(q)
<1> USE DEF Structure, TypeOK
<1>1. CASE pc'[q] = pc[q] /\ op'[q] = op[q]
  BY <1>1
<1>2. ASSUME NEW p \in Procs, IndexerStep(p), q # p PROVE pc'[q] = pc[q] /\ op'[q] = op[q]
  BY <1>2, IndexerMoves DEF MovesAlone
<1>3. CASE IndexerStep(q)
  <2>1. ~Raise(q) /\ ~Finish(q)
    BY DEF Raise, Finish, Goto
  <2> QED
    BY <1>3, <2>1
    DEF IndexerStep, ReadDescriptor, ReadCurrentBuild, Acquire, AcquireRefused,
        AcquireUnproved, CreateArtifact, ReadTarget, ReadSwap, AssertHeld, ReadPointer,
        Upsert, Release, AfterRelease, ReleaseRaises, LogSuccess, CliExit, CallRaises, Goto
<1>4. CASE JobStep
  <2>1. StartsJob => pc'[Worker] \in {"validate", "prepare", "acquire"}
    BY DEF StartsJob, FirstCall, JobsWellFormed, JobKind
  <2> QED
    BY <1>4, <2>1, WorkerMoves DEF EndsOrFails, Procs
<1>5. ASSUME NEW p \in Procs, CliStart(p) \/ Crash(p) PROVE pc'[q] = pc[q] /\ op'[q] = op[q]
  BY <1>5 DEF CliStart, Crash, Goto
<1>6. CASE Restart
  BY <1>6 DEF Restart, Goto
<1> QED
  BY <1>1, <1>2, <1>3, <1>4, <1>5, <1>6
  DEF Next, vars, Admin, Upload, QueueValidation, QueuePublish, QueueRollback, Environment,
      LeaseExpires, HeartbeatFails

(* No two processes make the same build.                                   *)
LEMMA BuildsStayApart ==
  ASSUME Structure, Validity, Reports, [Next]_vars
  PROVE  BuildsAreApart'
<1> USE DEF Structure, TypeOK
<1> SUFFICES ASSUME NEW p \in Procs, NEW q \in Procs, p # q,
                    pc'[p] = "artifact", pc'[q] = "artifact"
             PROVE  op'[p].build # op'[q].build
  BY DEF BuildsAreApart
<1>1. ASSUME NEW a \in Procs, NEW b \in Procs \ {a}, BuildCollection(a),
             pc'[b] = "artifact"
      PROVE  op'[a].build # op'[b].build
  <2>1. pc[b] = "artifact" /\ op'[b] = op[b]
    BY <1>1 DEF BuildCollection, Goto
  <2>2. op[b].build \in built /\ op'[a].build \notin built
    BY <1>1, <2>1 DEF BuildCollection, Validity, HoldsValidated, Ops
  <2> QED
    BY <2>1, <2>2
<1> QED
  BY <1>1, ReachesArtifact DEF Reports, BuildsAreApart

(* Without stalls every step keeps what a publisher may report.            *)
LEMMA ReportsStep ==
  ASSUME "stall" \notin Faults
  PROVE  Structure /\ Validity /\ LeaseHolders /\ Reports /\ [Next]_vars => Reports'
<1> SUFFICES ASSUME Structure, Validity, LeaseHolders, Reports, [Next]_vars,
                    NEW q \in Procs
             PROVE  HasItsBuild(q)'
  BY DescriptorsStay, BuildsStayApart DEF Reports
<1> USE DEF Structure, TypeOK, redis, storage
<1>1. CASE pc'[q] = pc[q] /\ op'[q] = op[q] /\ UNCHANGED <<pointer, artifact>>
           /\ (lease' = q => lease = q)
  BY <1>1, OthersKeepBuild
<1>2. ASSUME NEW p \in Procs, IndexerStep(p) PROVE HasItsBuild(q)'
  <2>1. CASE q = p
    BY <1>2, <2>1, IndexerHasItsBuild
  <2>2. CASE q # p
    <3>1. pc'[q] = pc[q] /\ op'[q] = op[q]
      BY <1>2, <2>2, IndexerMoves DEF MovesAlone
    <3>2. (lease' = q => lease = q) /\ (lease = q => pointer' = pointer)
      BY <1>2, <2>2, IndexerSpares
    <3>3. ASSUME pc[q] = "artifact", NEW r \in Procs, CreateArtifact(r)
          PROVE  artifact'[op[q].build] = artifact[op[q].build]
      <4>1. r # q
        BY <3>1, <3>3 DEF CreateArtifact, Goto
      <4>2. op[r].build # op[q].build
        BY <3>3, <4>1 DEF CreateArtifact, Reports, BuildsAreApart
      <4> QED
        BY <3>3, <4>2 DEF CreateArtifact, Validity, HoldsValidated
    <3> QED
      BY <3>1, <3>2, <3>3, ArtifactChanges, OthersKeepBuild
  <2> QED
    BY <2>1, <2>2
<1>3. CASE JobStep
  <2>1. UNCHANGED <<pointer, artifact, lease>>
    BY <1>3
    DEF JobStep, Claim, CompleteValidation, Prepare, RecordRelease, RecordRollback, FailJob,
        FailJobRaises
  <2>2. CASE q # Worker
    BY <1>1, <1>3, <2>1, <2>2, WorkerMoves DEF Procs
  <2>3. CASE pc'[Worker] \in {"idle", "validate", "prepare", "acquire", "fail", "peek"}
             /\ q = Worker
    BY <2>3, HasNoBuild DEF Moving
  <2>4. StartsJob => pc'[Worker] \in {"validate", "prepare", "acquire"}
    BY DEF StartsJob, FirstCall, JobsWellFormed, JobKind
  <2> QED
    BY <1>1, <1>3, <2>1, <2>2, <2>3, <2>4, WorkerMoves DEF EndsOrFails
<1>4. CASE LeaseExpires
  BY <1>1, <1>4, ConstantsAssumption DEF LeaseExpires
<1>5. ASSUME NEW p \in Procs, HeartbeatFails(p) PROVE HasItsBuild(q)'
  BY <1>1, <1>5 DEF HeartbeatFails
<1>6. ASSUME NEW p \in Procs, Crash(p) PROVE HasItsBuild(q)'
  <2>1. CASE q = p
    BY <1>6, <2>1, HasNoBuild DEF Crash, Goto, Moving
  <2>2. CASE q # p
    BY <1>1, <1>6, <2>2, ConstantsAssumption DEF Crash, Goto
  <2> QED
    BY <2>1, <2>2
<1>7. ASSUME NEW p \in Procs, CliStart(p) PROVE HasItsBuild(q)'
  <2>1. CASE q = p
    <3>1. pc'[p] \in {"peek", "acquire"}
      BY <1>7 DEF CliStart, Goto
    <3> QED
      BY <2>1, <3>1, HasNoBuild DEF Moving
  <2>2. CASE q # p
    BY <1>1, <1>7, <2>2 DEF CliStart, Goto
  <2> QED
    BY <2>1, <2>2
<1>8. CASE Restart
  <2>1. CASE q = Worker
    BY <1>8, <2>1, HasNoBuild DEF Restart, Goto, Moving
  <2>2. CASE q # Worker
    BY <1>1, <1>8, <2>2 DEF Restart, Goto
  <2> QED
    BY <2>1, <2>2
<1> QED
  BY <1>1, <1>2, <1>3, <1>4, <1>5, <1>6, <1>7, <1>8
  DEF Next, vars, Admin, Upload, QueueValidation, QueuePublish, QueueRollback, Environment

(* Nobody has anything to report at first.                                 *)
LEMMA ReportsInit == Init => Reports
  BY DEF Init, Reports, DescriptorsAreOfBuilt, BuildsAreApart, HasItsBuild, Moving

(* A with-statement ends normally in the hands of the lease's owner.       *)
LEMMA EndsAsOwner ==
  ASSUME Structure, [Next]_vars, NEW p \in Procs,
         pc[p] = "unlock", pc'[p] \in {"log", "complete"}
  PROVE  lease = p
<1> USE DEF Structure, TypeOK
<1>1. CASE pc'[p] = pc[p]
  BY <1>1
<1>2. ASSUME NEW q \in Procs, IndexerStep(q), q # p PROVE pc'[p] = pc[p]
  BY <1>2, IndexerMoves DEF MovesAlone
<1>3. CASE IndexerStep(p)
  <2>1. ~Raise(p) /\ ~Finish(p)
    BY DEF Raise, Finish, Goto
  <2> QED
    BY <1>3, <2>1
    DEF IndexerStep, ReadDescriptor, ReadCurrentBuild, Acquire, AcquireRefused,
        AcquireUnproved, BuildCollection, CreateArtifact, ReadTarget, ReadSwap, AssertHeld,
        ReadPointer, Upsert, Release, ReleaseRaises, LogSuccess, CliExit, CallRaises, Goto,
        Critical
<1>4. CASE JobStep
  BY <1>4, WorkerMoves
  DEF StartsJob, FirstCall, JobsWellFormed, JobKind, EndsOrFails, Procs
<1>5. ASSUME NEW q \in Procs, CliStart(q) \/ Crash(q) PROVE pc'[p] = pc[p]
  BY <1>5 DEF CliStart, Crash, Goto
<1>6. CASE Restart
  BY <1>6 DEF Restart, Goto
<1> QED
  BY <1>1, <1>2, <1>3, <1>4, <1>5, <1>6
  DEF Next, vars, Admin, Upload, QueueValidation, QueuePublish, QueueRollback, Environment,
      LeaseExpires, HeartbeatFails

(* What is reported after the with-statement that holds the lease          *)
(* (knowledge_indexer.py:203-236 and 313-328, service.py:382-388) is       *)
(* visible at the moment the lease is given back and of the content asked  *)
(* for, with any number of command lines beside the worker: under the lock *)
(* the no-op check's two reads of the pointer agree, and an owner whose    *)
(* lease was lost on the way does not get that far.                        *)
THEOREM ReportsAreAlwaysOfTheVisibleRelease ==
  ASSUME "stall" \notin Faults
  PROVE  Spec => ReportsAreOfTheVisibleRelease
<1>1. Structure /\ LeaseHolders /\ [Next]_vars => LeaseHolders'
  BY LeaseHoldersStep
<1>2. Structure /\ Validity /\ LeaseHolders /\ Reports /\ [Next]_vars => Reports'
  BY ReportsStep
<1>3. Structure /\ Reports /\ [Next]_vars =>
        [ \A p \in Procs :
            pc[p] = "unlock" /\ pc'[p] \in {"log", "complete"} =>
              /\ pointer.current = op[p].build
              /\ op[p].task \in BuildTasks => artifact[op[p].build] = op[p].src ]_vars
  BY EndsAsOwner DEF Reports, HasItsBuild
<1> QED
  BY <1>1, <1>2, <1>3, StructureCorrect, ValidityCorrect, LeaseHoldersInit, ReportsInit, PTL
  DEF Spec, ReportsAreOfTheVisibleRelease

-----------------------------------------------------------------------------
(* The register.                                                           *)

Validated == {b \in Builds : artifact[b] # None}

(* A step of the code is a step of the register or changes nothing of it.  *)
LEMMA RegisterStep ==
  ASSUME Structure, Validity, LeaseHolders, [Next]_vars
  PROVE  [Register!Next]_(Register!regVars)
<1> USE DEF Structure, TypeOK
<1>1. CASE artifact' = artifact /\ pointer' = pointer
  <2>1. Validated' = Validated
    BY <1>1 DEF Validated
  <2> QED
    BY <1>1, <2>1 DEF Register!regVars, Validated
<1>2. ASSUME NEW p \in Procs, CreateArtifact(p) PROVE [Register!Next]_(Register!regVars)
  <2>1. PICK b \in Builds : op[p].build = b /\ op[p].src # None
    BY <1>2
    DEF CreateArtifact, Validity, HoldsValidated, TasksHaveContent, TaskHasContent, BuildLabels
  <2>2. Validated' = Validated \cup {b} /\ UNCHANGED pointer
    BY <1>2, <2>1 DEF CreateArtifact, Validated
  <2>3. CASE b \in Validated
    BY <2>2, <2>3 DEF Register!regVars, Validated
  <2>4. CASE b \notin Validated
    <3>1. Register!Validate(b)
      BY <2>2, <2>4 DEF Register!Validate, Validated
    <3> QED
      BY <3>1 DEF Register!Next
  <2> QED
    BY <2>3, <2>4
<1>3. ASSUME NEW p \in Procs, Upsert(p) PROVE [Register!Next]_(Register!regVars)
  <2>1. op[p].build \in Builds /\ op[p].build \in Validated
    BY <1>3 DEF Upsert, Validity, HoldsValidated, Valid, Validated
  <2>2. op[p].seen = pointer.current
    BY <1>3 DEF Upsert, LeaseHolders, HoldsLease
  <2>3. pointer' = [current |-> op[p].build, previous |-> pointer.current] /\ UNCHANGED artifact
    BY <1>3, <2>2 DEF Upsert
  <2>4. Register!MakeCurrent(op[p].build)
    BY <2>1, <2>3 DEF Register!MakeCurrent, Validated
  <2> QED
    BY <2>1, <2>4 DEF Register!Next
<1> QED
  BY <1>1, <1>2, <1>3, PointerChanges, ArtifactChanges

(* Without such stalls the publication machinery implements the register:  *)
(* readers see validated releases replace one another, each remembering    *)
(* the one it replaced.                                                    *)
THEOREM ImplementsRegister ==
  ASSUME "stall" \notin Faults
  PROVE  Spec => RegisterSpec
<1>1. Init => Register!Init
  BY DEF Init, Register!Init
<1>2. Structure /\ LeaseHolders /\ [Next]_vars => LeaseHolders'
  BY LeaseHoldersStep
<1>3. Structure /\ Validity /\ LeaseHolders /\ [Next]_vars => [Register!Next]_(Register!regVars)
  BY RegisterStep
<1> QED
  BY <1>1, <1>2, <1>3, StructureCorrect, ValidityCorrect, LeaseHoldersInit, PTL
  DEF Spec, RegisterSpec, Register!Spec
=============================================================================
