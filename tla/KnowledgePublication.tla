------------------------ MODULE KnowledgePublication ------------------------
(***************************************************************************)
(* Publication of the knowledge base (knowledge_admin/, knowledge/ and     *)
(* tools/knowledge_indexer.py).  Administrators queue jobs in the database *)
(* through the application; one publisher worker claims them in order and  *)
(* executes them; an operator may run the indexer's command line at the    *)
(* same time.  Worker and operators serialise on a lease in Redis, leave   *)
(* write-once descriptors on disk, and make a release visible by upserting *)
(* one pointer record in Chroma.  The database is told afterwards, in a    *)
(* transaction of its own.                                                 *)
(*                                                                         *)
(* Every call to the database, Redis, Chroma or the artifact directory is  *)
(* a step of its own, so that a crash, an error or another process may     *)
(* come between any two of them.                                           *)
(***************************************************************************)
EXTENDS Naturals

CONSTANTS
  Drafts,      \* knowledge packages an administrator may upload
  Sources,     \* contents a package or the operator's source tree may have
  Builds,      \* build identities (uuid4), one per index build
  Worker,      \* the publisher worker, a single process
  Operators,   \* concurrent runs of the indexer's command line
  Orphan,      \* value of the lease key when its writer no longer renews it
  None,
  MaxJobs,     \* bound: rows of the job table
  MaxCrashes,  \* bound: process crashes in a behaviour
  Faults       \* which calls may fail after, or instead of, taking effect

FaultKinds == {"database", "redis", "chroma", "files", "stall"}

Procs == {Worker} \cup Operators
JobIds == 1..MaxJobs

ASSUME ConstantsAssumption ==
  /\ Worker \notin Operators
  /\ None \notin Drafts \cup Sources \cup Builds \cup Procs
  /\ Orphan \notin Procs \cup {None}
  /\ MaxJobs \in Nat /\ MaxCrashes \in Nat
  /\ Faults \subseteq FaultKinds

VARIABLES
  draft,      \* knowledge_drafts.status, "absent" before the upload
  source,     \* the content staged for a draft
  jobs,       \* knowledge_jobs, in the order of queued_at
  njobs,      \* how many rows of jobs exist
  release,    \* knowledge_releases.status, "absent" without a row
  releasedBy, \* knowledge_releases.draft_id
  built,      \* builds whose Chroma collection has been written
  artifact,   \* the content recorded by releases/<build>/validated.json
  pointer,    \* the published record of the index registry in Chroma
  lease,      \* the Redis key knowledge:publication
  lapsed,     \* processes whose heartbeat stopped on a renewal error
  pc,         \* the call each process makes next
  op,         \* what each process works on
  crashes

db      == <<draft, source, jobs, njobs, release, releasedBy>>
storage == <<built, artifact, pointer>>
redis   == <<lease, lapsed>>
vars    == <<db, storage, redis, pc, op, crashes>>

-----------------------------------------------------------------------------
(* Tables, labels and local state.                                         *)

DraftStatus   == {"absent", "uploaded", "validating", "ready_to_publish",
                  "publishing", "published", "validation_failed", "publish_failed"}
JobKind       == {"validate_draft", "publish_draft", "rollback_release"}
JobStatus     == {"absent", "queued", "running", "succeeded", "failed"}
ReleaseStatus == {"absent", "current", "superseded", "rolled_back"}
Active        == {"queued", "running"}

Jobs == [kind : JobKind \cup {"none"}, status : JobStatus,
         draft : Drafts \cup {None}, build : Builds \cup {None}]
NoJob == [kind |-> "none", status |-> "absent", draft |-> None, build |-> None]

(* _DRAFT_TRANSITIONS: the statuses a draft may move to.                   *)
Transitions ==
  [s \in DraftStatus |->
    CASE s = "uploaded"          -> {"validating"}
      [] s = "validating"        -> {"ready_to_publish", "validation_failed"}
      [] s = "ready_to_publish"  -> {"publishing"}
      [] s = "publishing"        -> {"published", "publish_failed"}
      [] s = "validation_failed" -> {"validating"}
      [] s = "publish_failed"    -> {"validating"}
      [] OTHER                   -> {}]

CliTasks == {"build_and_publish", "force_rebuild", "rollback"}
BuildTasks == {"publish_draft", "build_and_publish", "force_rebuild"}

(* Labels inside the with-statement that holds the lease.                  *)
Critical == {"recheck", "recheckPointer", "build", "artifact", "restore",
             "readSwap", "assert", "readPointer", "upsert"}
Labels == Critical \cup
          {"idle", "down", "validate", "prepare", "peek", "peekPointer",
           "acquire", "unlock", "abort", "log", "complete", "fail"}

Ops == [task    : JobKind \cup CliTasks \cup {"none"},
        job     : 0..MaxJobs,           \* 0 for none
        src     : Sources \cup {None},  \* content being published
        matched : BOOLEAN,              \* the current release has that content
        seen    : Builds \cup {None},   \* pointer.current as last read
        build   : Builds \cup {None}]   \* build being made current
NoOp == [task |-> "none", job |-> 0, src |-> None, matched |-> FALSE,
         seen |-> None, build |-> None]

Acks(kind) == IF kind \in Faults THEN BOOLEAN ELSE {TRUE}

Goto(p, label) == pc' = [pc EXCEPT ![p] = label]

(* The process ends its unit of work: the worker polls again, a run of the *)
(* command line exits.                                                     *)
Finish(p) == Goto(p, "idle") /\ op' = [op EXCEPT ![p] = NoOp]

(* An exception reaches process_job, which fails the job; it ends a run of *)
(* the command line.                                                       *)
Raise(p) == IF p = Worker THEN Goto(p, "fail") /\ UNCHANGED op ELSE Finish(p)

Init ==
  /\ draft = [d \in Drafts |-> "absent"]
  /\ source = [d \in Drafts |-> None]
  /\ jobs = [j \in JobIds |-> NoJob]
  /\ njobs = 0
  /\ release = [b \in Builds |-> "absent"]
  /\ releasedBy = [b \in Builds |-> None]
  /\ built = {}
  /\ artifact = [b \in Builds |-> None]
  /\ pointer = [current |-> None, previous |-> None]
  /\ lease = None
  /\ lapsed = {}
  /\ pc = [p \in Procs |-> "idle"]
  /\ op = [p \in Procs |-> NoOp]
  /\ crashes = 0

-----------------------------------------------------------------------------
(* Administrators, through the application (repository.py, service.py).    *)

Enqueue(kind, d, b) ==
  /\ njobs < MaxJobs
  /\ njobs' = njobs + 1
  /\ jobs' = [jobs EXCEPT ![njobs + 1] =
                [kind |-> kind, status |-> "queued", draft |-> d, build |-> b]]

MoveDraft(d, target) ==
  /\ target \in Transitions[draft[d]]
  /\ draft' = [draft EXCEPT ![d] = target]

(* The worker's upload endpoint stages the package, then creates the draft *)
(* and its validation job in one transaction.                              *)
Upload(d, s) ==
  /\ pc[Worker] # "down"
  /\ draft[d] = "absent"
  /\ draft' = [draft EXCEPT ![d] = "validating"]
  /\ source' = [source EXCEPT ![d] = s]
  /\ Enqueue("validate_draft", d, None)
  /\ UNCHANGED <<release, releasedBy, storage, redis, pc, op, crashes>>

QueueValidation(d) ==
  /\ MoveDraft(d, "validating")
  /\ Enqueue("validate_draft", d, None)
  /\ UNCHANGED <<source, release, releasedBy, storage, redis, pc, op, crashes>>

QueuePublish(d) ==
  /\ MoveDraft(d, "publishing")
  /\ Enqueue("publish_draft", d, None)
  /\ UNCHANGED <<source, release, releasedBy, storage, redis, pc, op, crashes>>

(* One rollback to a release at a time; that the release is the current    *)
(* one already is not checked.                                             *)
QueueRollback(b) ==
  /\ release[b] # "absent"
  /\ \A j \in JobIds : ~ ( /\ jobs[j].kind = "rollback_release"
                           /\ jobs[j].build = b
                           /\ jobs[j].status \in Active )
  /\ Enqueue("rollback_release", None, b)
  /\ UNCHANGED <<draft, source, release, releasedBy, storage, redis, pc, op, crashes>>

-----------------------------------------------------------------------------
(* The worker's jobs.                                                      *)

FirstCall(kind) ==
  CASE kind = "validate_draft"   -> "validate"
    [] kind = "publish_draft"    -> "prepare"
    [] kind = "rollback_release" -> "acquire"

(* Mutant of Claim: a worker that leaves the queue alone while any job is  *)
(* running.                                                                *)
ClaimWhenNoneRuns ==
  /\ pc[Worker] = "idle"
  /\ \A i \in JobIds : jobs[i].status # "running"
  /\ \E j \in JobIds :
       /\ jobs[j].status = "queued"
       /\ \A i \in JobIds : jobs[i].status = "queued" => j <= i
       /\ jobs' = [jobs EXCEPT ![j].status = "running"]
       /\ Goto(Worker, FirstCall(jobs[j].kind))
       /\ op' = [op EXCEPT ![Worker] =
            [NoOp EXCEPT !.task = jobs[j].kind, !.job = j, !.build = jobs[j].build,
                         !.src = IF jobs[j].draft = None THEN None
                                 ELSE source[jobs[j].draft]]]
  /\ UNCHANGED <<draft, source, njobs, release, releasedBy, storage, redis, crashes>>

(* The oldest queued job becomes running.  Its lease_expires_at is written *)
(* here and read nowhere: a job whose worker never hears of the claim, or  *)
(* dies, stays running.                                                    *)
Claim ==
  /\ pc[Worker] = "idle"
  /\ \E j \in JobIds :
       /\ jobs[j].status = "queued"
       /\ \A i \in JobIds : jobs[i].status = "queued" => j <= i
       /\ jobs' = [jobs EXCEPT ![j].status = "running"]
       /\ \/ /\ Goto(Worker, FirstCall(jobs[j].kind))
             /\ op' = [op EXCEPT ![Worker] =
                  [task    |-> jobs[j].kind,
                   job     |-> j,
                   src     |-> IF jobs[j].kind = "publish_draft"
                                 THEN source[jobs[j].draft] ELSE None,
                   matched |-> FALSE,
                   seen    |-> None,
                   build   |-> jobs[j].build]]
          \/ FALSE \in Acks("database") /\ UNCHANGED <<pc, op>>
  /\ UNCHANGED <<draft, source, njobs, release, releasedBy, storage, redis, crashes>>

(* The job the worker executes, and the draft it is for.                   *)
MyJob == op[Worker].job
MyDraft == jobs[MyJob].draft

Succeed(j) == jobs' = [jobs EXCEPT ![j].status = "succeeded"]

(* A transaction commits; the worker learns of it, or gets an exception.   *)
Commit == \E ack \in Acks("database") : IF ack THEN Finish(Worker) ELSE Raise(Worker)

CompleteValidation ==
  /\ pc[Worker] = "validate"
  /\ jobs[MyJob].status = "running"
  /\ MoveDraft(MyDraft, "ready_to_publish")
  /\ Succeed(MyJob)
  /\ Commit
  /\ UNCHANGED <<source, njobs, release, releasedBy, storage, redis, crashes>>

(* A publish job checks its draft and validates the staged source.         *)
Prepare ==
  /\ pc[Worker] = "prepare"
  /\ draft[MyDraft] = "publishing"
  /\ Goto(Worker, "peek")
  /\ UNCHANGED <<db, storage, redis, op, crashes>>

(* Mutant of CanRecordRelease: the build id is no primary key.             *)
CanRecordAgain ==
  /\ jobs[MyJob].status = "running"
  /\ artifact[op[Worker].build] # None
  /\ draft[MyDraft] \in {"ready_to_publish", "publishing"}

(* complete_publish_job: every current release is superseded, the new row  *)
(* is inserted (its primary key must be new) and the draft is published,   *)
(* through publishing if it is still ready for that.                       *)
CanRecordRelease ==
  /\ jobs[MyJob].status = "running"
  /\ artifact[op[Worker].build] # None
  /\ release[op[Worker].build] = "absent"
  /\ draft[MyDraft] \in {"ready_to_publish", "publishing"}

RecordRelease ==
  /\ pc[Worker] = "complete" /\ op[Worker].task = "publish_draft"
  /\ CanRecordRelease
  /\ release' = [b \in Builds |->
                   IF b = op[Worker].build THEN "current"
                   ELSE IF release[b] = "current" THEN "superseded"
                   ELSE release[b]]
  /\ releasedBy' = [releasedBy EXCEPT ![op[Worker].build] = MyDraft]
  /\ draft' = [draft EXCEPT ![MyDraft] = "published"]
  /\ Succeed(MyJob)
  /\ Commit
  /\ UNCHANGED <<source, njobs, storage, redis, crashes>>

(* Mutants of RecordRollback: the other current release is kept; the       *)
(* restored one is not marked.                                             *)
RecordRollbackAs(restored, others) ==
  /\ pc[Worker] = "complete" /\ op[Worker].task = "rollback_release"
  /\ jobs[MyJob].status = "running"
  /\ release' = [b \in Builds |->
                   IF b = op[Worker].build THEN restored
                   ELSE IF release[b] = "current" THEN others
                   ELSE release[b]]
  /\ Succeed(MyJob)
  /\ Commit
  /\ UNCHANGED <<draft, source, njobs, releasedBy, storage, redis, crashes>>
RecordRollbackKeepsCurrent == RecordRollbackAs("current", "current")
RecordRollbackOnlyDemotes == RecordRollbackAs(release[op[Worker].build], "rolled_back")

(* complete_rollback_job: the restored release becomes current and every   *)
(* other current one is rolled back.                                       *)
RecordRollback ==
  /\ pc[Worker] = "complete" /\ op[Worker].task = "rollback_release"
  /\ jobs[MyJob].status = "running"
  /\ release' = [b \in Builds |->
                   IF b = op[Worker].build THEN "current"
                   ELSE IF release[b] = "current" THEN "rolled_back"
                   ELSE release[b]]
  /\ Succeed(MyJob)
  /\ Commit
  /\ UNCHANGED <<draft, source, njobs, releasedBy, storage, redis, crashes>>

(* process_job caught an exception: fail_job, itself one transaction.      *)
FailedStatus(kind) ==
  CASE kind = "validate_draft" -> "validation_failed"
    [] kind = "publish_draft"  -> "publish_failed"

CanFail == /\ jobs[MyJob].status = "running"
           /\ op[Worker].task # "rollback_release" =>
                FailedStatus(op[Worker].task) \in Transitions[draft[MyDraft]]

(* Mutant of FailJob: the draft keeps its status.                          *)
FailJobOnly ==
  /\ pc[Worker] = "fail"
  /\ CanFail
  /\ jobs' = [jobs EXCEPT ![MyJob].status = "failed"]
  /\ Finish(Worker)
  /\ UNCHANGED <<draft, source, njobs, release, releasedBy, storage, redis, crashes>>

FailJob ==
  /\ pc[Worker] = "fail"
  /\ CanFail
  /\ jobs' = [jobs EXCEPT ![MyJob].status = "failed"]
  /\ IF op[Worker].task = "rollback_release"
       THEN UNCHANGED draft
       ELSE MoveDraft(MyDraft, FailedStatus(op[Worker].task))
  /\ Finish(Worker)
  /\ UNCHANGED <<source, njobs, release, releasedBy, storage, redis, crashes>>

(* fail_job raises: the job is no longer running (a completion that had    *)
(* committed), or the database is unavailable.  The loop carries on.       *)
FailJobRaises ==
  /\ pc[Worker] = "fail"
  /\ ~CanFail \/ "database" \in Faults
  /\ Finish(Worker)
  /\ UNCHANGED <<db, storage, redis, crashes>>

-----------------------------------------------------------------------------
(* The indexer, run by the worker for a publish job or by an operator.     *)

CliStart(p) ==
  /\ p \in Operators
  /\ pc[p] = "idle"
  /\ \/ \E t \in {"build_and_publish", "force_rebuild"}, s \in Sources :
          /\ op' = [op EXCEPT ![p] = [NoOp EXCEPT !.task = t, !.src = s]]
          /\ Goto(p, "peek")
     \/ /\ op' = [op EXCEPT ![p] = [NoOp EXCEPT !.task = "rollback"]]
        /\ Goto(p, "acquire")
  /\ UNCHANGED <<db, storage, redis, crashes>>

(* The no-op check reads the current release's descriptor ...              *)
ReadDescriptor(p) ==
  /\ \/ pc[p] = "peek" /\ Goto(p, "peekPointer")
     \/ pc[p] = "recheck" /\ Goto(p, "recheckPointer")
  /\ op' = [op EXCEPT ![p].matched =
              /\ op[p].task # "force_rebuild"
              /\ pointer.current # None
              /\ artifact[pointer.current] = op[p].src]
  /\ UNCHANGED <<db, storage, redis, crashes>>

(* ... and then the pointer again, for the build the no-op returns.        *)
ReadCurrentBuild(p) ==
  /\ \/ /\ pc[p] = "peekPointer"
        /\ Goto(p, IF op[p].matched THEN "complete" ELSE "acquire")
     \/ /\ pc[p] = "recheckPointer"
        /\ Goto(p, IF op[p].matched THEN "unlock" ELSE "build")
  /\ op' = [op EXCEPT ![p].build = IF op[p].matched THEN pointer.current ELSE None]
  /\ UNCHANGED <<db, storage, redis, crashes>>

(* The collection is written under a fresh build id, then queried.         *)
BuildCollection(p) ==
  /\ pc[p] = "build"
  /\ \E b \in Builds \ built :
       /\ built' = built \cup {b}
       /\ op' = [op EXCEPT ![p].build = b]
  /\ Goto(p, "artifact")
  /\ UNCHANGED <<db, artifact, pointer, redis, crashes>>

(* Mutant of CreateArtifact: the descriptor is left for later.             *)
SkipArtifact(p) ==
  /\ pc[p] = "artifact"
  /\ Goto(p, "assert")
  /\ UNCHANGED <<db, storage, redis, op, crashes>>

CreateArtifact(p) ==
  /\ pc[p] = "artifact"
  /\ artifact' = [artifact EXCEPT ![op[p].build] = op[p].src]
  /\ Goto(p, "assert")
  /\ UNCHANGED <<db, built, pointer, redis, op, crashes>>

(* A rollback job reads the descriptor of its target and checks that the   *)
(* collection is there.                                                    *)
ReadTarget(p) ==
  /\ pc[p] = "restore"
  /\ artifact[op[p].build] # None /\ op[p].build \in built
  /\ Goto(p, "assert")
  /\ UNCHANGED <<db, storage, redis, op, crashes>>

(* The operator's rollback swaps the two releases of the pointer it reads. *)
ReadSwap(p) ==
  /\ pc[p] = "readSwap"
  /\ pointer.previous # None
  /\ artifact[pointer.previous] # None /\ pointer.previous \in built
  /\ op' = [op EXCEPT ![p].build = pointer.previous, ![p].seen = pointer.current]
  /\ Goto(p, "assert")
  /\ UNCHANGED <<db, storage, redis, crashes>>

(* publish_validated_release reads the pointer it is about to replace.     *)
ReadPointer(p) ==
  /\ pc[p] = "readPointer"
  /\ op' = [op EXCEPT ![p].seen = pointer.current]
  /\ Goto(p, "upsert")
  /\ UNCHANGED <<db, storage, redis, crashes>>

Upsert(p) ==
  /\ pc[p] = "upsert"
  /\ pointer' = [current |-> op[p].build, previous |-> op[p].seen]
  /\ \E ack \in Acks("chroma") : Goto(p, IF ack THEN "unlock" ELSE "abort")
  /\ UNCHANGED <<db, built, artifact, redis, op, crashes>>

(* The succeeded event is written after the lease has been given back.     *)
LogSuccess(p) ==
  /\ pc[p] = "log"
  /\ Goto(p, "complete")
  /\ UNCHANGED <<db, storage, redis, op, crashes>>

CliExit(p) ==
  /\ p \in Operators
  /\ pc[p] = "complete"
  /\ Finish(p)
  /\ UNCHANGED <<db, storage, redis, crashes>>

(* A call raises without having changed anything: a rejected source, an    *)
(* empty collection, a failed smoke query, a store that does not answer.   *)
(* Inside the with-statement the lease is given back first.                *)
CallRaises(p) ==
  /\ \/ pc[p] \in Critical /\ Goto(p, "abort") /\ UNCHANGED op
     \/ /\ \/ pc[p] \in {"validate", "prepare", "peek", "peekPointer"}
           \/ pc[p] = "log" /\ "files" \in Faults
           \/ /\ pc[p] = "complete" /\ p = Worker
              /\ \/ {"database", "files"} \cap Faults # {}
                 \/ op[p].task = "publish_draft" /\ ~CanRecordRelease
        /\ Raise(p)
  /\ UNCHANGED <<db, storage, redis, crashes>>

-----------------------------------------------------------------------------
(* PublicationLock: SET NX PX, a heartbeat, compare-and-delete.            *)

(* Mutant of Acquire: SET without NX.                                      *)
AcquireAnyway(p) ==
  /\ pc[p] = "acquire"
  /\ lease' = p
  /\ Goto(p, CASE op[p].task = "rollback_release" -> "restore"
               [] op[p].task = "rollback"         -> "readSwap"
               [] OTHER                           -> "recheck")
  /\ UNCHANGED <<db, storage, lapsed, op, crashes>>

Acquire(p) ==
  /\ pc[p] = "acquire"
  /\ lease = None
  /\ lease' = p
  /\ Goto(p, CASE op[p].task = "rollback_release" -> "restore"
               [] op[p].task = "rollback"         -> "readSwap"
               [] OTHER                           -> "recheck")
  /\ UNCHANGED <<db, storage, lapsed, op, crashes>>

(* Mutant of AcquireRefused: the refusal never reaches fail_job.           *)
AcquireGivesUp(p) ==
  /\ pc[p] = "acquire"
  /\ lease # None
  /\ Finish(p)
  /\ UNCHANGED <<db, storage, redis, crashes>>

(* Held by another: refused at once, nobody waits.                         *)
AcquireRefused(p) ==
  /\ pc[p] = "acquire"
  /\ lease # None
  /\ Raise(p)
  /\ UNCHANGED <<db, storage, redis, crashes>>

(* Redis does not answer: the key may have been set all the same.          *)
AcquireUnproved(p) ==
  /\ pc[p] = "acquire" /\ "redis" \in Faults
  /\ lease' \in IF lease = None THEN {None, Orphan} ELSE {lease}
  /\ Raise(p)
  /\ UNCHANGED <<db, storage, lapsed, crashes>>

(* Mutant of AssertHeld: holding the lease once is enough.                 *)
AssertHeldOnce(p) ==
  /\ pc[p] = "assert"
  /\ Goto(p, IF op[p].task = "rollback" THEN "upsert" ELSE "readPointer")
  /\ UNCHANGED <<db, storage, redis, op, crashes>>

(* Fails closed before the pointer changes: a stored renewal error, or a   *)
(* key that is no longer ours, raises (CallRaises).                        *)
AssertHeld(p) ==
  /\ pc[p] = "assert"
  /\ p \notin lapsed
  /\ lease = p
  /\ Goto(p, IF op[p].task = "rollback" THEN "upsert" ELSE "readPointer")
  /\ UNCHANGED <<db, storage, redis, op, crashes>>

(* A renewal fails; the heartbeat keeps the error and stops for good.      *)
HeartbeatFails(p) ==
  /\ pc[p] \in Critical
  /\ p \notin lapsed
  /\ "redis" \in Faults \/ lease # p
  /\ lapsed' = lapsed \cup {p}
  /\ UNCHANGED <<db, storage, lease, pc, op, crashes>>

(* After a with-statement that ended normally a build writes its event, a  *)
(* no-op and a rollback job are complete.                                  *)
AfterRelease(p) ==
  IF pc[p] = "abort" THEN Raise(p)
  ELSE /\ Goto(p, IF op[p].matched \/ op[p].task = "rollback_release"
                    THEN "complete" ELSE "log")
       /\ UNCHANGED op

(* Mutant of Release: the key is deleted whoever has set it.               *)
ReleaseOfAnyone(p) ==
  /\ pc[p] \in {"unlock", "abort"}
  /\ lease' = None
  /\ lapsed' = lapsed \ {p}
  /\ AfterRelease(p)
  /\ UNCHANGED <<db, storage, crashes>>

Release(p) ==
  /\ pc[p] \in {"unlock", "abort"}
  /\ lease = p
  /\ lease' = None
  /\ lapsed' = lapsed \ {p}
  /\ AfterRelease(p)
  /\ UNCHANGED <<db, storage, crashes>>

(* release() raises: the key is another's, or Redis does not answer.  That *)
(* the pointer may have moved already makes no difference to the caller.   *)
ReleaseRaises(p) ==
  /\ pc[p] \in {"unlock", "abort"}
  /\ \/ lease # p /\ UNCHANGED lease
     \/ lease = p /\ "redis" \in Faults /\ lease' \in {None, Orphan}
  /\ lapsed' = lapsed \ {p}
  /\ Raise(p)
  /\ UNCHANGED <<db, storage, crashes>>

(* The key reaches its time to live: nobody renews it, or its holder stood *)
(* still for longer than that.  assert_held renews to the full 15 minutes, *)
(* so that between it and the upsert only a stall lets the key expire.     *)
LeaseExpires ==
  /\ lease # None
  /\ \/ lease = Orphan
     \/ lease \in lapsed /\ pc[lease] \notin {"readPointer", "upsert"}
     \/ "stall" \in Faults
  /\ lease' = None
  /\ UNCHANGED <<db, storage, lapsed, pc, op, crashes>>

-----------------------------------------------------------------------------
(* Crashes lose what is in memory, never what is in a store.               *)

Crash(p) ==
  /\ crashes < MaxCrashes
  /\ crashes' = crashes + 1
  /\ pc[p] \notin {"idle", "down"}
  /\ Goto(p, IF p = Worker THEN "down" ELSE "idle")
  /\ op' = [op EXCEPT ![p] = NoOp]
  /\ lease' = IF lease = p THEN Orphan ELSE lease
  /\ lapsed' = lapsed \ {p}
  /\ UNCHANGED <<db, storage>>

(* compose restarts the worker; its loop only ever claims queued jobs.     *)
Restart ==
  /\ pc[Worker] = "down"
  /\ Goto(Worker, "idle")
  /\ UNCHANGED <<db, storage, redis, op, crashes>>

-----------------------------------------------------------------------------

Admin ==
  \/ \E d \in Drafts : \/ \E s \in Sources : Upload(d, s)
                       \/ QueueValidation(d)
                       \/ QueuePublish(d)
  \/ \E b \in Builds : QueueRollback(b)

JobStep == \/ Claim \/ CompleteValidation \/ Prepare \/ RecordRelease
           \/ RecordRollback \/ FailJob \/ FailJobRaises

IndexerStep(p) ==
  \/ ReadDescriptor(p) \/ ReadCurrentBuild(p) \/ Acquire(p) \/ AcquireRefused(p)
  \/ AcquireUnproved(p) \/ BuildCollection(p) \/ CreateArtifact(p)
  \/ ReadTarget(p) \/ ReadSwap(p) \/ AssertHeld(p) \/ ReadPointer(p)
  \/ Upsert(p) \/ Release(p) \/ ReleaseRaises(p) \/ LogSuccess(p)
  \/ CliExit(p) \/ CallRaises(p)

(* One round of the worker's loop is made of these.                        *)
WorkerStep == JobStep \/ IndexerStep(Worker)

Environment ==
  \/ LeaseExpires
  \/ Restart
  \/ \E p \in Procs : CliStart(p) \/ HeartbeatFails(p) \/ Crash(p)

Next == \/ Admin
        \/ JobStep
        \/ \E p \in Procs : IndexerStep(p)
        \/ Environment

Spec == Init /\ [][Next]_vars

-----------------------------------------------------------------------------
(* Properties.                                                             *)

(* Every variable keeps its type.                                          *)
TypeOK ==
  /\ draft \in [Drafts -> DraftStatus]
  /\ source \in [Drafts -> Sources \cup {None}]
  /\ jobs \in [JobIds -> Jobs]
  /\ njobs \in 0..MaxJobs
  /\ release \in [Builds -> ReleaseStatus]
  /\ releasedBy \in [Builds -> Drafts \cup {None}]
  /\ built \subseteq Builds
  /\ artifact \in [Builds -> Sources \cup {None}]
  /\ pointer \in [current : Builds \cup {None}, previous : Builds \cup {None}]
  /\ lease \in Procs \cup {None, Orphan}
  /\ lapsed \subseteq Procs
  /\ pc \in [Procs -> Labels]
  /\ op \in [Procs -> Ops]
  /\ crashes \in 0..MaxCrashes

IsActiveJobOf(j, kind, d) ==
  jobs[j].kind = kind /\ jobs[j].draft = d /\ jobs[j].status \in Active

(* A draft is validating (publishing) exactly when one queued or running   *)
(* job is going to validate (publish) it: no retry, crash or lost commit   *)
(* leaves a draft in such a status without its job, a job without its      *)
(* draft, or two jobs at work on one draft.                                *)
DraftsAndJobsAgree ==
  \A d \in Drafts :
    /\ (draft[d] = "validating") <=>
         \E j \in JobIds : IsActiveJobOf(j, "validate_draft", d)
    /\ (draft[d] = "publishing") <=>
         \E j \in JobIds : IsActiveJobOf(j, "publish_draft", d)
    /\ \A i, j \in JobIds, k1, k2 \in JobKind :
         IsActiveJobOf(i, k1, d) /\ IsActiveJobOf(j, k2, d) => i = j

(* The release table never has two current releases, whatever sequence of  *)
(* publications and rollbacks, retried, crashed or half reported, built it. *)
OneCurrentRelease ==
  \A b1, b2 \in Builds :
    release[b1] = "current" /\ release[b2] = "current" => b1 = b2

(* A draft is published exactly when one row of the release table is its   *)
(* own: a publication never succeeds without its release, and no failed or *)
(* repeated one leaves a row behind.                                       *)
PublishedDraftsHaveTheirRelease ==
  /\ \A d \in Drafts : (draft[d] = "published") <=>
       (\E b \in Builds : release[b] # "absent" /\ releasedBy[b] = d)
  /\ \A b1, b2 \in Builds :
       releasedBy[b1] = releasedBy[b2] /\ releasedBy[b1] # None => b1 = b2

(* Queries and rollbacks only ever reach releases whose descriptor was     *)
(* completely written and whose collection exists.                         *)
PointerNamesValidated ==
  \A b \in {pointer.current, pointer.previous} \ {None} :
    artifact[b] # None /\ b \in built

(* The row a publication leaves in the release table is of the content its *)
(* draft was uploaded with, although the no-op check takes the content     *)
(* from one read of the pointer and the build from the next.               *)
ReleaseHasItsDraftsContent ==
  \A b \in Builds : release[b] # "absent" =>
    releasedBy[b] \in Drafts /\ artifact[b] = source[releasedBy[b]]

(* What a publisher has done by the time its with-statement ends without   *)
(* an exception is what queries are answered from at that moment: the      *)
(* build it goes on to report is the visible one and, unless it restored   *)
(* an older one, has the content it was given.  The no-op check under the  *)
(* lock, a lease lost on the way, a pointer moved by another in between    *)
(* never end in a report of something else.                                *)
ReportsAreOfTheVisibleRelease ==
  [][ \A p \in Procs :
        pc[p] = "unlock" /\ pc'[p] \in {"log", "complete"} =>
          /\ pointer.current = op[p].build
          /\ op[p].task \in BuildTasks => artifact[op[p].build] = op[p].src ]_vars

(* When a publish or rollback job is reported as succeeded, the release    *)
(* the database calls current is the one queries are answered from.        *)
(* (Only without operators, who do not tell the database.)                 *)
SuccessIsVisible ==
  [][ \A j \in JobIds :
        ( /\ Operators = {}
          /\ jobs[j].kind \in {"publish_draft", "rollback_release"}
          /\ jobs[j].status = "running" /\ jobs'[j].status = "succeeded" )
        => ( /\ pointer.current # None
             /\ release'[pointer.current] = "current" ) ]_vars

(* The pointer changes only in the hands of the process Redis names as the *)
(* owner of the lease, and the release it replaces becomes the previous    *)
(* one: no publication or rollback is lost between worker and operators.   *)
PointerMovesUnderLease ==
  [][ pointer' # pointer =>
        /\ lease \in Procs /\ pc[lease] = "upsert"
        /\ pointer'.previous = pointer.current ]_vars

(* A publish job that is reported as failed has not changed what queries   *)
(* are answered from: the build it made is not the visible one.            *)
FailedPublishStaysInvisible ==
  [][ \A j \in JobIds :
        ( /\ jobs[j].kind = "publish_draft"
          /\ jobs[j].status = "running" /\ jobs'[j].status = "failed"
          /\ ~op[Worker].matched /\ op[Worker].build # None )
        => pointer.current # op[Worker].build ]_vars

(* The register readers see: its operations are the steps of this module   *)
(* that create a descriptor and that upsert the pointer.                   *)
Register == INSTANCE ReleaseRegister WITH
  validated <- {b \in Builds : artifact[b] # None},
  current   <- pointer.current,
  previous  <- pointer.previous
RegisterSpec == Register!Spec
=============================================================================
