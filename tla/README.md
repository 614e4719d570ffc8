# TLA+ models of metro_agent

This directory holds TLA+ specifications of the metro operations assistant in
this repository, the TLC configurations that check them on small instances, and
proofs of the central theorems. Paths below are relative to the repository;
`metro_agent/` stands for `src/metro_agent/`.

## 1. The system

The program answers questions of metro maintenance staff. A FastAPI application
runs a LangGraph of language-model agents over a published knowledge base; a
second, private process publishes that knowledge base.

| component | state it keeps | operations | interacts with |
|---|---|---|---|
| job queue and release table (`knowledge_admin/models.py`, `repository.py`) | `knowledge_drafts`, `knowledge_jobs`, `knowledge_releases` in PostgreSQL | upload, queue validation / publish / rollback, claim, complete, fail | called by the application and by the worker, one transaction per operation |
| publisher worker (`knowledge_admin/service.py`, `worker.py`) | the claimed job, staged packages on disk | one polling loop: claim, dispatch on kind, complete or fail | repository, indexer, Redis |
| indexer (`tools/knowledge_indexer.py`) | Chroma collections, one per build id; event files | build and publish (forced or not), rollback, restore, status, verify | lock, releases, Chroma; run by the worker and from the command line |
| validated releases (`knowledge/releases.py`) | write-once `validated.json` per build, one pointer record in Chroma | create, read, publish, restore, roll back | read by the read proxy and the agents |
| publication lock (`knowledge/publication_lock.py`) | a Redis key with a time to live, a heartbeat thread per holder | acquire, renew, assert_held, release | indexer, backup scripts |
| read proxy, readiness (`knowledge_read_proxy.py`, `readiness.py`) | none; reads registry, pointer, descriptor | authorise a request, forward it | Chroma, artifacts |
| backup and restore (`deploy/operations/`) | the same Redis key, held by a script with its own renewal | stop, copy, start | everything with a volume |
| short-term memory (`memory/short_term/`, `state.py`) | messages and rounds in the graph state; two Redis lists, results and sources under keys | detect, queue, compress, poll, prune | graph nodes, compression worker |
| planning (`planning/`, `graph.py`) | plan, step results, events in the graph state | plan, validate, schedule, run steps in parallel with timeouts, aggregate | agents |
| login rate limiter (`auth/rate_limit.py`) | three kinds of buckets of attempts, an expiry heap | begin, fail, succeed, cancel, expire | login route |
| accounts and sessions (`auth/service.py`, `router.py`) | users, sessions, audit in MySQL | login, resolve, revoke, change role or status | application |
| chat turn and history (`api.py`, `storage/history/service.py`) | conversations and messages, graph checkpoints | claim thread, run, record | accounts, graph |
| long-term memory (`memory/long_term/`) | memories in Chroma | curate, detect conflict, supersede, recall | graph nodes |
| observability (`observability/`) | a recorder per turn, trace, span, usage and evaluation rows | open and close spans, finish, finalise | every node, write only |
| agents and their context (`agents/`, `context/`) | none; the prompt of a call | request, divide and fill a token limit | state, tools, models |
| offline evaluation (`evaluation/`, `tools/rag_evaluation.py`) | artifacts on disk, evaluation rows | live run, semantic run, agent run, gate, registration | agents, retrieval, observability |

ZIP inspection, web pages, migrations and the backup scripts complete the
program; section 5 says what is left out and why.


### What is hard

- **Publication** spans four stores without a common transaction: the job
  commits in PostgreSQL, the lease in Redis, the collection and the pointer in
  Chroma, the descriptor on disk. Each call may fail before it takes effect, or
  take effect and not be heard of. A crash may come between any two. An
  operator may run the same indexer at the same moment.
- **The lease** is timed: renewals may stop, the key may expire under a process
  that believes it holds it.
- **Compression** is a hand-off through Redis lists between graph turns and a
  worker that may die with a reserved job.
- **Plans** run steps in parallel threads that outlive their timeouts.
- **The rate limiter** shares one pending attempt among three buckets, of which
  others' successes, failures and purges change some.
- **Chat turns** span several transactions and minutes of model time; meanwhile
  the session may end, the conversation be deleted and its id claimed again, and
  another turn of the same conversation run.
- **Reading** compares a request with a pointer that moves between the check and
  the forwarding, and through an engine that is cached for longer than that.
- **Evaluation** judges artifacts that earlier commands wrote, perhaps in part.

### What makes each component correct

- Drafts, jobs: an active draft has exactly one active job; queued jobs get
  claimed; drafts settle.
- Ledger: at most one current release; a published draft has exactly one
  release, of its own content; what a publisher reports is the release that is
  visible, failure means nothing changed.
- Pointer: names only completely written releases; moves only under the lease;
  remembers the release it replaces.
- Short-term memory: a job the conversation waits for exists somewhere; messages
  leave the state only for a summary; recent rounds keep their messages; the
  oldest is forgotten first; jobs are taken and answered.
- Reads: no request is forwarded to a collection that was not current during
  the request, and an answer names the release its documents are from.
- Plans: a valid plan is one that can be put in order; dependencies come first;
  results are final; every plan ends, with a trace that tells what happened.
- Rate limiter: no interleaving forgives a guess; budgets hold; the advised
  waiting time suffices.
- Accounts and turns: an active administrator always exists; an ended session
  gets no answer; turns apart do not mix; rounds reach their owner.
- Context: no prompt exceeds its agent's limit, and what is scarce goes by
  priority, the newer round before the older.
- Evaluation: every case has one verdict; what is registered is of one piece;
  what is accepted is backed by evidence.
- Long-term memory: nothing is stored twice without a cause.

## 2. Modules

| module | role |
|---|---|
| `ReleaseRegister` | abstract specification: what readers of the knowledge base are promised |
| `KnowledgePublication` | the core: administrators, worker, operators, lease, stores; implements `ReleaseRegister` |
| `KnowledgeReads` | proxy, cached query engine and readiness over `ReleaseRegister` |
| `ShortTermMemory` | the turns of a conversation, the compression queue and its workers |
| `LoginRateLimiter` | the three buckets of a login attempt, the heap of expiries, the bound on keys |
| `TraceRecorder` | the recorder of one turn and the rows it writes |
| `PlanExecution` | extends `TraceRecorder`: a turn of the graph from plan to summary |
| `Accounts` | users, sessions and administrators' requests |
| `ChatTurn` | extends `Accounts`: chat requests, conversations, checkpoints |
| `AgentContext` | what each agent puts before its model |
| `RagEvaluation` | live RAG runs, semantic runs over them, their registration |
| `AgentEvaluation` | the evidence of an agent run and the gate over it |
| `LongTermMemory` | candidates held against stored memories |
| `Common` | the absent value, which the modules of one run share |
| `MC*` | symmetry, plans, profiles and cases for TLC; `MCServices` extends `KnowledgeReads`, `AgentContext`, `RagEvaluation`, `AgentEvaluation`, `LongTermMemory` and `LoginRateLimiter`; `MCPublisherProgress` holds two instances of `KnowledgePublication` and their fairness |
| `*_proofs` | the theorems about the module of that name; `ChatTurn_proofs` those about `Accounts` too, `Services_proofs` those about `AgentContext`, `RagEvaluation`, `AgentEvaluation` and `LongTermMemory` |
| `Recursion` | lemmas about natural numbers and recursive functions for the proofs |

`KnowledgePublication` is composed with `KnowledgeReads` through the register: the
first implements it (`operators`, `ImplementsRegister`), the second uses nothing
else of the publication. The six parts in `MCServices` share no state, only
constants, and each has an `Init` and a `Next` of its own (`ContextInit`,
`RagNext`, ...), which the run takes as they are and the proofs speak of; a
behaviour is one of the part chosen at its start, so that the run's state count
is their sum and not their product.

### KnowledgePublication

Variables and the state they stand for:

- `draft`, `source`: the status column of `knowledge_drafts` (with "absent" for
  no row) and the content that was staged for the draft.
- `jobs`, `njobs`: `knowledge_jobs` in the order of `queued_at`. A row holds
  kind, status, draft and build.
- `release`, `releasedBy`: status and `draft_id` of `knowledge_releases`, by
  build id, the primary key.
- `built`, `artifact`: the collections in Chroma and the descriptors on disk. A
  descriptor is identified with the content it was built from
  (`source_tree_sha256`).
- `pointer`: the one record of the index registry, current and previous.
- `lease`, `lapsed`: the Redis key's owner (a process, nobody, or `Orphan` for a
  token whose process no longer renews it), and which heartbeats have stopped.
- `pc`, `op`: for the worker and for each run of the command line, the next
  call and the local variables of `_build_and_publish`, `rollback` or
  `process_job`.

Actions and code. `Upload`, `QueueValidation`, `QueuePublish` and
`QueueRollback` are the repository's transactions. `Claim` is
`claim_next_job`; its second disjunct is a commit whose answer is lost.
`CompleteValidation`, `RecordRelease` and `RecordRollback` are the completions,
`FailJob` and `FailJobRaises` the two ways out of `process_job`'s except branch.
`ReadDescriptor` and `ReadCurrentBuild` are the two reads of the no-op check,
once before the lock ("peek") and once under it ("recheck").
`BuildCollection`, `CreateArtifact`, `AssertHeld`, `ReadPointer` and `Upsert`
follow the body of the with-statement; `ReadTarget` and `ReadSwap` begin the
worker's and the operator's rollback. `Acquire*`, `HeartbeatFails` and
`Release*` are the lock. `CallRaises` is any call that raises without effect;
it goes to "abort", which gives the lease back, when inside the with-statement.
`LeaseExpires`, `Crash` and `Restart` are the surroundings.

Transactions of the repository are atomic: each runs in `session.begin()` with
`FOR UPDATE` on the rows it decides on, and compose runs a single worker.

`Faults` selects which stores misbehave. "database", "redis", "chroma" and
"files" let calls fail and answers get lost; "stall" lets a process stand still
for longer than the key's 15 minutes between two calls, and also stands for a
Redis that loses the key.

What is abstracted:

- Provenance (embedding model, chunking) of the no-op check is a constant of
  the deployment: worker and command line run the same image.
- Staged packages are not changed by anyone; that the source changed during a
  build is one of the reasons for `CallRaises`.
- A descriptor that was created but not completely written is no descriptor:
  the build id is fresh, so that nobody reads or rewrites it.
- `Upload` needs the worker to be up because the worker serves the upload.
- `get_status` jobs are never enqueued, and `complete_job`'s branch for publish
  jobs is never called; neither is modelled.
- Audit rows and operation event files are left out, except that writing the
  succeeded event may fail.

### ShortTermMemory

Variables and the state they stand for:

- `memory`, `mem`, `upd`: the fields of `MetroAgentState` that the pipeline uses
  (rounds with messages, rounds with an answer too, rounds with a summary,
  compression jobs by round) as they are in the checkpoint, after the last
  finished node, and with the updates the running node has collected.
- `pc`, `todo`, `rounds`: the node of the turn, the rounds its loop has yet to
  visit, the number of rounds opened so far.
- `pending`, `processing`, `source`, `result`: the keys of
  `compression_queue.py:80-83`; the processing list, from which entries are
  removed by value, is a bag. A job is named by its round and the turn that
  created it.
- `worker`: the next call of each `run_worker` loop and the job it reserved.

The nodes follow `graph.py:92-169`: `StartTurn`, `ApplyResult` for each queued
job (one `get_result` each), `ApplyEnds`, `Prune`, `OpenRound`, `RecordAnswer`
(which stands for the plan and the agents as well), `Detect`, `EnqueueJob` for
each pending job, `EnqueueEnds`, `EndTurn`. A node's updates are merged when it
returns; the checkpointer saves in the background (`Save`), so that a process
that ends in mid-turn (`CrashTurn`) falls back by one or more nodes while the
Redis lists do not. `EndTurn` also covers the exceptions of `get_result` and of
the agents, which leave `graph.stream`. The worker's actions are the calls of
the loop in order, `SaveFailure` and `AcknowledgeFailure` those of its except
branch. A failing `reserve`, or a failing call of the except branch, ends the
worker, as does a signal: `WorkerDies`.

What is abstracted: token counts (`Prune` may drop more than the number of rounds
asks for); the content of messages and summaries; `requeue`, which has no caller;
the statistics node. Two requests for the same thread at once are left to
`ChatTurn`. Round numbers are identified with the order of rounds. A single
result does not expire while its conversation lives: checkpoints are refreshed on
every read, and a result is written after the turn that asked for it.

### KnowledgeReads

A client is a thread that asks a question or checks readiness. `CheckRequest` is
`_current_collection` of the proxy, `OpenCollection`/`CollectionAnswer`/
`CountAnswer`, `QueryAnswer` and `PointerAnswer` the requests it forwards,
`UseCache`, `SetEngine`, `SetName`, `TakeEngine` and `LabelAnswer` the lines of
`Knowledge_RAGtools.py:98-152` around the module variables `_query_engine` and
`_query_engine_collection_name`, each an assignment of its own since threads
share them. `Publication` is any step of `ReleaseRegister`. `Unavailable` is any
refusal or failure; `Restart` empties the cache.

### LoginRateLimiter

`BeginAttempt`, `FinalizeFailure`, `FinalizeSuccess` and `Cancel` are the four
calls of the login route, each whole because the code holds its lock for the whole
of it; `SettleLate` is a decision about an attempt that has run out, `Tick` the
clock. `attempt` is indexed by the sequence number of an event, `bucket` and
`expiry` are the table and the heap; `Scan` is the purge of what
has run out with which an attempt begins, so that a refusal (`Blocked`) changes the
tables too.

### TraceRecorder and PlanExecution

The first is the recorder: `OpenSpan`, `CloseSpan`, `FinishTrace` and
`SpanArtifactKept` with what their writes may come to (written, not written,
written and not heard of). The second is the graph: `MakePlan` or
`AnswerWithoutPlan`, `ValidatePlan` (with the depth-first search of `has_cycle`),
`Schedule`, the attempts of `planning_worker_node`, `Aggregate`, `Finalize`,
`Answer`. Steps of a wave interleave; an attempt that times out leaves a thread in
`late`, whose `LateReturn` may come at any later moment, also during the retry.
`Fail` is an exception that leaves the graph. `Search` is `dfs` with the list that
its caller loops over as an argument (`Below` is the call, `Beside` the loop's next
turn), `Cumulative` the dictionary of that name in the trace's summary, step by
step. The wording of steps and results,
token and tool rows, and the memory nodes of the same graph are left out.

### Accounts and ChatTurn

`BootLook`/`BootCreate` are the first administrator's command under the database's
named lock. `RequireAdmin` and the change it admits are transactions of their own,
hence `admitted`, the requests past the check. `ChatTurn` follows a request through
`claim_thread` (a read, an insert, a second read), the run, the read of the answer
from the latest checkpoint, the second check of the session, and `record_turn` (a
read and a later write). The checkpoint is shared by the runs of one owner and
thread and each save replaces it. Deletes come at any time. A session that has
expired and one that was revoked are the same to the program and to the model.

### AgentContext

A text is the number of its tokens. `Allocate` is the division of
`AgentContextBudgetManager.allocate`, `Build` the assembler's choice of rounds,
`General`, `Knowledge`, `Realtime` and `Diagnosis` what each agent asks for and puts
before its model. `OpenRound`, `CloseRound`, `Compressed` and `Pruned` are the
conversation that grows and is forgotten meanwhile.

### RagEvaluation and AgentEvaluation

`RagEvaluation` follows three commands file by file: the live run (`AskSystem` ...
`Capture`, `WriteLiveCases`, `WriteLiveManifest`, `WriteLiveSummary`), the semantic
run (`BeginSemantic`, `BackendReturns` or `BackendRaises`, the three writes) and
`RegisterRun`. `Dies` ends a command anywhere; a run id may be used again, over the
files of before. `AgentEvaluation` holds one suite: `Ask` and `Evaluate` per case,
`Summarize` the acceptance gate, with the shares and the rounding of
`agent_acceptance.py`. What the judge says is a choice.

### LongTermMemory

A text is a place on a line, similarity its distance. `ProcessTurn` of overlapping
turns: per candidate `Discard`, or `Search` and then `Decide`, with the relation the
model names a choice within what `Relates` allows. The graph wires only the
recall; the model is of the service as its tests drive it (section 4).

## 3. Checks

| run | instance | what it shows |
|---|---|---|
| `worker` | 2 drafts, 2 contents, 3 builds, 5 jobs, 1 crash, all faults, no operator | `DraftsAndJobsAgree`, `OneCurrentRelease`, `PublishedDraftsHaveTheirRelease`, `SuccessIsVisible` |
| `operators` | 1 draft, 2 contents, 3 builds, 3 jobs, 1 operator, 1 crash, store faults without stalls | `PointerNamesValidated`, `PointerMovesUnderLease`, `RegisterSpec` (implementation of `ReleaseRegister`), `ReportsAreOfTheVisibleRelease` |
| `progress` | a worker alone: 2 drafts, 1 content, 2 builds, 4 jobs, 2 crashes, all faults; a worker beside 1 operator: 1 draft, 2 contents, 2 builds, 3 jobs, no faults | `QueuedJobsAreClaimed` of the first, `DraftsSettle` of the second |
| `memory` | 1 worker, 4 rounds, keep 1, at most 2 rounds in memory, 1 crash, all faults | `QueuedJobsExist`, `RecentRoundsStayWhole`, `ForgetsOldestFirst` |
| `workers` | 2 workers, 3 rounds, 1 crash, Redis and model faults | `PendingJobsAreTaken`, `JobsGetResultsIfWorkersLive` |
| `plan` | all 27 dependency shapes of 3 steps and 5 plans that break a rule, 2 attempts, 1 late thread, 1 store fault | `ValidPlansAreOrderable`, `DependenciesFirst`, `EveryAttemptIsTraced`, `TraceIsClosed`, `SummaryReferencesExist`, `CriticalPathIsLongest`, `ResultsAreFinal`, `PlansFinish` |
| `turns` | 2 users, 2 sessions, 1 conversation id, 2 turns, 7 kinds of change, 1 request per administrator | `AdminRemains`, `EndedSessionsStayOut`, `TurnsApartDoNotMix`, `RoundsReachTheirOwner` |
| `services` | the six parts of `MCServices`, see below | `ReadsAreOfACurrentRelease`, `AnswersNameTheirRelease`, `PromptsStayWithinTheirLimit`, `RoomGoesByPriority`, `EveryCaseHasOneVerdict`, `RegisteredRunsAreWhole`, `AcceptedRunsAreBackedByEvidence`, `DuplicatesHaveACause`, `BudgetsHold`, `HeapMatchesBuckets`, `EveryGuessIsCounted`, `GuessesAreBounded`, `RetryAfterSuffices` |
| `worker_crash` | 2 workers, 3 rounds, 1 crash, no faults | expected violation of `JobsGetResults` |
| `failed_publish` | 1 draft, 1 build, Redis faults | expected violation of `FailedPublishStaysInvisible` |
| `noop_race` | 1 draft, 2 contents, 2 builds, 2 jobs, 1 operator, no faults | expected violation of `ReleaseHasItsDraftsContent` |
| `history_fill` | as `services` | expected violation of `FillingStopsAtFirstMisfit` |

Type invariants (`TypeOK`, `LimiterTypeOK`) are proved (section 4), by which they hold in every
instance, and are not among the properties of the runs.

**Bounds.** Five jobs allow a draft to be validated, published, rolled back and
another one published and conflict; three builds allow a current, a previous
and a third release, the smallest number with which a rollback can go to a
release that is not the previous one. One crash and one operator suffice for
each two-party interleaving; `progress` has two crashes so that a job can be lost
after a restart. Builds, drafts and contents are finite sets: when no build id
is left the model cannot build, which is why deadlock is not checked (the
system may also simply be idle). Symmetry over drafts, contents and builds is
used in the safety runs only. `MaxJobs` and `MaxCrashes` are the only guards
that exist for the sake of bounds.

For the short-term memory, four rounds are the fewest in which two summaries exist
and one is dropped, two jobs wait at once, and a round is queued twice because a
turn died. `SHORT_MEMORY_KEEP_ROUNDS` (6) and `SHORT_MEMORY_MAX_TOTAL_ROUNDS` (70)
become 1 and 2: every round but the last is compressible, and the third one
makes the memory too large. `MaxRounds` and `MaxCrashes` are the bounds in guards.

For the limiter (2 names, 2 addresses, a window of 2 s at 2 ticks), three attempts against limits of 2 let every bucket be full and
let a success, a failure and a cancellation overlap; six ticks let the events of the
first attempt run out while the last is undecided; five keys are one less than two
attempts without a common user or address want, so that the bound on keys refuses.
For plans, three steps are the fewest with a chain, a fork, a join and a cycle that
does not pass the first step. For turns, two requests and a delete are all it takes
for an id to change hands; a third party adds nothing, since the transactions
relate two. In `services`: two builds and two threads for reads; four rounds, two
tool calls, texts of 1 and 5 tokens against limits of 8 to 10 for context; two
run ids, three commands (a live run, its repetition and a semantic run) and three
golden sets for retrieval; two cases, each of five expectations and eight
evidences, for agents; two users, two overlapping turns, two categories, three
memories and a search limit of one for long-term memory. A guard refers to a bound
only through `MaxAttempts`, `MaxTime`, `MaxLate`, `Faults`, `MaxSessions`,
`MaxRequests`, `MaxTurns`, `MaxRounds`, `MaxCalls`, `MaxCommands`, `MaxMemories` and
`MaxCandidates`, except that `MaxAttempts` of `PlanExecution` is the program's own.
The swaps in `MCServices` act on the two kinds of identifiers that several parts
share, and on the categories of memories; the parts never meet in a behaviour, and
nothing distinguishes the identifiers.

**Deadlock** is not checked in any run: a bounded behaviour ends when its bound is
reached, and the program may be idle. That it does not stop where it must go on is
what the liveness properties say.

**Restrictions in properties.** `SuccessIsVisible` is stated for
`Operators = {}`: the command line changes the pointer and does not tell the
database. `PointerMovesUnderLease`, `RegisterSpec` and
`ReportsAreOfTheVisibleRelease` hold without stalls: no lease protects against a
holder that sleeps between `assert_held()` and the upsert, because Chroma takes no
fencing token. `ReportsAreOfTheVisibleRelease` speaks of what a publisher does under
the lock, where the two reads of the no-op check cannot differ without the loss of
the lease being noticed when it is given back; the first check, which is made
before the lock, is the subject of `noop_race`.
`AnswersNameTheirRelease` excepts engines that were built at the same time,
`RoundsReachTheirOwner` a round that was being written while its conversation was
deleted and claimed by another, `TurnsApartDoNotMix` speaks of turns that did not
overlap, `RegisteredRunsAreWhole` of artifacts only one command wrote to,
`CriticalPathIsLongest` of plans that list steps after their dependencies,
`PromptsStayWithinTheirLimit` excepts a question that is too long alone,
`AcceptedRunsAreBackedByEvidence` an empty list of expected tools, which the gate
does not look at (`agent_acceptance.py:43`). Each
exception is a behaviour the code has; the next subsection lists them.

**Fairness.** `ProgressSpec` gives weak fairness to the worker's loop
(`_consume_jobs_forever` polls for as long as its process lives), to `Restart`
(compose: `restart: unless-stopped`), and to a command line that was started.
Nothing obliges an administrator, an operator, a fault or a crash.
In `ShortTermMemory`, fairness is given to the worker's endless loop and to its
process manager (`compression_worker.py:15-17`); the turns have none, since
nobody need continue a conversation, and the compose file starts no compression
worker: the liveness properties speak of deployments that run one.
In `PlanExecution` the graph itself is weakly fair: every call of an agent returns,
raises or is given up after `timeout_seconds`, and nothing else holds it up.
`Fail` and `LateReturn` have no fairness, and no other module has any.
`DraftsSettle` is checked without faults and crashes only: with them it does not
hold, because a claim whose worker dies stays running (see below).

### What the model shows about the code

- **A failed publish can be visible** (`failed_publish`). The pointer is upserted
  inside the with-statement, so that a failure to give the lease back makes the
  whole job fail, although queries are answered from its release already.
  `README.md:123` says the published knowledge stays as it was. The same holds
  for a Chroma answer that is lost, for the event file and for the last
  transaction.
- **Claimed jobs are not reclaimed.** `lease_expires_at` is written
  (`repository.py:189`) and never read. After a crash the job stays running, its
  draft stays in publishing, and the transition table offers no way out.
- **A crashed compression worker's job is lost** (`worker_crash`).
  `compression_queue.py:4-5` and 19-20 say that it is not. The second list keeps a
  copy (`QueuedJobsExist`), which nothing reads; the round stays queued, and
  `detect_compression_jobs` skips it for ever.
- **Failed rounds stay.** A round whose job failed is neither queued again nor
  pruned, since pruning drops summaries only. An acknowledgement that fails makes
  a completed result a failed one (`compression_worker.py:115-139`). The
  reasoning of `state_memory_pruner.py:77-81` about bounded growth therefore
  assumes that compression succeeds.
- **A round may be compressed twice**, when a turn dies between the push and the
  checkpoint; the earlier job's result is never looked at.
- **Publishing what is current fails.** The no-op returns the current build, whose
  row exists, and the insert conflicts: the job fails, the ledger stays intact
  (`PublishedDraftsHaveTheirRelease` covers it).

- **A no-op can be recorded for another content** (`noop_race`). Before it asks for
  the lock, the indexer reads the descriptor of the current release and then, once
  more, the pointer (`knowledge_indexer.py:194-195`). When a command line publishes
  another content in between, the job returns that build (197), and
  `complete_publish_job` records it as the release of its draft: the draft is
  published and its content is not what queries are answered from.
  `README.md:123` says that a version can be queried once its publication has
  succeeded. Under the lock (208-209) the same two reads cannot do so, which is
  what `ReportsAreOfTheVisibleRelease` shows.

Reading:

- **The engine cache can be torn.** Two threads that build engines for different
  releases assign the engine and its name in two steps (`Knowledge_RAGtools.py:132`
  and 136). The engine of the old release may stay under the new one's name; the
  proxy then refuses every question until the next publication or restart, while
  readiness, which does not look at the cache, passes. No read of an old release
  gets through: `ReadsAreOfACurrentRelease` holds without exception.
- **The label of an answer** is read after the query (`:152`) and names the other
  release if another thread replaced the engine during the question.

Turns and plans:

- **Overlapping turns of one conversation mix.** The answer is read from the latest
  checkpoint (`agent_service.py:77`), whoever wrote it.
- **A round can land with another user** when a conversation is deleted and its id
  claimed between the read and the write of `record_turn`
  (`storage/history/service.py:87-113`): the row is updated by its id alone.
- **The critical path** is summed in the order of the plan, not topologically as
  `observability/设计说明.md:357` has it: a plan that lists a step before its
  dependency, which the validator accepts, gets too short a path.
- **A stale `aggregate_span_id`** from the checkpoint marks the summary of a turn
  without a plan as degraded.

Context (`AgentContext`):

- `DiagnosisAgent.py:10-11` reads the knowledge agent's conclusion from
  `agents_output.knowledge`, which nothing fills: `worker_node.py` does not write
  `agents_output` and `context_node` empties it. The knowledge arrives only as the
  output of an earlier step, which is neither counted nor cut, so that the bound
  `PromptsStayWithinTheirLimit` speaks of what the budget governs, and the promise
  at the head of the assembler (line 9) does not hold for the diagnosis agent.
- **Older rounds are skipped one by one** when they do not fit (`history_fill`;
  `agent_context_assembler.py:333-334`), although the docstring (161-163) says that
  filling ends with the first that exceeds the budget: a history may have gaps.
  `RoomGoesByPriority` says only what both have in common: the newest round left
  out does not fit beside the newer ones.
- The realtime agent's second allocation (`build_budgeted_tool_content`) has no
  caller, so tool results inside its loop are not budgeted; the sentences put
  before sections are not counted; no agent reads `planning_instruction`.

Evaluation:

- The version of the golden set is read at registration
  (`ragas_persistence.py:119-130`); a live run id that was used again in between
  names another set than the one judged.
- A live case whose search raised gets the text of the error as its answer, which
  can pass as a refusal (`run_live_rag.py:131-142`, `rag_evaluation.py:216-218`).
- A semantic run id that is used again after a crash can be registered with files
  of both runs, hence the restriction in `RegisteredRunsAreWhole`.
- Live builds are never marked as published (`knowledge_indexer.py:391-401` leaves
  "staged"; the functions that mark them have no live caller), so that the
  deterministic suite refuses them.
- Tools are paired greedily with expectations, so a run can fail that a better
  pairing would pass; `AcceptedRunsAreBackedByEvidence` shows that the converse
  does not happen. `min_calls` and `max_calls` have no effect beyond that, since the
  names must match exactly. For cases that expect tools, missing evidence of the
  plan is not held against the run, so that a forbidden agent may go unseen
  (`run_deepeval.py:244-251`).

Long-term memory:

- `memory_curator_node` is not in the graph, although `memory_nodes.py:4` and
  `memory_service.py:6` say every turn runs it. Were it wired, only the nearest
  memory found is compared, the search is limited before it is narrowed to the
  category, and overlapping turns do not see each other: the causes
  `DuplicatesHaveACause` allows, so that it shows no more than that there is no
  other cause. `valid_until` is stored and not consulted.

## 4. Proofs

Every safety property that a passing run checks, invariants and action properties,
is also a theorem, for every value of the constants that satisfies the named
assumptions of the modules. Sets are arbitrary, infinite ones included unless an
assumption says otherwise, and bounds are any natural numbers.

| module | assumption on its constants |
|---|---|
| `KnowledgePublication`, `ShortTermMemory` | `ConstantsAssumption`: sentinels are no members of the sets, bounds are naturals, faults are fault kinds |
| `LoginRateLimiter` | `LimiterAssumption`: limits and window are positive and the capacity is at least 3, as `rate_limit.py:139-143` requires |
| `PlanExecution`, `TraceRecorder` | `PlanAssumption`, `FaultsAssumption`: plans are sequences of steps with lists of dependencies, of any length |
| `Accounts`, `ChatTurn` | `AccountsAssumption`, `ChatAssumption`: identifiers and bounds |
| `AgentContext` | `ContextAssumption`: budgets are naturals, an order of priority names no section twice |
| `RagEvaluation` | `RagAssumption`: a golden set is a sequence |
| `AgentEvaluation` | `AgentAssumption`: lists are finite and there are fewer than 20000 golden cases |
| `LongTermMemory` | `MemoryAssumption`: contents and limits are naturals, `None` is no record |

The 20000 is not a bound of the model: `round(x, 4)` takes a share of cases for all
of them when no more than one in 20000 is missing, so that with more golden cases
`AcceptedRunsAreBackedByEvidence` is false of the code. TLC evaluates each of these
assumptions in the runs of its module.

### Publication

`KnowledgePublication_proofs` proves, for every set of drafts, contents, builds
and operators, every job and crash bound and every set of faults:

| theorem | statement |
|---|---|
| `StructureCorrect`, `TypeCorrect` | the structural invariant and `TypeOK` |
| `PointerAlwaysValidated` | `[]PointerNamesValidated` |
| `DraftsAndJobsAlwaysAgree` | `[]DraftsAndJobsAgree` |
| `AlwaysOneCurrentRelease` | `[]OneCurrentRelease` |
| `PublishedDraftsAlwaysHaveTheirRelease` | `[]PublishedDraftsHaveTheirRelease` |
| `SuccessIsAlwaysVisible` | `SuccessIsVisible` |
| `PointerAlwaysMovesUnderLease` | `PointerMovesUnderLease`, if "stall" is not among the faults |
| `ImplementsRegister` | `Spec => RegisterSpec`, under the same assumption |
| `ReportsAreAlwaysOfTheVisibleRelease` | `ReportsAreOfTheVisibleRelease`, under the same assumption |

None of the invariants is inductive alone. The argument has seven layers.
*Structure* says which rows of the job table exist, which drafts have content,
and, for each label, what the process at that label holds: the worker has a job
of the kind its label implies, a build task has content, a process past
`BuildCollection` has a build of its own. *Validity* adds that whoever is about
to assert, read or upsert names a written descriptor, and so the pointer always
does. *Agreement* is `DraftsAndJobsAgree` itself, inductive once Structure says
that the worker's job is the draft's only active one. *Ledger* ties rows to
drafts: a running publish job has no row yet, so that a completion is the first,
and a fail after an unheard completion finds the job no longer running.
*Exclusion* says that a process between `AssertHeld` and `Upsert` is the owner of
the key, and that the pointer it read is the pointer still; that is where the
assumption about stalls enters, and from it follow the action property and the
refinement. *Custody*, for deployments without operators, follows the worker alone:
from the upsert, or the no-op check, to the completion the pointer names the build
in its hands. *Reports*, for any number of operators and again without stalls,
follows every publisher: a build belongs to one process until its descriptor is
written, the descriptor keeps the content it was written with, and from the upsert,
or the no-op check under the lock, the pointer names the build in the publisher's
hands for as long as the lease is its own, which is looked at once more when it is
given back.

### Short-term memory

| theorem | statement |
|---|---|
| `TypeCorrect` | `[]TypeOK` |
| `QueuedJobsAlwaysExist` | `[]QueuedJobsExist` |
| `RecentRoundsAlwaysStayWhole` | `[]RecentRoundsStayWhole` |
| `AlwaysForgetsOldestFirst` | `ForgetsOldestFirst` |

for any number of workers, rounds and crashes and any faults. The checkpoint, the
running state and the updates of the node are each *Sound*: what is summarised lies
far enough behind what is not (`Shape`, `Spaced`), each summary came from a job
(`Backed`), each queued round's job is somewhere or has a result (`Tracked`). A crash
goes back to an earlier state, so that the invariant has to speak of all three at
once (`Along`). Job ids are used once because none is of a later turn than the
running one (`Numbered`). Pruning drops the oldest summaries, which keeps the
spacing because those behind the newest one dropped remain.

### Reads, limiter, plans

| module | theorem | statement |
|---|---|---|
| `KnowledgeReads_proofs` | `TypeCorrect`, `ReadsAlwaysOfACurrentRelease`, `AnswersAlwaysNameTheirRelease` | `TypeOK` and the two invariants, any threads and builds |
| `LoginRateLimiter_proofs` | `TypeCorrect`, `BudgetsAlwaysHold`, `HeapAlwaysMatchesBuckets`, `EveryGuessIsAlwaysCounted`, `GuessesAreAlwaysBounded`, `RetryAfterAlwaysSuffices` | `LimiterTypeOK` and five invariants, any limits, window and number of keys |
| `PlanExecution_proofs` | `TypeCorrect`, `ValidPlansAreAlwaysOrderable`, `DependenciesAlwaysFirst`, `AttemptsAreAlwaysTraced`, `TraceIsAlwaysClosed`, `SummaryReferencesAlwaysExist`, `CriticalPathIsAlwaysLongest`, `ResultsAreAlwaysFinal` | any plans, retries, late threads and faults |

*Reads*: what the proxy found to be current is remembered in the history of the
request; the name of the cache is that of the engine outside of the two assignments
unless engines overlapped, and each thread that is about to assign holds the engine
it opened. *Limiter*: events lie in the buckets of their own keys, in time order,
so that purging from the front removes just what has run out and the last event
alone determines the heap; the limit on users follows from the count because an
undecided or failed attempt is dropped only behind a later success. The advised
time suffices because seconds are rounded up, so that by then enough events of every
full bucket have run out; if there were too many keys, the whole window has passed.
*Plans*: the
argument is about what each label of the turn implies (`Control`), which spans and
tries belong to a step at work or ended (`Work`), that closed spans tell each
attempt's end (`Closed`) and that known spans have rows (`Kept`).

Two of the theorems about plans are about recursive functions of the plan. The
search for a cycle goes on with less at every step, in a measure that adds to the
length of the list, for each step not yet on the path, more than the longest list
of dependencies (`WalksShrink`); so it has a result (`SearchIs`) and can be reasoned
about from smaller to larger walks. Given an order, what the search looks at comes
before all that is on its path, so that it never meets its path
(`OrderHasNoCycle`); given that it meets none, the steps it has finished with can be
ranked, one after the other (`NoCycleHasOrder`). The critical path: a total, once it
stands, never changes, and is on top of the totals of all the step's dependencies
(`CumulativeIsTotal`); no chain is longer than the total of its last step
(`ChainsAreNotLonger`), and there is one as long (`TotalsAreLengths`).

### Accounts and turns

| module | theorem | statement |
|---|---|---|
| `ChatTurn_proofs` | `AdminAlwaysRemains` | `AccountsSpec => []AdminRemains` |
| `ChatTurn_proofs` | `TypeCorrect`, `EndedSessionsAlwaysStayOut`, `AdminRemainsBesideTurns`, `RoundsAlwaysReachTheirOwner`, `TurnsApartNeverMix` | any users, threads, changes and number of turns |

An administrator remains because a change that takes one away counts those left in
the same transaction, and another administrator's admitted request meets the new
count. Sessions stay out because an open one belongs to an active account, which
makes disabling an account revoke them. `TurnsApartNeverMix` needs what every save
of the checkpoint holds, related to the turns that were under way at any time of
each run.

### Context, evaluation, long-term memory

All in `Services_proofs`:

| theorem | statement |
|---|---|
| `PromptsAlwaysStayWithinTheirLimit`, `RoomAlwaysGoesByPriority` | `ContextSpec => []PromptsStayWithinTheirLimit`, `ContextSpec => []RoomGoesByPriority` |
| `EveryCaseAlwaysHasOneVerdict`, `RegisteredRunsAreAlwaysWhole` | `RagSpec => []EveryCaseHasOneVerdict`, `RagSpec => []RegisteredRunsAreWhole` |
| `AcceptedRunsAreAlwaysBackedByEvidence` | `AgentSpec => []AcceptedRunsAreBackedByEvidence` |
| `DuplicatesAlwaysHaveACause` | `MemorySpec => []DuplicatesHaveACause` |

*Context*: the invariant says that what a model was last given was built from the
state as it is (`CallIsBuilt`); the rest is about the algorithm. What the sections
take is followed in the order of priority, with what is left after each
(`WellDivided`); what is lent on and rounded down stays within what was unused; the
choice of rounds never spends more than it is granted, what it has counted down to a
round is what the newer ones chosen cost (`NewerAddUp`), and so a round is left out
only if it does not fit beside those (`WellBuilt`). A question that alone exceeds the
share of the history is shown uncut, the exception the property names.

*Retrieval*: an artifact that one command wrote holds one finished judgement or one
live run (`IsLive`: rows that answer its golden cases one by one, of one published
build), and a command holds what it has read so far and agrees with what of it is on
the disk already. A command that dies leaves an artifact without its last file,
which is not registered.

*Agents*: each file is complete before the next is begun (`AgentIInv`). That the
gate's rates imply the evidence comes from counting: a share that rounds to one
misses no case, and the greedy pairing of calls takes a call at most once, so that a
pairing that leaves nothing over is one to one.

*Long-term memory*: what a search is worth depends on how many memories there were
at the time, and stays true as the list only grows.

### Recursive functions

The library's induction theorems cannot be instantiated here, but a least
counterexample can be taken: `LeastExists` follows from the well-foundedness of the
order of numbers, and with it `Recursion` proves induction up to a bound (`UpTo`),
the existence of what is computed from 0 to n (`RecursionExists`) or by recursion on
arguments of smaller size (`MeasuredRecursionExists`), and that finite sets of
numbers have a greatest element. Each recursive function of a model is shown to
exist by one of these and is from then on a function with an equation.

### Only model-checked

Liveness (`QueuedJobsAreClaimed`, `DraftsSettle`, `PendingJobsAreTaken`,
`JobsGetResultsIfWorkersLive`, `PlansFinish`): fairness and ENABLED are beyond the
prover.

## 5. Not modelled

- **Backup and restore** (`deploy/operations/`): shell scripts under the publication
  lease. The lease is in `KnowledgePublication` with any number of holders; what the
  scripts do under it is copying of volumes.
- **The lease's clock**: the 15 minutes and the renewal period are an expiry at any
  moment of a stall or after a failed heartbeat, which includes every timing.
- **Source packages** (ZIP inspection): pure validation, whose outcome
  `KnowledgePublication` uses.
- **Web pages, database migrations**: presentation and schema.
- **What models, tools and document splitting compute**: text, of which only the size
  (`AgentContext`) or the terms (`RagEvaluation`) matter here.
- **Parts without a caller** in the program: `requeue`, `complete_job` for publish
  jobs, `get_status` jobs, `record_failure`, `clear` and the counters of the limiter,
  `create_session`, `set_user_active`, `reset_password`, `publish_collection_name`.
- **Observability beyond the trace**: token, tool and retrieval rows, the monitoring
  page's queries, the import of evaluations other than retrieval.
- **Concurrent evaluation commands**: they are started by hand and modelled one at a
  time, with crashes in between.
- **Two hazards without a property**: rounds whose compression failed are never
  pruned (`compression_result_node.py:107`), for which the program states no limit
  that could be checked; and the denial after a torn engine cache
  (`Knowledge_RAGtools.py:136`), which lasts until somebody publishes.
