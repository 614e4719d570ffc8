--------------------------- MODULE ShortTermMemory ---------------------------
(***************************************************************************)
(* Short-term memory of one conversation (memory/short_term/).  Each turn  *)
(* of the graph appends a round to the conversation's state, applies the   *)
(* summaries that have arrived, drops the oldest summaries when there are  *)
(* too many, and queues older rounds for compression.  Compression workers *)
(* take the jobs from a Redis list, keep a copy of what they took in a     *)
(* second list, and leave their results under a key of the job.            *)
(*                                                                         *)
(* The turns of a conversation follow each other.  Every Redis call is a   *)
(* step; the graph's state is saved after each node, in the background.    *)
(***************************************************************************)
EXTENDS Naturals, Sequences, FiniteSets, FiniteSetsExt, Bags

CONSTANTS
  Workers,     \* compression workers
  None,
  Keep,        \* SHORT_MEMORY_KEEP_ROUNDS
  MaxTotal,    \* SHORT_MEMORY_MAX_TOTAL_ROUNDS
  MaxRounds,   \* bound: rounds of the conversation
  MaxCrashes,  \* bound: ends of a worker or of the application in mid-turn
  Faults       \* which calls may fail, which keys may expire

FaultKinds == {"redis", "model", "expiry"}
Rounds == 1..MaxRounds

(* A job id is fresh; a turn gives an earlier round one job at most, so    *)
(* that the two identify it.                                               *)
JobIds == {j \in Rounds \X Rounds : j[1] < j[2]}

ASSUME ConstantsAssumption ==
  /\ Keep \in Nat \ {0} /\ MaxTotal \in Nat \ {0}
  /\ MaxRounds \in Nat \ {0} /\ MaxCrashes \in Nat
  /\ None \notin JobIds
  /\ Faults \subseteq FaultKinds

VARIABLES
  memory,     \* the state saved in the checkpoint
  mem,        \* the state of the turn after the last finished node
  upd,        \* ... and with what the running node is going to return
  pc,         \* the node the turn is in
  todo,       \* rounds the running node has yet to look at
  rounds,     \* number of rounds so far; the round of the turn
  pending,    \* metro:compression:pending, oldest first
  processing, \* metro:compression:processing
  source,     \* rounds with a key metro:compression:source
  result,     \* metro:compression:result of each job
  worker,     \* what each worker does next, and with which job
  crashes

turnVars == <<memory, mem, upd, pc, todo, rounds>>
redis    == <<pending, processing, source, result>>
vars     == <<turnVars, redis, worker, crashes>>

JobStatus == {"none", "pending", "queued", "applied", "failed"}

(* Of MetroAgentState: rounds with messages, those that also have an       *)
(* answer, those with a summary, and the compression jobs by round.        *)
States == [msgs : SUBSET Rounds, answered : SUBSET Rounds, summaries : SUBSET Rounds,
           jobs : [Rounds -> [status : JobStatus, by : Rounds \cup {0}]]]
NoJob == [status |-> "none", by |-> 0]
Empty == [msgs |-> {}, answered |-> {}, summaries |-> {}, jobs |-> [r \in Rounds |-> NoJob]]

JobId(m, r) == <<r, m.jobs[r].by>>
RoundsWith(m, status) == {r \in Rounds : m.jobs[r].status = status}
SetStatus(m, r, status) == [m EXCEPT !.jobs[r].status = status]

Acks(kind) == IF kind \in Faults THEN BOOLEAN ELSE {TRUE}

Init ==
  /\ memory = Empty /\ mem = Empty /\ upd = Empty
  /\ pc = "idle"
  /\ todo = {}
  /\ rounds = 0
  /\ pending = <<>>
  /\ processing = EmptyBag
  /\ source = {}
  /\ result = [j \in JobIds |-> "none"]
  /\ worker = [w \in Workers |-> [pc |-> "idle", job |-> None]]
  /\ crashes = 0

-----------------------------------------------------------------------------
(* A turn: the graph's nodes in their order.                               *)

(* A node returns m; the turn goes on with the next node, for some nodes   *)
(* with a set of rounds to go through.                                     *)
Return(m, next, work) ==
  /\ mem' = m /\ upd' = m
  /\ pc' = next
  /\ todo' = work

StartTurn ==
  /\ pc = "idle"
  /\ rounds < MaxRounds
  /\ Return(memory, "apply", RoundsWith(memory, "queued"))
  /\ UNCHANGED <<memory, rounds, redis, worker, crashes>>

(* apply_compression_results, one queued job: the result may be missing,   *)
(* failed, late (the round's messages have gone), or a summary that        *)
(* replaces the messages.                                                  *)
Applied(r) ==
  LET res == result[JobId(mem, r)] IN
  CASE res = "none"   -> upd
    [] res = "failed" -> SetStatus(upd, r, "failed")
    [] res = "completed" /\ r \notin mem.summaries /\ r \notin mem.answered
         -> SetStatus(upd, r, "failed")
    [] OTHER -> [SetStatus(upd, r, "applied") EXCEPT
                   !.summaries = @ \cup {r}, !.msgs = @ \ {r}, !.answered = @ \ {r}]

ApplyResult ==
  /\ pc = "apply"
  /\ todo # {}
  /\ upd' = Applied(Min(todo))
  /\ todo' = todo \ {Min(todo)}
  /\ UNCHANGED <<memory, mem, pc, rounds, redis, worker, crashes>>

ApplyEnds ==
  /\ pc = "apply"
  /\ todo = {}
  /\ Return(upd, "prune", {})
  /\ UNCHANGED <<memory, rounds, redis, worker, crashes>>

(* prune_short_memory: summaries are dropped oldest first, with their jobs *)
(* until rounds (and tokens, of any number) are within their limits.       *)
Size(m) == Cardinality(m.msgs) + Cardinality(m.summaries)
Without(m, dropped) ==
  [m EXCEPT !.summaries = @ \ dropped,
            !.jobs = [r \in Rounds |-> IF r \in dropped THEN NoJob ELSE @[r]]]

(* Mutant of Prune: newest first.                                          *)
PruneNewest ==
  /\ pc = "prune"
  /\ \E dropped \in SUBSET mem.summaries :
       /\ \A r \in dropped, s \in mem.summaries \ dropped : r > s
       /\ Size(Without(mem, dropped)) <= MaxTotal \/ dropped = mem.summaries
       /\ Return(Without(mem, dropped), "context", {})
  /\ UNCHANGED <<memory, rounds, redis, worker, crashes>>

Prune ==
  /\ pc = "prune"
  /\ \E dropped \in SUBSET mem.summaries :
       /\ \A r \in dropped, s \in mem.summaries \ dropped : r < s
       /\ Size(Without(mem, dropped)) <= MaxTotal \/ dropped = mem.summaries
       /\ Return(Without(mem, dropped), "context", {})
  /\ UNCHANGED <<memory, rounds, redis, worker, crashes>>

(* build_conversation_context: the user's message opens the round.         *)
OpenRound ==
  /\ pc = "context"
  /\ rounds' = rounds + 1
  /\ Return([mem EXCEPT !.msgs = @ \cup {rounds + 1}], "agents", {})
  /\ UNCHANGED <<memory, redis, worker, crashes>>

(* record_assistant_message, after planning and agents; a blank answer is  *)
(* not recorded.                                                           *)
RecordAnswer ==
  /\ pc = "agents"
  /\ \E answered \in Acks("model") :
       Return(IF answered THEN [mem EXCEPT !.answered = @ \cup {rounds}] ELSE mem,
              "detect", {})
  /\ UNCHANGED <<memory, rounds, redis, worker, crashes>>

(* Mutant of Compressible: rounds without an answer count as recent ones.  *)
CompressibleByAge(m) ==
  {r \in m.answered : Cardinality({s \in m.msgs : s > r}) >= Keep}

(* detect_compression_jobs: every answered round but the last Keep ones    *)
(* gets a job, unless it has one or has a summary.                         *)
Compressible(m) ==
  {r \in m.answered : Cardinality({s \in m.answered : s > r}) >= Keep}

Detect ==
  /\ pc = "detect"
  /\ LET new == {r \in Compressible(mem) \ mem.summaries : mem.jobs[r] = NoJob}
         m == [mem EXCEPT !.jobs = [r \in Rounds |->
                 IF r \in new THEN [status |-> "pending", by |-> rounds] ELSE @[r]]]
     IN  Return(m, "enqueue", RoundsWith(m, "pending"))
  /\ UNCHANGED <<memory, rounds, redis, worker, crashes>>

(* enqueue_compression_jobs, one pending job: source and payload are       *)
(* written in one pipeline, which may fail, or succeed and not be heard of. *)
EnqueueJob ==
  /\ pc = "enqueue"
  /\ todo # {}
  /\ todo' = todo \ {Min(todo)}
  /\ LET r == Min(todo) IN
     \/ /\ r \in mem.answered
        /\ pending' = Append(pending, JobId(mem, r))
        /\ source' = source \cup {r}
        /\ \E ack \in Acks("redis") :
             upd' = SetStatus(upd, r, IF ack THEN "queued" ELSE "failed")
     \/ /\ r \notin mem.answered \/ "redis" \in Faults
        /\ upd' = SetStatus(upd, r, "failed")
        /\ UNCHANGED <<pending, source>>
  /\ UNCHANGED <<memory, mem, pc, rounds, processing, result, worker, crashes>>

EnqueueEnds ==
  /\ pc = "enqueue"
  /\ todo = {}
  /\ Return(upd, "end", {})
  /\ UNCHANGED <<memory, rounds, redis, worker, crashes>>

(* The checkpointer saves the state of the last finished node.             *)
Save ==
  /\ pc # "idle"
  /\ memory # mem
  /\ memory' = mem
  /\ UNCHANGED <<mem, upd, pc, todo, rounds, redis, worker, crashes>>

(* A turn that ends, normally or by an exception of Redis or a model,      *)
(* waits for the checkpointer; one that dies with its process does not.    *)
EndTurn ==
  /\ \/ pc = "end"
     \/ pc = "apply" /\ "redis" \in Faults
     \/ pc = "agents" /\ "model" \in Faults
  /\ memory = mem
  /\ Return(memory, "idle", {})
  /\ UNCHANGED <<memory, rounds, redis, worker, crashes>>

CrashTurn ==
  /\ pc # "idle"
  /\ crashes < MaxCrashes
  /\ crashes' = crashes + 1
  /\ Return(memory, "idle", {})
  /\ UNCHANGED <<memory, rounds, redis, worker>>

-----------------------------------------------------------------------------
(* The workers (run_worker).                                               *)

Goto(w, label) == worker' = [worker EXCEPT ![w].pc = label]
Rest(w) == worker' = [worker EXCEPT ![w] = [pc |-> "idle", job |-> None]]

(* Mutants of Reserve: RPOP without a copy; nothing is taken while another *)
(* job is in the copy.                                                     *)
ReserveWithoutCopy(w) ==
  /\ worker[w].pc = "idle"
  /\ pending # <<>>
  /\ pending' = Tail(pending)
  /\ worker' = [worker EXCEPT ![w] = [pc |-> "load", job |-> Head(pending)]]
  /\ UNCHANGED <<turnVars, processing, source, result, crashes>>
ReserveWhenNoneProcessing(w) ==
  /\ worker[w].pc = "idle"
  /\ pending # <<>> /\ processing = EmptyBag
  /\ pending' = Tail(pending)
  /\ processing' = processing (+) SetToBag({Head(pending)})
  /\ worker' = [worker EXCEPT ![w] = [pc |-> "load", job |-> Head(pending)]]
  /\ UNCHANGED <<turnVars, source, result, crashes>>

(* BRPOPLPUSH: the oldest job moves from one list to the other.            *)
Reserve(w) ==
  /\ worker[w].pc = "idle"
  /\ pending # <<>>
  /\ pending' = Tail(pending)
  /\ processing' = processing (+) SetToBag({Head(pending)})
  /\ worker' = [worker EXCEPT ![w] = [pc |-> "load", job |-> Head(pending)]]
  /\ UNCHANGED <<turnVars, source, result, crashes>>

LoadSource(w) ==
  /\ worker[w].pc = "load"
  /\ \/ worker[w].job[1] \in source /\ Goto(w, "summarize")
     \/ /\ worker[w].job[1] \notin source \/ "redis" \in Faults
        /\ Goto(w, "saveFailed")
  /\ UNCHANGED <<turnVars, redis, crashes>>

Summarize(w) ==
  /\ worker[w].pc = "summarize"
  /\ \E ok \in Acks("model") : Goto(w, IF ok THEN "save" ELSE "saveFailed")
  /\ UNCHANGED <<turnVars, redis, crashes>>

SaveResult(w) ==
  /\ worker[w].pc = "save"
  /\ \/ /\ result' = [result EXCEPT ![worker[w].job] = "completed"]
        /\ \E ack \in Acks("redis") : Goto(w, IF ack THEN "ack" ELSE "saveFailed")
     \/ "redis" \in Faults /\ Goto(w, "saveFailed") /\ UNCHANGED result
  /\ UNCHANGED <<turnVars, pending, processing, source, crashes>>

(* LREM of one copy.  When it fails after a summary was saved, the handler *)
(* records a failure over the summary.                                     *)
Acknowledge(w) ==
  /\ worker[w].pc = "ack"
  /\ \/ /\ processing' = processing (-) SetToBag({worker[w].job})
        /\ \E ack \in Acks("redis") : IF ack THEN Rest(w) ELSE Goto(w, "saveFailed")
     \/ "redis" \in Faults /\ Goto(w, "saveFailed") /\ UNCHANGED processing
  /\ UNCHANGED <<turnVars, pending, source, result, crashes>>

(* Mutant of SaveFailure: no result.                                       *)
SwallowFailure(w) ==
  /\ worker[w].pc = "saveFailed"
  /\ Goto(w, "ackFailed")
  /\ UNCHANGED <<turnVars, redis, crashes>>

(* The handler of any exception.  Its own calls are not protected: when    *)
(* they fail the worker ends.                                              *)
SaveFailure(w) ==
  /\ worker[w].pc = "saveFailed"
  /\ result' = [result EXCEPT ![worker[w].job] = "failed"]
  /\ Goto(w, "ackFailed")
  /\ UNCHANGED <<turnVars, pending, processing, source, crashes>>

AcknowledgeFailure(w) ==
  /\ worker[w].pc = "ackFailed"
  /\ processing' = processing (-) SetToBag({worker[w].job})
  /\ Rest(w)
  /\ UNCHANGED <<turnVars, pending, source, result, crashes>>

(* A worker is killed, or an exception leaves its loop; what it reserved   *)
(* stays in the second list, which nothing reads.                          *)
WorkerDies(w) ==
  /\ worker[w].pc # "down"
  /\ crashes < MaxCrashes
  /\ crashes' = crashes + 1
  /\ worker' = [worker EXCEPT ![w] = [pc |-> "down", job |-> None]]
  /\ UNCHANGED <<turnVars, redis>>

WorkerRestarts(w) ==
  /\ worker[w].pc = "down"
  /\ Rest(w)
  /\ UNCHANGED <<turnVars, redis, crashes>>

-----------------------------------------------------------------------------
(* Keys expire 24 hours after their last use: the source of a job that     *)
(* waits that long, or everything about a conversation nobody continues.   *)
(* A result is younger than the conversation's last turn that did not see  *)
(* it, so that it does not expire alone.                                   *)
ExpireSource ==
  /\ "expiry" \in Faults
  /\ \E r \in source : source' = source \ {r}
  /\ UNCHANGED <<turnVars, pending, processing, result, worker, crashes>>

ExpireConversation ==
  /\ "expiry" \in Faults
  /\ pc = "idle" /\ memory # Empty
  /\ memory' = Empty /\ mem' = Empty /\ upd' = Empty
  /\ source' = {}
  /\ result' = [j \in JobIds |-> "none"]
  /\ UNCHANGED <<pc, todo, rounds, pending, processing, worker, crashes>>

Turn == \/ StartTurn \/ ApplyResult \/ ApplyEnds \/ Prune \/ OpenRound \/ RecordAnswer
        \/ Detect \/ EnqueueJob \/ EnqueueEnds \/ Save \/ EndTurn

Work(w) == \/ Reserve(w) \/ LoadSource(w) \/ Summarize(w) \/ SaveResult(w)
           \/ Acknowledge(w) \/ SaveFailure(w) \/ AcknowledgeFailure(w)

Next == \/ Turn
        \/ CrashTurn
        \/ \E w \in Workers : Work(w) \/ WorkerDies(w) \/ WorkerRestarts(w)
        \/ ExpireSource
        \/ ExpireConversation

Spec == Init /\ [][Next]_vars

(* A worker loops for as long as it lives and is restarted by whatever     *)
(* manages its process.  Users need not continue a conversation.           *)
FairSpec == /\ Spec
            /\ \A w \in Workers : WF_vars(Work(w)) /\ WF_vars(WorkerRestarts(w))

-----------------------------------------------------------------------------
(* Properties.                                                             *)

(* Every variable keeps its type.                                          *)
TypeOK ==
  /\ memory \in States /\ mem \in States /\ upd \in States
  /\ pc \in {"idle", "apply", "prune", "context", "agents", "detect", "enqueue", "end"}
  /\ todo \subseteq Rounds
  /\ rounds \in 0..MaxRounds
  /\ pending \in Seq(JobIds)
  /\ BagToSet(processing) \subseteq JobIds
  /\ source \subseteq Rounds
  /\ result \in [JobIds -> {"none", "completed", "failed"}]
  /\ worker \in [Workers -> [pc : {"idle", "down", "load", "summarize", "save", "ack",
                                   "saveFailed", "ackFailed"},
                             job : JobIds \cup {None}]]
  /\ crashes \in 0..MaxCrashes

(* Unless everything expires, an answered round is only forgotten, without *)
(* messages and without summary, when a worker has dealt with it and every *)
(* summary that is left is of a newer round: no result that fails or comes *)
(* late and no crash removes messages that have no summary, and summaries  *)
(* are dropped oldest first.                                               *)
Remembered(m) == m.answered \cup m.summaries
ForgetsOldestFirst ==
  [][ memory' # Empty =>
        \A r \in Remembered(memory) \ Remembered(memory') :
          /\ \E j \in JobIds : j[1] = r /\ result[j] # "none"
          /\ \A s \in memory'.summaries : r < s ]_vars

(* The last Keep answered rounds have their messages whole, although jobs  *)
(* are queued by turns that die and results arrive at any later turn.      *)
RecentRoundsStayWhole ==
  \A r \in memory.summaries : Cardinality({s \in Remembered(memory) : s > r}) >= Keep

(* A job the conversation waits for is in one of the two lists or has its  *)
(* result: no crash, lost answer or repeated acknowledgement loses it.     *)
QueuedJobsExist ==
  \A r \in RoundsWith(memory, "queued") :
    LET j == JobId(memory, r)
    IN  j \in Range(pending) \/ BagIn(j, processing) \/ result[j] # "none"

(* Jobs wait their turn and no longer, although workers die and leave      *)
(* theirs behind.                                                          *)
PendingJobsAreTaken ==
  \A j \in JobIds : j \in Range(pending) ~> j \notin Range(pending)

(* Every queued job gets a result, in spite of crashes: what the queue's   *)
(* documentation promises.                                                 *)
JobsGetResults ==
  \A j \in JobIds : j \in Range(pending) ~> result[j] # "none"

(* Every queued job gets a result, a summary or a failure, if no worker    *)
(* ever dies.                                                              *)
JobsGetResultsIfWorkersLive ==
  (\A w \in Workers : [](worker[w].pc # "down")) => JobsGetResults
=============================================================================
