----------------------- MODULE ShortTermMemory_proofs -----------------------
(***************************************************************************)
(* Proofs about ShortTermMemory, for any number of workers, rounds, rounds *)
(* to keep and crashes and any set of faults.                              *)
(*                                                                         *)
(* The invariant says of each of the three states a conversation has at a  *)
(* time (saved, after the last node, and being made by the running node)   *)
(* that it is sound: what is summarised or about to be has enough rounds   *)
(* after it, every summary has its result, and every job it waits for is   *)
(* somewhere.  A job id is used once, also across a conversation that      *)
(* expired, because no job is as late as the round of a running turn.      *)
(***************************************************************************)
EXTENDS ShortTermMemory, FiniteSetTheorems, WellFoundedInduction, TLAPS

-----------------------------------------------------------------------------
(* The inductive invariant: a state m of the conversation.                 *)
Later(m, r)  == {s \in Remembered(m) : s > r}
Enough(m, r) == Cardinality(Later(m, r)) >= Keep
Dealt(r)     == \E j \in JobIds : j[1] = r /\ result[j] # "none"
Held(j)      == j \in Range(pending) \/ BagIn(j, processing) \/ result[j] # "none"
Waiting(m, r) == m.jobs[r].status \in {"pending", "queued"}

Shape(m) ==
  /\ m \in States
  /\ m.answered \subseteq 1..rounds
  /\ \A r \in Rounds : m.jobs[r].status # "none" => r < m.jobs[r].by /\ m.jobs[r].by \in 1..rounds

(* What is summarised, or may soon be, has Keep rounds after it.           *)
Spaced(m) == \A r \in Rounds : r \in m.summaries \/ Waiting(m, r) => Enough(m, r)

Backed(m)  == \A r \in m.summaries : Dealt(r)
Tracked(m) == \A r \in Rounds : m.jobs[r].status = "queued" => Held(JobId(m, r))

(* A job about to be acknowledged has its result, if m waits for it.       *)
Acked(m) ==
  \A w \in Workers : \A r \in Rounds :
    worker[w].pc \in {"ack", "ackFailed"} /\ Waiting(m, r) /\ JobId(m, r) = worker[w].job
      => result[worker[w].job] # "none"

Sound(m) == Shape(m) /\ Spaced(m) /\ Backed(m) /\ Tracked(m) /\ Acked(m)

(* The three states, by the node the turn is in.                           *)
Along ==
  /\ pc \in {"apply", "prune", "context"} => rounds < MaxRounds
  /\ pc \in {"agents", "detect", "enqueue", "end"} => rounds >= 1
  /\ pc \in {"idle", "apply"} => mem = memory
  /\ pc \notin {"apply", "enqueue"} => upd = mem
  /\ pc = "apply" => todo \subseteq RoundsWith(mem, "queued") \cap RoundsWith(upd, "queued")
  /\ pc = "enqueue" => todo \subseteq RoundsWith(mem, "pending") \cap RoundsWith(upd, "pending")
  /\ \A r \in Rounds : upd.jobs[r].by = mem.jobs[r].by
  /\ pc = "apply" => Remembered(mem) \subseteq Remembered(upd)
  /\ pc = "prune" => Remembered(memory) \subseteq Remembered(mem)
  /\ pc = "enqueue" => upd.summaries = mem.summaries /\ upd.answered = mem.answered

(* What the turn has forgotten and not yet saved.                          *)
Forgotten ==
  \A r \in Remembered(memory) \ Remembered(mem) :
    Dealt(r) /\ \A s \in mem.summaries : r < s

Past(j) == j[2] <= rounds /\ (pc \in {"agents", "detect"} => j[2] < rounds)
Numbered ==
  /\ IsABag(processing)
  /\ \A j \in Range(pending) : Past(j)
  /\ \A w \in Workers :
       worker[w].pc \notin {"idle", "down"} => worker[w].job \in JobIds /\ Past(worker[w].job)

IInv == TypeOK /\ Sound(memory) /\ Sound(mem) /\ Sound(upd) /\ Along /\ Forgotten /\ Numbered

-----------------------------------------------------------------------------
(* Sets of rounds, sequences and bags.                                     *)
LEMMA RoundsFinite == IsFiniteSet(Rounds) /\ Rounds \subseteq Nat
BY ConstantsAssumption, FS_Interval DEF Rounds

LEMMA StatesWithout ==
  ASSUME NEW m \in States, NEW dropped \in SUBSET Rounds
  PROVE  /\ Without(m, dropped) \in States
         /\ Without(m, dropped).answered = m.answered
         /\ Without(m, dropped).summaries = m.summaries \ dropped
         /\ \A r \in Rounds : IF r \in dropped THEN Without(m, dropped).jobs[r] = NoJob
                              ELSE Without(m, dropped).jobs[r] = m.jobs[r]
BY DEF Without, States, NoJob, JobStatus

(* More that is remembered is more that is later.                          *)
LEMMA EnoughGrows ==
  ASSUME NEW m, NEW n, NEW r, NEW q, Later(m, r) \subseteq Later(n, q), Remembered(n) \subseteq Rounds,
         Enough(m, r)
  PROVE  Enough(n, q)
<1>1. Later(n, q) \subseteq Rounds
  BY DEF Later
<1>2. IsFiniteSet(Later(n, q))
  BY <1>1, RoundsFinite, FS_Subset
<1>3. Cardinality(Later(m, r)) <= Cardinality(Later(n, q))
  BY <1>2, FS_Subset
<1>4. Cardinality(Later(m, r)) \in Nat /\ Cardinality(Later(n, q)) \in Nat
  BY <1>2, FS_Subset, FS_CardinalityType
<1> QED BY <1>3, <1>4, ConstantsAssumption DEF Enough

LEMMA MinFacts ==
  ASSUME NEW S \in SUBSET Rounds, S # {}
  PROVE  Min(S) \in S /\ \A y \in S : Min(S) <= y
<1>1. S \subseteq Nat
  BY RoundsFinite
<1>2. \E x \in S : \A y \in S : ~(<<y, x>> \in OpToRel(<, Nat))
  BY <1>1, NatLessThanWellFounded, WFMin
<1>3. PICK x \in S : \A y \in S : ~(<<y, x>> \in OpToRel(<, Nat))
  BY <1>2
<1>4. \A y \in S : x =< y
  <2> SUFFICES ASSUME NEW y \in S PROVE x =< y
    OBVIOUS
  <2>1. x \in Nat /\ y \in Nat
    BY <1>1
  <2>2. ~(y < x)
    BY <1>3, <2>1 DEF OpToRel
  <2> QED BY <2>1, <2>2
<1> QED BY <1>4 DEF Min

LEMMA GreatestIn ==
  ASSUME NEW S \in SUBSET Rounds, S # {}
  PROVE  \E d \in S : \A e \in S : e <= d
<1> DEFINE Above == {n \in Rounds : \A e \in S : e <= n}
<1>1. MaxRounds \in Above
  BY ConstantsAssumption DEF Rounds
<1>2. Above \in SUBSET Rounds /\ Above # {}
  BY <1>1
<1> DEFINE d == Min(Above)
<1>3. d \in Above
  BY <1>2, MinFacts
<1>4. \A y \in Above : d <= y
  BY <1>2, MinFacts
<1>5. \A e \in S : e \in Nat /\ e >= 1 /\ e <= d
  BY <1>3, ConstantsAssumption DEF Rounds
<1>6. d \in Nat /\ d >= 1 /\ d <= MaxRounds
  BY <1>3, ConstantsAssumption DEF Rounds
<1> HIDE DEF d
<1>7. d \in S
  <2> SUFFICES ASSUME d \notin S PROVE FALSE
    OBVIOUS
  <2>1. \A e \in S : e <= d - 1
    BY <1>5, <1>6
  <2>2. d - 1 \in Rounds
    <3>1. PICK e \in S : TRUE
      OBVIOUS
    <3>2. e \in Nat /\ e >= 1 /\ e <= d - 1
      BY <1>5, <2>1, <3>1
    <3> QED BY <1>6, <3>2, ConstantsAssumption DEF Rounds
  <2>3. d - 1 \in Above
    BY <2>1, <2>2
  <2> QED BY <1>4, <1>6, <2>3
<1> QED BY <1>5, <1>7

LEMMA RangeOfAppend ==
  ASSUME NEW s \in Seq(JobIds), NEW j \in JobIds
  PROVE  Append(s, j) \in Seq(JobIds) /\ Range(Append(s, j)) = Range(s) \cup {j}
<1> HIDE DEF JobIds
<1>1. /\ Append(s, j) \in Seq(JobIds) /\ Len(s) \in Nat /\ Len(Append(s, j)) = Len(s) + 1
      /\ DOMAIN s = 1..Len(s) /\ DOMAIN Append(s, j) = 1..(Len(s) + 1)
      /\ Append(s, j)[Len(s) + 1] = j /\ \A n \in 1..Len(s) : Append(s, j)[n] = s[n]
  OBVIOUS
<1>2. 1..(Len(s) + 1) = (1..Len(s)) \cup {Len(s) + 1}
  BY <1>1
<1> QED BY <1>1, <1>2 DEF Range

LEMMA RangeOfTail ==
  ASSUME NEW s \in Seq(JobIds), s # <<>>
  PROVE  Tail(s) \in Seq(JobIds) /\ Head(s) \in JobIds /\ Range(s) = Range(Tail(s)) \cup {Head(s)}
<1> HIDE DEF JobIds
<1>1. /\ Tail(s) \in Seq(JobIds) /\ Len(s) \in Nat /\ Len(s) > 0 /\ Len(Tail(s)) = Len(s) - 1
      /\ DOMAIN s = 1..Len(s) /\ DOMAIN Tail(s) = 1..(Len(s) - 1) /\ Head(s) = s[1] /\ s[1] \in JobIds
      /\ \A n \in 1..(Len(s) - 1) : Tail(s)[n] = s[n + 1]
  OBVIOUS
<1>2. \A n \in 1..Len(s) : n = 1 \/ (n - 1 \in 1..(Len(s) - 1) /\ Tail(s)[n - 1] = s[n])
  BY <1>1
<1>3. \A n \in 1..(Len(s) - 1) : n + 1 \in 1..Len(s)
  BY <1>1
<1>4. ASSUME NEW x \in Range(s) PROVE x \in Range(Tail(s)) \cup {Head(s)}
  <2>1. PICK n \in 1..Len(s) : x = s[n]
    BY <1>1, <1>4 DEF Range
  <2>2. CASE n = 1
    BY <1>1, <2>1, <2>2
  <2>3. CASE n - 1 \in 1..(Len(s) - 1) /\ Tail(s)[n - 1] = s[n]
    <3>1. Tail(s)[n - 1] \in Range(Tail(s))
      BY <1>1, <2>3 DEF Range
    <3> QED BY <2>1, <2>3, <3>1
  <2> QED BY <1>2, <2>2, <2>3
<1>5. ASSUME NEW x \in Range(Tail(s)) \cup {Head(s)} PROVE x \in Range(s)
  BY <1>1, <1>3, <1>5 DEF Range
<1> QED BY <1>1, <1>4, <1>5

LEMMA BagFacts ==
  ASSUME NEW B, NEW j
  PROVE  /\ DOMAIN (B (+) SetToBag({j})) = DOMAIN B \cup {j}
         /\ DOMAIN (B (-) SetToBag({j})) \subseteq DOMAIN B
         /\ IsABag(B) => /\ DOMAIN B \subseteq DOMAIN (B (-) SetToBag({j})) \cup {j}
                         /\ IsABag(B (+) SetToBag({j}))
                         /\ IsABag(B (-) SetToBag({j}))
BY DEF (+), (-), SetToBag, IsABag

(* A job's status is set, and nothing else of the state.                   *)
LEMMA StatusIsSet ==
  ASSUME NEW m \in States, NEW r \in Rounds, NEW st \in JobStatus
  PROVE  /\ SetStatus(m, r, st) \in States
         /\ SetStatus(m, r, st).msgs = m.msgs /\ SetStatus(m, r, st).answered = m.answered
         /\ SetStatus(m, r, st).summaries = m.summaries
         /\ SetStatus(m, r, st).jobs[r].status = st
         /\ \A q \in Rounds : /\ SetStatus(m, r, st).jobs[q].by = m.jobs[q].by
                              /\ q # r => SetStatus(m, r, st).jobs[q].status = m.jobs[q].status
BY DEF SetStatus, States

-----------------------------------------------------------------------------
(* What the other processes do leaves a state sound.                       *)
LEMMA DealtStays ==
  ASSUME \A j \in JobIds : result[j] # "none" => result'[j] # "none"
  PROVE  (\A r : Dealt(r) => Dealt(r)') /\ (\A m : Backed(m) => Backed(m)')
<1>1. \A r : Dealt(r) => Dealt(r)'
  BY DEF Dealt
<1> QED BY <1>1 DEF Backed

LEMMA ShapeStays ==
  ASSUME rounds \in Nat, rounds' \in Nat, rounds <= rounds'
  PROVE  \A m : Shape(m) => Shape(m)'
<1>1. 1..rounds \subseteq 1..rounds'
  OBVIOUS
<1> QED BY <1>1 DEF Shape

LEMMA JobIdOfState ==
  ASSUME rounds \in 0..MaxRounds
  PROVE  \A m : \A r \in Rounds : Shape(m) /\ m.jobs[r].status # "none" => JobId(m, r) \in JobIds
<1> SUFFICES ASSUME NEW m, NEW r \in Rounds, Shape(m), m.jobs[r].status # "none"
             PROVE  JobId(m, r) \in JobIds
  OBVIOUS
<1>1. r < m.jobs[r].by /\ m.jobs[r].by \in Rounds
  BY ConstantsAssumption DEF Shape, Rounds
<1> QED BY <1>1 DEF JobId, JobIds

(* The turn changes at most what waits in the queue.                       *)
LEMMA SoundStays ==
  ASSUME rounds \in Nat, rounds' \in Nat, rounds <= rounds',
         UNCHANGED <<processing, result, worker>>, Range(pending) \subseteq Range(pending')
  PROVE  \A m : Sound(m) => Sound(m)'
<1> SUFFICES ASSUME NEW m, Sound(m) PROVE Sound(m)'
  OBVIOUS
<1>1. Shape(m)'
  BY ShapeStays DEF Sound
<1>2. Backed(m)'
  BY DealtStays DEF Sound
<1>3. Tracked(m)'
  BY DEF Sound, Tracked, Held
<1>4. Acked(m)'
  BY DEF Sound, Acked
<1> QED BY <1>1, <1>2, <1>3, <1>4 DEF Sound

(* A worker moves on: it takes nothing that is not queued, no result is    *)
(* taken back, and a copy is only removed of a job about to be             *)
(* acknowledged.                                                           *)
LEMMA WorkerMoves ==
  ASSUME IInv, TypeOK', NEW w \in Workers, UNCHANGED turnVars,
         \A j \in JobIds : result[j] # "none" => result'[j] # "none",
         \A v \in Workers : v # w => worker'[v] = worker[v],
         worker'[w].pc \notin {"idle", "down"} => worker'[w].job \in JobIds /\ Past(worker'[w].job),
         worker'[w].pc \in {"ack", "ackFailed"} => result'[worker'[w].job] # "none",
         Range(pending') \subseteq Range(pending), IsABag(processing'),
         \A j \in JobIds : Held(j) =>
           \/ Held(j)'
           \/ worker[w].pc \in {"ack", "ackFailed"} /\ j = worker[w].job
  PROVE  IInv'
<1>1. UNCHANGED <<memory, mem, upd, pc, todo, rounds>> /\ rounds \in 0..MaxRounds /\ rounds \in Nat
  BY ConstantsAssumption DEF turnVars, IInv, TypeOK
<1>2. ASSUME NEW m, Sound(m) PROVE Sound(m)'
  <2>1. Shape(m)'
    BY <1>1, <1>2, ShapeStays DEF Sound
  <2>2. Backed(m)'
    BY <1>2, DealtStays DEF Sound
  <2>3. Tracked(m)'
    <3> SUFFICES ASSUME NEW r \in Rounds, m.jobs[r].status = "queued" PROVE Held(JobId(m, r))'
      BY DEF Tracked
    <3>1. JobId(m, r) \in JobIds
      BY <1>1, <1>2, JobIdOfState DEF Sound
    <3>2. Held(JobId(m, r))
      BY <1>2 DEF Sound, Tracked
    <3>3. CASE worker[w].pc \in {"ack", "ackFailed"} /\ JobId(m, r) = worker[w].job
      <4>1. result[JobId(m, r)] # "none"
        BY <1>2, <3>3 DEF Sound, Acked, Waiting
      <4>2. result'[JobId(m, r)] # "none"
        BY <3>1, <4>1
      <4>3. \A j : result'[j] # "none" => Held(j)'
        BY DEF Held
      <4> QED BY <4>2, <4>3
    <3> QED BY <3>1, <3>2, <3>3
  <2>4. Acked(m)'
    <3> SUFFICES ASSUME NEW v \in Workers, NEW r \in Rounds, worker'[v].pc \in {"ack", "ackFailed"},
                        Waiting(m, r), JobId(m, r) = worker'[v].job
                 PROVE  result'[worker'[v].job] # "none"
      BY DEF Acked
    <3>1. CASE v # w
      <4>1. result[worker[v].job] # "none"
        BY <1>2, <3>1 DEF Sound, Acked
      <4>2. worker[v].job \in JobIds
        BY <3>1 DEF IInv, Numbered
      <4> QED BY <3>1, <4>1, <4>2
    <3> QED BY <3>1
  <2> QED BY <1>2, <2>1, <2>2, <2>3, <2>4 DEF Sound
<1>3. Sound(memory)' /\ Sound(mem)' /\ Sound(upd)'
  BY <1>1, <1>2 DEF IInv
<1>4. Along'
  BY <1>1 DEF IInv, Along, RoundsWith
<1>5. Forgotten'
  BY <1>1, DealtStays DEF IInv, Forgotten
<1>6. Numbered'
  <2>1. \A j : Past(j) <=> Past(j)'
    BY <1>1 DEF Past
  <2> QED BY <2>1 DEF IInv, Numbered
<1> QED BY <1>3, <1>4, <1>5, <1>6 DEF IInv

-----------------------------------------------------------------------------
(* The actions of a worker.                                                *)
LEMMA WorkerType ==
  ASSUME TypeOK, NEW w \in Workers
  PROVE  /\ worker \in [Workers -> [pc : {"idle", "down", "load", "summarize", "save", "ack",
                                          "saveFailed", "ackFailed"},
                                    job : JobIds \cup {None}]]
         /\ \A l \in {"idle", "down", "load", "summarize", "save", "ack", "saveFailed", "ackFailed"},
              j \in JobIds \cup {None} :
              worker' = [worker EXCEPT ![w] = [pc |-> l, job |-> j]] =>
                /\ worker' \in [Workers -> [pc : {"idle", "down", "load", "summarize", "save", "ack",
                                                  "saveFailed", "ackFailed"},
                                            job : JobIds \cup {None}]]
                /\ worker'[w].pc = l /\ worker'[w].job = j
                /\ \A v \in Workers : v # w => worker'[v] = worker[v]
         /\ \A l : Goto(w, l) => worker' = [worker EXCEPT ![w] = [pc |-> l, job |-> worker[w].job]]
<1> HIDE DEF JobIds
<1>1. worker \in [Workers -> [pc : {"idle", "down", "load", "summarize", "save", "ack",
                                    "saveFailed", "ackFailed"},
                              job : JobIds \cup {None}]]
  BY DEF TypeOK
<1>2. \A l : Goto(w, l) => worker' = [worker EXCEPT ![w] = [pc |-> l, job |-> worker[w].job]]
  BY <1>1 DEF Goto
<1> QED BY <1>1, <1>2

LEMMA ReserveGood ==
  ASSUME IInv, NEW w \in Workers, Reserve(w)
  PROVE  IInv'
<1> DEFINE j == Head(pending)
<1>1. /\ pending # <<>> /\ pending' = Tail(pending) /\ processing' = processing (+) SetToBag({j})
      /\ worker' = [worker EXCEPT ![w] = [pc |-> "load", job |-> j]]
      /\ UNCHANGED turnVars /\ UNCHANGED <<source, result, crashes>>
  BY DEF Reserve
<1>2. /\ pending \in Seq(JobIds) /\ TypeOK
  BY DEF IInv, TypeOK
<1>3. /\ pending' \in Seq(JobIds) /\ j \in JobIds
      /\ Range(pending) = Range(pending') \cup {j}
  BY <1>1, <1>2, RangeOfTail
<1> HIDE DEF j
<1>4. /\ worker' \in [Workers -> [pc : {"idle", "down", "load", "summarize", "save", "ack",
                                         "saveFailed", "ackFailed"},
                                   job : JobIds \cup {None}]]
      /\ worker'[w].pc = "load" /\ worker'[w].job = j
      /\ \A v \in Workers : v # w => worker'[v] = worker[v]
  BY <1>1, <1>2, <1>3, WorkerType
<1>5. DOMAIN processing' = DOMAIN processing \cup {j} /\ IsABag(processing')
  BY <1>1, BagFacts DEF IInv, Numbered
<1>6. TypeOK'
  BY <1>1, <1>3, <1>4, <1>5 DEF IInv, TypeOK, turnVars, BagToSet
<1>7. \A i : Held(i) => Held(i)'
  BY <1>1, <1>3, <1>5 DEF Held, BagIn, BagToSet
<1>8. Past(j)
  BY <1>3 DEF IInv, Numbered
<1> QED BY <1>1, <1>3, <1>4, <1>5, <1>6, <1>7, <1>8, WorkerMoves

(* A worker goes on with its job, and may record a result of it.           *)
LEMMA WorkerGoesOn ==
  ASSUME IInv, NEW w \in Workers, worker[w].pc \notin {"idle", "down"},
         NEW l \in {"summarize", "save", "ack", "saveFailed", "ackFailed"}, Goto(w, l),
         UNCHANGED turnVars, UNCHANGED <<pending, processing, source, crashes>>,
         \/ UNCHANGED result /\ l \notin {"ack", "ackFailed"}
         \/ \E st \in {"completed", "failed"} : result' = [result EXCEPT ![worker[w].job] = st]
  PROVE  IInv'
<1> DEFINE j == worker[w].job
<1>1. j \in JobIds /\ Past(j) /\ TypeOK
  BY DEF IInv, Numbered
<1>2. result \in [JobIds -> {"none", "completed", "failed"}]
  BY DEF IInv, TypeOK
<1>3. /\ result' \in [JobIds -> {"none", "completed", "failed"}]
      /\ \A i \in JobIds : result[i] # "none" => result'[i] # "none"
      /\ l \in {"ack", "ackFailed"} => result'[j] # "none"
  <2> HIDE DEF JobIds
  <2> QED BY <1>1, <1>2
<1>4. worker' = [worker EXCEPT ![w] = [pc |-> l, job |-> j]]
  BY <1>1, WorkerType
<1>5. /\ worker' \in [Workers -> [pc : {"idle", "down", "load", "summarize", "save", "ack",
                                         "saveFailed", "ackFailed"},
                                   job : JobIds \cup {None}]]
      /\ worker'[w].pc = l /\ worker'[w].job = j
      /\ \A v \in Workers : v # w => worker'[v] = worker[v]
  BY <1>1, <1>4, WorkerType
<1> HIDE DEF j
<1>6. TypeOK'
  BY <1>3, <1>5 DEF IInv, TypeOK, turnVars, BagToSet
<1>7. \A i \in JobIds : Held(i) => Held(i)'
  BY <1>3 DEF Held, BagIn, BagToSet
<1>8. IsABag(processing')
  BY DEF IInv, Numbered
<1> QED BY <1>1, <1>3, <1>5, <1>6, <1>7, <1>8, WorkerMoves

(* A worker stops, starts, or gives up its job, of which one copy may be   *)
(* removed.                                                                *)
LEMMA WorkerLetsGo ==
  ASSUME IInv, NEW w \in Workers, NEW l \in {"idle", "down"},
         worker' = [worker EXCEPT ![w] = [pc |-> l, job |-> None]],
         UNCHANGED turnVars, UNCHANGED <<pending, source, result>>, crashes' \in 0..MaxCrashes,
         \/ UNCHANGED processing
         \/ /\ worker[w].pc \in {"ack", "ackFailed"}
            /\ processing' = processing (-) SetToBag({worker[w].job})
  PROVE  IInv'
<1>1. TypeOK /\ IsABag(processing)
  BY DEF IInv, Numbered
<1>2. /\ worker' \in [Workers -> [pc : {"idle", "down", "load", "summarize", "save", "ack",
                                         "saveFailed", "ackFailed"},
                                   job : JobIds \cup {None}]]
      /\ worker'[w].pc = l
      /\ \A v \in Workers : v # w => worker'[v] = worker[v]
  BY <1>1, WorkerType
<1>3. /\ IsABag(processing') /\ DOMAIN processing' \subseteq DOMAIN processing
      /\ \A j : j \in DOMAIN processing => \/ j \in DOMAIN processing'
                                           \/ worker[w].pc \in {"ack", "ackFailed"} /\ j = worker[w].job
  <2>1. CASE UNCHANGED processing
    BY <1>1, <2>1
  <2>2. CASE /\ worker[w].pc \in {"ack", "ackFailed"}
             /\ processing' = processing (-) SetToBag({worker[w].job})
    BY <1>1, <2>2, BagFacts
  <2> QED BY <2>1, <2>2
<1>4. TypeOK'
  BY <1>2, <1>3 DEF IInv, TypeOK, turnVars, BagToSet
<1>5. \A j \in JobIds : Held(j) => \/ Held(j)'
                                   \/ worker[w].pc \in {"ack", "ackFailed"} /\ j = worker[w].job
  BY <1>3 DEF Held, BagIn, BagToSet
<1> QED BY <1>2, <1>3, <1>4, <1>5, WorkerMoves

(* The acknowledgement may be carried out and not be heard of.             *)
LEMMA AcknowledgeGood ==
  ASSUME IInv, NEW w \in Workers, Acknowledge(w)
  PROVE  IInv'
<1>1. /\ worker[w].pc = "ack" /\ UNCHANGED turnVars /\ UNCHANGED <<pending, source, result, crashes>>
      /\ \/ processing' = processing (-) SetToBag({worker[w].job}) /\ (Rest(w) \/ Goto(w, "saveFailed"))
         \/ Goto(w, "saveFailed") /\ UNCHANGED processing
  BY DEF Acknowledge
<1>2. TypeOK /\ IsABag(processing) /\ worker[w].job \in JobIds /\ Past(worker[w].job)
  BY <1>1 DEF IInv, Numbered
<1>3. crashes \in 0..MaxCrashes
  BY DEF IInv, TypeOK
<1>4. CASE Rest(w) /\ processing' = processing (-) SetToBag({worker[w].job})
  BY <1>1, <1>3, <1>4, WorkerLetsGo DEF Rest
<1>5. CASE Goto(w, "saveFailed")
  <2>1. /\ worker' \in [Workers -> [pc : {"idle", "down", "load", "summarize", "save", "ack",
                                           "saveFailed", "ackFailed"},
                                     job : JobIds \cup {None}]]
        /\ worker'[w].pc = "saveFailed" /\ worker'[w].job = worker[w].job
        /\ \A v \in Workers : v # w => worker'[v] = worker[v]
    BY <1>2, <1>5, WorkerType
  <2>2. /\ IsABag(processing') /\ DOMAIN processing' \subseteq DOMAIN processing
        /\ DOMAIN processing \subseteq DOMAIN processing' \cup {worker[w].job}
    <3>1. CASE UNCHANGED processing
      BY <1>2, <3>1
    <3>2. CASE processing' = processing (-) SetToBag({worker[w].job})
      BY <1>2, <3>2, BagFacts
    <3> QED BY <1>1, <3>1, <3>2
  <2>3. TypeOK'
    BY <1>1, <2>1, <2>2 DEF IInv, TypeOK, turnVars, BagToSet
  <2>4. \A j \in JobIds : Held(j) => Held(j)' \/ j = worker[w].job
    BY <1>1, <2>2 DEF Held, BagIn, BagToSet
  <2> QED BY <1>1, <1>2, <2>1, <2>2, <2>3, <2>4, WorkerMoves
<1> QED BY <1>1, <1>4, <1>5

LEMMA WorkerStepGood ==
  ASSUME IInv, NEW w \in Workers, Work(w) \/ WorkerDies(w) \/ WorkerRestarts(w)
  PROVE  IInv'
<1>0. crashes \in 0..MaxCrashes
  BY DEF IInv, TypeOK
<1>1. CASE Reserve(w)
  BY <1>1, ReserveGood
<1>2. CASE LoadSource(w)
  BY <1>2, WorkerGoesOn DEF LoadSource, redis
<1>3. CASE Summarize(w)
  <2>1. Goto(w, "save") \/ Goto(w, "saveFailed")
    BY <1>3 DEF Summarize
  <2> QED BY <1>3, <2>1, WorkerGoesOn DEF Summarize, redis
<1>4. CASE SaveResult(w)
  <2>1. \/ Goto(w, "saveFailed") /\ UNCHANGED result
        \/ /\ result' = [result EXCEPT ![worker[w].job] = "completed"]
           /\ Goto(w, "ack") \/ Goto(w, "saveFailed")
    BY <1>4 DEF SaveResult
  <2> QED BY <1>4, <2>1, WorkerGoesOn DEF SaveResult
<1>5. CASE Acknowledge(w)
  BY <1>5, AcknowledgeGood
<1>6. CASE SaveFailure(w)
  BY <1>6, WorkerGoesOn DEF SaveFailure
<1>7. CASE AcknowledgeFailure(w)
  BY <1>0, <1>7, WorkerLetsGo DEF AcknowledgeFailure, Rest
<1>8. CASE WorkerDies(w)
  <2>1. crashes' \in 0..MaxCrashes
    BY <1>0, <1>8, ConstantsAssumption DEF WorkerDies
  <2> QED BY <1>8, <2>1, WorkerLetsGo DEF WorkerDies, redis
<1>9. CASE WorkerRestarts(w)
  BY <1>0, <1>9, WorkerLetsGo DEF WorkerRestarts, Rest, redis
<1> QED BY <1>1, <1>2, <1>3, <1>4, <1>5, <1>6, <1>7, <1>8, <1>9 DEF Work
-----------------------------------------------------------------------------
(* The turn.  A step of it leaves the workers and the results alone.       *)
LEMMA TurnStep ==
  ASSUME IInv, UNCHANGED <<processing, result, worker>>,
         pending' \in Seq(JobIds), Range(pending) \subseteq Range(pending'),
         source' \subseteq Rounds, crashes' \in 0..MaxCrashes,
         rounds' \in 0..MaxRounds, rounds <= rounds',
         pc' \in {"idle", "apply", "prune", "context", "agents", "detect", "enqueue", "end"},
         todo' \subseteq Rounds, memory' \in {memory, mem},
         Sound(mem)', Sound(upd)', Along', Forgotten',
         pc' \in {"agents", "detect"} => pc \in {"agents", "detect"} \/ rounds < rounds',
         \A j \in Range(pending') : j \in Range(pending) \/ Past(j)'
  PROVE  IInv'
<1>1. rounds \in Nat /\ rounds' \in Nat
  BY ConstantsAssumption DEF IInv, TypeOK
<1>2. Sound(memory)'
  <2>1. \A m : Sound(m) => Sound(m)'
    BY <1>1, SoundStays
  <2>2. Sound(memory) /\ Sound(mem)
    BY DEF IInv
  <2> QED BY <2>1, <2>2
<1>3. memory' \in States /\ mem' \in States /\ upd' \in States
  BY <1>2 DEF Sound, Shape
<1>4. TypeOK'
  BY <1>3 DEF IInv, TypeOK, BagToSet
<1>5. Numbered'
  <2>1. \A j \in JobIds : Past(j) => Past(j)'
    <3> SUFFICES ASSUME NEW j \in JobIds, Past(j) PROVE Past(j)'
      OBVIOUS
    <3>1. j[2] \in Nat
      BY RoundsFinite DEF JobIds
    <3>2. j[2] <= rounds /\ (pc \in {"agents", "detect"} => j[2] < rounds)
      BY DEF Past
    <3>3. j[2] <= rounds'
      BY <1>1, <3>1, <3>2
    <3>4. pc' \in {"agents", "detect"} => j[2] < rounds'
      BY <1>1, <3>1, <3>2
    <3> QED BY <3>3, <3>4 DEF Past
  <2>2. \A j \in Range(pending) : j \in JobIds
    <3> HIDE DEF JobIds
    <3> QED BY DEF IInv, TypeOK, Range
  <2> QED BY <2>1, <2>2 DEF IInv, Numbered
<1> QED BY <1>2, <1>4, <1>5 DEF IInv

(* The statuses of jobs and the summaries of a state.                      *)
LEMMA StatusEdited ==
  ASSUME NEW m, NEW r \in Rounds, NEW st \in {"applied", "failed"}, Sound(m), m.jobs[r].status # "none"
  PROVE  Sound(SetStatus(m, r, st))
<1> DEFINE n == SetStatus(m, r, st)
<1>1. m \in States /\ st \in JobStatus
  BY DEF Sound, Shape, JobStatus
<1>2. /\ n \in States /\ n.answered = m.answered /\ n.summaries = m.summaries
      /\ n.jobs[r].status = st
      /\ \A q \in Rounds : /\ n.jobs[q].by = m.jobs[q].by
                           /\ q # r => n.jobs[q].status = m.jobs[q].status
  BY <1>1, StatusIsSet
<1> HIDE DEF n
<1>3. \A q \in Rounds : JobId(n, q) = JobId(m, q)
  BY <1>2 DEF JobId
<1>4. \A q \in Rounds : Waiting(n, q) => Waiting(m, q)
  BY <1>2 DEF Waiting
<1>5. Shape(n)
  BY <1>2 DEF Sound, Shape
<1>6. Spaced(n)
  BY <1>2, <1>4 DEF Sound, Spaced, Enough, Later, Remembered
<1>7. Backed(n)
  BY <1>2 DEF Sound, Backed
<1>8. Tracked(n)
  <2>1. \A q \in Rounds : n.jobs[q].status = "queued" => m.jobs[q].status = "queued"
    BY <1>2
  <2> QED BY <1>3, <2>1 DEF Sound, Tracked
<1>9. Acked(n)
  BY <1>3, <1>4 DEF Sound, Acked
<1> QED BY <1>5, <1>6, <1>7, <1>8, <1>9 DEF Sound, n

LEMMA SummaryReplacesMessages ==
  ASSUME NEW m, NEW r \in Rounds, Sound(m), Enough(m, r), Dealt(r)
  PROVE  LET n == [m EXCEPT !.summaries = @ \cup {r}, !.msgs = @ \ {r}, !.answered = @ \ {r}]
         IN  Sound(n) /\ Remembered(m) \subseteq Remembered(n) /\ n.jobs = m.jobs
<1> DEFINE n == [m EXCEPT !.summaries = @ \cup {r}, !.msgs = @ \ {r}, !.answered = @ \ {r}]
<1>1. m \in States
  BY DEF Sound, Shape
<1>2. /\ n \in States /\ n.jobs = m.jobs /\ n.answered = m.answered \ {r}
      /\ n.summaries = m.summaries \cup {r}
  BY <1>1 DEF States
<1> HIDE DEF n
<1>3. Remembered(m) \subseteq Remembered(n) /\ Remembered(n) \subseteq Rounds
  BY <1>2 DEF Remembered, States
<1>4. \A q \in Rounds : Enough(m, q) => Enough(n, q)
  <2>1. \A q \in Rounds : Later(m, q) \subseteq Later(n, q)
    BY <1>3 DEF Later
  <2> QED BY <1>3, <2>1, EnoughGrows
<1>5. Shape(n)
  BY <1>2 DEF Sound, Shape
<1>6. Spaced(n)
  BY <1>2, <1>4 DEF Sound, Spaced, Waiting
<1>7. Backed(n)
  BY <1>2 DEF Sound, Backed
<1>8. Tracked(n)
  BY <1>2 DEF Sound, Tracked, JobId
<1>9. Acked(n)
  BY <1>2 DEF Sound, Acked, JobId, Waiting
<1>10. Sound(n)
  BY <1>5, <1>6, <1>7, <1>8, <1>9 DEF Sound
<1> QED BY <1>2, <1>3, <1>10 DEF n

(* The oldest summaries are dropped: what has Keep rounds after it keeps   *)
(* as many, those after the newest of what is dropped.                     *)
LEMMA PrunedIsSound ==
  ASSUME NEW m, Sound(m), NEW dropped \in SUBSET m.summaries,
         \A r \in dropped, s \in m.summaries \ dropped : r < s
  PROVE  Sound(Without(m, dropped))
<1> DEFINE n == Without(m, dropped)
<1>1. m \in States /\ dropped \subseteq Rounds
  BY DEF Sound, Shape, States
<1>2. /\ n \in States /\ n.answered = m.answered /\ n.summaries = m.summaries \ dropped
      /\ \A r \in Rounds : IF r \in dropped THEN n.jobs[r] = NoJob ELSE n.jobs[r] = m.jobs[r]
  BY <1>1, StatesWithout
<1> HIDE DEF n
<1>3. /\ Remembered(m) \subseteq Rounds /\ Remembered(n) \subseteq Rounds
      /\ Remembered(m) \ dropped \subseteq Remembered(n)
  BY <1>1, <1>2 DEF Remembered, States
<1>4. ASSUME NEW r \in Rounds, Enough(m, r) PROVE Enough(n, r)
  <2>1. CASE \A d \in dropped : d <= r
    <3>1. Later(m, r) \subseteq Later(n, r)
      <4> SUFFICES ASSUME NEW s \in Remembered(m), s > r PROVE s \in Remembered(n)
        BY DEF Later
      <4>1. s \notin dropped
        <5>1. s \in Nat /\ r \in Nat
          BY <1>3, RoundsFinite
        <5> QED BY <2>1, <5>1
      <4> QED BY <1>3, <4>1
    <3> QED BY <1>3, <1>4, <3>1, EnoughGrows
  <2>2. CASE \E d \in dropped : ~(d <= r)
    <3>1. PICK d \in dropped : \A e \in dropped : e <= d
      BY <1>1, <2>2, GreatestIn
    <3>2. d > r
      <4>1. PICK e \in dropped : ~(e <= r)
        BY <2>2
      <4>2. e <= d /\ e \in Nat /\ d \in Nat /\ r \in Nat
        BY <1>1, <3>1, RoundsFinite
      <4> QED BY <4>1, <4>2
    <3>3. Enough(m, d)
      BY <1>1 DEF Sound, Spaced
    <3>4. Later(m, d) \subseteq Later(n, r)
      <4> SUFFICES ASSUME NEW s \in Remembered(m), s > d PROVE s \in Remembered(n) /\ s > r
        BY DEF Later
      <4>1. s \in Nat /\ d \in Nat /\ r \in Nat
        BY <1>1, <1>3, RoundsFinite
      <4>2. s \notin dropped
        BY <3>1, <4>1
      <4> QED BY <1>3, <3>2, <4>1, <4>2
    <3> QED BY <1>3, <3>3, <3>4, EnoughGrows
  <2> QED BY <2>1, <2>2
<1>5. Shape(n)
  BY <1>2 DEF Sound, Shape, NoJob
<1>6. \A r \in Rounds : Waiting(n, r) => Waiting(m, r) /\ JobId(n, r) = JobId(m, r)
  BY <1>2 DEF Waiting, NoJob, JobId
<1>7. Spaced(n)
  BY <1>2, <1>4, <1>6 DEF Sound, Spaced
<1>8. Backed(n)
  BY <1>2 DEF Sound, Backed
<1>9. Tracked(n)
  BY <1>2, <1>6 DEF Sound, Tracked, Waiting, NoJob
<1>10. Acked(n)
  BY <1>6 DEF Sound, Acked
<1> QED BY <1>5, <1>7, <1>8, <1>9, <1>10 DEF Sound, n

-----------------------------------------------------------------------------
(* The nodes of the turn.                                                  *)
LEMMA TurnTypes ==
  ASSUME IInv
  PROVE  /\ memory \in States /\ mem \in States /\ upd \in States
         /\ pc \in {"idle", "apply", "prune", "context", "agents", "detect", "enqueue", "end"}
         /\ todo \subseteq Rounds /\ rounds \in 0..MaxRounds /\ rounds \in Nat
         /\ pending \in Seq(JobIds) /\ source \subseteq Rounds
         /\ result \in [JobIds -> {"none", "completed", "failed"}]
         /\ crashes \in 0..MaxCrashes
         /\ Sound(memory) /\ Sound(mem) /\ Sound(upd)
BY ConstantsAssumption DEF IInv, TypeOK

(* A node returns the state n.                                             *)
LEMMA NodeReturns ==
  ASSUME IInv, NEW n, NEW next, NEW work, Return(n, next, work), memory' = memory, UNCHANGED redis,
         UNCHANGED <<rounds, worker>>, crashes' \in 0..MaxCrashes, Sound(n),
         next \in {"idle", "apply", "prune", "context", "agents", "detect", "enqueue", "end"},
         work \in SUBSET Rounds,
         Along', Forgotten', next \in {"agents", "detect"} => pc \in {"agents", "detect"}
  PROVE  IInv'
<1>1. /\ mem' = n /\ upd' = n /\ pc' = next /\ todo' = work
      /\ UNCHANGED <<processing, result, worker, pending, source>>
  BY DEF Return, redis
<1>2. rounds \in Nat /\ rounds \in 0..MaxRounds /\ pending \in Seq(JobIds) /\ source \subseteq Rounds
  BY TurnTypes
<1>3. \A m : Sound(m) => Sound(m)'
  BY <1>1, <1>2, SoundStays
<1>4. Sound(mem)' /\ Sound(upd)'
  BY <1>1, <1>3
<1> QED BY <1>1, <1>2, <1>4, TurnStep

LEMMA StartTurnGood ==
  ASSUME IInv, StartTurn
  PROVE  IInv'
<1>1. /\ pc = "idle" /\ rounds < MaxRounds /\ Return(memory, "apply", RoundsWith(memory, "queued"))
      /\ UNCHANGED <<memory, rounds, redis, worker, crashes>>
  BY DEF StartTurn
<1>2. mem' = memory /\ upd' = memory /\ pc' = "apply" /\ todo' = RoundsWith(memory, "queued")
  BY <1>1 DEF Return
<1>3. RoundsWith(memory, "queued") \in SUBSET Rounds
  BY DEF RoundsWith
<1>4. Along'
  BY <1>1, <1>2 DEF Along, RoundsWith
<1>5. Forgotten'
  BY <1>1, <1>2 DEF Forgotten
<1> QED BY <1>1, <1>3, <1>4, <1>5, TurnTypes, NodeReturns

LEMMA ApplyResultGood ==
  ASSUME IInv, ApplyResult
  PROVE  IInv'
<1> DEFINE r == Min(todo)
           n == Applied(r)
           f == SetStatus(upd, r, "failed")
           a == SetStatus(upd, r, "applied")
           x == [a EXCEPT !.summaries = @ \cup {r}, !.msgs = @ \ {r}, !.answered = @ \ {r}]
<1>1. /\ pc = "apply" /\ todo # {} /\ upd' = n /\ todo' = todo \ {r}
      /\ UNCHANGED <<memory, mem, pc, rounds, worker, crashes, pending, processing, source, result>>
  BY DEF ApplyResult, redis
<1>2. /\ todo \subseteq RoundsWith(mem, "queued") /\ todo \subseteq RoundsWith(upd, "queued")
      /\ \A q \in Rounds : upd.jobs[q].by = mem.jobs[q].by
      /\ Remembered(mem) \subseteq Remembered(upd)
  BY <1>1 DEF IInv, Along
<1>3. r \in todo /\ r \in Rounds /\ mem.jobs[r].status = "queued" /\ upd.jobs[r].status = "queued"
  BY <1>1, <1>2, MinFacts, TurnTypes DEF RoundsWith
<1> HIDE DEF r
<1>4. upd \in States /\ Sound(upd) /\ Enough(upd, r)
  BY <1>3, TurnTypes DEF Sound, Spaced, Waiting
<1>5. /\ Sound(f) /\ Sound(a)
      /\ f.answered = upd.answered /\ f.summaries = upd.summaries
      /\ a.answered = upd.answered /\ a.summaries = upd.summaries /\ a \in States
      /\ \A q \in Rounds : /\ f.jobs[q].by = upd.jobs[q].by /\ a.jobs[q].by = upd.jobs[q].by
                           /\ q # r => /\ f.jobs[q].status = upd.jobs[q].status
                                       /\ a.jobs[q].status = upd.jobs[q].status
  <2>1. Sound(f) /\ Sound(a)
    BY <1>3, <1>4, StatusEdited
  <2>2. "failed" \in JobStatus /\ "applied" \in JobStatus
    BY DEF JobStatus
  <2> QED BY <1>3, <1>4, <2>1, <2>2, StatusIsSet
<1>6. n = upd \/ n = f \/ (n = x /\ result[JobId(mem, r)] # "none")
  BY DEF Applied
<1> HIDE DEF n, f, a
<1>7. /\ Sound(n) /\ Remembered(upd) \subseteq Remembered(n)
      /\ \A q \in Rounds : /\ n.jobs[q].by = upd.jobs[q].by
                           /\ q # r => n.jobs[q].status = upd.jobs[q].status
  <2>1. CASE n = upd
    BY <1>4, <2>1
  <2>2. CASE n = f
    BY <1>5, <2>2 DEF Remembered
  <2>3. CASE n = x /\ result[JobId(mem, r)] # "none"
    <3>1. JobId(mem, r) \in JobIds
      BY <1>3, TurnTypes, JobIdOfState DEF Sound
    <3>2. Dealt(r)
      BY <2>3, <3>1 DEF Dealt, JobId
    <3>3. Enough(a, r) /\ Remembered(a) = Remembered(upd)
      BY <1>4, <1>5 DEF Enough, Later, Remembered
    <3>4. Sound(x) /\ Remembered(a) \subseteq Remembered(x) /\ x.jobs = a.jobs
      BY <1>3, <1>5, <3>2, <3>3, SummaryReplacesMessages
    <3> HIDE DEF x
    <3> QED BY <1>5, <2>3, <3>3, <3>4
  <2> QED BY <1>6, <2>1, <2>2, <2>3
<1>8. \A m : Sound(m) => Sound(m)'
  BY <1>1, TurnTypes, SoundStays
<1>9. Sound(mem)' /\ Sound(upd)'
  BY <1>1, <1>7, <1>8, TurnTypes
<1>10. Along'
  BY <1>1, <1>2, <1>3, <1>7 DEF IInv, Along, RoundsWith
<1>11. Forgotten'
  BY <1>1 DEF IInv, Forgotten, Dealt
<1> QED BY <1>1, <1>9, <1>10, <1>11, TurnTypes, TurnStep

LEMMA ApplyEndsGood ==
  ASSUME IInv, ApplyEnds
  PROVE  IInv'
<1>1. /\ pc = "apply" /\ Return(upd, "prune", {})
      /\ UNCHANGED <<memory, rounds, redis, worker, crashes>>
  BY DEF ApplyEnds
<1>2. mem' = upd /\ upd' = upd /\ pc' = "prune" /\ todo' = {}
  BY <1>1 DEF Return
<1>3. mem = memory /\ Remembered(mem) \subseteq Remembered(upd) /\ rounds < MaxRounds
  BY <1>1 DEF IInv, Along
<1>4. Along'
  BY <1>1, <1>2, <1>3 DEF Along
<1>5. Forgotten'
  BY <1>1, <1>2, <1>3 DEF Forgotten
<1> QED BY <1>1, <1>4, <1>5, TurnTypes, NodeReturns

LEMMA PruneGood ==
  ASSUME IInv, Prune
  PROVE  IInv'
<1>1. PICK dropped \in SUBSET mem.summaries :
        /\ \A r \in dropped, s \in mem.summaries \ dropped : r < s
        /\ Return(Without(mem, dropped), "context", {})
  BY DEF Prune
<1> DEFINE n == Without(mem, dropped)
<1>2. pc = "prune" /\ UNCHANGED <<memory, rounds, redis, worker, crashes>>
  BY DEF Prune
<1>3. mem' = n /\ upd' = n /\ pc' = "context" /\ todo' = {}
  BY <1>1 DEF Return
<1>4. Sound(n)
  BY <1>1, TurnTypes, PrunedIsSound
<1>5. mem \in States /\ dropped \in SUBSET Rounds
  BY TurnTypes DEF States
<1>6. n.answered = mem.answered /\ n.summaries = mem.summaries \ dropped
  BY <1>5, StatesWithout
<1> HIDE DEF n
<1>7. rounds < MaxRounds /\ Remembered(memory) \subseteq Remembered(mem)
  BY <1>2 DEF IInv, Along
<1>8. Along'
  BY <1>2, <1>3, <1>7 DEF Along
<1>9. Forgotten'
  <2> SUFFICES ASSUME NEW r \in Remembered(memory) \ Remembered(n)
               PROVE  Dealt(r)' /\ \A s \in n.summaries : r < s
    BY <1>2, <1>3 DEF Forgotten
  <2>1. r \in dropped
    BY <1>6, <1>7 DEF Remembered
  <2>2. Dealt(r)
    BY <2>1, TurnTypes DEF Sound, Backed
  <2> QED BY <1>1, <1>2, <1>6, <2>1, <2>2 DEF Dealt, redis
<1> HIDE DEF n
<1> QED BY <1>1, <1>2, <1>4, <1>8, <1>9, TurnTypes, NodeReturns DEF n

LEMMA MoreIsSound ==
  ASSUME IInv, NEW m, NEW n, Sound(m), n \in States, n.summaries = m.summaries, n.jobs = m.jobs,
         m.answered \subseteq n.answered, n.answered \subseteq 1..rounds
  PROVE  Sound(n)
<1>1. Remembered(m) \subseteq Remembered(n) /\ Remembered(n) \subseteq Rounds
  BY DEF Remembered, States
<1>2. \A q \in Rounds : Enough(m, q) => Enough(n, q)
  <2>1. \A q \in Rounds : Later(m, q) \subseteq Later(n, q)
    BY <1>1 DEF Later
  <2> QED BY <1>1, <2>1, EnoughGrows
<1>3. Shape(n)
  BY DEF Sound, Shape
<1>4. Spaced(n)
  BY <1>2 DEF Sound, Spaced, Waiting
<1>5. Backed(n) /\ Tracked(n) /\ Acked(n)
  BY DEF Sound, Backed, Tracked, Acked, JobId, Waiting
<1> QED BY <1>3, <1>4, <1>5 DEF Sound

LEMMA OpenRoundGood ==
  ASSUME IInv, OpenRound
  PROVE  IInv'
<1> DEFINE n == [mem EXCEPT !.msgs = @ \cup {rounds + 1}]
<1>1. /\ pc = "context" /\ rounds' = rounds + 1 /\ mem' = n /\ upd' = n /\ pc' = "agents" /\ todo' = {}
      /\ UNCHANGED <<memory, pending, processing, source, result, worker, crashes>>
  BY DEF OpenRound, Return, redis
<1>2. rounds \in Nat /\ rounds < MaxRounds /\ mem \in States
  BY <1>1, TurnTypes DEF IInv, Along
<1>3. rounds + 1 \in Rounds
  BY <1>2, ConstantsAssumption DEF Rounds
<1>4. /\ n \in States /\ n.summaries = mem.summaries /\ n.jobs = mem.jobs /\ n.answered = mem.answered
  BY <1>2, <1>3 DEF States
<1> HIDE DEF n
<1>5. Sound(n)
  BY <1>4, MoreIsSound, TurnTypes DEF Sound, Shape
<1>6. rounds' \in 0..MaxRounds /\ rounds' \in Nat /\ rounds <= rounds' /\ rounds < rounds' /\ rounds' >= 1
  BY <1>1, <1>2, ConstantsAssumption
<1>7. Sound(mem)' /\ Sound(upd)'
  <2>1. \A m : Sound(m) => Sound(m)'
    BY <1>1, <1>2, <1>6, SoundStays
  <2> QED BY <1>1, <1>5, <2>1
<1>8. Along'
  BY <1>1, <1>6 DEF Along
<1>9. Forgotten'
  BY <1>1, <1>4 DEF IInv, Forgotten, Remembered, Dealt
<1> QED BY <1>1, <1>6, <1>7, <1>8, <1>9, TurnTypes, TurnStep

LEMMA RecordAnswerGood ==
  ASSUME IInv, RecordAnswer
  PROVE  IInv'
<1>1. PICK answered : Return(IF answered THEN [mem EXCEPT !.answered = @ \cup {rounds}] ELSE mem,
                             "detect", {})
  BY DEF RecordAnswer
<1> DEFINE n == IF answered THEN [mem EXCEPT !.answered = @ \cup {rounds}] ELSE mem
<1>2. pc = "agents" /\ UNCHANGED <<memory, rounds, redis, worker, crashes>>
  BY DEF RecordAnswer
<1>3. mem' = n /\ upd' = n /\ pc' = "detect" /\ todo' = {}
  BY <1>1 DEF Return
<1>4. rounds >= 1 /\ rounds \in Rounds /\ rounds \in 1..rounds /\ mem \in States
  BY <1>2, ConstantsAssumption, TurnTypes DEF IInv, Along, Rounds
<1>5. /\ n \in States /\ n.summaries = mem.summaries /\ n.jobs = mem.jobs
      /\ mem.answered \subseteq n.answered /\ n.answered \subseteq mem.answered \cup {rounds}
  BY <1>4 DEF States
<1> HIDE DEF n
<1>6. n.answered \subseteq 1..rounds
  BY <1>4, <1>5, TurnTypes DEF Sound, Shape
<1>7. Sound(n)
  BY <1>5, <1>6, MoreIsSound, TurnTypes
<1>8. Along'
  BY <1>2, <1>3, <1>4 DEF Along
<1>9. Forgotten'
  BY <1>2, <1>3, <1>5 DEF IInv, Forgotten, Remembered, Dealt, redis
<1> QED BY <1>1, <1>2, <1>7, <1>8, <1>9, TurnTypes, NodeReturns DEF n

(* A round with Keep newer answers is not the round of this turn.          *)
LEMMA CompressibleFacts ==
  ASSUME NEW m, Shape(m), rounds \in Nat, NEW r \in Compressible(m)
  PROVE  Enough(m, r) /\ r \in Rounds /\ r < rounds
<1> DEFINE S == {s \in m.answered : s > r}
<1>1. r \in m.answered /\ Cardinality(S) >= Keep /\ m \in States
  BY DEF Compressible, Shape
<1>2. /\ S \subseteq Later(m, r) /\ Later(m, r) \subseteq Rounds
      /\ r \in Rounds /\ m.answered \subseteq 1..rounds
  BY <1>1 DEF Shape, Later, Remembered, States
<1>3. IsFiniteSet(Later(m, r))
  BY <1>2, RoundsFinite, FS_Subset
<1>4. /\ Cardinality(S) <= Cardinality(Later(m, r))
      /\ Cardinality(S) \in Nat /\ Cardinality(Later(m, r)) \in Nat
  <2> HIDE DEF S
  <2> QED BY <1>2, <1>3, FS_Subset, FS_CardinalityType
<1>5. S # {}
  <2> SUFFICES ASSUME S = {} PROVE FALSE
    OBVIOUS
  <2> HIDE DEF S
  <2>1. Cardinality(S) = 0
    BY FS_EmptySet
  <2> QED BY <1>1, <2>1, ConstantsAssumption
<1>6. r < rounds
  <2>1. PICK s \in m.answered : s > r
    BY <1>5
  <2>2. s \in 1..rounds /\ r \in 1..rounds
    BY <1>1, <1>2
  <2> QED BY <2>1, <2>2
<1> HIDE DEF S
<1> QED BY <1>1, <1>2, <1>4, <1>6, ConstantsAssumption DEF Enough

LEMMA DetectGood ==
  ASSUME IInv, Detect
  PROVE  IInv'
<1> DEFINE new == {r \in Compressible(mem) \ mem.summaries : mem.jobs[r] = NoJob}
           n == [mem EXCEPT !.jobs = [r \in Rounds |->
                   IF r \in new THEN [status |-> "pending", by |-> rounds] ELSE @[r]]]
<1>1. /\ pc = "detect" /\ Return(n, "enqueue", RoundsWith(n, "pending"))
      /\ UNCHANGED <<memory, rounds, redis, worker, crashes>>
  BY DEF Detect
<1>2. mem' = n /\ upd' = n /\ pc' = "enqueue" /\ todo' = RoundsWith(n, "pending")
  BY <1>1 DEF Return
<1>3. /\ rounds >= 1 /\ rounds \in Rounds /\ rounds \in 1..rounds /\ rounds \in Nat
      /\ mem \in States /\ Sound(mem)
  BY <1>1, ConstantsAssumption, TurnTypes DEF IInv, Along, Rounds
<1>4. \A r \in new : Enough(mem, r) /\ r \in Rounds /\ r < rounds
  BY <1>3, CompressibleFacts DEF Sound
<1> HIDE DEF new
<1>5. /\ n \in States /\ n.summaries = mem.summaries /\ n.answered = mem.answered
      /\ \A r \in Rounds : /\ r \in new => n.jobs[r] = [status |-> "pending", by |-> rounds]
                           /\ r \notin new => n.jobs[r] = mem.jobs[r]
  BY <1>3 DEF States, JobStatus
<1> HIDE DEF n
<1>6. Sound(n)
  <2>1. Shape(n)
    BY <1>3, <1>4, <1>5 DEF Sound, Shape
  <2>2. Spaced(n)
    BY <1>3, <1>4, <1>5 DEF Sound, Spaced, Waiting, Enough, Later, Remembered
  <2>3. Backed(n)
    BY <1>3, <1>5 DEF Sound, Backed
  <2>4. Tracked(n)
    BY <1>3, <1>5 DEF Sound, Tracked, JobId
  <2>5. Acked(n)
    <3> SUFFICES ASSUME NEW w \in Workers, NEW r \in Rounds, worker[w].pc \in {"ack", "ackFailed"},
                        Waiting(n, r), JobId(n, r) = worker[w].job
                 PROVE  result[worker[w].job] # "none"
      BY DEF Acked
    <3>1. CASE r \in new
      <4>1. worker[w].job[2] = rounds
        BY <1>5, <3>1 DEF JobId
      <4>2. worker[w].job[2] < rounds
        BY <1>1 DEF IInv, Numbered, Past
      <4> QED BY <1>3, <4>1, <4>2
    <3>2. CASE r \notin new
      BY <1>3, <1>5, <3>2 DEF Sound, Acked, Waiting, JobId
    <3> QED BY <3>1, <3>2
  <2> QED BY <2>1, <2>2, <2>3, <2>4, <2>5 DEF Sound
<1>7. RoundsWith(n, "pending") \in SUBSET Rounds
  BY DEF RoundsWith
<1>8. Along'
  BY <1>1, <1>2, <1>3 DEF Along, RoundsWith
<1>9. Forgotten'
  BY <1>1, <1>2, <1>5 DEF IInv, Forgotten, Remembered, Dealt, redis
<1> QED BY <1>1, <1>6, <1>7, <1>8, <1>9, TurnTypes, NodeReturns

LEMMA EnqueueJobGood ==
  ASSUME IInv, EnqueueJob
  PROVE  IInv'
<1> DEFINE r == Min(todo)
           j == JobId(mem, r)
           q == SetStatus(upd, r, "queued")
           f == SetStatus(upd, r, "failed")
<1>1. /\ pc = "enqueue" /\ todo # {} /\ todo' = todo \ {r}
      /\ UNCHANGED <<memory, mem, pc, rounds, processing, result, worker, crashes>>
      /\ \/ /\ pending' = Append(pending, j) /\ source' = source \cup {r}
            /\ upd' = q \/ upd' = f
         \/ UNCHANGED <<pending, source>> /\ upd' = f
  BY DEF EnqueueJob
<1>2. /\ todo \subseteq RoundsWith(mem, "pending") /\ todo \subseteq RoundsWith(upd, "pending")
      /\ \A k \in Rounds : upd.jobs[k].by = mem.jobs[k].by
      /\ upd.summaries = mem.summaries /\ upd.answered = mem.answered /\ rounds >= 1
  BY <1>1 DEF IInv, Along
<1>3. r \in todo /\ r \in Rounds /\ mem.jobs[r].status = "pending" /\ upd.jobs[r].status = "pending"
  BY <1>1, <1>2, MinFacts, TurnTypes DEF RoundsWith
<1> HIDE DEF r
<1>4. j \in JobIds /\ j[2] <= rounds /\ j = JobId(upd, r)
  <2>1. j \in JobIds
    BY <1>3, TurnTypes, JobIdOfState DEF Sound
  <2>2. mem.jobs[r].by \in 1..rounds /\ rounds \in Nat
    BY <1>3, TurnTypes DEF Sound, Shape
  <2> QED BY <1>2, <1>3, <2>1, <2>2 DEF JobId
<1>5. upd \in States /\ Sound(upd) /\ "queued" \in JobStatus /\ "failed" \in JobStatus
  BY TurnTypes DEF JobStatus
<1>6. \A n \in {q, f} :
        /\ n \in States /\ n.answered = upd.answered /\ n.summaries = upd.summaries
        /\ \A k \in Rounds : /\ n.jobs[k].by = upd.jobs[k].by
                             /\ k # r => n.jobs[k].status = upd.jobs[k].status
  BY <1>3, <1>5, StatusIsSet
<1>7. Sound(f) /\ q.jobs[r].status = "queued"
  BY <1>3, <1>5, StatusEdited, StatusIsSet
<1> HIDE DEF q, f, j
<1>8. /\ pending' \in Seq(JobIds) /\ Range(pending) \subseteq Range(pending') /\ source' \subseteq Rounds
      /\ \A i \in Range(pending') : i \in Range(pending) \/ i = j
      /\ upd' = q => j \in Range(pending')
      /\ upd' \in {q, f}
  <2>1. pending \in Seq(JobIds) /\ source \subseteq Rounds
    BY TurnTypes
  <2>2. CASE pending' = Append(pending, j) /\ source' = source \cup {r} /\ (upd' = q \/ upd' = f)
    BY <1>3, <1>4, <2>1, <2>2, RangeOfAppend
  <2>3. CASE UNCHANGED <<pending, source>> /\ upd' = f
    <3>1. q # f
      BY <1>7, <1>6, <1>5, <1>3, StatusIsSet DEF f
    <3> QED BY <2>1, <2>3, <3>1
  <2> QED BY <1>1, <2>2, <2>3
<1>9. \A m : Sound(m) => Sound(m)'
  BY <1>1, <1>8, TurnTypes, SoundStays
<1>10. Sound(mem)'
  BY <1>1, <1>9, TurnTypes
<1>11. Sound(upd)'
  <2>1. CASE upd' = f
    BY <1>7, <1>9, <2>1
  <2>2. ASSUME upd' = q, NEW z, z = q PROVE Sound(z)'
    <3>1. Shape(z)'
      <4>1. Shape(z)
        BY <2>2, <1>3, <1>5, <1>6, <1>7 DEF Sound, Shape
      <4> QED BY <2>2, <1>1, <4>1 DEF Shape
    <3>2. Spaced(z)
      <4>1. \A k \in Rounds : Waiting(z, k) => Waiting(upd, k)
        BY <2>2, <1>3, <1>6 DEF Waiting
      <4> QED BY <2>2, <1>5, <1>6, <4>1 DEF Sound, Spaced, Enough, Later, Remembered
    <3>3. Backed(z)'
      BY <2>2, <1>1, <1>5, <1>6 DEF Sound, Backed, Dealt
    <3>4. Tracked(z)'
      <4> SUFFICES ASSUME NEW k \in Rounds, z.jobs[k].status = "queued" PROVE Held(JobId(z, k))'
        BY DEF Tracked
      <4>1. JobId(z, k) = JobId(upd, k)
        BY <2>2, <1>6 DEF JobId
      <4>2. CASE k = r
        BY <2>2, <1>4, <1>8, <4>1, <4>2 DEF Held
      <4>3. CASE k # r
        BY <2>2, <1>1, <1>5, <1>6, <1>8, <4>1, <4>3 DEF Sound, Tracked, Held
      <4> QED BY <4>2, <4>3
    <3>5. Acked(z)'
      <4>1. \A k \in Rounds : Waiting(z, k) => Waiting(upd, k) /\ JobId(z, k) = JobId(upd, k)
        BY <2>2, <1>3, <1>6 DEF Waiting, JobId
      <4> QED BY <2>2, <1>1, <1>5, <4>1 DEF Sound, Acked
    <3> QED BY <2>2, <3>1, <3>2, <3>3, <3>4, <3>5 DEF Sound, Spaced
  <2>3. CASE upd' = q
    BY <2>2, <2>3
  <2> QED BY <1>8, <2>1, <2>3
<1>12. Along'
  <2>1. /\ todo' \subseteq RoundsWith(mem, "pending") \cap RoundsWith(upd', "pending")
        /\ \A k \in Rounds : upd'.jobs[k].by = mem.jobs[k].by
        /\ upd'.summaries = mem.summaries /\ upd'.answered = mem.answered
    BY <1>1, <1>2, <1>6, <1>8 DEF RoundsWith
  <2> QED BY <1>1, <1>2, <2>1 DEF Along, RoundsWith
<1>13. Forgotten'
  BY <1>1 DEF IInv, Forgotten, Dealt
<1>14. \A i \in Range(pending') : i \in Range(pending) \/ Past(i)'
  BY <1>1, <1>4, <1>8 DEF Past
<1> QED BY <1>1, <1>8, <1>10, <1>11, <1>12, <1>13, <1>14, TurnTypes, TurnStep

LEMMA EnqueueEndsGood ==
  ASSUME IInv, EnqueueEnds
  PROVE  IInv'
<1>1. /\ pc = "enqueue" /\ Return(upd, "end", {})
      /\ UNCHANGED <<memory, rounds, redis, worker, crashes>>
  BY DEF EnqueueEnds
<1>2. mem' = upd /\ upd' = upd /\ pc' = "end" /\ todo' = {}
  BY <1>1 DEF Return
<1>3. upd.summaries = mem.summaries /\ upd.answered = mem.answered /\ rounds >= 1
  BY <1>1 DEF IInv, Along
<1>4. Along'
  BY <1>1, <1>2, <1>3 DEF Along
<1>5. Forgotten'
  BY <1>1, <1>2, <1>3 DEF IInv, Forgotten, Remembered, Dealt, redis
<1> QED BY <1>1, <1>4, <1>5, TurnTypes, NodeReturns

LEMMA SaveGood ==
  ASSUME IInv, Save
  PROVE  IInv'
<1>1. /\ pc # "idle" /\ memory # mem /\ memory' = mem
      /\ UNCHANGED <<mem, upd, pc, todo, rounds, pending, processing, source, result, worker, crashes>>
  BY DEF Save, redis
<1>2. \A m : Sound(m) => Sound(m)'
  BY <1>1, TurnTypes, SoundStays
<1>3. Sound(mem)' /\ Sound(upd)'
  BY <1>1, <1>2, TurnTypes
<1>4. Along'
  BY <1>1 DEF IInv, Along, RoundsWith
<1>5. Forgotten'
  BY <1>1 DEF Forgotten
<1> QED BY <1>1, <1>3, <1>4, <1>5, TurnTypes, TurnStep

(* The turn ends or dies: what was saved is what there is.                 *)
LEMMA TurnOverGood ==
  ASSUME IInv, EndTurn \/ CrashTurn
  PROVE  IInv'
<1>1. Return(memory, "idle", {}) /\ UNCHANGED <<memory, rounds, redis, worker>>
  BY DEF EndTurn, CrashTurn
<1>2. crashes' \in 0..MaxCrashes
  BY TurnTypes, ConstantsAssumption DEF EndTurn, CrashTurn
<1>3. mem' = memory /\ upd' = memory /\ pc' = "idle" /\ todo' = {}
  BY <1>1 DEF Return
<1>4. Along'
  BY <1>1, <1>3 DEF Along
<1>5. Forgotten'
  BY <1>1, <1>3 DEF Forgotten
<1> QED BY <1>1, <1>2, <1>4, <1>5, TurnTypes, NodeReturns

-----------------------------------------------------------------------------
(* Keys expire.                                                            *)
LEMMA ExpireSourceGood ==
  ASSUME IInv, ExpireSource
  PROVE  IInv'
<1>1. /\ UNCHANGED <<memory, mem, upd, pc, todo, rounds, pending, processing, result, worker, crashes>>
      /\ source' \subseteq source
  BY DEF ExpireSource, turnVars
<1>2. \A m : Sound(m) => Sound(m)'
  BY <1>1, TurnTypes, SoundStays
<1>3. Sound(mem)' /\ Sound(upd)'
  BY <1>1, <1>2, TurnTypes
<1>4. Along'
  BY <1>1 DEF IInv, Along, RoundsWith
<1>5. Forgotten'
  BY <1>1 DEF IInv, Forgotten, Dealt
<1> QED BY <1>1, <1>3, <1>4, <1>5, TurnTypes, TurnStep

(* The empty state is sound whatever the queue holds.                      *)
LEMMA EmptyIsSound == Sound(Empty) /\ Empty \in States /\ Remembered(Empty) = {}
<1>1. /\ Empty \in States /\ Empty.answered = {} /\ Empty.summaries = {}
      /\ \A r \in Rounds : Empty.jobs[r] = NoJob
  BY DEF Empty, States, NoJob, JobStatus
<1>2. \A r \in Rounds : Empty.jobs[r].status = "none"
  BY <1>1 DEF NoJob
<1> QED BY <1>1, <1>2 DEF Sound, Shape, Spaced, Backed, Tracked, Acked, Waiting, Remembered

LEMMA ExpireConversationGood ==
  ASSUME IInv, ExpireConversation
  PROVE  IInv'
<1>1. /\ pc = "idle" /\ memory' = Empty /\ mem' = Empty /\ upd' = Empty /\ source' = {}
      /\ result' = [j \in JobIds |-> "none"]
      /\ UNCHANGED <<pc, todo, rounds, pending, processing, worker, crashes>>
  BY DEF ExpireConversation
<1>2. Sound(memory)' /\ Sound(mem)' /\ Sound(upd)'
  <2>1. ASSUME NEW m, m = Empty PROVE Sound(m)'
    <3>1. /\ m \in States /\ m.answered = {} /\ m.summaries = {}
          /\ \A r \in Rounds : m.jobs[r].status = "none"
      BY <2>1 DEF Empty, States, NoJob, JobStatus
    <3> QED BY <3>1 DEF Sound, Shape, Spaced, Backed, Tracked, Acked, Waiting
  <2> QED BY <1>1, <2>1
<1>4. TypeOK'
  BY <1>1, EmptyIsSound DEF IInv, TypeOK, BagToSet
<1>5. Along'
  BY <1>1 DEF IInv, Along
<1>6. Forgotten'
  BY <1>1 DEF Forgotten
<1>7. Numbered'
  BY <1>1 DEF IInv, Numbered, Past
<1> QED BY <1>2, <1>4, <1>5, <1>6, <1>7 DEF IInv

-----------------------------------------------------------------------------
(* The initial states, and every step.                                     *)
LEMMA InitGood == Init => IInv
<1> SUFFICES ASSUME Init PROVE IInv
  OBVIOUS
<1>1. /\ memory = Empty /\ mem = Empty /\ upd = Empty /\ pc = "idle" /\ todo = {} /\ rounds = 0
      /\ pending = <<>> /\ processing = EmptyBag /\ source = {}
      /\ result = [j \in JobIds |-> "none"]
      /\ worker = [w \in Workers |-> [pc |-> "idle", job |-> None]] /\ crashes = 0
  BY DEF Init
<1>2. DOMAIN processing = {} /\ IsABag(processing)
  BY <1>1 DEF EmptyBag, SetToBag, IsABag
<1>3. pending \in Seq(JobIds) /\ Range(pending) = {}
  <2> HIDE DEF JobIds
  <2> QED BY <1>1 DEF Range
<1>4. TypeOK
  <2>1. result \in [JobIds -> {"none", "completed", "failed"}]
    <3> HIDE DEF JobIds
    <3> QED BY <1>1
  <2>2. worker \in [Workers -> [pc : {"idle", "down", "load", "summarize", "save", "ack",
                                       "saveFailed", "ackFailed"},
                                 job : JobIds \cup {None}]]
    <3> HIDE DEF JobIds
    <3> QED BY <1>1
  <2> QED BY <1>1, <1>2, <1>3, <2>1, <2>2, EmptyIsSound, ConstantsAssumption DEF TypeOK, BagToSet
<1>5. Along
  BY <1>1 DEF Along
<1>6. Forgotten
  BY <1>1 DEF Forgotten
<1>7. Numbered
  BY <1>1, <1>2, <1>3 DEF Numbered
<1> QED BY <1>1, <1>4, <1>5, <1>6, <1>7, EmptyIsSound DEF IInv

LEMMA StepGood == IInv /\ [Next]_vars => IInv'
<1> SUFFICES ASSUME IInv, [Next]_vars PROVE IInv'
  OBVIOUS
<1>1. CASE UNCHANGED vars
  <2>1. UNCHANGED <<memory, mem, upd, pc, todo, rounds, pending, processing, source, result, worker,
                    crashes>>
    BY <1>1 DEF vars, turnVars, redis
  <2>2. \A m : Sound(m) => Sound(m)'
    BY <2>1, TurnTypes, SoundStays
  <2>3. Sound(mem)' /\ Sound(upd)'
    BY <2>1, <2>2, TurnTypes
  <2>4. Along'
    BY <2>1 DEF IInv, Along, RoundsWith
  <2>5. Forgotten'
    BY <2>1 DEF IInv, Forgotten, Dealt
  <2> QED BY <2>1, <2>3, <2>4, <2>5, TurnTypes, TurnStep
<1>2. CASE StartTurn
  BY <1>2, StartTurnGood
<1>3. CASE ApplyResult
  BY <1>3, ApplyResultGood
<1>4. CASE ApplyEnds
  BY <1>4, ApplyEndsGood
<1>5. CASE Prune
  BY <1>5, PruneGood
<1>6. CASE OpenRound
  BY <1>6, OpenRoundGood
<1>7. CASE RecordAnswer
  BY <1>7, RecordAnswerGood
<1>8. CASE Detect
  BY <1>8, DetectGood
<1>9. CASE EnqueueJob
  BY <1>9, EnqueueJobGood
<1>10. CASE EnqueueEnds
  BY <1>10, EnqueueEndsGood
<1>11. CASE Save
  BY <1>11, SaveGood
<1>12. CASE EndTurn \/ CrashTurn
  BY <1>12, TurnOverGood
<1>13. CASE \E w \in Workers : Work(w) \/ WorkerDies(w) \/ WorkerRestarts(w)
  BY <1>13, WorkerStepGood
<1>14. CASE ExpireSource
  BY <1>14, ExpireSourceGood
<1>15. CASE ExpireConversation
  BY <1>15, ExpireConversationGood
<1> QED BY <1>1, <1>2, <1>3, <1>4, <1>5, <1>6, <1>7, <1>8, <1>9, <1>10, <1>11, <1>12, <1>13, <1>14, <1>15
       DEF Next, Turn

LEMMA AlwaysGood == Spec => []IInv
BY InitGood, StepGood, PTL DEF Spec

(* Every variable keeps its type (state.py, compression_queue.py).         *)
THEOREM TypeCorrect == Spec => []TypeOK
<1>1. IInv => TypeOK
  BY DEF IInv
<1> QED BY <1>1, AlwaysGood, PTL

(* A job the conversation waits for is in one of the lists or has its      *)
(* result, whichever calls of Redis fail or are not heard of and whoever   *)
(* dies (compression_queue.py:102-139, run_compression_worker.py:78-112).  *)
THEOREM QueuedJobsAlwaysExist == Spec => []QueuedJobsExist
<1>1. IInv => QueuedJobsExist
  BY DEF IInv, Sound, Tracked, Held, QueuedJobsExist, RoundsWith
<1> QED BY <1>1, AlwaysGood, PTL

(* The last Keep rounds that are remembered keep their messages            *)
(* (compression_job_node.py:33-62, compression_result_node.py:34-132).     *)
THEOREM RecentRoundsAlwaysStayWhole == Spec => []RecentRoundsStayWhole
<1>1. IInv => RecentRoundsStayWhole
  <2> SUFFICES ASSUME IInv, NEW r \in memory.summaries PROVE Enough(memory, r)
    BY DEF RecentRoundsStayWhole, Enough, Later
  <2>1. r \in Rounds
    BY TurnTypes DEF States
  <2> QED BY <2>1, TurnTypes DEF Sound, Spaced
<1> QED BY <1>1, AlwaysGood, PTL

(* Rounds are forgotten oldest first, and none whose compression has not   *)
(* ended (short_memory_prune_node.py).                                     *)
THEOREM AlwaysForgetsOldestFirst == Spec => ForgetsOldestFirst
<1> DEFINE Oldest == memory' # Empty =>
             \A r \in Remembered(memory) \ Remembered(memory') :
               /\ \E j \in JobIds : j[1] = r /\ result[j] # "none"
               /\ \A s \in memory'.summaries : r < s
<1>1. IInv /\ [Next]_vars => [Oldest]_vars
  <2> SUFFICES ASSUME IInv, Next PROVE Oldest
    OBVIOUS
  <2>1. CASE UNCHANGED memory
    BY <2>1
  <2>2. CASE memory' = mem
    BY <2>2 DEF IInv, Forgotten, Dealt
  <2>3. CASE memory' = Empty
    BY <2>3
  <2>4. UNCHANGED memory \/ memory' = mem \/ memory' = Empty
    BY DEF Next, Turn, StartTurn, ApplyResult, ApplyEnds, Prune, OpenRound, RecordAnswer, Detect,
           EnqueueJob, EnqueueEnds, Save, EndTurn, CrashTurn, Work, Reserve, LoadSource, Summarize,
           SaveResult, Acknowledge, SaveFailure, AcknowledgeFailure, WorkerDies, WorkerRestarts,
           ExpireSource, ExpireConversation, turnVars
  <2> QED BY <2>1, <2>2, <2>3, <2>4
<1> QED BY <1>1, AlwaysGood, PTL DEF Spec, ForgetsOldestFirst
=============================================================================
