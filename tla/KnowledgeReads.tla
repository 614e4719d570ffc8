--------------------------- MODULE KnowledgeReads ---------------------------
(***************************************************************************)
(* Reading published knowledge: the read proxy (knowledge_read_proxy.py),  *)
(* the retrieval of the knowledge agent with its cached query engine       *)
(* (tools/Knowledge_RAGtools.py) and the readiness check (readiness.py),   *)
(* while releases are published and rolled back.  Of the publication only  *)
(* what it promises is used, the ReleaseRegister that KnowledgePublication *)
(* implements.                                                             *)
(*                                                                         *)
(* A client is a thread of the application that asks one thing of the      *)
(* proxy at a time.  The proxy checks a request against the release that   *)
(* is current, in several reads of which only that of the pointer can      *)
(* change, and forwards it to Chroma later.  A build stands for its        *)
(* collection, by name or by id.                                           *)
(***************************************************************************)
EXTENDS Naturals, Common

CONSTANTS Builds,
          Clients  \* threads that ask questions or check readiness

VARIABLES
  validated, current, previous,  \* the register
  engine,      \* _query_engine: the collection it reads, or None
  engineName,  \* _query_engine_collection_name
  overlapped,  \* history: two engines have been built at the same time
  client       \* what each thread is about

Register == INSTANCE ReleaseRegister
regVars == <<validated, current, previous>>
cacheVars == <<engine, engineName, overlapped>>
vars == <<regVars, cacheVars, client>>

Steps == {"idle", "pointer", "cache", "open", "count", "build", "name", "take", "query", "label", "done"}
Asking   == {"pointer", "open", "count", "query"}  \* a request is with the proxy
Building == {"open", "count", "build", "name"}

(* was and rebuilt are history: the releases that were current since the   *)
(* request at hand was sent, and whether another thread has been replacing *)
(* the engine since the question was asked.                                *)
Idle == [step |-> "idle", asks |-> FALSE, want |-> None, used |-> None, label |-> None,
         checked |-> None, was |-> {}, rebuilt |-> FALSE]

Init ==
  /\ Register!Init
  /\ engine = None /\ engineName = None /\ overlapped = FALSE
  /\ client = [p \in Clients |-> Idle]

-----------------------------------------------------------------------------
(* The proxy.  A request names the registry, or the collection wanted or   *)
(* used; it is served if that is the one the check has found to be current.*)
At(p, step) == client[p].step = step
Target(p)   == IF At(p, "query") THEN client[p].used ELSE client[p].want

(* _current_collection: the pointer, and the descriptor it must match.     *)
CheckRequest(p) ==
  /\ client[p].step \in Asking /\ client[p].checked = None
  /\ current \in validated
  /\ client' = [client EXCEPT ![p].checked = current]
  /\ UNCHANGED <<regVars, cacheVars>>

(* Mutant of Served: a checked request is not compared with the result.    *)
ServedUncompared(p) == client[p].checked # None
Served(p) ==
  client[p].checked # None /\ (At(p, "pointer") \/ client[p].checked = Target(p))

(* The next request of p, or the next step it takes by itself.             *)
Sends(c, step)  == [c EXCEPT !.step = step, !.checked = None, !.was = {current}]
Client(p, next) == client' = [client EXCEPT ![p] = next]
Quiet == UNCHANGED <<regVars, cacheVars>>

-----------------------------------------------------------------------------
(* build_rag_search, or the readiness check when asks is FALSE.            *)
Begin(p, asks) ==
  /\ client[p].step \in {"idle", "done"}
  /\ Client(p, Sends([Idle EXCEPT !.asks = asks, !.rebuilt = \E q \in Clients : At(q, "name")], "pointer"))
  /\ Quiet

(* read_release_pointer: the pointer as it is when the read is forwarded.  *)
PointerAnswer(p) ==
  /\ At(p, "pointer") /\ Served(p)
  /\ LET c == [client[p] EXCEPT !.want = current]
     IN  Client(p, IF c.asks THEN [c EXCEPT !.step = "cache"] ELSE Sends(c, "open"))
  /\ Quiet

UseCache(p) ==
  /\ At(p, "cache")
  /\ engine # None /\ engineName = client[p].want
  /\ Client(p, [client[p] EXCEPT !.step = "take"])
  /\ Quiet

OpenCollection(p) ==
  /\ At(p, "cache")
  /\ engine = None \/ engineName # client[p].want
  /\ Client(p, Sends(client[p], "open"))
  /\ overlapped' = (overlapped \/ \E q \in Clients \ {p} : client[q].asks /\ client[q].step \in Building)
  /\ UNCHANGED <<regVars, engine, engineName>>

CollectionAnswer(p) ==
  /\ At(p, "open") /\ Served(p)
  /\ Client(p, Sends(client[p], "count"))
  /\ Quiet

(* The collection of a validated release is not empty.                     *)
CountAnswer(p) ==
  /\ At(p, "count") /\ Served(p)
  /\ Client(p, [client[p] EXCEPT !.step = IF client[p].asks THEN "build" ELSE "done"])
  /\ Quiet

-----------------------------------------------------------------------------
(* The two assignments that publish an engine to the other threads.        *)
Rebuilt(p, step) ==
  client' = [q \in Clients |->
    CASE q = p -> [client[p] EXCEPT !.step = step]
      [] q # p /\ client[q].step \in {"idle", "done"} -> client[q]
      [] OTHER -> [client[q] EXCEPT !.rebuilt = TRUE]]

SetEngine(p) ==
  /\ At(p, "build")
  /\ engine' = client[p].want
  /\ Rebuilt(p, "name")
  /\ UNCHANGED <<regVars, engineName, overlapped>>

(* Mutant of SetName: the name is what the pointer says by now.            *)
NameFromPointer(p) ==
  /\ At(p, "name")
  /\ engineName' = current
  /\ Rebuilt(p, "take")
  /\ UNCHANGED <<regVars, engine, overlapped>>

SetName(p) ==
  /\ At(p, "name")
  /\ engineName' = client[p].want
  /\ Rebuilt(p, "take")
  /\ UNCHANGED <<regVars, engine, overlapped>>

(* build_query_engine returns the shared engine, as it is then.            *)
TakeEngine(p) ==
  /\ At(p, "take")
  /\ Client(p, Sends([client[p] EXCEPT !.used = engine], "query"))
  /\ Quiet

QueryAnswer(p) ==
  /\ At(p, "query") /\ Served(p)
  /\ Client(p, [client[p] EXCEPT !.step = "label"])
  /\ Quiet

(* index_build_id, from the shared name.                                   *)
LabelAnswer(p) ==
  /\ At(p, "label")
  /\ Client(p, [client[p] EXCEPT !.step = "done", !.label = engineName])
  /\ Quiet

(* A request is denied, times out or fails anywhere behind the proxy, or   *)
(* the engine cannot be made: the question fails with                      *)
(* KnowledgeIndexUnavailableError, the check with ReleaseValidationError.  *)
Unavailable(p) ==
  /\ client[p].step \in Asking \cup {"build"}
  /\ Client(p, Idle)
  /\ Quiet

Restart ==
  /\ engine' = None /\ engineName' = None /\ overlapped' = FALSE
  /\ client' = [p \in Clients |-> Idle]
  /\ UNCHANGED regVars

(* A step of the publication, which a request under way may see or not.    *)
Publication ==
  /\ Register!Next
  /\ client' = [p \in Clients |->
       IF client[p].was = {} THEN client[p] ELSE [client[p] EXCEPT !.was = @ \cup {current'}]]
  /\ UNCHANGED cacheVars

Next ==
  \/ \E p \in Clients :
       \/ \E asks \in BOOLEAN : Begin(p, asks)
       \/ CheckRequest(p) \/ PointerAnswer(p) \/ UseCache(p) \/ OpenCollection(p)
       \/ CollectionAnswer(p) \/ CountAnswer(p) \/ SetEngine(p) \/ SetName(p)
       \/ TakeEngine(p) \/ QueryAnswer(p) \/ LabelAnswer(p) \/ Unavailable(p)
  \/ Restart
  \/ Publication

Spec == Init /\ [][Next]_vars

-----------------------------------------------------------------------------
(* The types of the variables.                                             *)
MaybeBuild  == Builds \cup {None}
ClientState ==
  [step : Steps, asks : BOOLEAN, want : MaybeBuild, used : MaybeBuild, label : MaybeBuild,
   checked : MaybeBuild, was : SUBSET MaybeBuild, rebuilt : BOOLEAN]

TypeOK ==
  /\ validated \subseteq Builds /\ current \in MaybeBuild /\ previous \in MaybeBuild
  /\ engine \in MaybeBuild /\ engineName \in MaybeBuild /\ overlapped \in BOOLEAN
  /\ client \in [Clients -> ClientState]

(* What the proxy lets through of a collection is of a release that was    *)
(* current at some time while that request was under way, although the     *)
(* engine that asks may have been made for an older release and the        *)
(* pointer may move between the check and the forwarding                   *)
(* (knowledge_read_proxy.py:188-208).                                      *)
ReadsAreOfACurrentRelease ==
  \A p \in Clients :
    /\ client[p].step = "label" \/ (client[p].step = "done" /\ client[p].asks) =>
         client[p].used \in client[p].was \ {None}
    /\ client[p].step = "build" => client[p].want \in client[p].was \ {None}

(* The cached engine reads the collection the cache names, outside of its  *)
(* two assignments, and an answer is labelled with the build it comes from;*)
(* except after two threads have built engines at the same time, and, for  *)
(* the label, when another thread was replacing the engine during the      *)
(* question (Knowledge_RAGtools.py:98-137, 152).                           *)
AnswersNameTheirRelease ==
  overlapped \/
    /\ (\A p \in Clients : ~At(p, "name")) => engine = engineName
    /\ \A p \in Clients : client[p].label # None /\ ~client[p].rebuilt =>
         client[p].label = client[p].used
=============================================================================
