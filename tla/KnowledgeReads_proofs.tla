------------------------ MODULE KnowledgeReads_proofs ------------------------
(***************************************************************************)
(* Proofs about KnowledgeReads, for any number of builds and of threads    *)
(* and whatever the publication, of which only the register is assumed,    *)
(* does at the same time.                                                  *)
(***************************************************************************)
EXTENDS KnowledgeReads, TLAPS

-----------------------------------------------------------------------------
(* Types.                                                                  *)

(* A thread that asks nothing.                                             *)
LEMMA IdleType == Idle \in ClientState
  BY DEF Idle, ClientState, Steps, MaybeBuild

(* The next request of a thread, or its next step.                         *)
LEMMA SendsType ==
  ASSUME NEW c \in ClientState, NEW step \in Steps, current \in MaybeBuild
  PROVE  Sends(c, step) \in ClientState
  BY DEF Sends, ClientState, MaybeBuild

(* A change of one thread keeps the types of all.                          *)
LEMMA OneClientType ==
  ASSUME client \in [Clients -> ClientState], NEW p \in Clients, NEW c \in ClientState, Client(p, c)
  PROVE  client' \in [Clients -> ClientState]
  BY DEF Client

(* So does the mark that an engine was replaced.                           *)
LEMMA RebuiltType ==
  ASSUME client \in [Clients -> ClientState], NEW p \in Clients, NEW step \in Steps, Rebuilt(p, step)
  PROVE  client' \in [Clients -> ClientState]
<1>1. ASSUME NEW q \in Clients PROVE client'[q] \in ClientState
  <2>1. [client[p] EXCEPT !.step = step] \in ClientState
    BY DEF ClientState
  <2>2. [client[q] EXCEPT !.rebuilt = TRUE] \in ClientState
    BY DEF ClientState
  <2> QED BY <2>1, <2>2 DEF Rebuilt
<1>2. client' = [q \in Clients |-> client'[q]]
  BY DEF Rebuilt
<1> QED BY <1>1, <1>2

(* Every step keeps the types.                                             *)
LEMMA TypeStep == TypeOK /\ [Next]_vars => TypeOK'
<1> USE DEF TypeOK
<1> SUFFICES ASSUME TypeOK, [Next]_vars PROVE TypeOK'
  OBVIOUS
<1>1. ASSUME NEW p \in Clients, NEW asks \in BOOLEAN, Begin(p, asks) PROVE TypeOK'
  <2>1. [Idle EXCEPT !.asks = asks, !.rebuilt = \E q \in Clients : At(q, "name")] \in ClientState
    BY IdleType DEF ClientState
  <2>2. Sends([Idle EXCEPT !.asks = asks, !.rebuilt = \E q \in Clients : At(q, "name")], "pointer") \in ClientState
    BY <2>1, SendsType DEF Steps
  <2> QED BY <1>1, <2>2, OneClientType DEF Begin, Quiet, regVars, cacheVars
<1>2. ASSUME NEW p \in Clients, CheckRequest(p) PROVE TypeOK'
  <2>1. [client[p] EXCEPT !.checked = current] \in ClientState
    BY DEF ClientState
  <2>2. client' = [client EXCEPT ![p] = [client[p] EXCEPT !.checked = current]]
    BY <1>2 DEF CheckRequest
  <2> QED BY <1>2, <2>1, <2>2 DEF CheckRequest, regVars, cacheVars
<1>3. ASSUME NEW p \in Clients, PointerAnswer(p) PROVE TypeOK'
  <2> DEFINE c == [client[p] EXCEPT !.want = current]
  <2>1. c \in ClientState
    BY DEF ClientState
  <2>2. [c EXCEPT !.step = "cache"] \in ClientState
    BY <2>1 DEF ClientState, Steps
  <2>3. Sends(c, "open") \in ClientState
    BY <2>1, SendsType DEF Steps
  <2>4. Client(p, IF c.asks THEN [c EXCEPT !.step = "cache"] ELSE Sends(c, "open"))
    BY <1>3 DEF PointerAnswer
  <2>5. UNCHANGED <<regVars, cacheVars>>
    BY <1>3 DEF PointerAnswer, Quiet
  <2> HIDE DEF c
  <2> QED BY <2>2, <2>3, <2>4, <2>5, OneClientType DEF regVars, cacheVars
<1>4. ASSUME NEW p \in Clients, UseCache(p) PROVE TypeOK'
  <2>1. [client[p] EXCEPT !.step = "take"] \in ClientState
    BY DEF ClientState, Steps
  <2> QED BY <1>4, <2>1, OneClientType DEF UseCache, Quiet, regVars, cacheVars
<1>5. ASSUME NEW p \in Clients, OpenCollection(p) PROVE TypeOK'
  <2>1. Sends(client[p], "open") \in ClientState
    BY SendsType DEF Steps
  <2>2. overlapped' \in BOOLEAN
    BY <1>5 DEF OpenCollection
  <2> QED BY <1>5, <2>1, <2>2, OneClientType DEF OpenCollection, regVars
<1>6. ASSUME NEW p \in Clients, CollectionAnswer(p) PROVE TypeOK'
  <2>1. Sends(client[p], "count") \in ClientState
    BY SendsType DEF Steps
  <2> QED BY <1>6, <2>1, OneClientType DEF CollectionAnswer, Quiet, regVars, cacheVars
<1>7. ASSUME NEW p \in Clients, CountAnswer(p) PROVE TypeOK'
  <2>1. [client[p] EXCEPT !.step = IF client[p].asks THEN "build" ELSE "done"] \in ClientState
    BY DEF ClientState, Steps
  <2> QED BY <1>7, <2>1, OneClientType DEF CountAnswer, Quiet, regVars, cacheVars
<1>8. ASSUME NEW p \in Clients, SetEngine(p) PROVE TypeOK'
  <2>1. engine' \in MaybeBuild
    BY <1>8 DEF SetEngine, ClientState
  <2> QED BY <1>8, <2>1, RebuiltType DEF SetEngine, regVars, Steps
<1>9. ASSUME NEW p \in Clients, SetName(p) PROVE TypeOK'
  <2>1. engineName' \in MaybeBuild
    BY <1>9 DEF SetName, ClientState
  <2> QED BY <1>9, <2>1, RebuiltType DEF SetName, regVars, Steps
<1>10. ASSUME NEW p \in Clients, TakeEngine(p) PROVE TypeOK'
  <2>1. [client[p] EXCEPT !.used = engine] \in ClientState
    BY DEF ClientState
  <2>2. Sends([client[p] EXCEPT !.used = engine], "query") \in ClientState
    BY <2>1, SendsType DEF Steps
  <2> QED BY <1>10, <2>2, OneClientType DEF TakeEngine, Quiet, regVars, cacheVars
<1>11. ASSUME NEW p \in Clients, QueryAnswer(p) PROVE TypeOK'
  <2>1. [client[p] EXCEPT !.step = "label"] \in ClientState
    BY DEF ClientState, Steps
  <2> QED BY <1>11, <2>1, OneClientType DEF QueryAnswer, Quiet, regVars, cacheVars
<1>12. ASSUME NEW p \in Clients, LabelAnswer(p) PROVE TypeOK'
  <2>1. [client[p] EXCEPT !.step = "done", !.label = engineName] \in ClientState
    BY DEF ClientState, Steps
  <2> QED BY <1>12, <2>1, OneClientType DEF LabelAnswer, Quiet, regVars, cacheVars
<1>13. ASSUME NEW p \in Clients, Unavailable(p) PROVE TypeOK'
  BY <1>13, IdleType, OneClientType DEF Unavailable, Quiet, regVars, cacheVars
<1>14. CASE Restart
  BY <1>14, IdleType DEF Restart, regVars, MaybeBuild
<1>15. CASE Publication
  <2>1. validated' \subseteq Builds /\ current' \in MaybeBuild /\ previous' \in MaybeBuild
    BY <1>15 DEF Publication, Register!Next, Register!Validate, Register!MakeCurrent, MaybeBuild
  <2>2. ASSUME NEW p \in Clients PROVE [client[p] EXCEPT !.was = @ \cup {current'}] \in ClientState
    BY <2>1 DEF ClientState
  <2>3. client' \in [Clients -> ClientState]
    BY <1>15, <2>2 DEF Publication
  <2> QED BY <1>15, <2>1, <2>3 DEF Publication, cacheVars
<1>16. CASE UNCHANGED vars
  BY <1>16 DEF vars, regVars, cacheVars
<1> QED
  BY <1>1, <1>2, <1>3, <1>4, <1>5, <1>6, <1>7, <1>8, <1>9, <1>10, <1>11, <1>12, <1>13,
     <1>14, <1>15, <1>16 DEF Next

(* Every variable keeps its type.                                          *)
THEOREM TypeCorrect == Spec => []TypeOK
<1>1. Init => TypeOK
  BY IdleType DEF TypeOK, Init, Register!Init, MaybeBuild
<1> QED BY <1>1, TypeStep, PTL DEF Spec

-----------------------------------------------------------------------------
(* What the proxy lets through.  was holds the release that is current     *)
(* while a request is with the proxy, hence what a check has found.        *)

Watched(c) ==
  /\ c.step \in Asking => current \in c.was
  /\ c.checked # None => c.checked \in c.was
  /\ c.step = "label" \/ (c.step = "done" /\ c.asks) => c.used \in c.was \ {None}
  /\ c.step = "build" => c.want \in c.was \ {None}

Watching == \A p \in Clients : Watched(client[p])

(* A request that is sent is watched from then on.                         *)
LEMMA SendsWatched ==
  ASSUME NEW c \in ClientState, NEW step \in Asking
  PROVE  Watched(Sends(c, step))
  BY DEF Watched, Sends, ClientState, Asking

(* A step of one thread that leaves the pointer alone.                     *)
LEMMA OneClientWatched ==
  ASSUME client \in [Clients -> ClientState], Watching, UNCHANGED current,
         NEW p \in Clients, NEW c \in ClientState, Client(p, c), Watched(c)
  PROVE  Watching'
  BY DEF Client, Watching, Watched

(* The mark that an engine was replaced, when the thread that replaced it  *)
(* goes on to a step that claims nothing.                                  *)
LEMMA RebuiltWatched ==
  ASSUME client \in [Clients -> ClientState], Watching, UNCHANGED current,
         NEW p \in Clients, NEW step \in {"name", "take"}, Rebuilt(p, step)
  PROVE  Watching'
<1> SUFFICES ASSUME NEW q \in Clients PROVE Watched(client[q])'
  BY DEF Watching
<1>1. Watched(client[q]) /\ Watched(client[p]) /\ client[q] \in ClientState /\ client[p] \in ClientState
  BY DEF Watching
<1>2. CASE q = p
  <2>1. client'[q] = [client[p] EXCEPT !.step = step]
    BY <1>2 DEF Rebuilt
  <2> QED BY <1>1, <2>1 DEF Watched, ClientState, Asking
<1>3. CASE q # p
  <2>1. client'[q] = client[q] \/ client'[q] = [client[q] EXCEPT !.rebuilt = TRUE]
    BY <1>3 DEF Rebuilt
  <2> QED BY <1>1, <2>1 DEF Watched, ClientState
<1> QED BY <1>2, <1>3

(* Every step keeps the watch.                                             *)
LEMMA WatchStep == TypeOK /\ Watching /\ [Next]_vars => Watching'
<1> SUFFICES ASSUME TypeOK, Watching, [Next]_vars PROVE Watching'
  OBVIOUS
<1> USE DEF TypeOK
<1>0. ASSUME NEW p \in Clients PROVE client[p] \in ClientState /\ Watched(client[p])
  BY DEF Watching
<1>1. ASSUME NEW p \in Clients, NEW asks \in BOOLEAN, Begin(p, asks) PROVE Watching'
  <2> DEFINE i == [Idle EXCEPT !.asks = asks, !.rebuilt = \E q \in Clients : At(q, "name")]
  <2>1. i \in ClientState
    BY IdleType DEF ClientState
  <2> HIDE DEF i
  <2>2. Sends(i, "pointer") \in ClientState /\ Watched(Sends(i, "pointer"))
    BY <2>1, SendsType, SendsWatched DEF Steps, Asking
  <2>3. Client(p, Sends(i, "pointer")) /\ UNCHANGED current
    BY <1>1 DEF Begin, Quiet, regVars, i
  <2> QED BY <2>2, <2>3, OneClientWatched
<1>2. ASSUME NEW p \in Clients, CheckRequest(p) PROVE Watching'
  <2> DEFINE c == [client[p] EXCEPT !.checked = current]
  <2>1. c \in ClientState
    BY <1>0 DEF ClientState
  <2>2. Watched(c)
    BY <1>0, <1>2 DEF CheckRequest, Watched, ClientState
  <2>3. Client(p, c) /\ UNCHANGED current
    BY <1>2 DEF CheckRequest, Client, regVars
  <2> HIDE DEF c
  <2> QED BY <2>1, <2>2, <2>3, OneClientWatched
<1>3. ASSUME NEW p \in Clients, PointerAnswer(p) PROVE Watching'
  <2> DEFINE c == [client[p] EXCEPT !.want = current]
  <2>1. c \in ClientState
    BY <1>0 DEF ClientState
  <2>2. [c EXCEPT !.step = "cache"] \in ClientState /\ Watched([c EXCEPT !.step = "cache"])
    BY <1>0, <2>1 DEF ClientState, Steps, Asking, Watched
  <2>3. Sends(c, "open") \in ClientState /\ Watched(Sends(c, "open"))
    BY <2>1, SendsType, SendsWatched DEF Steps, Asking
  <2>4. Client(p, IF c.asks THEN [c EXCEPT !.step = "cache"] ELSE Sends(c, "open"))
    BY <1>3 DEF PointerAnswer
  <2>5. UNCHANGED current
    BY <1>3 DEF PointerAnswer, Quiet, regVars
  <2> HIDE DEF c
  <2> QED BY <2>2, <2>3, <2>4, <2>5, OneClientWatched
<1>4. ASSUME NEW p \in Clients, UseCache(p) PROVE Watching'
  <2> DEFINE c == [client[p] EXCEPT !.step = "take"]
  <2>1. c \in ClientState /\ Watched(c)
    BY <1>0 DEF ClientState, Steps, Asking, Watched
  <2>2. Client(p, c) /\ UNCHANGED current
    BY <1>4 DEF UseCache, Quiet, regVars
  <2> HIDE DEF c
  <2> QED BY <2>1, <2>2, OneClientWatched
<1>5. ASSUME NEW p \in Clients, OpenCollection(p) PROVE Watching'
  <2>1. Sends(client[p], "open") \in ClientState /\ Watched(Sends(client[p], "open"))
    BY <1>0, SendsType, SendsWatched DEF Steps, Asking
  <2> QED BY <1>5, <2>1, OneClientWatched DEF OpenCollection, regVars
<1>6. ASSUME NEW p \in Clients, CollectionAnswer(p) PROVE Watching'
  <2>1. Sends(client[p], "count") \in ClientState /\ Watched(Sends(client[p], "count"))
    BY <1>0, SendsType, SendsWatched DEF Steps, Asking
  <2> QED BY <1>6, <2>1, OneClientWatched DEF CollectionAnswer, Quiet, regVars
<1>7. ASSUME NEW p \in Clients, CountAnswer(p) PROVE Watching'
  <2> DEFINE c == [client[p] EXCEPT !.step = IF client[p].asks THEN "build" ELSE "done"]
  <2>1. c \in ClientState
    BY <1>0 DEF ClientState, Steps
  <2>2. client[p].checked # None /\ client[p].checked = client[p].want
    BY <1>7 DEF CountAnswer, Served, Target, At
  <2>3. Watched(c)
    BY <1>0, <2>2 DEF Watched, ClientState, Asking
  <2>4. Client(p, c) /\ UNCHANGED current
    BY <1>7 DEF CountAnswer, Quiet, regVars
  <2> HIDE DEF c
  <2> QED BY <2>1, <2>3, <2>4, OneClientWatched
<1>8. ASSUME NEW p \in Clients, SetEngine(p) PROVE Watching'
  BY <1>8, RebuiltWatched DEF SetEngine, regVars
<1>9. ASSUME NEW p \in Clients, SetName(p) PROVE Watching'
  BY <1>9, RebuiltWatched DEF SetName, regVars
<1>10. ASSUME NEW p \in Clients, TakeEngine(p) PROVE Watching'
  <2> DEFINE c == [client[p] EXCEPT !.used = engine]
  <2>1. c \in ClientState
    BY <1>0 DEF ClientState
  <2> HIDE DEF c
  <2>2. Sends(c, "query") \in ClientState /\ Watched(Sends(c, "query"))
    BY <2>1, SendsType, SendsWatched DEF Steps, Asking
  <2>3. Client(p, Sends(c, "query")) /\ UNCHANGED current
    BY <1>10 DEF TakeEngine, Quiet, regVars, c
  <2> QED BY <2>2, <2>3, OneClientWatched
<1>11. ASSUME NEW p \in Clients, QueryAnswer(p) PROVE Watching'
  <2> DEFINE c == [client[p] EXCEPT !.step = "label"]
  <2>1. c \in ClientState
    BY <1>0 DEF ClientState, Steps
  <2>2. client[p].checked # None /\ client[p].checked = client[p].used
    BY <1>11 DEF QueryAnswer, Served, Target, At
  <2>3. Watched(c)
    BY <1>0, <2>2 DEF Watched, ClientState, Asking
  <2>4. Client(p, c) /\ UNCHANGED current
    BY <1>11 DEF QueryAnswer, Quiet, regVars
  <2> HIDE DEF c
  <2> QED BY <2>1, <2>3, <2>4, OneClientWatched
<1>12. ASSUME NEW p \in Clients, LabelAnswer(p) PROVE Watching'
  <2> DEFINE c == [client[p] EXCEPT !.step = "done", !.label = engineName]
  <2>1. c \in ClientState
    BY <1>0 DEF ClientState, Steps
  <2>2. Watched(c)
    BY <1>0, <1>12 DEF LabelAnswer, At, Watched, ClientState, Asking
  <2>3. Client(p, c) /\ UNCHANGED current
    BY <1>12 DEF LabelAnswer, Quiet, regVars
  <2> HIDE DEF c
  <2> QED BY <2>1, <2>2, <2>3, OneClientWatched
<1>13. ASSUME NEW p \in Clients, Unavailable(p) PROVE Watching'
  <2>1. Watched(Idle)
    BY DEF Watched, Idle, Asking
  <2> QED BY <1>13, <2>1, IdleType, OneClientWatched DEF Unavailable, Quiet, regVars
<1>14. CASE Restart
  BY <1>14 DEF Restart, Watching, Watched, Idle, Asking
<1>15. CASE Publication
  <2> SUFFICES ASSUME NEW p \in Clients PROVE Watched(client[p])'
    BY DEF Watching
  <2>1. CASE client[p].was = {}
    BY <1>0, <1>15, <2>1 DEF Publication, Watched, ClientState
  <2>2. CASE client[p].was # {}
    <3>1. client'[p] = [client[p] EXCEPT !.was = client[p].was \cup {current'}]
      BY <1>15, <2>2 DEF Publication
    <3> QED BY <1>0, <3>1 DEF Watched, ClientState
  <2> QED BY <2>1, <2>2
<1>16. CASE UNCHANGED vars
  BY <1>16 DEF vars, regVars, Watching, Watched
<1> QED
  BY <1>1, <1>2, <1>3, <1>4, <1>5, <1>6, <1>7, <1>8, <1>9, <1>10, <1>11, <1>12, <1>13,
     <1>14, <1>15, <1>16 DEF Next

(* What the proxy lets through was current while the request was under     *)
(* way.                                                                    *)
THEOREM ReadsAlwaysOfACurrentRelease == Spec => []ReadsAreOfACurrentRelease
<1>1. Init => TypeOK
  BY IdleType DEF TypeOK, Init, Register!Init, MaybeBuild
<1>1a. Init => Watching
  BY DEF Init, Watching, Watched, Idle, Asking
<1>2. Watching => ReadsAreOfACurrentRelease
  BY DEF Watching, Watched, ReadsAreOfACurrentRelease
<1> QED BY <1>1, <1>1a, <1>2, TypeStep, WatchStep, PTL DEF Spec

-----------------------------------------------------------------------------
(* The cached engine and its name, while no two engines are built at the   *)
(* same time: the one thread that builds is the only one to stand between  *)
(* the two assignments, and whoever asks meanwhile is marked.              *)

Active(c)  == c.step \notin {"idle", "done"}
Builder(c) == c.asks /\ c.step \in Building

Named(c) ==
  /\ c.step \in {"cache", "build", "name", "take", "query", "label"} => c.asks
  /\ c.step = "name" => engine = c.want
  /\ c.step \in {"query", "label"} /\ ~c.rebuilt => c.used = engine
  /\ c.step # "done" => c.label = None
  /\ c.label # None /\ ~c.rebuilt => c.label = c.used

OneBuilder == \A p, q \in Clients : Builder(client[p]) /\ Builder(client[q]) => p = q
Marked     == \A p, q \in Clients : At(q, "name") /\ p # q /\ Active(client[p]) => client[p].rebuilt
Settled    == (\A p \in Clients : ~At(p, "name")) => engine = engineName

Names == /\ \A p \in Clients : Named(client[p])
         /\ OneBuilder /\ Marked /\ Settled

Naming == ~overlapped => Names

(* A step that changes nothing else of what Names says of a thread, but    *)
(* may mark it.                                                            *)
SameButStep(q) ==
  /\ client'[q].asks = client[q].asks /\ client'[q].want = client[q].want
  /\ client'[q].used = client[q].used /\ client'[q].label = client[q].label
  /\ client'[q].rebuilt = client[q].rebuilt \/ (Active(client[q]) /\ client'[q].rebuilt)

(* A step of one thread that touches neither the cache nor the name.       *)
LEMMA OneClientNamed ==
  ASSUME client \in [Clients -> ClientState], Names, UNCHANGED <<engine, engineName>>,
         NEW p \in Clients, NEW c, Client(p, c), ~At(p, "name"), Named(c), c.step # "name",
         Builder(c) => Builder(client[p]),
         Active(c) /\ (\E q \in Clients : At(q, "name")) => c.rebuilt
  PROVE  Names'
<1>1. client' = [client EXCEPT ![p] = c]
  BY DEF Client
<1>2. \A q \in Clients : Named(client[q])'
  BY <1>1 DEF Names, Named
<1>3. OneBuilder'
  BY <1>1 DEF Names, OneBuilder, Builder
<1>4. Marked'
  BY <1>1 DEF Names, Marked, At, Active
<1>5. Settled'
  BY <1>1 DEF Names, Settled, At
<1> QED BY <1>2, <1>3, <1>4, <1>5 DEF Names

(* The same for a thread that goes on with its question.                   *)
LEMMA GoesOn ==
  ASSUME TypeOK, Naming, UNCHANGED cacheVars, NEW p \in Clients, NEW c, Client(p, c),
         ~At(p, "name"), c.step # "name", Names => Named(c),
         Builder(c) => Builder(client[p]),
         Active(c) => Active(client[p]) /\ c.rebuilt = client[p].rebuilt
  PROVE  Naming'
<1> SUFFICES ASSUME ~overlapped PROVE Names'
  BY DEF Naming, cacheVars
<1>1. Names
  BY DEF Naming
<1>2. Active(c) /\ (\E q \in Clients : At(q, "name")) => c.rebuilt
  BY <1>1 DEF Names, Marked, At
<1> QED BY <1>1, <1>2, OneClientNamed DEF TypeOK, cacheVars

(* Every step keeps the cache and its name together.                       *)
LEMMA NamingStep == TypeOK /\ Naming /\ [Next]_vars => Naming'
<1> SUFFICES ASSUME TypeOK, Naming, [Next]_vars PROVE Naming'
  OBVIOUS
<1>0. ASSUME NEW p \in Clients PROVE client[p] \in ClientState /\ (Names => Named(client[p]))
  BY DEF Names, TypeOK
<1>1. ASSUME NEW p \in Clients, NEW asks \in BOOLEAN, Begin(p, asks) PROVE Naming'
  <2> SUFFICES ASSUME ~overlapped PROVE Names'
    BY <1>1 DEF Naming, Begin, Quiet, cacheVars
  <2> DEFINE c == Sends([Idle EXCEPT !.asks = asks, !.rebuilt = \E q \in Clients : At(q, "name")], "pointer")
  <2>1. Names
    BY DEF Naming
  <2>2. Named(c) /\ c.step # "name" /\ ~Builder(c) /\ (c.rebuilt <=> \E q \in Clients : At(q, "name"))
    BY DEF Idle, Sends, Named, Builder, Building
  <2>3. Client(p, c) /\ ~At(p, "name") /\ UNCHANGED <<engine, engineName>>
    BY <1>1 DEF Begin, Quiet, cacheVars, At
  <2> HIDE DEF c
  <2> QED BY <2>1, <2>2, <2>3, OneClientNamed DEF TypeOK
<1>2. ASSUME NEW p \in Clients, CheckRequest(p) PROVE Naming'
  <2> DEFINE c == [client[p] EXCEPT !.checked = current]
  <2>1. Names => Named(c)
    BY <1>0 DEF Named, ClientState
  <2>2. c.step = client[p].step /\ c.asks = client[p].asks /\ c.rebuilt = client[p].rebuilt
    BY <1>0 DEF ClientState
  <2>3. Client(p, c) /\ client[p].step \in Asking /\ UNCHANGED cacheVars
    BY <1>2 DEF CheckRequest, Client
  <2> HIDE DEF c
  <2> QED BY <2>1, <2>2, <2>3, GoesOn DEF Builder, Active, At, Asking
<1>3. ASSUME NEW p \in Clients, PointerAnswer(p) PROVE Naming'
  <2> DEFINE w == [client[p] EXCEPT !.want = current]
  <2> DEFINE c == IF w.asks THEN [w EXCEPT !.step = "cache"] ELSE Sends(w, "open")
  <2>1. Names => Named(c)
    BY <1>0, <1>3 DEF Named, ClientState, Sends, PointerAnswer, At
  <2>2. c.step \in {"cache", "open"} /\ c.rebuilt = client[p].rebuilt /\ ~Builder(c)
    BY <1>0 DEF ClientState, Sends, Builder, Building
  <2>3. Client(p, c) /\ At(p, "pointer") /\ UNCHANGED cacheVars
    BY <1>3 DEF PointerAnswer, Quiet
  <2> HIDE DEF c
  <2> QED BY <2>1, <2>2, <2>3, GoesOn DEF Active, At
<1>4. ASSUME NEW p \in Clients, UseCache(p) PROVE Naming'
  <2> DEFINE c == [client[p] EXCEPT !.step = "take"]
  <2>1. Names => Named(c)
    BY <1>0, <1>4 DEF Named, ClientState, UseCache, At
  <2>2. c.step = "take" /\ c.rebuilt = client[p].rebuilt
    BY <1>0 DEF ClientState
  <2>3. Client(p, c) /\ At(p, "cache") /\ UNCHANGED cacheVars
    BY <1>4 DEF UseCache, Quiet
  <2> HIDE DEF c
  <2> QED BY <2>1, <2>2, <2>3, GoesOn DEF Active, At, Builder, Building
<1>5. ASSUME NEW p \in Clients, OpenCollection(p) PROVE Naming'
  <2> SUFFICES ASSUME ~overlapped' PROVE Names'
    BY DEF Naming
  <2> DEFINE c == Sends(client[p], "open")
  <2>1. ~overlapped /\ Names /\ (\A q \in Clients \ {p} : ~Builder(client[q]))
    BY <1>5 DEF OpenCollection, Naming, Builder
  <2>2. At(p, "cache") /\ client' = [client EXCEPT ![p] = c] /\ UNCHANGED <<engine, engineName>>
    BY <1>5 DEF OpenCollection, Client
  <2>3. c.step = "open" /\ c.rebuilt = client[p].rebuilt /\ Named(c)
    BY <1>0, <2>1, <2>2 DEF ClientState, Sends, Named, At
  <2> HIDE DEF c
  <2>4. \A q \in Clients : Named(client[q])'
    BY <2>1, <2>2, <2>3 DEF Names, Named, TypeOK
  <2>5. OneBuilder'
    BY <2>1, <2>2 DEF OneBuilder, Builder, TypeOK
  <2>6. Marked'
    BY <2>1, <2>2, <2>3 DEF Names, Marked, At, Active, TypeOK
  <2>7. Settled'
    BY <2>1, <2>2, <2>3 DEF Names, Settled, At, TypeOK
  <2> QED BY <2>4, <2>5, <2>6, <2>7 DEF Names
<1>6. ASSUME NEW p \in Clients, CollectionAnswer(p) PROVE Naming'
  <2> DEFINE c == Sends(client[p], "count")
  <2>1. Names => Named(c)
    BY <1>0, <1>6 DEF Named, ClientState, Sends, CollectionAnswer, At
  <2>2. c.step = "count" /\ c.rebuilt = client[p].rebuilt /\ c.asks = client[p].asks
    BY <1>0 DEF ClientState, Sends
  <2>3. Client(p, c) /\ At(p, "open") /\ UNCHANGED cacheVars
    BY <1>6 DEF CollectionAnswer, Quiet
  <2> HIDE DEF c
  <2> QED BY <2>1, <2>2, <2>3, GoesOn DEF Active, At, Builder, Building
<1>7. ASSUME NEW p \in Clients, CountAnswer(p) PROVE Naming'
  <2> DEFINE c == [client[p] EXCEPT !.step = IF client[p].asks THEN "build" ELSE "done"]
  <2>1. Names => Named(c)
    BY <1>0, <1>7 DEF Named, ClientState, CountAnswer, At
  <2>2. c.step \in {"build", "done"} /\ c.rebuilt = client[p].rebuilt /\ c.asks = client[p].asks
    BY <1>0 DEF ClientState
  <2>3. Client(p, c) /\ At(p, "count") /\ UNCHANGED cacheVars
    BY <1>7 DEF CountAnswer, Quiet
  <2> HIDE DEF c
  <2> QED BY <2>1, <2>2, <2>3, GoesOn DEF Active, At, Builder, Building
<1>8. ASSUME NEW p \in Clients, SetEngine(p) PROVE Naming'
  <2> SUFFICES ASSUME ~overlapped PROVE Names'
    BY <1>8 DEF Naming, SetEngine
  <2>1. Names /\ At(p, "build") /\ engine' = client[p].want /\ UNCHANGED engineName
    BY <1>8 DEF Naming, SetEngine
  <2>2. Builder(client[p]) /\ (\A q \in Clients \ {p} : ~At(q, "name"))
    BY <2>1 DEF Names, Named, OneBuilder, Builder, Building, At
  <2>3. client'[p].step = "name" /\ SameButStep(p)
    <3>1. client'[p] = [client[p] EXCEPT !.step = "name"]
      BY <1>8 DEF SetEngine, Rebuilt
    <3> QED BY <1>0, <3>1 DEF SameButStep, ClientState
  <2>4. \A q \in Clients \ {p} : /\ client'[q].step = client[q].step /\ SameButStep(q)
                                 /\ Active(client[q]) => client'[q].rebuilt
    <3> SUFFICES ASSUME NEW q \in Clients \ {p}
                 PROVE  client'[q].step = client[q].step /\ SameButStep(q) /\ (Active(client[q]) => client'[q].rebuilt)
      OBVIOUS
    <3>1. CASE Active(client[q])
      <4>1. client'[q] = [client[q] EXCEPT !.rebuilt = TRUE]
        BY <1>8, <3>1 DEF SetEngine, Rebuilt, Active
      <4> QED BY <1>0, <3>1, <4>1 DEF SameButStep, ClientState
    <3>2. CASE ~Active(client[q])
      <4>1. client'[q] = client[q]
        BY <1>8, <3>2 DEF SetEngine, Rebuilt, Active
      <4> QED BY <3>2, <4>1 DEF SameButStep
    <3> QED BY <3>1, <3>2
  <2>5. ASSUME NEW q \in Clients PROVE Named(client[q])'
    <3>1. Named(client[q])
      BY <2>1 DEF Names
    <3>2. CASE q = p
      BY <2>1, <2>2, <2>3, <3>1, <3>2 DEF Named, SameButStep, At
    <3>3. CASE q # p
      BY <2>2, <2>4, <3>1, <3>3 DEF Named, SameButStep, Active, At
    <3> QED BY <3>2, <3>3
  <2>6. OneBuilder'
    <3>1. ASSUME NEW q \in Clients, Builder(client[q])' PROVE q = p
      BY <2>1, <2>2, <2>4, <3>1 DEF Names, OneBuilder, Builder, SameButStep
    <3> QED BY <3>1 DEF OneBuilder
  <2>7. Marked'
    <3> SUFFICES ASSUME NEW r \in Clients, NEW q \in Clients, At(q, "name")', r # q, Active(client[r])'
                 PROVE  client'[r].rebuilt
      BY DEF Marked
    <3>1. r # p
      BY <2>2, <2>3, <2>4 DEF At
    <3> QED BY <2>4, <3>1 DEF Active
  <2>8. Settled'
    BY <2>3 DEF Settled, At
  <2> QED BY <2>5, <2>6, <2>7, <2>8 DEF Names
<1>9. ASSUME NEW p \in Clients, SetName(p) PROVE Naming'
  <2> SUFFICES ASSUME ~overlapped PROVE Names'
    BY <1>9 DEF Naming, SetName
  <2>1. Names /\ At(p, "name") /\ engineName' = client[p].want /\ UNCHANGED engine
    BY <1>9 DEF Naming, SetName
  <2>2. Builder(client[p]) /\ engine = client[p].want /\ (\A q \in Clients \ {p} : ~At(q, "name"))
    BY <2>1 DEF Names, Named, OneBuilder, Builder, Building, At
  <2>3. client'[p].step = "take" /\ SameButStep(p)
    <3>1. client'[p] = [client[p] EXCEPT !.step = "take"]
      BY <1>9 DEF SetName, Rebuilt
    <3> QED BY <1>0, <3>1 DEF SameButStep, ClientState
  <2>4. \A q \in Clients \ {p} : /\ client'[q].step = client[q].step /\ SameButStep(q)
                                 /\ Active(client[q]) => client'[q].rebuilt
    <3> SUFFICES ASSUME NEW q \in Clients \ {p}
                 PROVE  client'[q].step = client[q].step /\ SameButStep(q) /\ (Active(client[q]) => client'[q].rebuilt)
      OBVIOUS
    <3>1. CASE Active(client[q])
      <4>1. client'[q] = [client[q] EXCEPT !.rebuilt = TRUE]
        BY <1>9, <3>1 DEF SetName, Rebuilt, Active
      <4> QED BY <1>0, <3>1, <4>1 DEF SameButStep, ClientState
    <3>2. CASE ~Active(client[q])
      <4>1. client'[q] = client[q]
        BY <1>9, <3>2 DEF SetName, Rebuilt, Active
      <4> QED BY <3>2, <4>1 DEF SameButStep
    <3> QED BY <3>1, <3>2
  <2>5. ASSUME NEW q \in Clients PROVE Named(client[q])'
    <3>1. Named(client[q])
      BY <2>1 DEF Names
    <3>2. CASE q = p
      BY <2>1, <2>2, <2>3, <3>1, <3>2 DEF Named, SameButStep, At
    <3>3. CASE q # p
      BY <2>2, <2>4, <3>1, <3>3 DEF Named, SameButStep, Active, At
    <3> QED BY <3>2, <3>3
  <2>6. OneBuilder'
    <3>1. ASSUME NEW q \in Clients, Builder(client[q])' PROVE q = p
      BY <2>1, <2>2, <2>4, <3>1 DEF Names, OneBuilder, Builder, SameButStep
    <3> QED BY <3>1 DEF OneBuilder
  <2>7. Marked'
    <3> SUFFICES ASSUME NEW r \in Clients, NEW q \in Clients, At(q, "name")', r # q, Active(client[r])'
                 PROVE  client'[r].rebuilt
      BY DEF Marked
    <3>1. r # p
      BY <2>2, <2>3, <2>4 DEF At
    <3> QED BY <2>4, <3>1 DEF Active
  <2>8. Settled'
    BY <2>1, <2>2 DEF Settled
  <2> QED BY <2>5, <2>6, <2>7, <2>8 DEF Names
<1>10. ASSUME NEW p \in Clients, TakeEngine(p) PROVE Naming'
  <2> DEFINE c == Sends([client[p] EXCEPT !.used = engine], "query")
  <2>1. Names => Named(c)
    BY <1>0, <1>10 DEF Named, ClientState, Sends, TakeEngine, At
  <2>2. c.step = "query" /\ c.rebuilt = client[p].rebuilt
    BY <1>0 DEF ClientState, Sends
  <2>3. Client(p, c) /\ At(p, "take") /\ UNCHANGED cacheVars
    BY <1>10 DEF TakeEngine, Quiet
  <2> HIDE DEF c
  <2> QED BY <2>1, <2>2, <2>3, GoesOn DEF Active, At, Builder, Building
<1>11. ASSUME NEW p \in Clients, QueryAnswer(p) PROVE Naming'
  <2> DEFINE c == [client[p] EXCEPT !.step = "label"]
  <2>1. Names => Named(c)
    BY <1>0, <1>11 DEF Named, ClientState, QueryAnswer, At
  <2>2. c.step = "label" /\ c.rebuilt = client[p].rebuilt
    BY <1>0 DEF ClientState
  <2>3. Client(p, c) /\ At(p, "query") /\ UNCHANGED cacheVars
    BY <1>11 DEF QueryAnswer, Quiet
  <2> HIDE DEF c
  <2> QED BY <2>1, <2>2, <2>3, GoesOn DEF Active, At, Builder, Building
<1>12. ASSUME NEW p \in Clients, LabelAnswer(p) PROVE Naming'
  <2> DEFINE c == [client[p] EXCEPT !.step = "done", !.label = engineName]
  <2>1. ASSUME Names PROVE Named(c)
    <3>1. ~client[p].rebuilt => engine = engineName
      BY <1>12, <2>1 DEF Names, Marked, Settled, LabelAnswer, At, Active
    <3> QED BY <1>0, <1>12, <2>1, <3>1 DEF Named, ClientState, LabelAnswer, At
  <2>2. c.step = "done"
    BY <1>0 DEF ClientState
  <2>3. Client(p, c) /\ At(p, "label") /\ UNCHANGED cacheVars
    BY <1>12 DEF LabelAnswer, Quiet
  <2> HIDE DEF c
  <2> QED BY <2>1, <2>2, <2>3, GoesOn DEF Active, At, Builder, Building
<1>13. ASSUME NEW p \in Clients, Unavailable(p) PROVE Naming'
  <2>1. Named(Idle) /\ ~Active(Idle) /\ ~Builder(Idle) /\ Idle.step # "name"
    BY DEF Idle, Named, Active, Builder
  <2>2. ~At(p, "name") /\ Client(p, Idle) /\ UNCHANGED cacheVars
    BY <1>13 DEF Unavailable, At, Asking, Quiet
  <2> QED BY <2>1, <2>2, GoesOn
<1>14. CASE Restart
  BY <1>14 DEF Restart, Naming, Names, Named, OneBuilder, Builder, Marked, Active, Settled, At, Idle
<1>15. CASE Publication
  <2> SUFFICES ASSUME ~overlapped PROVE Names'
    BY <1>15 DEF Naming, Publication, cacheVars
  <2>1. Names /\ UNCHANGED <<engine, engineName>>
    BY <1>15 DEF Naming, Publication, cacheVars
  <2>2. ASSUME NEW q \in Clients
        PROVE  /\ client'[q].step = client[q].step /\ client'[q].asks = client[q].asks
               /\ client'[q].want = client[q].want /\ client'[q].used = client[q].used
               /\ client'[q].label = client[q].label /\ client'[q].rebuilt = client[q].rebuilt
    BY <1>0, <1>15 DEF Publication, ClientState
  <2>3. \A q \in Clients : Named(client[q])'
    BY <2>1, <2>2 DEF Names, Named
  <2>4. OneBuilder' /\ Marked' /\ Settled'
    BY <2>1, <2>2 DEF Names, OneBuilder, Builder, Marked, Active, Settled, At
  <2> QED BY <2>3, <2>4 DEF Names
<1>16. CASE UNCHANGED vars
  BY <1>16 DEF vars, cacheVars, Naming, Names, Named, OneBuilder, Builder, Marked, Active, Settled, At
<1> QED
  BY <1>1, <1>2, <1>3, <1>4, <1>5, <1>6, <1>7, <1>8, <1>9, <1>10, <1>11, <1>12, <1>13,
     <1>14, <1>15, <1>16 DEF Next

(* Unless two engines were built at the same time, the cache names the     *)
(* collection of its engine and an answer is labelled with its build.      *)
THEOREM AnswersAlwaysNameTheirRelease == Spec => []AnswersNameTheirRelease
<1>1. Init => TypeOK
  BY IdleType DEF TypeOK, Init, Register!Init, MaybeBuild
<1>2. Init => Naming
  BY DEF Init, Naming, Names, Named, OneBuilder, Builder, Marked, Active, Settled, At, Idle
<1>3. Naming => AnswersNameTheirRelease
  BY DEF Naming, Names, Named, Settled, AnswersNameTheirRelease
<1> QED BY <1>1, <1>2, <1>3, TypeStep, NamingStep, PTL DEF Spec
=============================================================================
