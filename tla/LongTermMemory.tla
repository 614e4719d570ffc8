--------------------------- MODULE LongTermMemory ---------------------------
(***************************************************************************)
(* What is remembered of a user beyond a conversation (memory/long_term/): *)
(* each candidate extracted from what the user said is held against the    *)
(* memories nearest to it before it is stored.  The similarity of two      *)
(* texts is taken between their embeddings; here a text is a place on a    *)
(* line, and the nearer the more similar.                                  *)
(***************************************************************************)
EXTENDS Naturals, Sequences, FiniteSets, Common

CONSTANTS
  Users, Categories,
  Kinds,        \* bound: "plain", "empty", "transient" or "sensitive" candidates
  Contents,     \* bound: places of texts, natural numbers
  Duplicate,    \* MEMORY_DUPLICATE_THRESHOLD, as a distance
  SearchLimit,  \* MEMORY_SEARCH_LIMIT
  Turns,        \* bound: turns at one time
  MaxMemories,  \* bound: memories stored
  MaxCandidates \* bound: candidates of a turn

Relations == {"duplicate", "complement", "replace", "conflict", "unrelated"}
Candidates == [category : Categories, content : Contents, kind : Kinds]
Memory == [user : Users, category : Categories, content : Contents, after : Nat]
Finding == [existing : Nat, after : Nat]
TurnState == [user : Users, todo : Seq(Candidates), found : {None} \cup Finding]

ASSUME MemoryAssumption ==
  /\ Contents \subseteq Nat
  /\ {Duplicate, SearchLimit, MaxCandidates} \subseteq Nat
  /\ None \notin TurnState /\ None \notin Finding

VARIABLES
  memories,  \* the collection, in the order of its upserts; "after" is how
             \* many there were when the candidate was held against them
  processing \* process_turn of each running turn

memoryVars == <<memories, processing>>

MemoryInit ==
  /\ memories = <<>>
  /\ processing = [t \in Turns |-> None]

Distance(a, b) == IF a.content > b.content THEN a.content - b.content ELSE b.content - a.content

(* A question for memories and a request to change the rules come to no    *)
(* candidates; the extraction may find none in any other text.             *)
ProcessTurn(t, u, candidates) ==
  /\ processing[t] = None
  /\ processing' = [processing EXCEPT ![t] = [user |-> u, todo |-> candidates, found |-> None]]
  /\ UNCHANGED memories

(* Mutant of Own: the search is not narrowed to the user's memories.       *)
OwnOfAnybody(u) == DOMAIN memories

Own(u) == {i \in DOMAIN memories : memories[i].user = u}
Smaller(a, b) == IF a < b THEN a ELSE b

(* search: the nearest of the user's memories.                             *)
Nearest(u, candidate, found) ==
  /\ found \subseteq Own(u)
  /\ Cardinality(found) = Smaller(SearchLimit, Cardinality(Own(u)))
  /\ \A i \in found, j \in Own(u) \ found :
       Distance(memories[i], candidate) <= Distance(memories[j], candidate)

(* Of those, the ones of the candidate's category.                         *)
Comparable(candidate, found) == {i \in found : memories[i].category = candidate.category}

(* evaluate_memory: nothing that is temporary or needs the user's word is  *)
(* stored, or searched for; of the rest, what adds to the memory found is  *)
(* saved, a duplicate ignored, and the user asked about anything else.     *)
Lasting(candidate) == candidate.kind = "plain"
SavedByPolicy(relation) == relation \in {"complement", "unrelated"}

Discard(t) ==
  /\ processing[t] # None /\ processing[t].found = None
  /\ processing[t].todo # <<>> /\ ~Lasting(Head(processing[t].todo))
  /\ processing' = [processing EXCEPT ![t].todo = Tail(@)]
  /\ UNCHANGED memories

Search(t) ==
  /\ processing[t] # None /\ processing[t].found = None
  /\ processing[t].todo # <<>> /\ Lasting(Head(processing[t].todo))
  /\ \E found \in SUBSET Own(processing[t].user) :
       LET candidate == Head(processing[t].todo)
           comparable == Comparable(candidate, found)
       IN  /\ Nearest(processing[t].user, candidate, found)
           /\ \E existing \in comparable \cup {0} :
                /\ existing = 0 <=> comparable = {}
                /\ \A i \in comparable :
                     Distance(memories[existing], candidate) <= Distance(memories[i], candidate)
                /\ processing' = [processing EXCEPT ![t].found =
                             [existing |-> existing, after |-> Len(memories)]]
  /\ UNCHANGED memories

(* detect_conflict: near enough is a duplicate, else a model says, or      *)
(* fails to, which counts as a conflict.                                   *)
Relates(t, relation) ==
  LET existing == processing[t].found.existing
  IN  IF existing = 0 THEN relation = "unrelated"
      ELSE Distance(memories[existing], Head(processing[t].todo)) <= Duplicate => relation = "duplicate"

Store(t) ==
  LET candidate == Head(processing[t].todo)
  IN  Append(memories, [user |-> processing[t].user, category |-> candidate.category,
                        content |-> candidate.content, after |-> processing[t].found.after])

(* The decision after the search.                                          *)
Decide(t, relation) ==
  /\ processing[t] # None /\ processing[t].found # None
  /\ Relates(t, relation)
  /\ IF SavedByPolicy(relation)
     THEN Len(memories) < MaxMemories /\ memories' = Store(t)
     ELSE UNCHANGED memories
  /\ processing' = [processing EXCEPT ![t].todo = Tail(@), ![t].found = None]

(* The turn ends, or the extraction, a search or an upsert raised.         *)
EndTurn(t) ==
  /\ processing[t] # None
  /\ processing' = [processing EXCEPT ![t] = None]
  /\ UNCHANGED memories

MemoryNext == \E t \in Turns :
  \/ \E u \in Users, n \in 1..MaxCandidates :
       \E candidates \in [1..n -> Candidates] : ProcessTurn(t, u, candidates)
  \/ Discard(t) \/ Search(t) \/ EndTurn(t)
  \/ \E relation \in Relations : Decide(t, relation)

MemorySpec == MemoryInit /\ [][MemoryNext]_memoryVars

(* Two memories of one user and category that are near enough to be        *)
(* duplicates are both stored only if neither was there when the other was *)
(* searched for, in turns that overlapped, or if memories of other         *)
(* categories, no farther, filled the search.                              *)
DuplicatesHaveACause ==
  \A i, j \in DOMAIN memories :
    LET old == memories[i]
        new == memories[j]
    IN  /\ i < j /\ i <= new.after
        /\ old.user = new.user /\ old.category = new.category
        /\ Distance(old, new) <= Duplicate
        => Cardinality({k \in 1..new.after :
                          /\ memories[k].user = new.user
                          /\ memories[k].category # new.category
                          /\ Distance(memories[k], new) <= Distance(old, new)}) >= SearchLimit
=============================================================================
