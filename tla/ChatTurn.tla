------------------------------ MODULE ChatTurn ------------------------------
(***************************************************************************)
(* A chat request (chat_stream in api.py) from the claim of its            *)
(* conversation to the record of its round: the session is looked at three *)
(* times, the graph runs on the checkpoint of (owner, thread), its answer  *)
(* is read back from there (agent_service.py), and the round goes to the   *)
(* tables of storage/history/service.py.  Requests run in threads of their *)
(* own; nothing keeps two of one conversation apart.                       *)
(*                                                                         *)
(* claim_thread and record_turn read a row they do not lock and write      *)
(* later in the same transaction, hence two actions.  An answer is named   *)
(* by the turn it answers; 0 is a blank one.                               *)
(***************************************************************************)
EXTENDS Accounts

CONSTANTS
  Threads,  \* thread_id's
  MaxTurns  \* bound: chat requests

ASSUME ChatAssumption == MaxTurns \in Nat

VARIABLES
  turn,          \* every chat request
  conversation,  \* conversations and their messages
  checkpoint     \* the latest checkpoint of each owner and thread

chatVars == <<turn, conversation, checkpoint>>
vars == <<accountVars, chatVars>>

NoRow == [owner |-> "none", by |-> 0, rounds |-> {}]

Phase == {"claim", "insert", "reread", "claimed", "run", "read", "check",
          "record", "write", "final", "failed"}

(* Mutant of Key: the checkpoint is not prefixed with its owner.           *)
KeyOfThread(r) == <<CHOOSE u \in Users : TRUE, turn[r].thread>>
Key(r) == <<turn[r].user, turn[r].thread>>

Init ==
  /\ AccountsInit
  /\ turn = <<>>
  /\ conversation = [t \in Threads |-> NoRow]
  /\ checkpoint = [k \in Users \X Threads |-> [rounds |-> {}, answer |-> 0]]

At(r, phase)   == turn[r].pc = phase
GoTo(r, phase) == turn' = [turn EXCEPT ![r].pc = phase]
Row(r)         == conversation[turn[r].thread]
Absent(r)      == Row(r) = NoRow
Owned(r)       == Row(r) # NoRow /\ Row(r).owner = turn[r].user

-----------------------------------------------------------------------------
(* get_current_user has let the request in.                                *)
Ask(s, t) ==
  /\ Len(turn) < MaxTurns
  /\ Resolves(s)
  /\ turn' = Append(turn, [user |-> session[s].user, session |-> s, thread |-> t, pc |-> "claim",
                           base |-> {}, said |-> FALSE, met |-> {}, answer |-> 0, seen |-> 0])
  /\ UNCHANGED <<accountVars, conversation, checkpoint>>

(* claim_thread.                                                           *)
Claim(r) ==
  /\ At(r, "claim")
  /\ GoTo(r, CASE Absent(r) -> "insert" [] Owned(r) -> "claimed" [] OTHER -> "failed")
  /\ UNCHANGED <<accountVars, conversation, checkpoint>>

ClaimInsert(r) ==
  /\ At(r, "insert")
  /\ IF Absent(r)
     THEN /\ conversation' = [conversation EXCEPT ![turn[r].thread] =
               [owner |-> turn[r].user, by |-> r, rounds |-> {}]]
          /\ GoTo(r, "claimed")
     ELSE /\ GoTo(r, "reread")
          /\ UNCHANGED conversation
  /\ UNCHANGED <<accountVars, checkpoint>>

ClaimReread(r) ==
  /\ At(r, "reread")
  /\ GoTo(r, IF Owned(r) THEN "claimed" ELSE "failed")
  /\ UNCHANGED <<accountVars, conversation, checkpoint>>

-----------------------------------------------------------------------------
(* A run starts from the latest checkpoint, with a blank answer, keeps its *)
(* own copy of the state and saves it after every step; the latest save is *)
(* the checkpoint, whoever made it.  met is history: the runs of the same  *)
(* conversation that were under way at the same time.                      *)
Others(r) == {q \in DOMAIN turn \ {r} : Key(q) = Key(r) /\ turn[q].pc \in {"run", "read"}}

StartRun(r) ==
  /\ At(r, "claimed")
  /\ Resolves(turn[r].session)
  /\ turn' = [q \in DOMAIN turn |->
       CASE q = r -> [turn[r] EXCEPT !.pc = "run", !.base = checkpoint[Key(r)].rounds, !.met = Others(r)]
         [] q \in Others(r) -> [turn[q] EXCEPT !.met = @ \cup {r}]
         [] OTHER -> turn[q]]
  /\ checkpoint' = [checkpoint EXCEPT ![Key(r)].answer = 0]
  /\ UNCHANGED <<accountVars, conversation>>

StepRun(r, said) ==
  /\ At(r, "run")
  /\ turn[r].said => said
  /\ turn' = [turn EXCEPT ![r].said = said]
  /\ checkpoint' = [checkpoint EXCEPT ![Key(r)] =
       [rounds |-> turn[r].base \cup (IF said THEN {r} ELSE {}),
        answer |-> IF said THEN r ELSE 0]]
  /\ UNCHANGED <<accountVars, conversation>>

EndRun(r) ==
  /\ At(r, "run")
  /\ turn' = [turn EXCEPT ![r].pc = "read", ![r].base = {}, ![r].said = FALSE]
  /\ UNCHANGED <<accountVars, conversation, checkpoint>>

(* graph.get_state reads the latest checkpoint.                            *)
ReadAnswer(r) ==
  /\ At(r, "read")
  /\ checkpoint[Key(r)].answer # 0
  /\ turn' = [turn EXCEPT ![r].pc = "check", ![r].answer = checkpoint[Key(r)].answer]
  /\ UNCHANGED <<accountVars, conversation, checkpoint>>

CheckSession(r) ==
  /\ At(r, "check")
  /\ Resolves(turn[r].session)
  /\ GoTo(r, "record")
  /\ UNCHANGED <<accountVars, conversation, checkpoint>>

-----------------------------------------------------------------------------
(* record_turn.  The row is updated by its id alone and must still exist;  *)
(* one that was missing is inserted and must still be missing.             *)
(* Mutant of Record: it does not look whose conversation it is.            *)
RecordAnywhere(r) ==
  /\ At(r, "record")
  /\ turn' = [turn EXCEPT ![r].pc = "write", ![r].seen = Row(r).by]
  /\ UNCHANGED <<accountVars, conversation, checkpoint>>

Record(r) ==
  /\ At(r, "record")
  /\ Absent(r) \/ Owned(r)
  /\ turn' = [turn EXCEPT ![r].pc = "write", ![r].seen = Row(r).by]
  /\ UNCHANGED <<accountVars, conversation, checkpoint>>

RecordWrite(r) ==
  /\ At(r, "write")
  /\ (turn[r].seen = 0) = Absent(r)
  /\ conversation' = [conversation EXCEPT ![turn[r].thread] =
       IF Absent(r) THEN [owner |-> turn[r].user, by |-> r, rounds |-> {r}]
       ELSE [Row(r) EXCEPT !.rounds = Row(r).rounds \cup {r}]]
  /\ GoTo(r, "final")
  /\ UNCHANGED <<accountVars, checkpoint>>

(* Every refusal above ends the request with an error, and so does every   *)
(* exception on the way and the end of the process.                        *)
Fail(r) ==
  /\ turn[r].pc \notin {"final", "failed"}
  /\ turn' = [turn EXCEPT ![r].pc = "failed", ![r].base = {}, ![r].said = FALSE,
                         ![r].answer = 0, ![r].seen = 0]
  /\ UNCHANGED <<accountVars, conversation, checkpoint>>

(* delete_conversation takes the messages along and leaves the checkpoint. *)
Delete(s, t) ==
  /\ Resolves(s)
  /\ conversation[t] # NoRow /\ conversation[t].owner = session[s].user
  /\ conversation' = [conversation EXCEPT ![t] = NoRow]
  /\ UNCHANGED <<accountVars, turn, checkpoint>>

Next ==
  \/ AccountsNext /\ UNCHANGED chatVars
  \/ \E s \in DOMAIN session, t \in Threads : Ask(s, t) \/ Delete(s, t)
  \/ \E r \in DOMAIN turn :
       \/ Claim(r) \/ ClaimInsert(r) \/ ClaimReread(r)
       \/ StartRun(r) \/ EndRun(r) \/ ReadAnswer(r) \/ CheckSession(r)
       \/ \E said \in BOOLEAN : StepRun(r, said)
       \/ Record(r) \/ RecordWrite(r) \/ Fail(r)

Spec == Init /\ [][Next]_vars

-----------------------------------------------------------------------------
(* The types of the variables; a request past its run has an answer.       *)
Turn ==
  [user : Users, session : DOMAIN session, thread : Threads, pc : Phase,
   base : SUBSET (DOMAIN turn), said : BOOLEAN, met : SUBSET (DOMAIN turn),
   answer : 0..MaxTurns, seen : 0..MaxTurns]

TypeOK ==
  /\ AccountsTypeOK
  /\ turn \in Seq(Turn)
  /\ conversation \in [Threads ->
       [owner : Users \cup {"none"}, by : 0..Len(turn), rounds : SUBSET (DOMAIN turn)]]
  /\ checkpoint \in [Users \X Threads -> [rounds : SUBSET (DOMAIN turn), answer : 0..Len(turn)]]
  /\ \A r \in DOMAIN turn :
       turn[r].pc \in {"check", "record", "write", "final"} => turn[r].answer # 0

(* A session that has ended, by a logout, its time, a new password or the  *)
(* end of its account, never resolves again, also when the account is      *)
(* enabled again; and a turn whose session ends before its answer is there *)
(* is neither answered nor recorded (service.py:417-431, api.py:460).      *)
Undecided(r) == turn[r].pc \in {"claim", "insert", "reread", "claimed", "run", "read", "check"}

EndedSessionsStayOut ==
  [][/\ \A s \in DOMAIN session : ~Resolves(s) => ~Resolves(s)'
     /\ \A r \in DOMAIN turn :
          Undecided(r) /\ ~Resolves(turn[r].session) => turn'[r].pc \notin {"record", "write", "final"}]_vars

(* A turn that no other of the same owner and conversation ran beside is   *)
(* answered with its own answer, and once it is recorded the conversation's*)
(* memory holds it for the turns to come, whatever other users do with the *)
(* same id and though a deleted conversation is begun again; a memory      *)
(* holds rounds of its owner only (agent_service.py:73-92, api.py:435).    *)
Apart(r) == turn[r].met = {}

TurnsApartDoNotMix ==
  /\ \A r \in DOMAIN turn : Apart(r) =>
       /\ turn[r].answer \in {0, r}
       /\ turn[r].pc = "final" => r \in checkpoint[<<turn[r].user, turn[r].thread>>].rounds
  /\ \A r \in DOMAIN turn :
       turn[r].met \subseteq {q \in DOMAIN turn : turn[q].user = turn[r].user}
  /\ \A u \in Users, t \in Threads : \A r \in checkpoint[<<u, t>>].rounds :
       turn[r].user = u /\ turn[r].thread = t

(* A round stands in a conversation of the one who asked, unless it was    *)
(* being written while that conversation was deleted and its id claimed by *)
(* another user (storage/history/service.py:86-113).                       *)
RoundsReachTheirOwner ==
  \A t \in Threads : \A r \in conversation[t].rounds :
    \/ conversation[t].owner = turn[r].user
    \/ turn[r].seen \notin {0, conversation[t].by}
=============================================================================
