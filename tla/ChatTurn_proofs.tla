--------------------------- MODULE ChatTurn_proofs ---------------------------
(***************************************************************************)
(* Proofs about ChatTurn, for any number of users, sessions, threads and   *)
(* requests and any set of changes.  What holds of the accounts by         *)
(* themselves comes first; then the invariant grows in layers:             *)
(*   Typed     types, and the bound on requests;                           *)
(*   Memory    what a run, its checkpoint and the runs beside it know of   *)
(*             each other;                                                 *)
(*   Rows      who a row of a conversation belongs to, and which row a     *)
(*             request has seen.                                           *)
(***************************************************************************)
EXTENDS ChatTurn, FiniteSetTheorems, TLAPS

-----------------------------------------------------------------------------
(* Accounts and sessions.                                                  *)

(* Every step keeps the types.                                             *)
LEMMA AccountsTypeStep == AccountsTypeOK /\ [AccountsNext]_accountVars => AccountsTypeOK'
<1> SUFFICES ASSUME AccountsTypeOK, [AccountsNext]_accountVars PROVE AccountsTypeOK'
  OBVIOUS
<1> USE AccountsAssumption DEF AccountsTypeOK, Account, NoAccount
<1>1. ASSUME NEW u \in Users, BootLook(u) PROVE AccountsTypeOK'
  BY <1>1 DEF BootLook
<1>2. ASSUME NEW u \in Users, BootCreate(u) PROVE AccountsTypeOK'
  BY <1>2 DEF BootCreate
<1>3. ASSUME NEW u \in Users, BootFails(u) PROVE AccountsTypeOK'
  BY <1>3 DEF BootFails
<1>4. ASSUME NEW u \in Users, Login(u) PROVE AccountsTypeOK'
  <2>1. [user |-> u, open |-> TRUE] \in Session
    BY DEF Session
  <2> QED BY <1>4, <2>1 DEF Login
<1>5. ASSUME NEW s \in DOMAIN session
      PROVE  session[s].user \in Users /\ [session[s] EXCEPT !.open = FALSE] \in Session
  <2>1. session[s] \in Session
    OBVIOUS
  <2> QED BY <2>1 DEF Session
<1>6. ASSUME NEW s \in DOMAIN session, Logout(s) \/ Expire(s) PROVE AccountsTypeOK'
  <2>1. session' = [session EXCEPT ![s] = [session[s] EXCEPT !.open = FALSE]]
    BY <1>6 DEF Logout, Expire
  <2> QED BY <1>5, <1>6, <2>1 DEF Logout, Expire
<1>7. ASSUME NEW s \in DOMAIN session, RequireAdmin(s) PROVE AccountsTypeOK'
  <2>1. session[s].user \in Users /\ UNCHANGED <<account, session, booting, bootstrapped>>
    BY <1>5, <1>7 DEF RequireAdmin
  <2>2. admitted' = [admitted EXCEPT ![session[s].user] = @ + 1]
    BY <1>7 DEF RequireAdmin
  <2> QED BY <2>1, <2>2
<1>8. ASSUME NEW a \in Users, NEW u \in Users, NEW role \in {"admin", "user"}, CreateUser(a, u, role)
      PROVE  AccountsTypeOK'
  BY <1>8 DEF CreateUser
<1>9. ASSUME NEW a \in Users, NEW u \in Users, NEW c \in Changes, UpdateUser(a, u, c)
      PROVE  AccountsTypeOK'
  <2>1. Changed(u, c) \in [role : {"admin", "user"}, active : BOOLEAN]
    BY <1>9 DEF UpdateUser, Exists, Changed, Change
  <2>2. session' \in Seq(Session)
    <3>1. CASE Ends(u, c)
      <4> DEFINE f(s) == IF session[s].user = u THEN [session[s] EXCEPT !.open = FALSE] ELSE session[s]
      <4>1. session' = [s \in 1..Len(session) |-> f(s)]
        BY <1>9, <3>1 DEF UpdateUser, Revoke
      <4>2. \A s \in 1..Len(session) : f(s) \in Session
        BY <1>5
      <4> HIDE DEF f
      <4> QED BY <4>1, <4>2
    <3>2. CASE ~Ends(u, c)
      BY <1>9, <3>2 DEF UpdateUser
    <3> QED BY <3>1, <3>2
  <2>3. admitted' \in [Users -> Nat]
    BY <1>9 DEF UpdateUser
  <2> QED BY <1>9, <2>1, <2>2, <2>3 DEF UpdateUser
<1>10. ASSUME NEW a \in Users, AdminRequestFails(a) PROVE AccountsTypeOK'
  BY <1>10 DEF AdminRequestFails
<1>11. CASE UNCHANGED accountVars
  BY <1>11 DEF accountVars
<1> QED
  BY <1>1, <1>2, <1>3, <1>4, <1>6, <1>7, <1>8, <1>9, <1>10, <1>11 DEF AccountsNext

(* The initial state has the types.                                        *)
LEMMA AccountsTypeInit == AccountsInit => AccountsTypeOK
  BY DEF AccountsInit, AccountsTypeOK, NoAccount, Account

-----------------------------------------------------------------------------
(* One administrator at least.  Before the first bootstrap there is        *)
(* nothing: no account, session nor request; a bootstrap under way is the  *)
(* only one, and none is after the first.                                  *)

Founding ==
  /\ bootstrapped = {} => /\ session = <<>>
                          /\ \A u \in Users : account[u] = NoAccount /\ admitted[u] = 0
  /\ booting # {} => bootstrapped = {}
  /\ \A u, v \in booting : u = v
  /\ \A u, v \in bootstrapped : u = v
  /\ bootstrapped # {} => ActiveAdmins # {}

(* A change that is not refused leaves an administrator.                   *)
LEMMA ChangeLeavesAdmin ==
  ASSUME AccountsTypeOK, ActiveAdmins # {}, NEW a \in Users, NEW u \in Users, NEW c \in Changes,
         UpdateUser(a, u, c)
  PROVE  ActiveAdmins' # {}
<1> USE AccountsAssumption
<1>1. account' = [account EXCEPT ![u] = Changed(u, c)]
  BY DEF UpdateUser
<1>2. CASE InvalidatesAdmin(u, c)
  <2>1. u \in ActiveAdmins /\ Cardinality(ActiveAdmins) # 1
    BY <1>2 DEF UpdateUser, Refused, InvalidatesAdmin
  <2>2. PICK v \in ActiveAdmins : v # u
    <3>1. Cardinality({u}) = 1
      BY FS_Singleton
    <3> QED BY <2>1, <3>1
  <2>3. v \in ActiveAdmins'
    BY <1>1, <2>2 DEF ActiveAdmins, AccountsTypeOK
  <2> QED BY <2>3
<1>3. CASE ~InvalidatesAdmin(u, c)
  <2>1. PICK v : v \in ActiveAdmins
    OBVIOUS
  <2>2. CASE v # u
    BY <1>1, <2>1, <2>2 DEF ActiveAdmins, AccountsTypeOK
  <2>3. CASE v = u
    <3>1. c \in Change /\ c.active # "off" /\ c.role # "user"
      BY <1>3, <2>1, <2>3 DEF InvalidatesAdmin
    <3>2. c.active \in {"on", "keep"} /\ c.role \in {"admin", "keep"}
      BY <3>1 DEF Change
    <3>3. Changed(u, c).role = "admin" /\ Changed(u, c).active
      BY <2>1, <2>3, <3>2 DEF Changed, ActiveAdmins
    <3>4. u \in ActiveAdmins'
      BY <1>1, <3>3 DEF ActiveAdmins, AccountsTypeOK
    <3> QED BY <3>4
  <2> QED BY <2>2, <2>3
<1> QED BY <1>2, <1>3

(* Every step keeps it so.                                                 *)
LEMMA FoundingStep == AccountsTypeOK /\ Founding /\ [AccountsNext]_accountVars => Founding'
<1> SUFFICES ASSUME AccountsTypeOK, Founding, [AccountsNext]_accountVars PROVE Founding'
  OBVIOUS
<1> USE AccountsAssumption
<1>0. ASSUME UNCHANGED <<account, booting, bootstrapped>>, bootstrapped # {} PROVE Founding'
  BY <1>0 DEF Founding, ActiveAdmins
<1>1. ASSUME NEW u \in Users, BootLook(u) PROVE Founding'
  BY <1>1 DEF BootLook, Founding, ActiveAdmins
<1>2. ASSUME NEW u \in Users, BootCreate(u) PROVE Founding'
  <2>1. booting' = {} /\ bootstrapped' = {u}
    BY <1>2 DEF BootCreate, Founding
  <2>2. u \in ActiveAdmins'
    BY <1>2 DEF BootCreate, ActiveAdmins, AccountsTypeOK
  <2> QED BY <2>1, <2>2 DEF Founding
<1>3. ASSUME NEW u \in Users, BootFails(u) PROVE Founding'
  BY <1>3 DEF BootFails, Founding, ActiveAdmins
<1>4. ASSUME NEW u \in Users, Login(u) PROVE Founding'
  <2>1. bootstrapped # {}
    BY <1>4 DEF Login, Founding, NoAccount
  <2> QED BY <1>0, <1>4, <2>1 DEF Login
<1>5. ASSUME NEW s \in DOMAIN session, Logout(s) \/ Expire(s) \/ RequireAdmin(s) PROVE Founding'
  <2>1. bootstrapped # {}
    BY DEF Founding
  <2> QED BY <1>0, <1>5, <2>1 DEF Logout, Expire, RequireAdmin
<1>6. ASSUME NEW a \in Users, admitted[a] > 0 PROVE bootstrapped # {}
  BY <1>6 DEF Founding
<1>7. ASSUME NEW a \in Users, NEW u \in Users, NEW role \in {"admin", "user"}, CreateUser(a, u, role)
      PROVE  Founding'
  <2>1. bootstrapped # {} /\ UNCHANGED <<booting, bootstrapped>>
    BY <1>6, <1>7 DEF CreateUser
  <2>2. PICK v : v \in ActiveAdmins
    BY <2>1 DEF Founding
  <2>3. v # u
    BY <1>7, <2>2 DEF CreateUser, Exists, ActiveAdmins, NoAccount
  <2>4. v \in ActiveAdmins'
    BY <1>7, <2>2, <2>3 DEF CreateUser, ActiveAdmins, AccountsTypeOK
  <2> QED BY <2>1, <2>4 DEF Founding
<1>8. ASSUME NEW a \in Users, NEW u \in Users, NEW c \in Changes, UpdateUser(a, u, c) PROVE Founding'
  <2>1. bootstrapped # {} /\ UNCHANGED <<booting, bootstrapped>>
    BY <1>6, <1>8 DEF UpdateUser
  <2>2. ActiveAdmins' # {}
    BY <1>8, <2>1, ChangeLeavesAdmin DEF Founding
  <2> QED BY <2>1, <2>2 DEF Founding
<1>9. ASSUME NEW a \in Users, AdminRequestFails(a) PROVE Founding'
  BY <1>0, <1>6, <1>9 DEF AdminRequestFails
<1>10. CASE UNCHANGED accountVars
  BY <1>10 DEF accountVars, Founding, ActiveAdmins
<1> QED
  BY <1>1, <1>2, <1>3, <1>4, <1>5, <1>7, <1>8, <1>9, <1>10 DEF AccountsNext

(* It says what AdminRemains does.                                         *)
LEMMA FoundingMeans == Founding => AdminRemains
<1> SUFFICES ASSUME Founding PROVE AdminRemains
  OBVIOUS
<1>1. CASE bootstrapped = {}
  BY <1>1, FS_EmptySet DEF AdminRemains
<1>2. CASE bootstrapped # {}
  <2>1. PICK u : bootstrapped = {u}
    <3>1. PICK u : u \in bootstrapped
      BY <1>2
    <3>2. bootstrapped = {u}
      BY <3>1 DEF Founding
    <3> QED BY <3>2
  <2>2. Cardinality({u}) = 1
    BY FS_Singleton
  <2> QED BY <1>2, <2>1, <2>2 DEF AdminRemains, Founding
<1> QED BY <1>1, <1>2

(* The initial state.                                                      *)
LEMMA FoundingInit == AccountsInit => Founding
  BY DEF AccountsInit, Founding

(* The accounts by themselves keep an administrator from the first on.     *)
THEOREM AdminAlwaysRemains == AccountsSpec => []AdminRemains
<1> QED
  BY AccountsTypeInit, AccountsTypeStep, FoundingInit, FoundingStep, FoundingMeans, PTL
     DEF AccountsSpec

-----------------------------------------------------------------------------
(* Sessions.  An open one is of an active account, hence it resolves as    *)
(* long as it is open, and it is never opened again.                       *)

OpenIsActive == \A s \in DOMAIN session : session[s].open => account[session[s].user].active

SessionsOnlyEnd ==
  /\ DOMAIN session \subseteq DOMAIN session'
  /\ \A s \in DOMAIN session : /\ session'[s].user = session[s].user
                               /\ session'[s].open => session[s].open

(* Both hold of every step.                                                *)
LEMMA SessionsStep ==
  ASSUME AccountsTypeOK, OpenIsActive, [AccountsNext]_accountVars
  PROVE  OpenIsActive' /\ SessionsOnlyEnd
<1> USE AccountsAssumption DEF AccountsTypeOK
<1>0. \A s \in DOMAIN session : session[s] \in Session
  OBVIOUS
<1>1. ASSUME UNCHANGED session,
             \A u \in Users : account[u].active => account'[u].active
      PROVE  OpenIsActive' /\ SessionsOnlyEnd
  BY <1>0, <1>1 DEF OpenIsActive, SessionsOnlyEnd, Session
<1>2. ASSUME NEW u \in Users, BootLook(u) \/ BootCreate(u) \/ BootFails(u)
      PROVE  OpenIsActive' /\ SessionsOnlyEnd
  BY <1>1, <1>2 DEF BootLook, BootCreate, BootFails
<1>3. ASSUME NEW u \in Users, Login(u) PROVE OpenIsActive' /\ SessionsOnlyEnd
  <2>1. Len(session') = Len(session) + 1 /\ (\A s \in DOMAIN session : session'[s] = session[s])
    BY <1>3 DEF Login
  <2>2. session'[Len(session) + 1] = [user |-> u, open |-> TRUE] /\ account[u].active
    BY <1>3 DEF Login
  <2>3. UNCHANGED account
    BY <1>3 DEF Login
  <2>4. DOMAIN session' = DOMAIN session \cup {Len(session) + 1}
    BY <1>3, <2>1 DEF Login
  <2> QED BY <2>1, <2>2, <2>3, <2>4 DEF OpenIsActive, SessionsOnlyEnd
<1>4. ASSUME NEW s \in DOMAIN session, Logout(s) \/ Expire(s) PROVE OpenIsActive' /\ SessionsOnlyEnd
  <2>1. session' = [session EXCEPT ![s] = [session[s] EXCEPT !.open = FALSE]] /\ UNCHANGED account
    BY <1>4 DEF Logout, Expire
  <2>2. [session[s] EXCEPT !.open = FALSE].user = session[s].user /\ ~[session[s] EXCEPT !.open = FALSE].open
    BY <1>0 DEF Session
  <2> QED BY <2>1, <2>2 DEF OpenIsActive, SessionsOnlyEnd
<1>5. ASSUME NEW s \in DOMAIN session, RequireAdmin(s) PROVE OpenIsActive' /\ SessionsOnlyEnd
  BY <1>1, <1>5 DEF RequireAdmin
<1>6. ASSUME NEW a \in Users, NEW u \in Users, NEW role \in {"admin", "user"}, CreateUser(a, u, role)
      PROVE  OpenIsActive' /\ SessionsOnlyEnd
  BY <1>1, <1>6 DEF CreateUser
<1>7. ASSUME NEW a \in Users, NEW u \in Users, NEW c \in Changes, UpdateUser(a, u, c)
      PROVE  OpenIsActive' /\ SessionsOnlyEnd
  <2>1. account' = [account EXCEPT ![u] = Changed(u, c)]
    BY <1>7 DEF UpdateUser
  <2>2. CASE Ends(u, c)
    <3>1. session' = [s \in DOMAIN session |->
            IF session[s].user = u THEN [session[s] EXCEPT !.open = FALSE] ELSE session[s]]
      BY <1>7, <2>2 DEF UpdateUser, Revoke
    <3>2. ASSUME NEW s \in DOMAIN session
          PROVE  /\ session'[s].user = session[s].user
                 /\ session'[s].open => session[s].open /\ session[s].user # u
      BY <1>0, <3>1 DEF Session
    <3>3. DOMAIN session' = DOMAIN session
      BY <3>1
    <3> QED BY <1>0, <2>1, <3>2, <3>3 DEF OpenIsActive, SessionsOnlyEnd, Session
  <2>3. CASE ~Ends(u, c)
    <3>1. account[u].active => Changed(u, c).active
      <4>1. c.active \in {"on", "off", "keep"}
        BY DEF Change
      <4> QED BY <2>3, <4>1 DEF Ends, Changed
    <3>2. UNCHANGED session
      BY <1>7, <2>3 DEF UpdateUser
    <3> QED BY <1>1, <2>1, <3>1, <3>2
  <2> QED BY <2>2, <2>3
<1>8. ASSUME NEW a \in Users, AdminRequestFails(a) PROVE OpenIsActive' /\ SessionsOnlyEnd
  BY <1>1, <1>8 DEF AdminRequestFails
<1>9. CASE UNCHANGED accountVars
  BY <1>1, <1>9 DEF accountVars
<1> QED
  BY <1>2, <1>3, <1>4, <1>5, <1>6, <1>7, <1>8, <1>9 DEF AccountsNext

-----------------------------------------------------------------------------
(* Types.                                                                  *)

Typed == TypeOK /\ Len(turn) <= MaxTurns

Answered == {"check", "record", "write", "final"}

(* One request changes, and keeps who asked it, when and where.            *)
Rest(r) ==
  /\ DOMAIN turn' = DOMAIN turn /\ Len(turn') = Len(turn)
  /\ \A q \in DOMAIN turn \ {r} : turn'[q] = turn[q]
Same(r) ==
  /\ turn'[r].user = turn[r].user /\ turn'[r].session = turn[r].session
  /\ turn'[r].thread = turn[r].thread

(* What all steps but the start of a run do to the requests.               *)
Moves(r, pc, base, said, answer, seen) ==
  /\ Rest(r) /\ Same(r) /\ turn'[r].met = turn[r].met
  /\ turn'[r].pc = pc /\ turn'[r].base = base /\ turn'[r].said = said
  /\ turn'[r].answer = answer /\ turn'[r].seen = seen

(* The index and the fields of a request.                                  *)
LEMMA TurnFields ==
  ASSUME Typed, NEW r \in DOMAIN turn
  PROVE  /\ r \in 1..Len(turn) /\ r \in 1..MaxTurns /\ turn[r] \in Turn
         /\ Key(r) \in Users \X Threads /\ turn[r].thread \in Threads /\ turn[r].user \in Users
         /\ turn[r].session \in DOMAIN session /\ turn[r].pc \in Phase
         /\ turn[r].base \subseteq DOMAIN turn /\ turn[r].met \subseteq DOMAIN turn
         /\ turn[r].said \in BOOLEAN /\ turn[r].answer \in 0..MaxTurns /\ turn[r].seen \in 0..MaxTurns
<1>1. turn \in Seq(Turn) /\ Len(turn) \in Nat /\ MaxTurns \in Nat
  BY ChatAssumption DEF Typed, TypeOK
<1>2. turn[r] \in Turn /\ r \in 1..Len(turn)
  BY <1>1
<1>3. r \in 1..MaxTurns
  BY <1>1, <1>2 DEF Typed
<1> QED BY <1>2, <1>3 DEF Turn, Key

(* The row and the checkpoint of a request.                                *)
LEMMA RowFields ==
  ASSUME Typed, NEW r \in DOMAIN turn
  PROVE  /\ Row(r).by \in 0..Len(turn) /\ Row(r).by \in 0..MaxTurns /\ Row(r).rounds \subseteq DOMAIN turn
         /\ checkpoint[Key(r)].rounds \subseteq DOMAIN turn
         /\ checkpoint[Key(r)].answer \in 0..Len(turn) /\ checkpoint[Key(r)].answer \in 0..MaxTurns
<1>1. Key(r) \in Users \X Threads /\ turn[r].thread \in Threads
  BY TurnFields
<1>2. Len(turn) \in Nat /\ Len(turn) <= MaxTurns /\ MaxTurns \in Nat
  BY ChatAssumption DEF Typed, TypeOK
<1>3. /\ Row(r).by \in 0..Len(turn) /\ Row(r).rounds \subseteq DOMAIN turn
      /\ checkpoint[Key(r)].rounds \subseteq DOMAIN turn /\ checkpoint[Key(r)].answer \in 0..Len(turn)
  BY <1>1 DEF Typed, TypeOK, Row
<1> QED BY <1>2, <1>3

(* A request replaced by another record of the type.                       *)
LEMMA Edit ==
  ASSUME Typed, NEW r \in DOMAIN turn, NEW c \in Turn, turn' = [turn EXCEPT ![r] = c],
         UNCHANGED session
  PROVE  /\ Rest(r) /\ turn'[r] = c /\ turn' \in Seq(Turn')
<1>1. turn \in Seq(Turn)
  BY DEF Typed, TypeOK
<1>2. turn' \in Seq(Turn) /\ Len(turn') = Len(turn) /\ DOMAIN turn' = DOMAIN turn
  BY <1>1
<1>3. Turn' = Turn
  BY <1>2 DEF Turn
<1> QED BY <1>1, <1>2, <1>3 DEF Rest

(* The types of the rest follow from those of the requests.                *)
LEMMA TypedAgain ==
  ASSUME Typed, UNCHANGED accountVars, NEW r, Rest(r), turn' \in Seq(Turn'),
         conversation' \in [Threads ->
           [owner : Users \cup {"none"}, by : 0..Len(turn), rounds : SUBSET (DOMAIN turn)]],
         checkpoint' \in [Users \X Threads -> [rounds : SUBSET (DOMAIN turn), answer : 0..Len(turn)]],
         r \in DOMAIN turn => (turn'[r].pc \in Answered => turn'[r].answer # 0)
  PROVE  Typed'
<1>1. AccountsTypeOK'
  BY DEF Typed, TypeOK, AccountsTypeOK, accountVars
<1>2. \A q \in DOMAIN turn' : turn'[q].pc \in Answered => turn'[q].answer # 0
  BY DEF Rest, Typed, TypeOK, Answered
<1> QED BY <1>1, <1>2 DEF Typed, TypeOK, Rest, Answered

(* A request that moves keeps the types, as long as one past its run has   *)
(* an answer.                                                              *)
LEMMA MoveTyped ==
  ASSUME Typed, UNCHANGED accountVars, NEW r \in DOMAIN turn, NEW c \in Turn,
         turn' = [turn EXCEPT ![r] = c], c.pc \in Answered => c.answer # 0,
         c.user = turn[r].user, c.session = turn[r].session, c.thread = turn[r].thread,
         c.met = turn[r].met,
         conversation' \in [Threads ->
           [owner : Users \cup {"none"}, by : 0..Len(turn), rounds : SUBSET (DOMAIN turn)]],
         checkpoint' \in [Users \X Threads -> [rounds : SUBSET (DOMAIN turn), answer : 0..Len(turn)]]
  PROVE  Typed' /\ Moves(r, c.pc, c.base, c.said, c.answer, c.seen)
<1>1. Rest(r) /\ turn'[r] = c /\ turn' \in Seq(Turn')
  BY Edit DEF accountVars
<1>2. Typed'
  BY <1>1, TypedAgain
<1> QED BY <1>1, <1>2 DEF Moves, Same

(* A row and a checkpoint that stay, or whose step leaves them be.         *)
LEMMA RowsTyped ==
  ASSUME Typed
  PROVE  /\ conversation \in [Threads ->
              [owner : Users \cup {"none"}, by : 0..Len(turn), rounds : SUBSET (DOMAIN turn)]]
         /\ checkpoint \in [Users \X Threads -> [rounds : SUBSET (DOMAIN turn), answer : 0..Len(turn)]]
BY DEF Typed, TypeOK

(* The steps that only move a request along.                               *)
LEMMA GoToTyped ==
  ASSUME Typed, UNCHANGED <<accountVars, checkpoint>>, NEW r \in DOMAIN turn,
         NEW phase \in Phase, GoTo(r, phase), phase \in Answered => turn[r].answer # 0,
         conversation' \in [Threads ->
           [owner : Users \cup {"none"}, by : 0..Len(turn), rounds : SUBSET (DOMAIN turn)]]
  PROVE  /\ Typed'
         /\ Moves(r, phase, turn[r].base, turn[r].said, turn[r].answer, turn[r].seen)
<1> DEFINE c == [turn[r] EXCEPT !.pc = phase]
<1>1. /\ c \in Turn /\ c.pc = phase /\ c.user = turn[r].user /\ c.session = turn[r].session
      /\ c.thread = turn[r].thread /\ c.answer = turn[r].answer /\ c.met = turn[r].met
      /\ c.base = turn[r].base /\ c.said = turn[r].said /\ c.seen = turn[r].seen
  <2>1. turn[r] \in Turn
    BY TurnFields
  <2> QED BY <2>1 DEF Turn
<1>2. turn' = [turn EXCEPT ![r] = c]
  BY DEF GoTo
<1> HIDE DEF c
<1>3. checkpoint' \in [Users \X Threads -> [rounds : SUBSET (DOMAIN turn), answer : 0..Len(turn)]]
  BY RowsTyped
<1>4. Typed' /\ Moves(r, c.pc, c.base, c.said, c.answer, c.seen)
  BY <1>1, <1>2, <1>3, MoveTyped
<1> QED BY <1>1, <1>4

-----------------------------------------------------------------------------
(* What each step does to the requests, with the types after it.           *)

(* The claim of a conversation, in its three steps.                        *)
LEMMA ClaimDoes ==
  ASSUME Typed, NEW r \in DOMAIN turn, Claim(r) \/ ClaimInsert(r) \/ ClaimReread(r)
  PROVE  \E phase \in {"insert", "claimed", "reread", "failed"} :
           /\ Typed' /\ turn[r].pc \in {"claim", "insert", "reread"}
           /\ Moves(r, phase, turn[r].base, turn[r].said, turn[r].answer, turn[r].seen)
<1>1. PICK phase \in {"insert", "claimed", "reread", "failed"} : GoTo(r, phase)
  BY DEF Claim, ClaimInsert, ClaimReread
<1>2. phase \in Phase /\ phase \notin Answered
  BY DEF Phase, Answered
<1>3. UNCHANGED <<accountVars, checkpoint>> /\ turn[r].pc \in {"claim", "insert", "reread"}
  BY DEF Claim, ClaimInsert, ClaimReread, At
<1>4. [owner |-> turn[r].user, by |-> r, rounds |-> {}]
        \in [owner : Users \cup {"none"}, by : 0..Len(turn), rounds : SUBSET (DOMAIN turn)]
  BY TurnFields
<1>5. conversation' = conversation \/
      conversation' = [conversation EXCEPT ![turn[r].thread] = [owner |-> turn[r].user, by |-> r, rounds |-> {}]]
  BY DEF Claim, ClaimInsert, ClaimReread
<1>6. conversation' \in [Threads ->
        [owner : Users \cup {"none"}, by : 0..Len(turn), rounds : SUBSET (DOMAIN turn)]]
  BY <1>4, <1>5, RowsTyped
<1> QED BY <1>1, <1>2, <1>3, <1>6, GoToTyped

(* The start of a run, which the runs beside it take note of.              *)
LEMMA StartRunDoes ==
  ASSUME Typed, NEW r \in DOMAIN turn, StartRun(r)
  PROVE  /\ Typed' /\ At(r, "claimed")
         /\ DOMAIN turn' = DOMAIN turn /\ Len(turn') = Len(turn)
         /\ turn'[r] = [turn[r] EXCEPT !.pc = "run", !.base = checkpoint[Key(r)].rounds, !.met = Others(r)]
         /\ \A q \in DOMAIN turn : q \in Others(r) => q # r /\ turn'[q] = [turn[q] EXCEPT !.met = @ \cup {r}]
         /\ \A q \in DOMAIN turn : q # r /\ q \notin Others(r) => turn'[q] = turn[q]
<1> DEFINE f(q) ==
       CASE q = r -> [turn[r] EXCEPT !.pc = "run", !.base = checkpoint[Key(r)].rounds, !.met = Others(r)]
         [] q \in Others(r) -> [turn[q] EXCEPT !.met = @ \cup {r}]
         [] OTHER -> turn[q]
<1>1. turn \in Seq(Turn) /\ DOMAIN turn = 1..Len(turn)
  BY DEF Typed, TypeOK
<1>2. turn' = [q \in DOMAIN turn |-> f(q)] /\ r \notin Others(r)
  BY DEF StartRun, Others
<1>3. f(r) = [turn[r] EXCEPT !.pc = "run", !.base = checkpoint[Key(r)].rounds, !.met = Others(r)]
  BY <1>2
<1>4. \A q \in DOMAIN turn : q \in Others(r) => f(q) = [turn[q] EXCEPT !.met = @ \cup {r}]
  BY <1>2
<1>5. \A q \in DOMAIN turn : q # r /\ q \notin Others(r) => f(q) = turn[q]
  OBVIOUS
<1> HIDE DEF f
<1>6. Others(r) \subseteq DOMAIN turn
  BY DEF Others
<1>7. f(r) \in Turn /\ f(r).pc = "run"
  <2> DEFINE base == checkpoint[Key(r)].rounds
             met == Others(r)
             one == [turn[r] EXCEPT !.pc = "run"]
             two == [one EXCEPT !.base = base]
  <2>1. base \in SUBSET DOMAIN turn /\ met \in SUBSET DOMAIN turn /\ turn[r] \in Turn
    BY <1>6, TurnFields, RowFields
  <2>2. f(r) = [two EXCEPT !.met = met]
    BY <1>3
  <2> HIDE DEF base, met
  <2>3. one \in Turn /\ one.pc = "run"
    BY <2>1 DEF Turn, Phase
  <2> HIDE DEF one
  <2>4. two \in Turn /\ two.pc = "run"
    BY <2>1, <2>3 DEF Turn
  <2> HIDE DEF two
  <2> QED BY <2>1, <2>2, <2>4 DEF Turn
<1>8. ASSUME NEW q \in DOMAIN turn, q # r
      PROVE  f(q) \in Turn /\ f(q).pc = turn[q].pc /\ f(q).answer = turn[q].answer
  <2>1. turn[q] \in Turn /\ turn[q].met \cup {r} \in SUBSET (DOMAIN turn)
    BY TurnFields
  <2>2. CASE q \in Others(r)
    <3>1. f(q) = [turn[q] EXCEPT !.met = turn[q].met \cup {r}]
      BY <1>4, <2>2
    <3> QED BY <2>1, <3>1 DEF Turn
  <2>3. CASE q \notin Others(r)
    BY <1>5, <1>8, <2>1, <2>3
  <2> QED BY <2>2, <2>3
<1>9. turn' \in Seq(Turn) /\ DOMAIN turn' = DOMAIN turn /\ Len(turn') = Len(turn)
  BY <1>1, <1>2, <1>7, <1>8
<1>10. Turn' = Turn
  BY <1>9 DEF Turn, StartRun, accountVars
<1>11. checkpoint' \in [Users \X Threads -> [rounds : SUBSET (DOMAIN turn), answer : 0..Len(turn)]]
  <2>1. checkpoint' = [checkpoint EXCEPT ![Key(r)] = [checkpoint[Key(r)] EXCEPT !.answer = 0]]
    BY DEF StartRun
  <2>2. checkpoint \in [Users \X Threads -> [rounds : SUBSET (DOMAIN turn), answer : 0..Len(turn)]]
    BY DEF Typed, TypeOK
  <2>3. Key(r) \in Users \X Threads /\ 0 \in 0..Len(turn)
    BY <1>1, TurnFields
  <2> QED BY <2>1, <2>2, <2>3
<1>12. \A q \in DOMAIN turn' : turn'[q].pc \in Answered => turn'[q].answer # 0
  BY <1>2, <1>7, <1>8, <1>9 DEF Typed, TypeOK, Answered
<1>13. Typed'
  BY <1>9, <1>10, <1>11, <1>12 DEF Typed, TypeOK, AccountsTypeOK, StartRun, accountVars, Answered
<1> QED BY <1>2, <1>3, <1>4, <1>5, <1>9, <1>13 DEF StartRun

(* A step of a run: whether the answer is there, and the checkpoint with   *)
(* it.                                                                     *)
LEMMA StepRunDoes ==
  ASSUME Typed, NEW r \in DOMAIN turn, NEW said \in BOOLEAN, StepRun(r, said)
  PROVE  /\ Typed' /\ turn[r].pc = "run" /\ (turn[r].said => said)
         /\ Moves(r, "run", turn[r].base, said, turn[r].answer, turn[r].seen)
         /\ checkpoint'[Key(r)].rounds = turn[r].base \cup (IF said THEN {r} ELSE {})
         /\ checkpoint'[Key(r)].answer = IF said THEN r ELSE 0
         /\ \A k \in (Users \X Threads) \ {Key(r)} : checkpoint'[k] = checkpoint[k]
<1> DEFINE c == [turn[r] EXCEPT !.said = said]
           p == [rounds |-> turn[r].base \cup (IF said THEN {r} ELSE {}), answer |-> IF said THEN r ELSE 0]
<1>1. /\ c \in Turn /\ c.pc = turn[r].pc /\ c.user = turn[r].user /\ c.session = turn[r].session
      /\ c.thread = turn[r].thread /\ c.answer = turn[r].answer /\ c.met = turn[r].met
      /\ c.base = turn[r].base /\ c.said = said /\ c.seen = turn[r].seen
  <2>1. turn[r] \in Turn
    BY TurnFields
  <2> QED BY <2>1 DEF Turn
<1>2. turn' = [turn EXCEPT ![r] = c] /\ turn[r].pc = "run" /\ (turn[r].said => said)
  BY DEF StepRun, At
<1>3. p \in [rounds : SUBSET (DOMAIN turn), answer : 0..Len(turn)]
  <2>1. r \in 1..Len(turn) /\ r \in DOMAIN turn /\ turn[r].base \subseteq DOMAIN turn /\ Len(turn) \in Nat
    BY TurnFields DEF Typed, TypeOK
  <2> QED BY <2>1
<1>4. checkpoint' = [checkpoint EXCEPT ![Key(r)] = p]
  BY DEF StepRun
<1>5. p.rounds = turn[r].base \cup (IF said THEN {r} ELSE {}) /\ p.answer = IF said THEN r ELSE 0
  OBVIOUS
<1> HIDE DEF c, p
<1>6. /\ checkpoint' \in [Users \X Threads -> [rounds : SUBSET (DOMAIN turn), answer : 0..Len(turn)]]
      /\ checkpoint'[Key(r)] = p
      /\ \A k \in (Users \X Threads) \ {Key(r)} : checkpoint'[k] = checkpoint[k]
  BY <1>3, <1>4, RowsTyped, TurnFields
<1>7. UNCHANGED <<accountVars, conversation>>
  BY DEF StepRun
<1>8. conversation' \in [Threads ->
        [owner : Users \cup {"none"}, by : 0..Len(turn), rounds : SUBSET (DOMAIN turn)]]
  BY <1>7, RowsTyped
<1>9. c.pc \notin Answered
  BY <1>1, <1>2 DEF Answered
<1>10. Typed' /\ Moves(r, c.pc, c.base, c.said, c.answer, c.seen)
  BY <1>1, <1>2, <1>6, <1>7, <1>8, <1>9, MoveTyped
<1> QED BY <1>1, <1>2, <1>5, <1>6, <1>10

(* Its end, and the answer that is read from the checkpoint after it.      *)
LEMMA EndRunDoes ==
  ASSUME Typed, NEW r \in DOMAIN turn, EndRun(r)
  PROVE  /\ Typed' /\ turn[r].pc = "run"
         /\ Moves(r, "read", {}, FALSE, turn[r].answer, turn[r].seen)
<1> DEFINE c == [turn[r] EXCEPT !.pc = "read", !.base = {}, !.said = FALSE]
<1>1. /\ c \in Turn /\ c.pc = "read" /\ c.user = turn[r].user /\ c.session = turn[r].session
      /\ c.thread = turn[r].thread /\ c.answer = turn[r].answer /\ c.met = turn[r].met
      /\ c.base = {} /\ c.said = FALSE /\ c.seen = turn[r].seen
  <2>1. turn[r] \in Turn
    BY TurnFields
  <2> QED BY <2>1 DEF Turn, Phase
<1>2. turn' = [turn EXCEPT ![r] = c] /\ turn[r].pc = "run"
  BY DEF EndRun, At
<1> HIDE DEF c
<1>3. UNCHANGED <<accountVars, conversation, checkpoint>>
  BY DEF EndRun
<1>4. c.pc \notin Answered
  BY <1>1 DEF Answered
<1>5. Typed' /\ Moves(r, c.pc, c.base, c.said, c.answer, c.seen)
  BY <1>1, <1>2, <1>3, <1>4, RowsTyped, MoveTyped
<1> QED BY <1>1, <1>2, <1>5

LEMMA ReadAnswerDoes ==
  ASSUME Typed, NEW r \in DOMAIN turn, ReadAnswer(r)
  PROVE  /\ Typed' /\ turn[r].pc = "read" /\ checkpoint[Key(r)].answer # 0
         /\ Moves(r, "check", turn[r].base, turn[r].said, checkpoint[Key(r)].answer, turn[r].seen)
<1> DEFINE c == [turn[r] EXCEPT !.pc = "check", !.answer = checkpoint[Key(r)].answer]
<1>1. /\ c \in Turn /\ c.pc = "check" /\ c.user = turn[r].user /\ c.session = turn[r].session
      /\ c.thread = turn[r].thread /\ c.answer = checkpoint[Key(r)].answer /\ c.met = turn[r].met
      /\ c.base = turn[r].base /\ c.said = turn[r].said /\ c.seen = turn[r].seen
  <2>1. turn[r] \in Turn /\ checkpoint[Key(r)].answer \in 0..MaxTurns
    BY TurnFields, RowFields
  <2> QED BY <2>1 DEF Turn, Phase
<1>2. turn' = [turn EXCEPT ![r] = c] /\ turn[r].pc = "read" /\ checkpoint[Key(r)].answer # 0
  BY DEF ReadAnswer, At
<1> HIDE DEF c
<1>3. UNCHANGED <<accountVars, conversation, checkpoint>>
  BY DEF ReadAnswer
<1>4. Typed' /\ Moves(r, c.pc, c.base, c.said, c.answer, c.seen)
  BY <1>1, <1>2, <1>3, RowsTyped, MoveTyped
<1> QED BY <1>1, <1>2, <1>4

(* The last look at the session.                                           *)
LEMMA CheckSessionDoes ==
  ASSUME Typed, NEW r \in DOMAIN turn, CheckSession(r)
  PROVE  /\ Typed' /\ turn[r].pc = "check" /\ Resolves(turn[r].session)
         /\ Moves(r, "record", turn[r].base, turn[r].said, turn[r].answer, turn[r].seen)
<1>1. UNCHANGED <<accountVars, conversation, checkpoint>> /\ GoTo(r, "record") /\ turn[r].pc = "check"
  BY DEF CheckSession, At
<1>2. turn[r].answer # 0 /\ "record" \in Phase
  BY <1>1 DEF Typed, TypeOK, Phase
<1>3. Typed' /\ Moves(r, "record", turn[r].base, turn[r].said, turn[r].answer, turn[r].seen)
  BY <1>1, <1>2, RowsTyped, GoToTyped
<1> QED BY <1>1, <1>3 DEF CheckSession

(* The two halves of record_turn.                                          *)
LEMMA RecordDoes ==
  ASSUME Typed, NEW r \in DOMAIN turn, Record(r)
  PROVE  /\ Typed' /\ turn[r].pc = "record" /\ (Absent(r) \/ Owned(r))
         /\ Moves(r, "write", turn[r].base, turn[r].said, turn[r].answer, Row(r).by)
<1> DEFINE c == [turn[r] EXCEPT !.pc = "write", !.seen = Row(r).by]
<1>1. /\ c \in Turn /\ c.pc = "write" /\ c.user = turn[r].user /\ c.session = turn[r].session
      /\ c.thread = turn[r].thread /\ c.answer = turn[r].answer /\ c.met = turn[r].met
      /\ c.base = turn[r].base /\ c.said = turn[r].said /\ c.seen = Row(r).by
  <2>1. turn[r] \in Turn /\ Row(r).by \in 0..MaxTurns
    BY TurnFields, RowFields
  <2> QED BY <2>1 DEF Turn, Phase
<1>2. turn' = [turn EXCEPT ![r] = c] /\ turn[r].pc = "record" /\ (Absent(r) \/ Owned(r))
  BY DEF Record, At
<1> HIDE DEF c
<1>3. UNCHANGED <<accountVars, conversation, checkpoint>>
  BY DEF Record
<1>4. c.answer # 0
  BY <1>1, <1>2 DEF Typed, TypeOK
<1>5. Typed' /\ Moves(r, c.pc, c.base, c.said, c.answer, c.seen)
  BY <1>1, <1>2, <1>3, <1>4, RowsTyped, MoveTyped
<1> QED BY <1>1, <1>2, <1>5

LEMMA RecordWriteDoes ==
  ASSUME Typed, NEW r \in DOMAIN turn, RecordWrite(r)
  PROVE  /\ Typed' /\ turn[r].pc = "write" /\ ((turn[r].seen = 0) <=> Absent(r))
         /\ Moves(r, "final", turn[r].base, turn[r].said, turn[r].answer, turn[r].seen)
         /\ \A t \in Threads \ {turn[r].thread} : conversation'[t] = conversation[t]
         /\ Absent(r) => conversation'[turn[r].thread] = [owner |-> turn[r].user, by |-> r, rounds |-> {r}]
         /\ ~Absent(r) => /\ conversation'[turn[r].thread].owner = Row(r).owner
                          /\ conversation'[turn[r].thread].by = Row(r).by
                          /\ conversation'[turn[r].thread].rounds = Row(r).rounds \cup {r}
<1> DEFINE old == conversation[turn[r].thread]
           new == IF Absent(r) THEN [owner |-> turn[r].user, by |-> r, rounds |-> {r}]
                  ELSE [old EXCEPT !.rounds = old.rounds \cup {r}]
           R == [owner : Users \cup {"none"}, by : 0..Len(turn), rounds : SUBSET (DOMAIN turn)]
<1>1. conversation' = [conversation EXCEPT ![turn[r].thread] = new]
  BY DEF RecordWrite, Row
<1>2. old \in R /\ turn[r].thread \in Threads /\ turn[r].user \in Users /\ r \in 0..Len(turn)
  BY TurnFields, RowsTyped
<1>3. Absent(r) => new = [owner |-> turn[r].user, by |-> r, rounds |-> {r}] /\ new \in R
  BY <1>2
<1>4. ~Absent(r) => /\ new \in R /\ new.owner = old.owner /\ new.by = old.by
                    /\ new.rounds = old.rounds \cup {r}
  BY <1>2
<1> HIDE DEF new
<1>5. /\ conversation' \in [Threads -> R] /\ conversation'[turn[r].thread] = new
      /\ \A t \in Threads \ {turn[r].thread} : conversation'[t] = conversation[t]
  BY <1>1, <1>2, <1>3, <1>4, RowsTyped
<1>6. /\ UNCHANGED <<accountVars, checkpoint>> /\ GoTo(r, "final") /\ turn[r].pc = "write"
      /\ ((turn[r].seen = 0) <=> Absent(r))
  BY DEF RecordWrite, At
<1>7. turn[r].answer # 0 /\ "final" \in Phase
  BY <1>6 DEF Typed, TypeOK, Phase
<1>8. Typed' /\ Moves(r, "final", turn[r].base, turn[r].said, turn[r].answer, turn[r].seen)
  BY <1>5, <1>6, <1>7, GoToTyped
<1> QED BY <1>3, <1>4, <1>5, <1>6, <1>8 DEF Row

(* Every way a request fails.                                              *)
LEMMA FailDoes ==
  ASSUME Typed, NEW r \in DOMAIN turn, Fail(r)
  PROVE  /\ Typed' /\ turn[r].pc \notin {"final", "failed"} /\ Moves(r, "failed", {}, FALSE, 0, 0)
<1> DEFINE c == [turn[r] EXCEPT !.pc = "failed", !.base = {}, !.said = FALSE, !.answer = 0, !.seen = 0]
<1>1. /\ c \in Turn /\ c.pc = "failed" /\ c.user = turn[r].user /\ c.session = turn[r].session
      /\ c.thread = turn[r].thread /\ c.answer = 0 /\ c.met = turn[r].met
      /\ c.base = {} /\ c.said = FALSE /\ c.seen = 0
  <2>1. turn[r] \in Turn /\ 0 \in 0..MaxTurns
    BY TurnFields, ChatAssumption
  <2> QED BY <2>1 DEF Turn, Phase
<1>2. turn' = [turn EXCEPT ![r] = c] /\ turn[r].pc \notin {"final", "failed"}
  BY DEF Fail
<1> HIDE DEF c
<1>3. UNCHANGED <<accountVars, conversation, checkpoint>>
  BY DEF Fail
<1>4. c.pc \notin Answered
  BY <1>1 DEF Answered
<1>5. Typed' /\ Moves(r, c.pc, c.base, c.said, c.answer, c.seen)
  BY <1>1, <1>2, <1>3, <1>4, RowsTyped, MoveTyped
<1> QED BY <1>1, <1>2, <1>5

(* A new request, and its conversation's deletion.                         *)
LEMMA AskDoes ==
  ASSUME Typed, NEW s \in DOMAIN session, NEW t \in Threads, Ask(s, t)
  PROVE  /\ Typed' /\ DOMAIN turn' = DOMAIN turn \cup {Len(turn) + 1} /\ Len(turn) + 1 \notin DOMAIN turn
         /\ \A q \in DOMAIN turn : turn'[q] = turn[q]
         /\ Resolves(s)
         /\ LET r == Len(turn) + 1
            IN  /\ turn'[r].session = s /\ turn'[r].user = session[s].user /\ turn'[r].thread = t
                /\ turn'[r].pc = "claim" /\ turn'[r].base = {} /\ turn'[r].said = FALSE
                /\ turn'[r].met = {} /\ turn'[r].answer = 0 /\ turn'[r].seen = 0
<1> DEFINE c == [user |-> session[s].user, session |-> s, thread |-> t, pc |-> "claim",
                 base |-> {}, said |-> FALSE, met |-> {}, answer |-> 0, seen |-> 0]
<1>1. turn \in Seq(Turn) /\ Len(turn) \in Nat /\ MaxTurns \in Nat /\ Len(turn) < MaxTurns
  BY ChatAssumption DEF Typed, TypeOK, Ask
<1>2. session[s] \in Session
  BY DEF Typed, TypeOK, AccountsTypeOK
<1>3. session[s].user \in Users
  BY <1>2 DEF Session
<1>4. turn' = Append(turn, c) /\ UNCHANGED <<accountVars, conversation, checkpoint>> /\ Resolves(s)
  BY DEF Ask
<1>5. /\ c.session = s /\ c.user = session[s].user /\ c.thread = t
      /\ c.pc = "claim" /\ c.base = {} /\ c.said = FALSE
      /\ c.met = {} /\ c.answer = 0 /\ c.seen = 0
  OBVIOUS
<1>6. /\ Len(turn') = Len(turn) + 1 /\ DOMAIN turn' = 1..(Len(turn) + 1) /\ DOMAIN turn = 1..Len(turn)
      /\ turn'[Len(turn) + 1] = c /\ \A q \in 1..Len(turn) : turn'[q] = turn[q]
  BY <1>1, <1>4
<1>7. /\ DOMAIN turn' = DOMAIN turn \cup {Len(turn) + 1} /\ Len(turn) + 1 \notin DOMAIN turn
      /\ \A q \in DOMAIN turn : turn'[q] = turn[q]
  BY <1>1, <1>6
<1>8. Turn' = [user : Users, session : DOMAIN session, thread : Threads, pc : Phase,
               base : SUBSET (DOMAIN turn'), said : BOOLEAN, met : SUBSET (DOMAIN turn'),
               answer : 0..MaxTurns, seen : 0..MaxTurns]
  BY <1>4 DEF Turn, accountVars
<1>9. c \in Turn'
  BY <1>1, <1>3, <1>8 DEF Phase
<1> HIDE DEF c
<1>10. ASSUME NEW q \in DOMAIN turn PROVE turn[q] \in Turn'
  <2>1. turn[q] \in Turn
    BY TurnFields
  <2> QED BY <2>1, <1>7, <1>8 DEF Turn
<1>11. turn' \in Seq(Turn')
  <2>1. turn \in Seq(Turn')
    BY <1>1, <1>6, <1>10
  <2> QED BY <2>1, <1>4, <1>9
<1>12. \A q \in DOMAIN turn' : turn'[q].pc \in Answered => turn'[q].answer # 0
  BY <1>5, <1>6, <1>7 DEF Typed, TypeOK, Answered
<1>13. /\ conversation' \in [Threads ->
            [owner : Users \cup {"none"}, by : 0..Len(turn'), rounds : SUBSET (DOMAIN turn')]]
       /\ checkpoint' \in [Users \X Threads -> [rounds : SUBSET (DOMAIN turn'), answer : 0..Len(turn')]]
  <2>1. DOMAIN turn \subseteq DOMAIN turn' /\ 0..Len(turn) \subseteq 0..Len(turn')
    BY <1>1, <1>6
  <2>2. \A x \in [owner : Users \cup {"none"}, by : 0..Len(turn), rounds : SUBSET (DOMAIN turn)] :
          x \in [owner : Users \cup {"none"}, by : 0..Len(turn'), rounds : SUBSET (DOMAIN turn')]
    BY <2>1
  <2>3. \A x \in [rounds : SUBSET (DOMAIN turn), answer : 0..Len(turn)] :
          x \in [rounds : SUBSET (DOMAIN turn'), answer : 0..Len(turn')]
    BY <2>1
  <2> QED BY <1>4, <2>2, <2>3, RowsTyped
<1>14. AccountsTypeOK' /\ Len(turn') <= MaxTurns
  BY <1>1, <1>4, <1>6 DEF Typed, TypeOK, AccountsTypeOK, accountVars
<1>15. Typed'
  BY <1>11, <1>12, <1>13, <1>14 DEF Typed, TypeOK, Answered
<1> QED BY <1>4, <1>5, <1>6, <1>7, <1>15

LEMMA DeleteDoes ==
  ASSUME Typed, NEW s \in DOMAIN session, NEW t \in Threads, Delete(s, t)
  PROVE  /\ Typed' /\ conversation'[t] = NoRow
         /\ \A x \in Threads \ {t} : conversation'[x] = conversation[x]
<1>1. NoRow \in [owner : Users \cup {"none"}, by : 0..Len(turn), rounds : SUBSET (DOMAIN turn)]
  BY DEF NoRow, Typed, TypeOK
<1>2. /\ conversation' \in [Threads ->
           [owner : Users \cup {"none"}, by : 0..Len(turn), rounds : SUBSET (DOMAIN turn)]]
      /\ conversation'[t] = NoRow /\ \A x \in Threads \ {t} : conversation'[x] = conversation[x]
  BY <1>1, RowsTyped DEF Delete
<1>3. Turn' = Turn
  BY DEF Turn, Delete, accountVars
<1>4. Typed'
  BY <1>2, <1>3 DEF Typed, TypeOK, AccountsTypeOK, Delete, accountVars
<1> QED BY <1>2, <1>4

(* A step of the accounts, or none.  Sessions are only added.              *)
LEMMA AccountsDoes ==
  ASSUME Typed, [AccountsNext]_accountVars, UNCHANGED chatVars
  PROVE  Typed' /\ DOMAIN session \subseteq DOMAIN session'
<1>1. AccountsTypeOK'
  BY AccountsTypeStep DEF Typed, TypeOK
<1>2. DOMAIN session \subseteq DOMAIN session'
  <2>1. CASE UNCHANGED session
    BY <2>1
  <2>2. CASE \E u \in Users : Login(u)
    BY <2>2 DEF Login, Typed, TypeOK, AccountsTypeOK
  <2>3. CASE \E s \in DOMAIN session : Logout(s) \/ Expire(s)
    BY <2>3 DEF Logout, Expire, Typed, TypeOK, AccountsTypeOK
  <2>4. CASE \E u \in Users : Revoke(u)
    BY <2>4 DEF Revoke, Typed, TypeOK, AccountsTypeOK
  <2> QED BY <2>1, <2>2, <2>3, <2>4
      DEF AccountsNext, accountVars, BootLook, BootCreate, BootFails, RequireAdmin, CreateUser,
          UpdateUser, AdminRequestFails
<1>3. turn \in Seq(Turn')
  <2>1. ASSUME NEW q \in DOMAIN turn PROVE turn[q] \in Turn'
    <3>1. turn[q] \in Turn
      BY TurnFields
    <3> QED BY <3>1, <1>2 DEF Turn, chatVars
  <2> QED BY <2>1 DEF Typed, TypeOK
<1> QED BY <1>1, <1>2, <1>3 DEF Typed, TypeOK, chatVars

LEMMA TypedStep == Typed /\ [Next]_vars => Typed'
<1> SUFFICES ASSUME Typed, [Next]_vars PROVE Typed'
  OBVIOUS
<1>1. CASE [AccountsNext]_accountVars /\ UNCHANGED chatVars
  BY <1>1, AccountsDoes
<1>2. ASSUME NEW s \in DOMAIN session, NEW t \in Threads, Ask(s, t) \/ Delete(s, t) PROVE Typed'
  BY <1>2, AskDoes, DeleteDoes
<1>3. ASSUME NEW r \in DOMAIN turn, Claim(r) \/ ClaimInsert(r) \/ ClaimReread(r) PROVE Typed'
  BY <1>3, ClaimDoes
<1>4. ASSUME NEW r \in DOMAIN turn, StartRun(r) \/ EndRun(r) \/ ReadAnswer(r) PROVE Typed'
  BY <1>4, StartRunDoes, EndRunDoes, ReadAnswerDoes
<1>5. ASSUME NEW r \in DOMAIN turn, NEW said \in BOOLEAN, StepRun(r, said) PROVE Typed'
  BY <1>5, StepRunDoes
<1>6. ASSUME NEW r \in DOMAIN turn, CheckSession(r) \/ Record(r) \/ RecordWrite(r) \/ Fail(r) PROVE Typed'
  BY <1>6, CheckSessionDoes, RecordDoes, RecordWriteDoes, FailDoes
<1> QED BY <1>1, <1>2, <1>3, <1>4, <1>5, <1>6 DEF Next, vars

LEMMA TypedInit == Init => Typed
<1> SUFFICES ASSUME Init PROVE Typed
  OBVIOUS
<1>1. AccountsTypeOK
  BY AccountsTypeInit DEF Init
<1>2. turn = <<>> /\ Len(turn) = 0 /\ DOMAIN turn = {} /\ MaxTurns \in Nat
  BY ChatAssumption DEF Init
<1> QED BY <1>1, <1>2 DEF Init, Typed, TypeOK, NoRow

(* The variables keep their types, and a request that is past its run has  *)
(* an answer (agent_service.py:89).                                        *)
THEOREM TypeCorrect == Spec => []TypeOK
<1>1. Typed => TypeOK
  BY DEF Typed
<1> QED BY <1>1, TypedInit, TypedStep, PTL DEF Spec

-----------------------------------------------------------------------------
(* Sessions.                                                               *)

LEMMA StepOfAccounts == [Next]_vars => [AccountsNext]_accountVars
BY DEF Next, vars, Ask, Delete, Claim, ClaimInsert, ClaimReread, StartRun, EndRun, ReadAnswer,
       CheckSession, StepRun, Record, RecordWrite, Fail

(* What EndedSessionsStayOut says of one step.                             *)
StayOut ==
  /\ \A s \in DOMAIN session : ~Resolves(s) => ~Resolves(s)'
  /\ \A r \in DOMAIN turn :
       Undecided(r) /\ ~Resolves(turn[r].session) => turn'[r].pc \notin {"record", "write", "final"}

LEMMA OutsStep ==
  ASSUME Typed, OpenIsActive, [Next]_vars
  PROVE  OpenIsActive' /\ StayOut
<1>1. OpenIsActive' /\ SessionsOnlyEnd
  BY SessionsStep, StepOfAccounts DEF Typed, TypeOK
<1>2. \A s \in DOMAIN session : ~Resolves(s) => ~Resolves(s)'
  BY <1>1 DEF OpenIsActive, SessionsOnlyEnd, Resolves
<1>3. ASSUME NEW r \in DOMAIN turn, Undecided(r), ~Resolves(turn[r].session)
      PROVE  turn'[r].pc \notin {"record", "write", "final"}
  <2>0. turn[r].pc \in {"claim", "insert", "reread", "claimed", "run", "read", "check"}
    BY <1>3 DEF Undecided
  <2>1. CASE UNCHANGED turn
    BY <2>0, <2>1
  <2>2. ASSUME NEW s \in DOMAIN session, NEW t \in Threads, Ask(s, t)
        PROVE  turn'[r].pc \notin {"record", "write", "final"}
    BY <2>0, <2>2, AskDoes
  <2>3. ASSUME NEW q \in DOMAIN turn, Claim(q) \/ ClaimInsert(q) \/ ClaimReread(q)
        PROVE  turn'[r].pc \notin {"record", "write", "final"}
    BY <2>0, <2>3, ClaimDoes DEF Moves, Rest
  <2>4. ASSUME NEW q \in DOMAIN turn, StartRun(q)
        PROVE  turn'[r].pc \notin {"record", "write", "final"}
    <3>1. turn[r] \in Turn
      BY TurnFields
    <3> QED BY <2>0, <2>4, <3>1, StartRunDoes DEF Turn
  <2>5. ASSUME NEW q \in DOMAIN turn, EndRun(q) \/ ReadAnswer(q)
        PROVE  turn'[r].pc \notin {"record", "write", "final"}
    BY <2>0, <2>5, EndRunDoes, ReadAnswerDoes DEF Moves, Rest
  <2>6. ASSUME NEW q \in DOMAIN turn, NEW said \in BOOLEAN, StepRun(q, said)
        PROVE  turn'[r].pc \notin {"record", "write", "final"}
    BY <2>0, <2>6, StepRunDoes DEF Moves, Rest
  <2>7. ASSUME NEW q \in DOMAIN turn, CheckSession(q)
        PROVE  turn'[r].pc \notin {"record", "write", "final"}
    <3>1. q # r
      BY <1>3, <2>7, CheckSessionDoes
    <3> QED BY <2>0, <2>7, <3>1, CheckSessionDoes DEF Moves, Rest
  <2>8. ASSUME NEW q \in DOMAIN turn, Record(q) \/ RecordWrite(q)
        PROVE  turn'[r].pc \notin {"record", "write", "final"}
    <3>1. q # r
      BY <2>0, <2>8, RecordDoes, RecordWriteDoes
    <3>2. Rest(q)
      BY <2>8, RecordDoes, RecordWriteDoes DEF Moves
    <3> QED BY <2>0, <3>1, <3>2 DEF Rest
  <2>9. ASSUME NEW q \in DOMAIN turn, Fail(q)
        PROVE  turn'[r].pc \notin {"record", "write", "final"}
    BY <2>0, <2>9, FailDoes DEF Moves, Rest
  <2> QED BY <2>1, <2>2, <2>3, <2>4, <2>5, <2>6, <2>7, <2>8, <2>9 DEF Next, vars, chatVars, Delete
<1> QED BY <1>1, <1>2, <1>3 DEF StayOut

LEMMA OutsInit == Init => OpenIsActive
BY DEF Init, AccountsInit, OpenIsActive

(* A session that has ended never resolves again, and a turn whose session *)
(* ends before its answer is there is neither answered nor recorded        *)
(* (service.py:417-431, api.py:460).                                       *)
THEOREM EndedSessionsAlwaysStayOut == Spec => EndedSessionsStayOut
<1>1. Typed /\ OpenIsActive /\ [Next]_vars => [StayOut]_vars
  BY OutsStep
<1>2. Typed /\ OpenIsActive /\ [Next]_vars => Typed' /\ OpenIsActive'
  BY TypedStep, OutsStep
<1>3. Init => Typed /\ OpenIsActive
  BY TypedInit, OutsInit
<1> QED BY <1>1, <1>2, <1>3, PTL DEF Spec, EndedSessionsStayOut, StayOut

(* There is at most one first administrator, and an active one ever after, *)
(* also with turns on the way (service.py:398-404, 523-554, 106-157).      *)
THEOREM AdminRemainsBesideTurns == Spec => []AdminRemains
<1>1. Init => Typed /\ Founding
  BY TypedInit, FoundingInit DEF Init
<1>2. Typed /\ Founding /\ [Next]_vars => Typed' /\ Founding'
  <2>1. Typed => AccountsTypeOK
    BY DEF Typed, TypeOK
  <2> QED BY <2>1, TypedStep, FoundingStep, StepOfAccounts
<1> QED BY <1>1, <1>2, FoundingMeans, PTL DEF Spec

-----------------------------------------------------------------------------
(* Rows.  A row belongs to the one whose request inserted it, a request    *)
(* that has seen a row has seen one of its own user's, and the rounds of a *)
(* row are of requests that are done.                                      *)

Rows ==
  /\ \A t \in Threads : conversation[t] # NoRow =>
       conversation[t].by \in DOMAIN turn /\ conversation[t].owner = turn[conversation[t].by].user
  /\ \A t \in Threads : \A r \in conversation[t].rounds : turn[r].pc = "final"
  /\ \A r \in DOMAIN turn : turn[r].seen # 0 =>
       turn[r].seen \in DOMAIN turn /\ turn[turn[r].seen].user = turn[r].user

RowsInv == Typed /\ Rows /\ RoundsReachTheirOwner

(* A step that leaves the rows alone, and what a request has seen.         *)
LEMMA RowsStay ==
  ASSUME RowsInv, UNCHANGED conversation, DOMAIN turn \subseteq DOMAIN turn',
         \A q \in DOMAIN turn : /\ turn'[q].user = turn[q].user
                                /\ turn'[q].seen \in {0, turn[q].seen}
                                /\ turn[q].pc = "final" => turn'[q] = turn[q],
         \A q \in DOMAIN turn' \ DOMAIN turn : turn'[q].seen = 0
  PROVE  Rows' /\ RoundsReachTheirOwner'
<1>1. \A t \in Threads : conversation[t].rounds \subseteq DOMAIN turn
  BY RowsTyped DEF RowsInv
<1>2. Rows'
  <2>1. \A t \in Threads : conversation'[t] # NoRow =>
          conversation'[t].by \in DOMAIN turn' /\ conversation'[t].owner = turn'[conversation'[t].by].user
    BY DEF RowsInv, Rows
  <2>2. \A t \in Threads : \A r \in conversation'[t].rounds : turn'[r].pc = "final"
    BY <1>1 DEF RowsInv, Rows
  <2>3. \A r \in DOMAIN turn' : turn'[r].seen # 0 =>
          turn'[r].seen \in DOMAIN turn' /\ turn'[turn'[r].seen].user = turn'[r].user
    BY DEF RowsInv, Rows
  <2> QED BY <2>1, <2>2, <2>3 DEF Rows, NoRow
<1>3. RoundsReachTheirOwner'
  BY <1>1 DEF RowsInv, Rows, RoundsReachTheirOwner
<1> QED BY <1>2, <1>3

LEMMA RowsInsert ==
  ASSUME RowsInv, NEW r \in DOMAIN turn, ClaimInsert(r)
  PROVE  Rows' /\ RoundsReachTheirOwner'
<1>1. PICK phase \in {"insert", "claimed", "reread", "failed"} :
        Moves(r, phase, turn[r].base, turn[r].said, turn[r].answer, turn[r].seen)
  BY ClaimDoes DEF RowsInv
<1>2. /\ DOMAIN turn' = DOMAIN turn /\ turn[r].pc # "final"
      /\ \A q \in DOMAIN turn : /\ turn'[q].user = turn[q].user /\ turn'[q].seen = turn[q].seen
                                /\ turn[q].pc = "final" => turn'[q] = turn[q]
  BY <1>1 DEF Moves, Rest, Same, ClaimInsert, At
<1>3. CASE UNCHANGED conversation
  BY <1>2, <1>3, RowsStay
<1>4. CASE ~UNCHANGED conversation
  <2>1. conversation' = [conversation EXCEPT ![turn[r].thread] =
          [owner |-> turn[r].user, by |-> r, rounds |-> {}]]
    BY <1>4 DEF ClaimInsert
  <2>2. /\ conversation'[turn[r].thread].owner = turn[r].user /\ conversation'[turn[r].thread].by = r
        /\ conversation'[turn[r].thread].rounds = {}
        /\ \A t \in Threads \ {turn[r].thread} : conversation'[t] = conversation[t]
    BY <2>1, RowsTyped, TurnFields DEF RowsInv
  <2>3. \A t \in Threads : conversation[t].rounds \subseteq DOMAIN turn
    BY RowsTyped DEF RowsInv
  <2>4. Rows'
    BY <1>2, <2>2, <2>3 DEF RowsInv, Rows, NoRow
  <2>5. RoundsReachTheirOwner'
    BY <1>2, <2>2, <2>3 DEF RowsInv, RoundsReachTheirOwner
  <2> QED BY <2>4, <2>5
<1> QED BY <1>3, <1>4

LEMMA RowsWrite ==
  ASSUME RowsInv, NEW r \in DOMAIN turn, RecordWrite(r)
  PROVE  Rows' /\ RoundsReachTheirOwner'
<1> DEFINE th == turn[r].thread
<1>1. /\ turn[r].pc = "write" /\ ((turn[r].seen = 0) <=> Absent(r)) /\ th \in Threads
      /\ Moves(r, "final", turn[r].base, turn[r].said, turn[r].answer, turn[r].seen)
      /\ \A t \in Threads \ {th} : conversation'[t] = conversation[t]
  BY RecordWriteDoes, TurnFields DEF RowsInv
<1>2. /\ DOMAIN turn' = DOMAIN turn /\ turn'[r].pc = "final"
      /\ \A q \in DOMAIN turn : /\ turn'[q].user = turn[q].user /\ turn'[q].seen = turn[q].seen
                                /\ turn[q].pc = "final" => turn'[q] = turn[q]
  BY <1>1 DEF Moves, Rest, Same
<1>3. \A t \in Threads : conversation[t].rounds \subseteq DOMAIN turn
  BY RowsTyped DEF RowsInv
<1>4. conversation'[th].rounds \subseteq conversation[th].rounds \cup {r}
  <2>1. CASE Absent(r)
    <3>1. conversation'[th] = [owner |-> turn[r].user, by |-> r, rounds |-> {r}]
      BY <2>1, RecordWriteDoes DEF RowsInv
    <3> QED BY <3>1
  <2>2. CASE ~Absent(r)
    BY <2>2, RecordWriteDoes DEF RowsInv, Row
  <2> QED BY <2>1, <2>2
<1>5. /\ conversation'[th].by \in DOMAIN turn
      /\ conversation'[th].owner = turn[conversation'[th].by].user
  <2>1. CASE Absent(r)
    <3>1. conversation'[th] = [owner |-> turn[r].user, by |-> r, rounds |-> {r}]
      BY <2>1, RecordWriteDoes DEF RowsInv
    <3> QED BY <3>1
  <2>2. CASE ~Absent(r)
    <3>1. conversation'[th].owner = conversation[th].owner /\ conversation'[th].by = conversation[th].by
      BY <2>2, RecordWriteDoes DEF RowsInv, Row
    <3> QED BY <1>1, <2>2, <3>1 DEF RowsInv, Rows, Absent, Row
  <2> QED BY <2>1, <2>2
<1>6. Rows'
  <2>1. \A t \in Threads : conversation'[t] # NoRow =>
          conversation'[t].by \in DOMAIN turn' /\ conversation'[t].owner = turn'[conversation'[t].by].user
    BY <1>1, <1>2, <1>5 DEF RowsInv, Rows
  <2>2. \A t \in Threads : \A q \in conversation'[t].rounds : turn'[q].pc = "final"
    BY <1>1, <1>2, <1>3, <1>4 DEF RowsInv, Rows
  <2>3. \A q \in DOMAIN turn' : turn'[q].seen # 0 =>
          turn'[q].seen \in DOMAIN turn' /\ turn'[turn'[q].seen].user = turn'[q].user
    BY <1>2 DEF RowsInv, Rows
  <2> QED BY <2>1, <2>2, <2>3 DEF Rows, NoRow
<1>7. \A q \in conversation'[th].rounds :
        conversation'[th].owner = turn[q].user \/ turn[q].seen \notin {0, conversation'[th].by}
  <2>1. CASE Absent(r)
    <3>1. conversation'[th] = [owner |-> turn[r].user, by |-> r, rounds |-> {r}]
      BY <2>1, RecordWriteDoes DEF RowsInv
    <3> QED BY <3>1
  <2>2. CASE ~Absent(r)
    <3>1. /\ conversation'[th].owner = conversation[th].owner /\ conversation'[th].by = conversation[th].by
          /\ conversation'[th].rounds = conversation[th].rounds \cup {r}
      BY <2>2, RecordWriteDoes DEF RowsInv, Row
    <3>2. conversation[th].owner = turn[r].user \/ turn[r].seen \notin {0, conversation[th].by}
      <4>1. turn[r].seen # 0 /\ turn[turn[r].seen].user = turn[r].user
        BY <1>1, <2>2 DEF RowsInv, Rows
      <4>2. conversation[th].owner = turn[conversation[th].by].user
        BY <1>1, <2>2 DEF RowsInv, Rows, Absent, Row
      <4> QED BY <4>1, <4>2
    <3> QED BY <1>1, <3>1, <3>2 DEF RowsInv, RoundsReachTheirOwner
  <2> QED BY <2>1, <2>2
<1>8. RoundsReachTheirOwner'
  BY <1>1, <1>2, <1>3, <1>4, <1>7 DEF RowsInv, RoundsReachTheirOwner
<1> QED BY <1>6, <1>8

LEMMA RowsStep == RowsInv /\ [Next]_vars => RowsInv'
<1> SUFFICES ASSUME RowsInv, [Next]_vars PROVE Rows' /\ RoundsReachTheirOwner'
  BY TypedStep DEF RowsInv
<1>0. Typed
  BY DEF RowsInv
<1>1. CASE [AccountsNext]_accountVars /\ UNCHANGED chatVars
  BY <1>1, RowsStay DEF chatVars
<1>2. ASSUME NEW s \in DOMAIN session, NEW t \in Threads, Ask(s, t)
      PROVE  Rows' /\ RoundsReachTheirOwner'
  <2>1. UNCHANGED conversation
    BY <1>2 DEF Ask
  <2>2. /\ DOMAIN turn \subseteq DOMAIN turn' /\ \A q \in DOMAIN turn : turn'[q] = turn[q]
        /\ \A q \in DOMAIN turn' \ DOMAIN turn : turn'[q].seen = 0
    BY <1>0, <1>2, AskDoes
  <2> QED BY <2>1, <2>2, RowsStay
<1>3. ASSUME NEW s \in DOMAIN session, NEW t \in Threads, Delete(s, t)
      PROVE  Rows' /\ RoundsReachTheirOwner'
  <2>1. conversation'[t] = NoRow /\ \A x \in Threads \ {t} : conversation'[x] = conversation[x]
    BY <1>0, <1>3, DeleteDoes
  <2>2. UNCHANGED turn /\ NoRow.rounds = {}
    BY <1>3 DEF Delete, NoRow
  <2>3. Rows'
    BY <2>1, <2>2 DEF RowsInv, Rows, NoRow
  <2> QED BY <2>1, <2>2, <2>3 DEF RowsInv, RoundsReachTheirOwner
<1>4. ASSUME NEW r \in DOMAIN turn, ClaimInsert(r) \/ RecordWrite(r)
      PROVE  Rows' /\ RoundsReachTheirOwner'
  BY <1>4, RowsInsert, RowsWrite
<1>5. ASSUME NEW r \in DOMAIN turn, StartRun(r)
      PROVE  Rows' /\ RoundsReachTheirOwner'
  <2>1. UNCHANGED conversation /\ turn[r].pc = "claimed"
    BY <1>5 DEF StartRun, At
  <2>2. \A q \in DOMAIN turn : turn[q] \in Turn
    BY <1>0, TurnFields
  <2>3. DOMAIN turn' = DOMAIN turn
    BY <1>0, <1>5, StartRunDoes
  <2>4. ASSUME NEW q \in DOMAIN turn
        PROVE  /\ turn'[q].user = turn[q].user /\ turn'[q].seen = turn[q].seen
               /\ turn[q].pc = "final" => turn'[q] = turn[q]
    <3>1. CASE q = r
      <4>1. turn'[r] = [turn[r] EXCEPT !.pc = "run", !.base = checkpoint[Key(r)].rounds, !.met = Others(r)]
        BY <1>0, <1>5, StartRunDoes
      <4>2. turn[r] \in Turn
        BY <2>2
      <4> QED BY <2>1, <3>1, <4>1, <4>2 DEF Turn
    <3>2. CASE q \in Others(r)
      <4>1. turn[q].pc \in {"run", "read"}
        BY <3>2 DEF Others
      <4>2. turn'[q] = [turn[q] EXCEPT !.met = turn[q].met \cup {r}]
        BY <1>0, <1>5, <3>2, StartRunDoes
      <4>3. turn[q] \in Turn
        BY <2>2
      <4> QED BY <4>1, <4>2, <4>3 DEF Turn
    <3>3. CASE q # r /\ q \notin Others(r)
      BY <1>0, <1>5, <3>3, StartRunDoes
    <3> QED BY <3>1, <3>2, <3>3
  <2> QED BY <2>1, <2>3, <2>4, RowsStay
<1>6. ASSUME NEW r \in DOMAIN turn, NEW pc, NEW base, NEW said, NEW answer, NEW seen,
             Moves(r, pc, base, said, answer, seen), turn[r].pc # "final", UNCHANGED conversation,
             seen \in {0, turn[r].seen}
      PROVE  Rows' /\ RoundsReachTheirOwner'
  BY <1>6, RowsStay DEF Moves, Rest, Same
<1>7. ASSUME NEW r \in DOMAIN turn, Claim(r) \/ ClaimReread(r)
      PROVE  Rows' /\ RoundsReachTheirOwner'
  <2>1. UNCHANGED conversation
    BY <1>7 DEF Claim, ClaimReread
  <2>2. turn[r].pc # "final"
    BY <1>0, <1>7, ClaimDoes
  <2>3. PICK phase : Moves(r, phase, turn[r].base, turn[r].said, turn[r].answer, turn[r].seen)
    BY <1>0, <1>7, ClaimDoes
  <2> QED BY <1>6, <2>1, <2>2, <2>3
<1>8. ASSUME NEW r \in DOMAIN turn, EndRun(r) \/ ReadAnswer(r)
      PROVE  Rows' /\ RoundsReachTheirOwner'
  <2>1. UNCHANGED conversation
    BY <1>8 DEF EndRun, ReadAnswer
  <2> QED BY <1>0, <1>6, <1>8, <2>1, EndRunDoes, ReadAnswerDoes
<1>9. ASSUME NEW r \in DOMAIN turn, NEW said \in BOOLEAN, StepRun(r, said)
      PROVE  Rows' /\ RoundsReachTheirOwner'
  <2>1. UNCHANGED conversation
    BY <1>9 DEF StepRun
  <2> QED BY <1>0, <1>6, <1>9, <2>1, StepRunDoes
<1>10. ASSUME NEW r \in DOMAIN turn, CheckSession(r) \/ Fail(r)
       PROVE  Rows' /\ RoundsReachTheirOwner'
  <2>1. UNCHANGED conversation
    BY <1>10 DEF CheckSession, Fail
  <2> QED BY <1>0, <1>6, <1>10, <2>1, CheckSessionDoes, FailDoes
<1>11. ASSUME NEW r \in DOMAIN turn, Record(r)
       PROVE  Rows' /\ RoundsReachTheirOwner'
  <2>1. /\ turn[r].pc = "record" /\ (Absent(r) \/ Owned(r)) /\ UNCHANGED conversation
        /\ Moves(r, "write", turn[r].base, turn[r].said, turn[r].answer, Row(r).by)
    BY <1>0, <1>11, RecordDoes DEF Record
  <2>2. Row(r).by # 0 => Row(r).by \in DOMAIN turn /\ turn[Row(r).by].user = turn[r].user
    <3>1. turn[r].thread \in Threads /\ NoRow.by = 0
      BY <1>0, TurnFields DEF NoRow
    <3> QED BY <2>1, <3>1 DEF RowsInv, Rows, Absent, Owned, Row
  <2>3. \A t \in Threads : conversation[t].rounds \subseteq DOMAIN turn
    BY <1>0, RowsTyped
  <2>4. /\ DOMAIN turn' = DOMAIN turn /\ turn'[r].seen = Row(r).by
        /\ \A q \in DOMAIN turn : /\ turn'[q].user = turn[q].user
                                  /\ q # r => turn'[q] = turn[q]
    BY <2>1 DEF Moves, Rest, Same
  <2>5. \A t \in Threads : r \notin conversation[t].rounds
    BY <2>1 DEF RowsInv, Rows
  <2>6. Rows'
    BY <2>1, <2>2, <2>3, <2>4, <2>5 DEF RowsInv, Rows, NoRow
  <2>7. RoundsReachTheirOwner'
    BY <2>1, <2>3, <2>4, <2>5 DEF RowsInv, RoundsReachTheirOwner
  <2> QED BY <2>6, <2>7
<1> QED BY <1>1, <1>2, <1>3, <1>4, <1>5, <1>7, <1>8, <1>9, <1>10, <1>11 DEF Next, vars

LEMMA RowsInit == Init => RowsInv
<1> SUFFICES ASSUME Init PROVE RowsInv
  OBVIOUS
<1>1. DOMAIN turn = {} /\ \A t \in Threads : conversation[t] = NoRow /\ NoRow.rounds = {}
  BY DEF Init, NoRow
<1>2. Rows /\ RoundsReachTheirOwner
  BY <1>1 DEF Rows, RoundsReachTheirOwner
<1> QED BY <1>2, TypedInit DEF RowsInv

(* A round stands in a conversation of the one who asked, unless the row   *)
(* it was written to is another than the one that had been looked at       *)
(* (storage/history/service.py:86-113).                                    *)
THEOREM RoundsAlwaysReachTheirOwner == Spec => []RoundsReachTheirOwner
<1>1. RowsInv => RoundsReachTheirOwner
  BY DEF RowsInv
<1> QED BY <1>1, RowsInit, RowsStep, PTL DEF Spec

-----------------------------------------------------------------------------
(* Memory.  Of two runs of one conversation that are under way each has    *)
(* met the other, so that one that has met none finds its own answer in    *)
(* the checkpoint, and leaves its round where every later run finds it.    *)

Before     == {"claim", "insert", "reread", "claimed"}
Running(r) == turn[r].pc \in {"run", "read"}

Blank ==
  \A r \in DOMAIN turn :
    /\ turn[r].pc \notin Answered => turn[r].answer = 0
    /\ turn[r].pc \in Before => turn[r].met = {} /\ turn[r].said = FALSE

Beside ==
  /\ \A r, q \in DOMAIN turn :
       r # q /\ Running(r) /\ Running(q) /\ Key(r) = Key(q) => q \in turn[r].met
  /\ \A r \in DOMAIN turn : \A q \in turn[r].met : Key(q) = Key(r)

OfTheirKey ==
  /\ \A r \in DOMAIN turn : \A q \in turn[r].base : Key(q) = Key(r)
  /\ \A k \in Users \X Threads : \A q \in checkpoint[k].rounds : Key(q) = k

(* What a request by itself knows of the checkpoint.                       *)
Alone(r) ==
  /\ turn[r].pc = "run" => /\ turn[r].said => checkpoint[Key(r)].answer = r /\ r \in checkpoint[Key(r)].rounds
                           /\ ~turn[r].said => checkpoint[Key(r)].answer = 0
  /\ turn[r].pc = "read" => /\ checkpoint[Key(r)].answer \in {0, r}
                            /\ checkpoint[Key(r)].answer = r => r \in checkpoint[Key(r)].rounds
  /\ turn[r].pc \in Answered =>
       /\ turn[r].answer = r /\ r \in checkpoint[Key(r)].rounds
       /\ \A q \in DOMAIN turn : turn[q].pc = "run" /\ Key(q) = Key(r) => r \in turn[q].base

Memory == Blank /\ Beside /\ OfTheirKey /\ \A r \in DOMAIN turn : turn[r].met = {} => Alone(r)

LEMMA MemoryMeans == Typed /\ Memory => TurnsApartDoNotMix
<1> SUFFICES ASSUME Typed, Memory PROVE TurnsApartDoNotMix
  OBVIOUS
<1>1. ASSUME NEW r \in DOMAIN turn, Apart(r)
      PROVE  /\ turn[r].answer \in {0, r}
             /\ turn[r].pc = "final" => r \in checkpoint[<<turn[r].user, turn[r].thread>>].rounds
  BY <1>1 DEF Memory, Blank, Alone, Apart, Answered, Key
<1>2. ASSUME NEW r \in DOMAIN turn
      PROVE  turn[r].met \subseteq {q \in DOMAIN turn : turn[q].user = turn[r].user}
  <2>1. turn[r].met \subseteq DOMAIN turn
    BY TurnFields
  <2>2. ASSUME NEW q \in turn[r].met PROVE turn[q].user = turn[r].user
    <3>1. Key(q) = Key(r)
      BY DEF Memory, Beside
    <3> QED BY <3>1 DEF Key
  <2> QED BY <2>1, <2>2
<1>3. ASSUME NEW u \in Users, NEW t \in Threads, NEW r \in checkpoint[<<u, t>>].rounds
      PROVE  turn[r].user = u /\ turn[r].thread = t
  <2>1. Key(r) = <<u, t>>
    BY DEF Memory, OfTheirKey
  <2> QED BY <2>1 DEF Key
<1> QED BY <1>1, <1>2, <1>3 DEF TurnsApartDoNotMix

(* A step that leaves the checkpoints alone and starts no run.             *)
LEMMA MemoryMoves ==
  ASSUME Typed, Memory, UNCHANGED checkpoint, NEW r \in DOMAIN turn,
         NEW pc, NEW base, NEW said, NEW answer, NEW seen, Moves(r, pc, base, said, answer, seen),
         pc # "run", base \subseteq turn[r].base, pc = "read" => Running(r),
         pc \in Before => turn[r].pc \in Before /\ said = turn[r].said,
         pc \notin Answered => answer = 0,
         turn[r].met = {} /\ pc = "read" =>
           /\ checkpoint[Key(r)].answer \in {0, r}
           /\ checkpoint[Key(r)].answer = r => r \in checkpoint[Key(r)].rounds,
         turn[r].met = {} /\ pc \in Answered =>
           /\ answer = r /\ r \in checkpoint[Key(r)].rounds
           /\ \A q \in DOMAIN turn \ {r} : turn[q].pc = "run" /\ Key(q) = Key(r) => r \in turn[q].base
  PROVE  Memory'
<1>1. /\ DOMAIN turn' = DOMAIN turn /\ \A q \in DOMAIN turn \ {r} : turn'[q] = turn[q]
      /\ turn'[r].met = turn[r].met /\ turn'[r].pc = pc /\ turn'[r].base = base /\ turn'[r].said = said
      /\ turn'[r].answer = answer
  BY DEF Moves, Rest
<1>2. \A q \in DOMAIN turn : Key(q)' = Key(q)
  BY DEF Moves, Rest, Same, Key
<1>3. /\ \A q \in DOMAIN turn : turn[q].met \subseteq DOMAIN turn /\ turn[q].base \subseteq DOMAIN turn
      /\ \A k \in Users \X Threads : checkpoint[k].rounds \subseteq DOMAIN turn
  BY TurnFields, RowsTyped
<1>4. Blank'
  BY <1>1 DEF Memory, Blank
<1>5. \A q \in DOMAIN turn : Running(q)' => Running(q)
  BY <1>1 DEF Running
<1>6. Beside'
  <2>1. \A q \in DOMAIN turn : turn'[q].met = turn[q].met
    BY <1>1
  <2> QED BY <1>1, <1>2, <1>3, <1>5, <2>1 DEF Memory, Beside
<1>7. OfTheirKey'
  <2>1. \A q \in DOMAIN turn : turn'[q].base \subseteq turn[q].base
    BY <1>1
  <2>2. \A q \in DOMAIN turn : \A p \in turn'[q].base : Key(p)' = Key(q)'
    BY <1>2, <1>3, <2>1 DEF Memory, OfTheirKey
  <2>3. \A k \in Users \X Threads : \A p \in checkpoint'[k].rounds : Key(p)' = k
    BY <1>2, <1>3 DEF Memory, OfTheirKey
  <2> QED BY <1>1, <2>2, <2>3 DEF OfTheirKey
<1>8. ASSUME NEW q \in DOMAIN turn, turn'[q].met = {} PROVE Alone(q)'
  <2>1. Key(q)' = Key(q) /\ checkpoint' = checkpoint
    BY <1>2
  <2>2. CASE q = r
    BY <1>1, <1>2, <1>8, <2>1, <2>2 DEF Alone, Answered
  <2>3. CASE q # r
    BY <1>1, <1>2, <1>8, <2>1, <2>3 DEF Memory, Alone
  <2> QED BY <2>2, <2>3
<1> QED BY <1>1, <1>4, <1>6, <1>7, <1>8 DEF Memory

(* The start of a run.                                                     *)
LEMMA MemoryStart ==
  ASSUME Typed, Memory, NEW r \in DOMAIN turn, StartRun(r)
  PROVE  Memory'
<1>0. turn[r].pc = "claimed" /\ Key(r) \in Users \X Threads
  BY TurnFields, StartRunDoes DEF At
<1>1. DOMAIN turn' = DOMAIN turn /\ \A q \in DOMAIN turn : turn[q] \in Turn
  BY StartRunDoes, TurnFields
<1>2. /\ turn'[r].pc = "run" /\ turn'[r].base = checkpoint[Key(r)].rounds /\ turn'[r].met = Others(r)
      /\ turn'[r].said = turn[r].said /\ turn'[r].answer = turn[r].answer
      /\ turn'[r].user = turn[r].user /\ turn'[r].thread = turn[r].thread
  <2>1. turn'[r] = [turn[r] EXCEPT !.pc = "run", !.base = checkpoint[Key(r)].rounds, !.met = Others(r)]
    BY StartRunDoes
  <2>2. turn[r] \in Turn
    BY <1>1
  <2> QED BY <2>1, <2>2 DEF Turn
<1>3. ASSUME NEW q \in DOMAIN turn, q # r
      PROVE  /\ turn'[q].pc = turn[q].pc /\ turn'[q].base = turn[q].base /\ turn'[q].said = turn[q].said
             /\ turn'[q].answer = turn[q].answer /\ turn'[q].user = turn[q].user
             /\ turn'[q].thread = turn[q].thread
             /\ turn'[q].met = IF q \in Others(r) THEN turn[q].met \cup {r} ELSE turn[q].met
  <2>1. turn[q] \in Turn
    BY <1>1
  <2>2. CASE q \in Others(r)
    <3>1. turn'[q] = [turn[q] EXCEPT !.met = turn[q].met \cup {r}]
      BY <2>2, StartRunDoes
    <3> QED BY <2>1, <2>2, <3>1 DEF Turn
  <2>3. CASE q \notin Others(r)
    BY <1>3, <2>3, StartRunDoes
  <2> QED BY <2>2, <2>3
<1>4. \A q \in DOMAIN turn : Key(q)' = Key(q)
  BY <1>2, <1>3 DEF Key
<1>5. /\ \A k \in Users \X Threads : checkpoint'[k].rounds = checkpoint[k].rounds
      /\ checkpoint'[Key(r)].answer = 0
      /\ \A k \in (Users \X Threads) \ {Key(r)} : checkpoint'[k] = checkpoint[k]
  <2>1. checkpoint' = [checkpoint EXCEPT ![Key(r)] = [checkpoint[Key(r)] EXCEPT !.answer = 0]]
    BY DEF StartRun
  <2>2. checkpoint[Key(r)] \in [rounds : SUBSET (DOMAIN turn), answer : 0..Len(turn)]
    BY <1>0, RowsTyped
  <2> QED BY <1>0, <2>1, <2>2, RowsTyped
<1>6. /\ \A q \in DOMAIN turn : turn[q].met \subseteq DOMAIN turn /\ turn[q].base \subseteq DOMAIN turn
      /\ \A k \in Users \X Threads : checkpoint[k].rounds \subseteq DOMAIN turn
  BY TurnFields, RowsTyped
<1>7. /\ \A q \in Others(r) : q \in DOMAIN turn /\ q # r /\ Key(q) = Key(r)
      /\ \A q \in DOMAIN turn : q # r /\ Running(q) /\ Key(q) = Key(r) => q \in Others(r)
  BY DEF Others, Running
<1>8. Blank'
  <2>1. turn[r].answer = 0 /\ turn[r].said = FALSE
    BY <1>0 DEF Memory, Blank, Answered, Before
  <2>2. \A q \in Others(r) : turn[q].pc \notin Before
    BY DEF Others, Before
  <2>3. ASSUME NEW q \in DOMAIN turn
        PROVE  /\ turn'[q].pc \notin Answered => turn'[q].answer = 0
               /\ turn'[q].pc \in Before => turn'[q].met = {} /\ turn'[q].said = FALSE
    <3>1. CASE q = r
      BY <1>2, <2>1, <3>1 DEF Before
    <3>2. CASE q # r
      BY <1>3, <2>2, <3>2 DEF Memory, Blank
    <3> QED BY <3>1, <3>2
  <2> QED BY <1>1, <2>3 DEF Blank
<1>9. Beside'
  <2>1. ASSUME NEW p \in DOMAIN turn, NEW q \in DOMAIN turn, p # q, Running(p)', Running(q)', Key(p) = Key(q)
        PROVE  q \in turn'[p].met
    <3>1. CASE p = r
      <4>1. Running(q)
        BY <1>3, <2>1, <3>1 DEF Running
      <4> QED BY <1>2, <1>7, <2>1, <3>1, <4>1
    <3>2. CASE p # r
      <4>1. Running(p)
        BY <1>3, <2>1, <3>2 DEF Running
      <4>2. CASE q = r
        BY <1>3, <1>7, <2>1, <3>2, <4>1, <4>2
      <4>3. CASE q # r
        <5>1. Running(q)
          BY <1>3, <2>1, <4>3 DEF Running
        <5>2. q \in turn[p].met
          BY <2>1, <4>1, <5>1 DEF Memory, Beside
        <5> QED BY <1>3, <3>2, <5>2
      <4> QED BY <4>2, <4>3
    <3> QED BY <3>1, <3>2
  <2>2. ASSUME NEW p \in DOMAIN turn, NEW q \in turn'[p].met PROVE Key(q)' = Key(p)'
    <3>1. CASE p = r
      BY <1>2, <1>4, <1>7, <2>2, <3>1
    <3>2. CASE p # r
      <4>1. CASE q \in turn[p].met
        <5>1. Key(q) = Key(p) /\ q \in DOMAIN turn
          BY <1>6, <4>1 DEF Memory, Beside
        <5> QED BY <1>4, <5>1
      <4>2. CASE q \notin turn[p].met
        <5>1. q = r /\ p \in Others(r)
          BY <1>3, <2>2, <3>2, <4>2
        <5> QED BY <1>4, <1>7, <5>1
      <4> QED BY <4>1, <4>2
    <3> QED BY <3>1, <3>2
  <2> QED BY <1>1, <1>4, <2>1, <2>2 DEF Beside
<1>10. OfTheirKey'
  <2>1. ASSUME NEW p \in DOMAIN turn, NEW q \in turn'[p].base PROVE Key(q)' = Key(p)'
    <3>1. CASE p = r
      <4>1. q \in checkpoint[Key(r)].rounds
        BY <1>2, <2>1, <3>1
      <4>2. q \in DOMAIN turn /\ Key(q) = Key(r)
        BY <1>0, <1>6, <4>1 DEF Memory, OfTheirKey
      <4> QED BY <1>4, <3>1, <4>2
    <3>2. CASE p # r
      <4>1. q \in turn[p].base
        BY <1>3, <2>1, <3>2
      <4>2. q \in DOMAIN turn /\ Key(q) = Key(p)
        BY <1>6, <4>1 DEF Memory, OfTheirKey
      <4> QED BY <1>4, <4>2
    <3> QED BY <3>1, <3>2
  <2>2. \A k \in Users \X Threads : \A p \in checkpoint'[k].rounds : Key(p)' = k
    BY <1>4, <1>5, <1>6 DEF Memory, OfTheirKey
  <2> QED BY <1>1, <2>1, <2>2 DEF OfTheirKey
<1>11. ASSUME NEW q \in DOMAIN turn, turn'[q].met = {} PROVE Alone(q)'
  <2>1. CASE q = r
    <3>1. turn[r].said = FALSE
      BY <1>0 DEF Memory, Blank, Before
    <3> QED BY <1>2, <1>4, <1>5, <2>1, <3>1 DEF Alone, Answered
  <2>2. CASE q # r
    <3>1. turn[q].met = {} /\ q \notin Others(r)
      BY <1>3, <1>11, <2>2
    <3>2. Alone(q) /\ Key(q) \in Users \X Threads
      BY <3>1, TurnFields DEF Memory
    <3>3. CASE Running(q)
      <4>1. Key(q) # Key(r)
        BY <1>7, <2>2, <3>1, <3>3
      <4>2. checkpoint'[Key(q)] = checkpoint[Key(q)]
        BY <1>5, <3>2, <4>1
      <4> QED BY <1>3, <1>4, <2>2, <3>2, <3>3, <4>2 DEF Alone, Running, Answered
    <3>4. CASE ~Running(q)
      <4>1. CASE turn[q].pc \notin Answered
        BY <1>3, <2>2, <3>4, <4>1 DEF Alone, Running
      <4>2. CASE turn[q].pc \in Answered
        <5>1. /\ turn[q].answer = q /\ q \in checkpoint[Key(q)].rounds
              /\ \A p \in DOMAIN turn : turn[p].pc = "run" /\ Key(p) = Key(q) => q \in turn[p].base
          BY <3>2, <4>2 DEF Alone
        <5>2. ASSUME NEW p \in DOMAIN turn, turn'[p].pc = "run", Key(p)' = Key(q)'
              PROVE  q \in turn'[p].base
          <6>1. Key(p) = Key(q)
            BY <1>4, <5>2
          <6>2. CASE p = r
            BY <1>2, <5>1, <6>1, <6>2
          <6>3. CASE p # r
            BY <1>3, <5>1, <5>2, <6>1, <6>3
          <6> QED BY <6>2, <6>3
        <5>3. turn'[q].pc \notin {"run", "read"} /\ turn'[q].answer = q
          BY <1>3, <2>2, <3>4, <5>1 DEF Running
        <5> QED BY <1>1, <1>4, <1>5, <3>2, <5>1, <5>2, <5>3 DEF Alone
      <4> QED BY <4>1, <4>2
    <3> QED BY <3>3, <3>4
  <2> QED BY <2>1, <2>2
<1> QED BY <1>1, <1>8, <1>9, <1>10, <1>11 DEF Memory

(* A step of a run, which overwrites the checkpoint with what it carries.  *)
LEMMA MemoryRun ==
  ASSUME Typed, Memory, NEW r \in DOMAIN turn, NEW said \in BOOLEAN, StepRun(r, said)
  PROVE  Memory'
<1>1. /\ turn[r].pc = "run" /\ Moves(r, "run", turn[r].base, said, turn[r].answer, turn[r].seen)
      /\ checkpoint'[Key(r)].rounds = turn[r].base \cup (IF said THEN {r} ELSE {})
      /\ checkpoint'[Key(r)].answer = IF said THEN r ELSE 0
      /\ \A k \in (Users \X Threads) \ {Key(r)} : checkpoint'[k] = checkpoint[k]
  BY StepRunDoes
<1>2. /\ DOMAIN turn' = DOMAIN turn /\ \A q \in DOMAIN turn \ {r} : turn'[q] = turn[q]
      /\ \A q \in DOMAIN turn : /\ turn'[q].met = turn[q].met /\ turn'[q].pc = turn[q].pc
                                /\ turn'[q].base = turn[q].base /\ turn'[q].answer = turn[q].answer
      /\ turn'[r].said = said
  BY <1>1 DEF Moves, Rest
<1>3. \A q \in DOMAIN turn : Key(q)' = Key(q)
  BY <1>1 DEF Moves, Rest, Same, Key
<1>4. /\ \A q \in DOMAIN turn : turn[q].met \subseteq DOMAIN turn /\ turn[q].base \subseteq DOMAIN turn
      /\ \A k \in Users \X Threads : checkpoint[k].rounds \subseteq DOMAIN turn
      /\ Key(r) \in Users \X Threads
  BY TurnFields, RowsTyped
<1>5. Blank'
  BY <1>1, <1>2 DEF Memory, Blank, Before
<1>6. Beside'
  <2>1. \A q \in DOMAIN turn : Running(q)' <=> Running(q)
    BY <1>2 DEF Running
  <2> QED BY <1>2, <1>3, <1>4, <2>1 DEF Memory, Beside
<1>7. OfTheirKey'
  <2>1. \A q \in DOMAIN turn : \A p \in turn'[q].base : Key(p)' = Key(q)'
    BY <1>2, <1>3, <1>4 DEF Memory, OfTheirKey
  <2>2. ASSUME NEW k \in Users \X Threads, NEW p \in checkpoint'[k].rounds PROVE Key(p)' = k
    <3>1. CASE k = Key(r)
      <4>1. p \in turn[r].base \cup {r}
        BY <1>1, <2>2, <3>1
      <4>2. p \in DOMAIN turn /\ Key(p) = Key(r)
        BY <1>4, <4>1 DEF Memory, OfTheirKey
      <4> QED BY <1>3, <3>1, <4>2
    <3>2. CASE k # Key(r)
      <4>1. p \in checkpoint[k].rounds
        BY <1>1, <2>2, <3>2
      <4>2. p \in DOMAIN turn /\ Key(p) = k
        BY <1>4, <4>1 DEF Memory, OfTheirKey
      <4> QED BY <1>3, <4>2
    <3> QED BY <3>1, <3>2
  <2> QED BY <1>2, <2>1, <2>2 DEF OfTheirKey
<1>8. ASSUME NEW q \in DOMAIN turn, turn'[q].met = {} PROVE Alone(q)'
  <2>0. Alone(q) /\ Key(q) \in Users \X Threads
    BY <1>2, <1>8, TurnFields DEF Memory
  <2>1. CASE q = r
    <3>1. said \in BOOLEAN /\ turn'[r].pc = "run"
      BY <1>1, <1>2
    <3>2. said => checkpoint'[Key(r)].answer = r /\ r \in checkpoint'[Key(r)].rounds
      BY <1>1
    <3>3. ~said => checkpoint'[Key(r)].answer = 0
      BY <1>1
    <3> QED BY <1>2, <1>3, <2>1, <3>1, <3>2, <3>3 DEF Alone, Answered
  <2>2. CASE q # r /\ Key(q) # Key(r)
    <3>1. checkpoint'[Key(q)] = checkpoint[Key(q)] /\ turn'[q] = turn[q]
      BY <1>1, <1>2, <2>0, <2>2
    <3> QED BY <1>2, <1>3, <2>0, <3>1 DEF Alone
  <2>3. CASE q # r /\ Key(q) = Key(r)
    <3>1. ~Running(q)
      <4>1. r \notin turn[q].met /\ Running(r)
        BY <1>1, <1>2, <1>8 DEF Running
      <4> QED BY <2>3, <4>1 DEF Memory, Beside
    <3>2. CASE turn[q].pc \notin Answered
      BY <1>2, <3>1, <3>2 DEF Alone, Running
    <3>3. CASE turn[q].pc \in Answered
      <4>1. /\ turn[q].answer = q
            /\ \A p \in DOMAIN turn : turn[p].pc = "run" /\ Key(p) = Key(q) => q \in turn[p].base
        BY <2>0, <3>3 DEF Alone
      <4>2. q \in turn[r].base
        BY <1>1, <2>3, <4>1
      <4>3. q \in checkpoint'[Key(q)].rounds
        BY <1>1, <2>3, <4>2
      <4>4. turn'[q].pc \notin {"run", "read"} /\ turn'[q].answer = q
        BY <1>2, <3>1, <4>1 DEF Running
      <4>5. \A p \in DOMAIN turn : turn'[p].pc = "run" /\ Key(p)' = Key(q)' => q \in turn'[p].base
        BY <1>2, <1>3, <4>1
      <4> QED BY <1>2, <1>3, <4>3, <4>4, <4>5 DEF Alone
    <3> QED BY <3>2, <3>3
  <2> QED BY <2>1, <2>2, <2>3
<1> QED BY <1>2, <1>5, <1>6, <1>7, <1>8 DEF Memory

(* A new request, which is blank.                                          *)
LEMMA MemoryAsk ==
  ASSUME Typed, Memory, NEW s \in DOMAIN session, NEW t \in Threads, Ask(s, t)
  PROVE  Memory'
<1>1. PICK n :
      /\ DOMAIN turn' = DOMAIN turn \cup {n} /\ n \notin DOMAIN turn
      /\ \A q \in DOMAIN turn : turn'[q] = turn[q]
      /\ turn'[n].pc = "claim" /\ turn'[n].base = {} /\ turn'[n].said = FALSE
      /\ turn'[n].met = {} /\ turn'[n].answer = 0
  BY AskDoes
<1>2. UNCHANGED checkpoint
  BY DEF Ask
<1>3. \A q \in DOMAIN turn : Key(q)' = Key(q) /\ (Running(q)' <=> Running(q))
  BY <1>1 DEF Key, Running
<1>4. /\ \A q \in DOMAIN turn : turn[q].met \subseteq DOMAIN turn /\ turn[q].base \subseteq DOMAIN turn
      /\ \A k \in Users \X Threads : checkpoint[k].rounds \subseteq DOMAIN turn
  BY TurnFields, RowsTyped
<1>5. Blank'
  BY <1>1 DEF Memory, Blank, Before
<1>6. Beside'
  <2>1. ~Running(n)'
    BY <1>1 DEF Running
  <2>2. \A p, q \in DOMAIN turn' :
          p # q /\ Running(p)' /\ Running(q)' /\ Key(p)' = Key(q)' => q \in turn'[p].met
    BY <1>1, <1>3, <2>1 DEF Memory, Beside
  <2>3. \A p \in DOMAIN turn' : \A q \in turn'[p].met : Key(q)' = Key(p)'
    BY <1>1, <1>3, <1>4 DEF Memory, Beside
  <2> QED BY <2>2, <2>3 DEF Beside
<1>7. OfTheirKey'
  <2>1. \A p \in DOMAIN turn' : \A q \in turn'[p].base : Key(q)' = Key(p)'
    BY <1>1, <1>3, <1>4 DEF Memory, OfTheirKey
  <2>2. \A k \in Users \X Threads : \A p \in checkpoint'[k].rounds : Key(p)' = k
    BY <1>2, <1>3, <1>4 DEF Memory, OfTheirKey
  <2> QED BY <2>1, <2>2 DEF OfTheirKey
<1>8. ASSUME NEW q \in DOMAIN turn', turn'[q].met = {} PROVE Alone(q)'
  <2>1. CASE q = n
    BY <1>1, <2>1 DEF Alone, Answered
  <2>2. CASE q # n
    <3>1. q \in DOMAIN turn /\ turn'[q] = turn[q] /\ Alone(q)
      BY <1>1, <1>8, <2>2 DEF Memory
    <3>2. \A p \in DOMAIN turn' : turn'[p].pc = "run" => p \in DOMAIN turn /\ turn'[p] = turn[p]
      BY <1>1
    <3>3. Key(q)' = Key(q) /\ checkpoint' = checkpoint
      BY <1>2, <1>3, <3>1
    <3>4. \A p \in DOMAIN turn' : turn'[p].pc = "run" /\ Key(p)' = Key(q)' =>
            p \in DOMAIN turn /\ turn[p].pc = "run" /\ Key(p) = Key(q) /\ turn'[p].base = turn[p].base
      BY <1>3, <3>2, <3>3
    <3> QED BY <3>1, <3>3, <3>4 DEF Alone
  <2> QED BY <2>1, <2>2
<1> QED BY <1>5, <1>6, <1>7, <1>8 DEF Memory

(* A request that is over, or before its run, knows nothing.               *)
LEMMA MemoryQuiet ==
  ASSUME Typed, Memory, UNCHANGED checkpoint, NEW r \in DOMAIN turn,
         NEW pc, NEW seen, turn[r].pc \notin {"run", "read"}, pc \notin {"run", "read"},
         Moves(r, pc, turn[r].base, turn[r].said, turn[r].answer, seen),
         pc \in Before => turn[r].pc \in Before, pc \in Answered <=> turn[r].pc \in Answered
  PROVE  Memory'
<1>1. pc \notin Answered => turn[r].answer = 0
  BY DEF Memory, Blank
<1>2. turn[r].met = {} /\ pc \in Answered =>
        /\ turn[r].answer = r /\ r \in checkpoint[Key(r)].rounds
        /\ \A q \in DOMAIN turn \ {r} : turn[q].pc = "run" /\ Key(q) = Key(r) => r \in turn[q].base
  BY DEF Memory, Alone
<1> QED BY <1>1, <1>2, MemoryMoves

LEMMA MemoryStep == Typed /\ Memory /\ [Next]_vars => Memory'
<1> SUFFICES ASSUME Typed, Memory, [Next]_vars PROVE Memory'
  OBVIOUS
<1>1. CASE UNCHANGED chatVars
  BY <1>1 DEF chatVars, Memory, Blank, Beside, OfTheirKey, Alone, Running, Key
<1>2. ASSUME NEW s \in DOMAIN session, NEW t \in Threads, Ask(s, t) PROVE Memory'
  BY <1>2, MemoryAsk
<1>3. ASSUME NEW s \in DOMAIN session, NEW t \in Threads, Delete(s, t) PROVE Memory'
  BY <1>3, SMTT(30) DEF Delete, Memory, Blank, Beside, OfTheirKey, Alone, Running, Key
<1>4. ASSUME NEW r \in DOMAIN turn, Claim(r) \/ ClaimInsert(r) \/ ClaimReread(r) PROVE Memory'
  <2>1. UNCHANGED checkpoint
    BY <1>4 DEF Claim, ClaimInsert, ClaimReread
  <2>2. PICK phase \in {"insert", "claimed", "reread", "failed"} :
          Moves(r, phase, turn[r].base, turn[r].said, turn[r].answer, turn[r].seen)
    BY <1>4, ClaimDoes
  <2>3. turn[r].pc \in {"claim", "insert", "reread"}
    BY <1>4, ClaimDoes
  <2> QED BY <2>1, <2>2, <2>3, MemoryQuiet DEF Before, Answered
<1>5. ASSUME NEW r \in DOMAIN turn, StartRun(r) PROVE Memory'
  BY <1>5, MemoryStart
<1>6. ASSUME NEW r \in DOMAIN turn, NEW said \in BOOLEAN, StepRun(r, said) PROVE Memory'
  BY <1>6, MemoryRun
<1>7. ASSUME NEW r \in DOMAIN turn, EndRun(r) PROVE Memory'
  <2>1. turn[r].pc = "run" /\ UNCHANGED checkpoint
    BY <1>7, EndRunDoes DEF EndRun
  <2>5. PICK base, said : base = {} /\ Moves(r, "read", base, said, turn[r].answer, turn[r].seen)
    BY <1>7, EndRunDoes
  <2>2. turn[r].answer = 0 /\ turn[r].said \in BOOLEAN /\ Running(r)
    BY <2>1, TurnFields DEF Memory, Blank, Answered, Running
  <2>3. turn[r].met = {} =>
          /\ checkpoint[Key(r)].answer \in {0, r}
          /\ checkpoint[Key(r)].answer = r => r \in checkpoint[Key(r)].rounds
    <3>1. SUFFICES ASSUME turn[r].met = {}
          PROVE  /\ checkpoint[Key(r)].answer \in {0, r}
                 /\ checkpoint[Key(r)].answer = r => r \in checkpoint[Key(r)].rounds
      OBVIOUS
    <3>2. Alone(r) /\ r # 0
      BY <3>1, TurnFields DEF Memory
    <3> QED BY <2>1, <2>2, <3>2 DEF Alone
  <2>4. "read" \notin Before /\ "read" \notin Answered
    BY DEF Before, Answered
  <2> QED BY <2>1, <2>2, <2>3, <2>4, <2>5, MemoryMoves
<1>8. ASSUME NEW r \in DOMAIN turn, ReadAnswer(r) PROVE Memory'
  <2>1. /\ turn[r].pc = "read" /\ UNCHANGED checkpoint /\ checkpoint[Key(r)].answer # 0
        /\ Moves(r, "check", turn[r].base, turn[r].said, checkpoint[Key(r)].answer, turn[r].seen)
    BY <1>8, ReadAnswerDoes DEF ReadAnswer
  <2>2. turn[r].met = {} =>
          /\ checkpoint[Key(r)].answer = r /\ r \in checkpoint[Key(r)].rounds
          /\ \A q \in DOMAIN turn \ {r} : turn[q].pc = "run" /\ Key(q) = Key(r) => r \in turn[q].base
    <3>1. SUFFICES ASSUME turn[r].met = {}
          PROVE  /\ checkpoint[Key(r)].answer = r /\ r \in checkpoint[Key(r)].rounds
                 /\ \A q \in DOMAIN turn \ {r} : turn[q].pc = "run" /\ Key(q) = Key(r) => r \in turn[q].base
      OBVIOUS
    <3>2. checkpoint[Key(r)].answer = r /\ r \in checkpoint[Key(r)].rounds
      BY <2>1, <3>1 DEF Memory, Alone
    <3>3. \A q \in DOMAIN turn \ {r} : ~(turn[q].pc = "run" /\ Key(q) = Key(r))
      BY <2>1, <3>1 DEF Memory, Beside, Running
    <3> QED BY <3>2, <3>3
  <2>3. "check" \notin Before /\ "check" \in Answered
    BY DEF Before, Answered
  <2> QED BY <2>1, <2>2, <2>3, MemoryMoves
<1>9. ASSUME NEW r \in DOMAIN turn, CheckSession(r) PROVE Memory'
  BY <1>9, CheckSessionDoes, MemoryQuiet DEF CheckSession, Before, Answered
<1>10. ASSUME NEW r \in DOMAIN turn, Record(r) PROVE Memory'
  BY <1>10, RecordDoes, MemoryQuiet DEF Record, Before, Answered
<1>11. ASSUME NEW r \in DOMAIN turn, RecordWrite(r) PROVE Memory'
  <2>1. turn[r].pc = "write" /\ Moves(r, "final", turn[r].base, turn[r].said, turn[r].answer, turn[r].seen)
    BY <1>11, RecordWriteDoes
  <2>2. UNCHANGED checkpoint
    BY <1>11 DEF RecordWrite
  <2>3. "final" \notin Before /\ "final" \in Answered /\ "write" \in Answered
    BY DEF Before, Answered
  <2> QED BY <2>1, <2>2, <2>3, MemoryQuiet
<1>12. ASSUME NEW r \in DOMAIN turn, Fail(r) PROVE Memory'
  <2>1. UNCHANGED checkpoint
    BY <1>12 DEF Fail
  <2>3. PICK base, said : base = {} /\ Moves(r, "failed", base, said, 0, 0)
    BY <1>12, FailDoes
  <2>2. "failed" \notin Before /\ "failed" \notin Answered
    BY DEF Before, Answered
  <2> QED BY <2>1, <2>2, <2>3, MemoryMoves
<1> QED BY <1>1, <1>2, <1>3, <1>4, <1>5, <1>6, <1>7, <1>8, <1>9, <1>10, <1>11, <1>12 DEF Next, vars, chatVars

LEMMA MemoryInit == Init => Memory
<1> SUFFICES ASSUME Init PROVE Memory
  OBVIOUS
<1>1. DOMAIN turn = {} /\ \A k \in Users \X Threads : checkpoint[k].rounds = {}
  BY DEF Init
<1> QED BY <1>1 DEF Memory, Blank, Beside, OfTheirKey

(* A turn no other of its conversation ran beside is answered with its own *)
(* answer and, once recorded, remembered for the turns to come             *)
(* (agent_service.py:73-92, api.py:435).                                   *)
THEOREM TurnsApartNeverMix == Spec => []TurnsApartDoNotMix
<1> QED
  BY TypedInit, TypedStep, MemoryInit, MemoryStep, MemoryMeans, PTL DEF Spec
=============================================================================
