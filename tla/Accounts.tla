------------------------------ MODULE Accounts ------------------------------
(***************************************************************************)
(* Accounts and sessions (auth/service.py) as the routes and the bootstrap *)
(* command use them.  A transaction is one action: those that change an    *)
(* account lock the rows they read.  A request of an administrator is two: *)
(* require_admin reads the role in a transaction of its own, and what the  *)
(* request asks for is done in a later one.  Passwords are left out: a     *)
(* login is one with the right password, which no other login can be.      *)
(***************************************************************************)
EXTENDS Naturals, Sequences, FiniteSets

CONSTANTS
  Users,        \* normalised user names
  Changes,      \* bodies of a PATCH of a user
  MaxSessions,  \* bound: sessions
  MaxRequests   \* bound: requests of one administrator past require_admin

(* UpdateUserRequest: a field that is not given keeps what it is.          *)
Change == [role : {"admin", "user", "keep"}, password : {"new", "keep"}, active : {"on", "off", "keep"}]

ASSUME AccountsAssumption ==
  MaxSessions \in Nat /\ MaxRequests \in Nat /\ Changes \subseteq Change

VARIABLES
  account,       \* auth_users: role and is_active, or NoAccount
  session,       \* auth_sessions: user, and whether neither revoked nor expired
  admitted,      \* requests past require_admin, of each administrator
  booting,       \* bootstraps that have found no active administrator
  bootstrapped   \* history: the administrators made by a bootstrap

accountVars == <<account, session, admitted, booting, bootstrapped>>

NoAccount == [role |-> "none", active |-> FALSE]
Account   == [role : {"admin", "user"}, active : BOOLEAN]
Session   == [user : Users, open : BOOLEAN]

Exists(u)    == account[u] # NoAccount
ActiveAdmins == {u \in Users : account[u].role = "admin" /\ account[u].active}
Resolves(s)  == session[s].open /\ account[session[s].user].active

AccountsInit ==
  /\ account = [u \in Users |-> NoAccount]
  /\ session = <<>>
  /\ admitted = [u \in Users |-> 0]
  /\ booting = {} /\ bootstrapped = {}

-----------------------------------------------------------------------------
(* The first administrator.  The lock of the database, which its holder's  *)
(* connection keeps, spans the look for an administrator and the commit of *)
(* the new one; it is free again when the command fails in between.        *)
(* Mutant of BootLook: commands do not wait for each other.                *)
BootLookAtOnce(u) ==
  /\ ActiveAdmins = {}
  /\ booting' = booting \cup {u}
  /\ UNCHANGED <<account, session, admitted, bootstrapped>>

BootLook(u) ==
  /\ booting = {}
  /\ ActiveAdmins = {}
  /\ booting' = booting \cup {u}
  /\ UNCHANGED <<account, session, admitted, bootstrapped>>

BootCreate(u) ==
  /\ u \in booting
  /\ ~Exists(u)
  /\ account' = [account EXCEPT ![u] = [role |-> "admin", active |-> TRUE]]
  /\ bootstrapped' = bootstrapped \cup {u}
  /\ booting' = booting \ {u}
  /\ UNCHANGED <<session, admitted>>

BootFails(u) ==
  /\ u \in booting
  /\ booting' = booting \ {u}
  /\ UNCHANGED <<account, session, admitted, bootstrapped>>

-----------------------------------------------------------------------------
(* A login checks the account, whose row it locks, and makes the session   *)
(* in the same transaction.                                                *)
Login(u) ==
  /\ account[u].active
  /\ Len(session) < MaxSessions
  /\ session' = Append(session, [user |-> u, open |-> TRUE])
  /\ UNCHANGED <<account, admitted, booting, bootstrapped>>

Logout(s) ==
  /\ Resolves(s)
  /\ session' = [session EXCEPT ![s].open = FALSE]
  /\ UNCHANGED <<account, admitted, booting, bootstrapped>>

(* expires_at passes.                                                      *)
Expire(s) ==
  /\ session[s].open
  /\ session' = [session EXCEPT ![s].open = FALSE]
  /\ UNCHANGED <<account, admitted, booting, bootstrapped>>

-----------------------------------------------------------------------------
RequireAdmin(s) ==
  LET u == session[s].user
  IN  /\ Resolves(s) /\ account[u].role = "admin"
      /\ admitted[u] < MaxRequests
      /\ admitted' = [admitted EXCEPT ![u] = @ + 1]
      /\ UNCHANGED <<account, session, booting, bootstrapped>>

CreateUser(actor, u, role) ==
  /\ admitted[actor] > 0
  /\ ~Exists(u)
  /\ account' = [account EXCEPT ![u] = [role |-> role, active |-> TRUE]]
  /\ admitted' = [admitted EXCEPT ![actor] = @ - 1]
  /\ UNCHANGED <<session, booting, bootstrapped>>

(* What a change of u makes of its account, and whether it takes an active *)
(* administrator away.                                                     *)
Changed(u, c) ==
  [role   |-> IF c.role = "keep" THEN account[u].role ELSE c.role,
   active |-> IF c.active = "keep" THEN account[u].active ELSE c.active = "on"]
InvalidatesAdmin(u, c) == u \in ActiveAdmins /\ (c.active = "off" \/ c.role = "user")

(* Mutants of Refused and Ends: only a change of oneself is refused; a user *)
(* that is disabled keeps its sessions.                                    *)
RefusedForOneself(actor, u, c) == InvalidatesAdmin(u, c) /\ actor = u
EndsAtReset(u, c) == c.password = "new"

Refused(actor, u, c) ==
  InvalidatesAdmin(u, c) /\ (actor = u \/ Cardinality(ActiveAdmins) = 1)
Ends(u, c) ==
  c.password = "new" \/ (c.active = "off" /\ account[u].active)

(* _revoke_active_sessions.                                                *)
Revoke(u) ==
  session' = [s \in DOMAIN session |->
    IF session[s].user = u THEN [session[s] EXCEPT !.open = FALSE] ELSE session[s]]

UpdateUser(actor, u, c) ==
  /\ admitted[actor] > 0
  /\ Exists(u)
  /\ ~Refused(actor, u, c)
  /\ account' = [account EXCEPT ![u] = Changed(u, c)]
  /\ IF Ends(u, c) THEN Revoke(u) ELSE UNCHANGED session
  /\ admitted' = [admitted EXCEPT ![actor] = @ - 1]
  /\ UNCHANGED <<booting, bootstrapped>>

(* A user that exists or does not, a change that is refused, a fault.      *)
AdminRequestFails(actor) ==
  /\ admitted[actor] > 0
  /\ admitted' = [admitted EXCEPT ![actor] = @ - 1]
  /\ UNCHANGED <<account, session, booting, bootstrapped>>

AccountsNext ==
  \/ \E u \in Users : BootLook(u) \/ BootCreate(u) \/ BootFails(u) \/ Login(u)
  \/ \E s \in DOMAIN session : Logout(s) \/ Expire(s) \/ RequireAdmin(s)
  \/ \E actor, u \in Users :
       \/ \E role \in {"admin", "user"} : CreateUser(actor, u, role)
       \/ \E c \in Changes : UpdateUser(actor, u, c)
  \/ \E actor \in Users : AdminRequestFails(actor)

AccountsSpec == AccountsInit /\ [][AccountsNext]_accountVars

-----------------------------------------------------------------------------
(* The types of the variables.                                             *)
AccountsTypeOK ==
  /\ account \in [Users -> Account \cup {NoAccount}]
  /\ session \in Seq(Session)
  /\ admitted \in [Users -> Nat]
  /\ booting \subseteq Users /\ bootstrapped \subseteq Users

(* There is at most one first administrator, and from then on always an    *)
(* active one, whatever requests are decided upon after the role of the    *)
(* one who made them, or that of the last of the others, has changed       *)
(* (service.py:398-404, 523-554, 106-157).                                 *)
AdminRemains ==
  /\ Cardinality(bootstrapped) <= 1
  /\ bootstrapped # {} => ActiveAdmins # {}

=============================================================================
