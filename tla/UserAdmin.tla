----------------------------- MODULE UserAdmin -----------------------------
(***************************************************************************)
(* The administration of users (internal/users/service.go and repo.go,     *)
(* behind handler/users.go and middleware/auth.go): creating, editing,     *)
(* disabling and restoring a row of users.                                 *)
(*                                                                         *)
(* Who may do what is decided by the role written in the access token when *)
(* it was issued; the row of the actor is not read again.  An operation    *)
(* reads the row it is about, checks, and writes later, with no            *)
(* transaction and no condition in the UPDATE.                             *)
(***************************************************************************)
EXTENDS Naturals, FiniteSets

CONSTANTS
  User, Role,
  Request,   \* slots of requests being served at the same time
  None

ASSUME RolesAssumption == {"admin", "student"} \subseteq Role /\ None \notin Role
ASSUME UserAssumption  == IsFiniteSet(User)

VARIABLES
  row,       \* users: no row yet, or role and deleted_at IS NULL
  claims,    \* the roles in the unexpired access tokens of a user
  req        \* the requests in flight

vars == <<row, claims, req>>

NoRow   == [role |-> None, active |-> FALSE]
Row     == [role : Role, active : BOOLEAN]
Idle    == [op |-> "none"]
\* asked is the role given, copy the role read, admin says that the actor's
\* token has the role admin; missed are the users whose row another request
\* has written since this one checked it.
Busy    == [op : {"update", "disable", "restore"}, pc : {"count", "write"},
            target : User, asked : Role \cup {None}, copy : Role,
            admin : BOOLEAN, missed : SUBSET User]

Exists(u) == row[u] # NoRow
Admins    == {u \in User : row[u].active /\ row[u].role = "admin"}

\* The first administrator is put into the table by hand.
Init ==
  /\ \E a \in User : row = [u \in User |->
       IF u = a THEN [role |-> "admin", active |-> TRUE] ELSE NoRow]
  /\ claims = [u \in User |-> {}]
  /\ req = [r \in Request |-> Idle]

(***************************************************************************)
(* Tokens and new rows.                                                    *)
(***************************************************************************)
\* The role of the row is written into the token.
Issue(u) ==
  /\ claims' = [claims EXCEPT ![u] = @ \cup {row[u].role}]
  /\ UNCHANGED <<row, req>>

\* A login looks at deleted_at.
SignIn(u) == row[u].active /\ Issue(u)

\* A refresh does not: a disabled user whose refresh token has outlived the
\* revocation (module AuthSessions) gets another access token.
Refresh(u) == Exists(u) /\ Issue(u)

TokenExpires(u) ==
  /\ claims' = [claims EXCEPT ![u] = {}]
  /\ UNCHANGED <<row, req>>

Insert(u, role) ==
  /\ ~Exists(u)
  /\ row' = [row EXCEPT ![u] = [role |-> role, active |-> TRUE]]
  /\ UNCHANGED req

\* handler.register issues a token with the default role at once.
Register(u) ==
  /\ Insert(u, "student")
  /\ claims' = [claims EXCEPT ![u] = {"student"}]

IsAdmin(a) == "admin" \in claims[a]

Create(a, u, role) == IsAdmin(a) /\ Insert(u, role) /\ UNCHANGED claims

(***************************************************************************)
(* Requests about an existing row.                                         *)
(***************************************************************************)
At(r, op, pc) == req[r] # Idle /\ req[r].op = op /\ req[r].pc = pc

Begin(r, op, pc, t, asked, admin) ==
  /\ req[r] = Idle
  /\ req' = [req EXCEPT ![r] =
       [op |-> op, pc |-> pc, target |-> t, asked |-> asked,
        copy |-> row[t].role, admin |-> admin, missed |-> {}]]
  /\ UNCHANGED <<row, claims>>

\* The rows a request relies on when it writes: the guard of the last
\* administrator is about all of them.
About(q) == IF q.op = "disable" THEN User ELSE {q.target}

\* r writes its row, behind the back of the requests that rely on it.
Write(r, new) ==
  LET t == req[r].target IN
  /\ row' = [row EXCEPT ![t] = new]
  /\ req' = [q \in Request |->
       IF q = r \/ req[q] = Idle THEN Idle
       ELSE [req[q] EXCEPT !.missed = @ \cup (About(req[q]) \cap {t})]]
  /\ UNCHANGED claims

UpdateRead_AnyRole(r, a, t, asked) ==
  /\ claims[a] # {}
  /\ IsAdmin(a) \/ a = t
  /\ row[t].active
  /\ Begin(r, "update", "write", t, asked, IsAdmin(a))

UpdateRead(r, a, t, asked) ==
  /\ claims[a] # {}
  /\ IsAdmin(a) \/ (a = t /\ asked = None)
  /\ row[t].active
  /\ Begin(r, "update", "write", t, asked, IsAdmin(a))

\* name, avatar_url and role are written together, from the row as it was read.
UpdateWrite(r) ==
  /\ At(r, "update", "write")
  /\ Write(r, [row[req[r].target] EXCEPT !.role =
       IF req[r].asked = None THEN req[r].copy ELSE req[r].asked])

DisableRead(r, a, t) ==
  /\ IsAdmin(a) /\ a # t
  /\ row[t].active
  /\ Begin(r, "disable", IF row[t].role = "admin" THEN "count" ELSE "write",
           t, None, TRUE)

DisableCount_AtLeastOne(r) ==
  /\ At(r, "disable", "count")
  /\ req' = [req EXCEPT ![r] =
       IF Cardinality(Admins) >= 1
       THEN [@ EXCEPT !.pc = "write", !.missed = {}] ELSE Idle]
  /\ UNCHANGED <<row, claims>>

\* CountActiveAdmins: more than one must be left before.
DisableCount(r) ==
  /\ At(r, "disable", "count")
  /\ req' = [req EXCEPT ![r] =
       IF Cardinality(Admins) > 1
       THEN [@ EXCEPT !.pc = "write", !.missed = {}] ELSE Idle]
  /\ UNCHANGED <<row, claims>>

DisableWrite_Deletes(r) ==
  /\ At(r, "disable", "write")
  /\ Write(r, NoRow)

DisableWrite(r) ==
  /\ At(r, "disable", "write")
  /\ Write(r, [row[req[r].target] EXCEPT !.active = FALSE])

RestoreRead(r, a, t) ==
  /\ IsAdmin(a)
  /\ Exists(t) /\ ~row[t].active
  /\ Begin(r, "restore", "write", t, None, TRUE)

RestoreWrite(r) ==
  /\ At(r, "restore", "write")
  /\ Write(r, [row[req[r].target] EXCEPT !.active = TRUE])

Fail(r) ==
  /\ req[r] # Idle
  /\ req' = [req EXCEPT ![r] = Idle]
  /\ UNCHANGED <<row, claims>>

People == \E u \in User : \/ SignIn(u) \/ Refresh(u)
                          \/ TokenExpires(u) \/ Register(u)
                          \/ \E a \in User, role \in Role : Create(a, u, role)
Arrive(r) == \E a, t \in User :
  \/ \E asked \in Role \cup {None} : UpdateRead(r, a, t, asked)
  \/ DisableRead(r, a, t) \/ RestoreRead(r, a, t)
Serve(r) == \/ UpdateWrite(r) \/ DisableCount(r) \/ DisableWrite(r)
            \/ RestoreWrite(r) \/ Fail(r)

Next == People \/ \E r \in Request : Arrive(r) \/ Serve(r)
Spec == Init /\ [][Next]_vars

-----------------------------------------------------------------------------
(***************************************************************************)
(* Properties.                                                             *)
(***************************************************************************)
TypeOK ==
  /\ row \in [User -> Row \cup {NoRow}]
  /\ claims \in [User -> SUBSET Role]
  /\ req \in [Request -> Busy \cup {Idle}]
  /\ \A r \in Request : req[r] # Idle => Exists(req[r].target)

Ends(r) == req[r] # Idle /\ req'[r] = Idle

LosesLastAdmin(r) ==
  \/ req[r].missed # {}
  \/ req[r].op = "update" /\ req[r].asked \notin {None, "admin"}

\* The last active administrator is lost only to an edit that asks for
\* another role, which has no guard, or to a request that another one has
\* overtaken: two administrators who disable each other, or an edit of the
\* name that writes a role of the past.
LastAdminStays == [][Admins # {} /\ Admins' = {} =>
                       \E r \in Request : Ends(r) /\ LosesLastAdmin(r)]_vars

ChangesRole(r, u) ==
  /\ req[r].op = "update" /\ req[r].target = u
  /\ \/ req[r].admin /\ req[r].asked = row'[u].role
     \/ u \in req[r].missed

\* The role of a user changes only to what an administrator asked for, except
\* when an edit writes back a role that another request has replaced since.
RolesOnRequest ==
  [][\A u \in User : Exists(u) /\ row'[u].role \notin {row[u].role, None} =>
       \E r \in Request : Ends(r) /\ ChangesRole(r, u)]_vars
=============================================================================
