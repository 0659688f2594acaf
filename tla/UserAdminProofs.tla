-------------------------- MODULE UserAdminProofs --------------------------
(***************************************************************************)
(* Theorems about UserAdmin for every set of users, roles and requests.    *)
(*                                                                         *)
(* The two action properties follow from what a request that nobody has    *)
(* overtaken still knows when it writes: an edit knows the role of its     *)
(* target (CopyFresh), a disable knows that another administrator is left  *)
(* (LastKept), and only an administrator's edit gives a role (AskedByAdmin).*)
(***************************************************************************)
EXTENDS UserAdmin, FiniteSetTheorems, TLAPS

CopyFresh == \A r \in Request :
  At(r, "update", "write") /\ req[r].target \notin req[r].missed
    => req[r].copy = row[req[r].target].role

LastKept == \A r \in Request :
  At(r, "disable", "write") /\ req[r].missed = {}
    => \/ row[req[r].target].role # "admin"
       \/ \E v \in Admins : v # req[r].target

AskedByAdmin == \A r \in Request :
  req[r] # Idle /\ req[r].asked # None => req[r].admin

IInv == TypeOK /\ CopyFresh /\ LastKept /\ AskedByAdmin

-----------------------------------------------------------------------------
\* A finite set with more than one member has a member other than any t.
LEMMA AnotherMember ==
  ASSUME NEW S, IsFiniteSet(S), Cardinality(S) > 1, NEW t
  PROVE  \E v \in S : v # t
<1>1. SUFFICES ASSUME S \subseteq {t} PROVE FALSE
  OBVIOUS
<1>2. IsFiniteSet({t}) /\ Cardinality({t}) = 1
  BY FS_Singleton
<1>3. Cardinality(S) <= 1 /\ Cardinality(S) \in Nat
  BY <1>1, <1>2, FS_Subset, FS_CardinalityType
<1> QED
  BY <1>3

\* The rows of the two kinds never coincide, and neither do the requests.
LEMMA Kinds ==
  /\ NoRow \notin Row
  /\ Idle \notin Busy
  /\ ~NoRow.active
<1>1. NoRow \notin Row
  BY RolesAssumption DEF NoRow, Row
<1>2. Idle \notin Busy
  BY DEF Idle, Busy
<1> QED
  BY <1>1, <1>2 DEF NoRow

LEMMA InitInv == Init => IInv
<1> SUFFICES ASSUME Init PROVE IInv
  OBVIOUS
<1>1. \A r \in Request : req[r] = Idle
  BY DEF Init
<1>2. row \in [User -> Row \cup {NoRow}]
  BY RolesAssumption DEF Init, Row
<1>3. TypeOK
  BY <1>1, <1>2 DEF TypeOK, Init
<1> QED
  BY <1>1, <1>3 DEF IInv, CopyFresh, LastKept, AskedByAdmin, At

-----------------------------------------------------------------------------
(* The steps *)

\* The bodies of LastAdminStays and RolesOnRequest.
KeepsAdmin == Admins # {} /\ Admins' = {} =>
                \E r \in Request : Ends(r) /\ LosesLastAdmin(r)
KeepsRoles == \A u \in User : Exists(u) /\ row'[u].role \notin {row[u].role, None} =>
                \E r \in Request : Ends(r) /\ ChangesRole(r, u)
Good == IInv' /\ KeepsAdmin /\ KeepsRoles

\* A step that leaves the rows alone keeps administrators and roles.
LEMMA RowsSame ==
  ASSUME UNCHANGED row
  PROVE  Admins' = Admins /\ KeepsAdmin /\ KeepsRoles
BY DEF Admins, KeepsAdmin, KeepsRoles

\* A step that leaves rows and requests alone keeps the invariant.
LEMMA TokenSteps ==
  ASSUME IInv, NEW u \in User, SignIn(u) \/ Refresh(u) \/ TokenExpires(u)
  PROVE  Good
<1>1. UNCHANGED <<row, req>>
  BY DEF SignIn, Refresh, Issue, TokenExpires
<1>2. claims' \in [User -> SUBSET Role]
  <2>1. CASE SignIn(u) \/ Refresh(u)
    <3>1. row[u] \in Row
      BY <2>1, Kinds DEF SignIn, Refresh, Exists, IInv, TypeOK
    <3> QED
      BY <2>1, <3>1 DEF SignIn, Refresh, Issue, IInv, TypeOK, Row
  <2>2. CASE TokenExpires(u)
    BY <2>2 DEF TokenExpires, IInv, TypeOK
  <2> QED
    BY <2>1, <2>2
<1>3. TypeOK'
  BY <1>1, <1>2 DEF IInv, TypeOK, Exists
<1>4. (CopyFresh /\ LastKept /\ AskedByAdmin)'
  BY <1>1, RowsSame DEF IInv, CopyFresh, LastKept, AskedByAdmin, At
<1> QED
  BY <1>1, <1>3, <1>4, RowsSame DEF Good, IInv

\* A new row adds an administrator at most, and no request is about it.
LEMMA InsertStep ==
  ASSUME IInv, NEW u \in User, NEW role \in Role, Insert(u, role),
         claims' \in [User -> SUBSET Role]
  PROVE  Good
<1>1. /\ ~Exists(u)
      /\ UNCHANGED req
      /\ row' = [row EXCEPT ![u] = [role |-> role, active |-> TRUE]]
  BY DEF Insert
<1>2. row' \in [User -> Row \cup {NoRow}] /\ \A v \in User \ {u} : row'[v] = row[v]
  BY <1>1 DEF IInv, TypeOK, Row
<1>3. row'[u] \in Row /\ Exists(u)'
  BY <1>1, Kinds DEF IInv, TypeOK, Row, Exists
<1>4. \A r \in Request : req[r] # Idle =>
        req[r].target \in User /\ req[r].target # u
  BY <1>1 DEF IInv, TypeOK, Busy
<1>5. TypeOK'
  BY <1>1, <1>2, <1>3, <1>4 DEF IInv, TypeOK, Exists
<1>6. Admins \subseteq Admins'
  BY <1>1, <1>2, Kinds DEF Admins, Exists
<1>7. CopyFresh'
  BY <1>1, <1>2, <1>4 DEF IInv, CopyFresh, At
<1>8. LastKept'
  <2> SUFFICES ASSUME NEW r \in Request, At(r, "disable", "write"), req[r].missed = {}
               PROVE  \/ row'[req[r].target].role # "admin"
                      \/ \E v \in Admins' : v # req[r].target
    BY <1>1 DEF LastKept, At
  <2>1. row'[req[r].target] = row[req[r].target]
    BY <1>2, <1>4 DEF At
  <2> QED
    BY <1>6, <2>1 DEF IInv, LastKept
<1>9. AskedByAdmin'
  BY <1>1 DEF IInv, AskedByAdmin
<1>10. KeepsAdmin /\ KeepsRoles
  BY <1>1, <1>2, <1>6 DEF KeepsAdmin, KeepsRoles
<1> QED
  BY <1>5, <1>7, <1>8, <1>9, <1>10 DEF Good, IInv

\* A request that has just read an active or disabled row knows its role.
LEMMA BeginStep ==
  ASSUME IInv, NEW r \in Request, NEW op \in {"update", "disable", "restore"},
         NEW pc \in {"count", "write"}, NEW t \in User,
         NEW asked \in Role \cup {None}, NEW admin \in BOOLEAN,
         Exists(t), Begin(r, op, pc, t, asked, admin),
         asked # None => admin,
         op = "disable" /\ pc = "write" => row[t].role # "admin"
  PROVE  Good
<1> DEFINE q == [op |-> op, pc |-> pc, target |-> t, asked |-> asked,
                 copy |-> row[t].role, admin |-> admin, missed |-> {}]
<1>1. req' = [req EXCEPT ![r] = q] /\ UNCHANGED <<row, claims>>
  BY DEF Begin
<1>2. row[t] \in Row
  BY DEF IInv, TypeOK, Exists
<1>3. q \in Busy
  BY <1>2 DEF Busy, Row
<1>4. /\ req' \in [Request -> Busy \cup {Idle}]
      /\ req'[r] = q
      /\ \A p \in Request \ {r} : req'[p] = req[p]
  BY <1>1, <1>3 DEF IInv, TypeOK
<1>5. TypeOK'
  BY <1>1, <1>4 DEF IInv, TypeOK, Exists
<1>6. CopyFresh'
  BY <1>1, <1>4 DEF IInv, CopyFresh, At
<1>7. LastKept'
  BY <1>1, <1>4, RowsSame DEF IInv, LastKept, At
<1>8. AskedByAdmin'
  BY <1>4 DEF IInv, AskedByAdmin
<1> QED
  BY <1>1, <1>5, <1>6, <1>7, <1>8, RowsSame DEF Good, IInv

LEMMA ArriveSteps ==
  ASSUME IInv, NEW r \in Request, Arrive(r)
  PROVE  Good
<1>1. ASSUME NEW a \in User, NEW t \in User, NEW asked \in Role \cup {None},
             UpdateRead(r, a, t, asked)
      PROVE  Good
  <2>1. Exists(t) /\ IsAdmin(a) \in BOOLEAN
    BY <1>1, Kinds DEF UpdateRead, Exists, IsAdmin
  <2>2. asked # None => IsAdmin(a)
    BY <1>1 DEF UpdateRead
  <2> QED
    BY <1>1, <2>1, <2>2, BeginStep DEF UpdateRead
<1>2. ASSUME NEW a \in User, NEW t \in User, DisableRead(r, a, t)
      PROVE  Good
  <2>1. Exists(t)
    BY <1>2, Kinds DEF DisableRead, Exists
  <2>2. CASE row[t].role = "admin"
    BY <1>2, <2>1, <2>2, BeginStep DEF DisableRead
  <2>3. CASE row[t].role # "admin"
    BY <1>2, <2>1, <2>3, BeginStep DEF DisableRead
  <2> QED
    BY <2>2, <2>3
<1>3. ASSUME NEW a \in User, NEW t \in User, RestoreRead(r, a, t)
      PROVE  Good
  BY <1>3, BeginStep DEF RestoreRead
<1> QED
  BY <1>1, <1>2, <1>3 DEF Arrive

\* Leaving the count: with more than one active administrator, another than
\* the target remains.
LEMMA CountStep ==
  ASSUME IInv, NEW r \in Request, DisableCount(r)
  PROVE  Good
<1> DEFINE q == [req[r] EXCEPT !.pc = "write", !.missed = {}]
<1>1. /\ UNCHANGED <<row, claims>>
      /\ req[r] \in Busy
      /\ At(r, "disable", "count")
  BY DEF DisableCount, At, IInv, TypeOK
<1>2. \A p \in Request \ {r} : req'[p] = req[p]
  BY DEF DisableCount, IInv, TypeOK
<1>3. CASE Cardinality(Admins) > 1
  <2>1. req' = [req EXCEPT ![r] = q] /\ q \in Busy /\ req'[r] = q
    BY <1>1, <1>3 DEF DisableCount, Busy, IInv, TypeOK
  <2>2. IsFiniteSet(Admins)
    BY UserAssumption, FS_Subset DEF Admins
  <2>3. \E v \in Admins : v # q.target
    BY <1>3, <2>2, AnotherMember
  <2>4. TypeOK'
    BY <1>1, <1>2, <2>1 DEF IInv, TypeOK, Exists, Busy, At
  <2>5. CopyFresh'
    BY <1>1, <1>2, <2>1 DEF IInv, CopyFresh, At
  <2>6. LastKept'
    BY <1>1, <1>2, <2>1, <2>3, RowsSame DEF IInv, LastKept, At
  <2>7. AskedByAdmin'
    BY <1>1, <1>2, <2>1 DEF IInv, AskedByAdmin, At, Busy
  <2> QED
    BY <1>1, <2>4, <2>5, <2>6, <2>7, RowsSame DEF Good, IInv
<1>4. CASE ~(Cardinality(Admins) > 1)
  <2>1. req' = [req EXCEPT ![r] = Idle] /\ req'[r] = Idle
    BY <1>4 DEF DisableCount, IInv, TypeOK
  <2>2. TypeOK'
    BY <1>1, <1>2, <2>1 DEF IInv, TypeOK, Exists
  <2>3. (CopyFresh /\ LastKept /\ AskedByAdmin)'
    BY <1>1, <1>2, <2>1, RowsSame DEF IInv, CopyFresh, LastKept, AskedByAdmin, At
  <2> QED
    BY <1>1, <2>2, <2>3, RowsSame DEF Good, IInv
<1> QED
  BY <1>3, <1>4

LEMMA FailStep ==
  ASSUME IInv, NEW r \in Request, Fail(r)
  PROVE  Good
<1>1. /\ UNCHANGED <<row, claims>>
      /\ req' = [req EXCEPT ![r] = Idle]
  BY DEF Fail
<1>2. TypeOK'
  BY <1>1 DEF IInv, TypeOK, Exists
<1>3. (CopyFresh /\ LastKept /\ AskedByAdmin)'
  BY <1>1, RowsSame DEF IInv, TypeOK, CopyFresh, LastKept, AskedByAdmin, At
<1> QED
  BY <1>1, <1>2, <1>3, RowsSame DEF Good, IInv

\* Whatever a request writes into its row, every request that relied on that
\* row knows of it, and the others still know theirs.
LEMMA WriteKeeps ==
  ASSUME IInv, NEW r \in Request, req[r] # Idle, NEW new \in Row, Write(r, new)
  PROVE  /\ IInv'
         /\ Ends(r)
         /\ req[r].target \in User /\ row[req[r].target] \in Row
         /\ row'[req[r].target] = new
         /\ \A u \in User \ {req[r].target} : row'[u] = row[u]
<1> DEFINE t == req[r].target
           told(p) == [req[p] EXCEPT !.missed = @ \cup (About(req[p]) \cap {t})]
<1>1. req[r] \in Busy /\ t \in User /\ row[t] \in Row
  BY DEF IInv, TypeOK, Busy, Exists
<1>2. /\ row' = [row EXCEPT ![t] = new]
      /\ UNCHANGED claims
      /\ req' = [p \in Request |-> IF p = r \/ req[p] = Idle THEN Idle ELSE told(p)]
  BY DEF Write
<1>3. /\ row' \in [User -> Row \cup {NoRow}]
      /\ row'[t] = new
      /\ \A u \in User \ {t} : row'[u] = row[u]
  BY <1>1, <1>2 DEF IInv, TypeOK
<1>4. ASSUME NEW p \in Request, req'[p] # Idle
      PROVE  /\ req[p] \in Busy /\ p # r /\ req'[p] = told(p)
             /\ req'[p].op = req[p].op /\ req'[p].pc = req[p].pc
             /\ req'[p].target = req[p].target /\ req'[p].copy = req[p].copy
             /\ req'[p].asked = req[p].asked /\ req'[p].admin = req[p].admin
             /\ req'[p].missed = req[p].missed \cup (About(req[p]) \cap {t})
             /\ req[p] # Idle
  <2>1. req[p] \in Busy /\ p # r /\ req'[p] = told(p) /\ req[p] # Idle
    BY <1>2, <1>4 DEF IInv, TypeOK
  <2> QED
    BY <2>1 DEF Busy
<1>5. \A p \in Request : req'[p] # Idle => req'[p] \in Busy
  <2> SUFFICES ASSUME NEW p \in Request, req'[p] # Idle PROVE req'[p] \in Busy
    OBVIOUS
  <2>1. req[p] \in Busy /\ req'[p] = told(p)
    BY <1>4
  <2>2. About(req[p]) \cap {t} \subseteq User
    BY <1>1
  <2> HIDE DEF t
  <2> QED
    BY <2>1, <2>2 DEF Busy
<1>6. \A u \in User : Exists(u) => Exists(u)'
  BY <1>3, Kinds DEF Exists
<1>7. TypeOK'
  <2>1. req' \in [Request -> Busy \cup {Idle}]
    BY <1>2, <1>5
  <2>2. ASSUME NEW p \in Request, req'[p] # Idle
        PROVE  row'[req'[p].target] # NoRow
    <3>1. /\ req'[p].target = req[p].target
          /\ req[p].target \in User
          /\ Exists(req[p].target)
      BY <1>4, <2>2 DEF IInv, TypeOK, Busy
    <3> QED
      BY <1>6, <3>1 DEF Exists
  <2>3. claims' \in [User -> SUBSET Role]
    BY <1>2 DEF IInv, TypeOK
  <2> QED
    BY <1>3, <2>1, <2>2, <2>3 DEF TypeOK, Exists
<1>8. CopyFresh'
  <2> SUFFICES ASSUME NEW p \in Request, At(p, "update", "write")',
                      req'[p].target \notin req'[p].missed
               PROVE  req'[p].copy = row'[req'[p].target].role
    BY DEF CopyFresh
  <2>1. req'[p] # Idle /\ req'[p].op = "update" /\ req'[p].pc = "write"
    BY DEF At
  <2>2. At(p, "update", "write") /\ req[p].target \in User
    BY <1>4, <2>1 DEF At, Busy
  <2>3. About(req[p]) = {req[p].target}
    BY <2>2 DEF At, About
  <2>4. req[p].target # t /\ req[p].target \notin req[p].missed
    BY <1>4, <2>1, <2>3
  <2>5. req[p].copy = row[req[p].target].role
    BY <2>2, <2>4 DEF IInv, CopyFresh
  <2>6. req'[p].copy = req[p].copy /\ req'[p].target = req[p].target
    BY <1>4, <2>1
  <2>7. row'[req[p].target] = row[req[p].target]
    BY <1>3, <2>2, <2>4
  <2> QED
    BY <2>5, <2>6, <2>7
<1>9. LastKept'
  <2> SUFFICES ASSUME NEW p \in Request, At(p, "disable", "write")',
                      req'[p].missed = {}
               PROVE  FALSE
    BY DEF LastKept
  <2>1. req'[p] # Idle /\ req'[p].op = "disable"
    BY DEF At
  <2>2. About(req[p]) = User
    BY <1>4, <2>1 DEF About
  <2>3. t \in req'[p].missed
    BY <1>1, <1>4, <2>1, <2>2
  <2> QED
    BY <2>3
<1>10. AskedByAdmin'
  BY <1>4 DEF IInv, AskedByAdmin
<1>11. Ends(r)
  BY <1>2 DEF Ends
<1> QED
  BY <1>1, <1>3, <1>7, <1>8, <1>9, <1>10, <1>11 DEF IInv

LEMMA UpdateStep ==
  ASSUME IInv, NEW r \in Request, UpdateWrite(r)
  PROVE  Good
<1> DEFINE t == req[r].target
           role == IF req[r].asked = None THEN req[r].copy ELSE req[r].asked
           new  == [row[t] EXCEPT !.role = role]
<1>1. At(r, "update", "write") /\ Write(r, new)
  BY DEF UpdateWrite
<1>2. req[r] \in Busy /\ row[t] \in Row
  BY <1>1 DEF At, IInv, TypeOK, Busy, Exists
<1>3. new \in Row /\ new.role = role /\ new.active = row[t].active
  BY <1>2 DEF Row, Busy
<1>4. /\ IInv' /\ Ends(r) /\ t \in User /\ row'[t] = new
      /\ \A u \in User \ {t} : row'[u] = row[u]
  BY <1>1, <1>3, WriteKeeps DEF At
<1>5. CASE req[r].asked # None
  <2>1. KeepsRoles
    <3>1. req[r].admin
      BY <1>1, <1>5 DEF At, IInv, AskedByAdmin
    <3>2. ChangesRole(r, t)
      BY <1>1, <1>3, <1>4, <1>5, <3>1 DEF ChangesRole, At
    <3>3. \A u \in User \ {t} : row'[u].role = row[u].role
      BY <1>4
    <3> QED
      BY <1>4, <3>2, <3>3 DEF KeepsRoles
  <2>2. KeepsAdmin
    <3>1. CASE req[r].asked = "admin"
      <4>1. Admins \subseteq Admins'
        BY <1>3, <1>4, <3>1, RolesAssumption DEF Admins
      <4> QED
        BY <4>1 DEF KeepsAdmin
    <3>2. CASE req[r].asked # "admin"
      BY <1>1, <1>4, <1>5, <3>2 DEF KeepsAdmin, LosesLastAdmin, At
    <3> QED
      BY <3>1, <3>2
  <2> QED
    BY <1>4, <2>1, <2>2 DEF Good
<1>6. CASE req[r].asked = None /\ t \in req[r].missed
  <2>1. KeepsRoles
    BY <1>1, <1>3, <1>4, <1>6 DEF KeepsRoles, ChangesRole, At
  <2>2. KeepsAdmin
    BY <1>4, <1>6 DEF KeepsAdmin, LosesLastAdmin
  <2> QED
    BY <1>4, <2>1, <2>2 DEF Good
<1>7. CASE req[r].asked = None /\ t \notin req[r].missed
  <2>1. role = row[t].role
    BY <1>1, <1>7 DEF IInv, CopyFresh
  <2>2. \A u \in User : row'[u].role = row[u].role /\ row'[u].active = row[u].active
    BY <1>3, <1>4, <2>1
  <2>3. Admins' = Admins
    BY <2>2 DEF Admins
  <2> QED
    BY <1>4, <2>2, <2>3 DEF Good, KeepsRoles, KeepsAdmin
<1> QED
  BY <1>5, <1>6, <1>7

\* A disable that was not overtaken leaves the administrator it counted.
LEMMA DisableStep ==
  ASSUME IInv, NEW r \in Request, DisableWrite(r)
  PROVE  Good
<1> DEFINE t == req[r].target
           new == [row[t] EXCEPT !.active = FALSE]
<1>1. At(r, "disable", "write") /\ Write(r, new)
  BY DEF DisableWrite
<1>2. row[t] \in Row
  BY <1>1 DEF At, IInv, TypeOK, Busy, Exists
<1>3. new \in Row /\ new.role = row[t].role
  BY <1>2 DEF Row
<1>4. /\ IInv' /\ Ends(r) /\ t \in User /\ row'[t] = new
      /\ \A u \in User \ {t} : row'[u] = row[u]
  BY <1>1, <1>3, WriteKeeps DEF At
<1>5. KeepsRoles
  BY <1>3, <1>4 DEF KeepsRoles
<1>6. CASE req[r].missed # {}
  BY <1>4, <1>5, <1>6 DEF Good, KeepsAdmin, LosesLastAdmin
<1>7. CASE req[r].missed = {}
  <2>1. row[t].role # "admin" \/ \E v \in Admins : v # t
    BY <1>1, <1>7 DEF IInv, LastKept
  <2>2. CASE row[t].role # "admin"
    BY <1>4, <1>5, <2>2 DEF Good, KeepsAdmin, Admins
  <2>3. CASE \E v \in Admins : v # t
    BY <1>4, <1>5, <2>3 DEF Good, KeepsAdmin, Admins
  <2> QED
    BY <2>1, <2>2, <2>3
<1> QED
  BY <1>6, <1>7

LEMMA RestoreStep ==
  ASSUME IInv, NEW r \in Request, RestoreWrite(r)
  PROVE  Good
<1> DEFINE t == req[r].target
           new == [row[t] EXCEPT !.active = TRUE]
<1>1. At(r, "restore", "write") /\ Write(r, new)
  BY DEF RestoreWrite
<1>2. row[t] \in Row
  BY <1>1 DEF At, IInv, TypeOK, Busy, Exists
<1>3. new \in Row /\ new.role = row[t].role /\ new.active
  BY <1>2 DEF Row
<1>4. /\ IInv' /\ row'[t] = new
      /\ \A u \in User \ {t} : row'[u] = row[u]
  BY <1>1, <1>3, WriteKeeps DEF At
<1>5. Admins \subseteq Admins'
  BY <1>3, <1>4 DEF Admins
<1> QED
  BY <1>3, <1>4, <1>5 DEF Good, KeepsAdmin, KeepsRoles

LEMMA NextStep ==
  ASSUME IInv, [Next]_vars
  PROVE  IInv' /\ [KeepsAdmin]_vars /\ [KeepsRoles]_vars
<1>1. CASE UNCHANGED vars
  BY <1>1, RowsSame DEF vars, IInv, TypeOK, CopyFresh, LastKept, AskedByAdmin,
                        At, Exists
<1>2. CASE People
  <2>1. ASSUME NEW u \in User, SignIn(u) \/ Refresh(u) \/ TokenExpires(u) PROVE Good
    BY <2>1, TokenSteps
  <2>2. ASSUME NEW u \in User, Register(u) PROVE Good
    <3>1. claims' \in [User -> SUBSET Role]
      BY <2>2, RolesAssumption DEF Register, IInv, TypeOK
    <3> QED
      BY <2>2, <3>1, InsertStep, RolesAssumption DEF Register
  <2>3. ASSUME NEW u \in User, NEW a \in User, NEW role \in Role, Create(a, u, role)
        PROVE  Good
    BY <2>3, InsertStep DEF Create, IInv, TypeOK
  <2> QED
    BY <1>2, <2>1, <2>2, <2>3 DEF People, Good
<1>3. ASSUME NEW r \in Request, Arrive(r) \/ Serve(r) PROVE Good
  BY <1>3, ArriveSteps, CountStep, FailStep, UpdateStep, DisableStep, RestoreStep
     DEF Serve
<1> QED
  BY <1>1, <1>2, <1>3 DEF Next, Good

-----------------------------------------------------------------------------
(* The theorems *)

LEMMA Invariance == Spec => []IInv
<1>1. IInv /\ [Next]_vars => IInv'
  BY NextStep
<1> QED
  BY InitInv, <1>1, PTL DEF Spec

\* Rows, tokens and requests keep their types, and a request is always about
\* a row that exists: no operation of the administration deletes one.
THEOREM TypeCorrect == Spec => []TypeOK
<1>1. IInv => TypeOK
  BY DEF IInv
<1> QED
  BY Invariance, <1>1, PTL

\* Without an explicit demotion, and unless a request is overtaken between its
\* check and its write, an active administrator always remains.
THEOREM AdminRemains == Spec => LastAdminStays
<1>1. IInv /\ [Next]_vars =>
        [Admins # {} /\ Admins' = {} =>
           \E r \in Request : Ends(r) /\ LosesLastAdmin(r)]_vars
  BY NextStep DEF KeepsAdmin
<1> QED
  BY Invariance, <1>1, PTL DEF Spec, LastAdminStays

\* A role changes only to what an administrator's edit asked for, or back to
\* what an overtaken edit had read.
THEOREM RolesAreAsked == Spec => RolesOnRequest
<1>1. IInv /\ [Next]_vars =>
        [\A u \in User : Exists(u) /\ row'[u].role \notin {row[u].role, None} =>
           \E r \in Request : Ends(r) /\ ChangesRole(r, u)]_vars
  BY NextStep DEF KeepsRoles
<1> QED
  BY Invariance, <1>1, PTL DEF Spec, RolesOnRequest
=============================================================================
