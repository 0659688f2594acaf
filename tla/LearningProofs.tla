--------------------------- MODULE LearningProofs ---------------------------
(***************************************************************************)
(* Theorems about Learning for every set of users, courses, badges,        *)
(* projects, criteria and requests; a badge check sees finitely many courses*)
(* (UserAssumption), because it counts them.                               *)
(*                                                                         *)
(* What a badge check owes it is still going to give: the badge is         *)
(* unlocked, or listed with a target that the user has reached, or the one *)
(* that is being evaluated (Owes).  A request about a project that has not *)
(* missed anything stands on an open project and an access that it has seen*)
(* (Informed).                                                             *)
(***************************************************************************)
EXTENDS Learning, FiniteSetTheorems, TLAPS

\* A listed badge t is still ahead of the check q.
Ahead(q, t) == \/ t \in q.todo
               \/ q.pc \in {"count", "insert"} /\ q.cur = t

Owes(q) == \A t \in q.owed :
  /\ Exists(t[1]) /\ Earned(q.user, t[2])
  /\ <<q.user, t[1]>> \in unlocked \/ Ahead(q, t)

\* The user has at some time had what criterion c asks for.
Reached(u, c) == Target(c) \in 1 .. most[u][c.type]

\* The badge under evaluation, which is earned by the time it is inserted.
Evaluates(q) ==
  /\ q.pc \in {"count", "insert"} => q.cur \in Listed
  /\ q.pc = "insert" => Reached(q.user, q.cur[2])

Informed(q) == q.missed \/ /\ item[q.project].active
                           /\ q.pc = "access" \/ Access(q.user, q.project)

KnowsOf(q) == /\ q.op = "check" => Owes(q) /\ Evaluates(q)
              /\ Working(q) => Informed(q)
Knows == \A r \in Request : KnowsOf(req[r])

Counted == \A u \in User, t \in Type : Progress(u, t) <= most[u][t]

IInv == TypeOK /\ Knows /\ Counted

-----------------------------------------------------------------------------
(* Kinds of values *)

Requests == {Idle} \cup Check \cup Work \cup Edit \cup Delete

TablesOK ==
  /\ item \in [Item -> Row \cup {NoItem}]
  /\ enrolled \in [User -> SUBSET Course]
  /\ points \in [User -> Points]
  /\ most \in [User -> [Type -> Nat]]
  /\ unlocked \subseteq User \X Badge
  /\ work \in [User \X Project -> {"none", "in_progress", "completed", "skipped"}]
  /\ \A k \in unlocked : Exists(k[2])
  /\ \A k \in User \X Project : work[k] # "none" => Exists(k[2])

LEMMA TypeParts == TypeOK <=> TablesOK /\ req \in [Request -> Requests]
BY DEF TypeOK, TablesOK, Requests

LEMMA Kinds ==
  /\ Idle.op = "none"
  /\ \A q \in Check : q.op = "check"
  /\ \A q \in Work : q.op \in {"start", "complete", "skip"} /\ Working(q)
  /\ \A q \in Edit : q.op = "edit"
  /\ \A q \in Delete : q.op = "delete"
  /\ \A q \in Requests : /\ q.op = "check" <=> q \in Check
                         /\ Working(q) <=> q \in Work
                         /\ q.op = "edit" <=> q \in Edit
                         /\ q.op = "delete" <=> q \in Delete
                         /\ q.op = "none" <=> q = Idle
<1>1. /\ Idle.op = "none"
      /\ \A q \in Check : q.op = "check"
      /\ \A q \in Work : q.op \in {"start", "complete", "skip"} /\ Working(q)
      /\ \A q \in Edit : q.op = "edit"
      /\ \A q \in Delete : q.op = "delete"
  BY DEF Idle, Check, Work, Edit, Delete, Working
<1> QED
  BY <1>1 DEF Requests, Working

LEMMA Criteria ==
  /\ \A c \in Criterion : /\ c.type \in Type /\ c.value \in Value
                          /\ Target(c) \in Nat
  /\ NoCriterion \in Criterion
  /\ None \notin Criterion
<1>1. \A c \in Criterion : c.type \in Type /\ c.value \in Value
  BY DEF Criterion
<1>2. NoCriterion \in Criterion
  BY ValueAssumption DEF NoCriterion, Criterion, Type
<1> QED
  BY <1>1, <1>2, ValueAssumption DEF Target

LEMMA Rows ==
  /\ NoItem \notin Row
  /\ \A row \in Row \cup {NoItem} : row.active => row \in Row /\ row.criterion \in Criterion
<1>1. ~NoItem.active /\ NoItem.criterion \notin Criterion
  BY Criteria DEF NoItem
<1>2. \A row \in Row : row.criterion \in Criterion
  BY DEF Row
<1>3. NoItem \notin Row
  BY <1>1, <1>2
<1> QED
  BY <1>1, <1>2, <1>3

LEMMA Listing ==
  ASSUME NEW t \in Listed
  PROVE  t[1] \in Badge /\ t[1] \in Item /\ t[2] \in Criterion
BY DEF Listed, Item

LEMMA Finite ==
  ASSUME TypeOK, NEW u \in User, NEW t \in Type
  PROVE  /\ IsFiniteSet(enrolled[u]) /\ Cardinality(enrolled[u]) \in Nat
         /\ Progress(u, t) \in Nat /\ most[u][t] \in Nat
<1>1. enrolled[u] \subseteq Course /\ most[u][t] \in Nat /\ points[u] \in Nat
  BY PointsAssumption DEF TypeOK
<1>2. IsFiniteSet(enrolled[u]) /\ Cardinality(enrolled[u]) \in Nat
  BY <1>1, UserAssumption, FS_Subset, FS_CardinalityType
<1> QED
  BY <1>1, <1>2 DEF Progress

\* What a user has reached stays reached, as the history only grows.
Remembers == \A u \in User, c \in Criterion : Reached(u, c) => Reached(u, c)'

LEMMA HistoryGrows ==
  ASSUME TypeOK, NEW u \in User,
         \A v \in User, t \in Type : Progress(v, t)' \in Nat,
         \A v \in User \ {u}, t \in Type : Progress(v, t)' = Progress(v, t),
         Remember(u), Counted
  PROVE  most' \in [User -> [Type -> Nat]] /\ Counted' /\ Remembers
<1>1. most \in [User -> [Type -> Nat]]
  BY DEF TypeOK
<1>2. PICK m : m = [t \in Type |->
                     IF Progress(u, t)' > most[u][t] THEN Progress(u, t)' ELSE most[u][t]]
  OBVIOUS
<1>3. most' = [most EXCEPT ![u] = m]
  BY <1>2 DEF Remember
<1>4. \A t \in Type : m[t] \in Nat /\ most[u][t] <= m[t] /\ Progress(u, t)' <= m[t]
  BY <1>1, <1>2
<1>5. m \in [Type -> Nat]
  BY <1>1, <1>2
<1>6. /\ most' \in [User -> [Type -> Nat]] /\ most'[u] = m
      /\ \A v \in User \ {u} : most'[v] = most[v]
  BY <1>1, <1>3, <1>5
<1>7. Counted'
  BY <1>4, <1>6 DEF Counted
<1>8. ASSUME NEW v \in User, NEW c \in Criterion, Reached(v, c) PROVE Reached(v, c)'
  <2>1. /\ c.type \in Type /\ Target(c) \in Nat
        /\ Target(c) \in 1 .. most[v][c.type]
    BY <1>8, Criteria DEF Reached
  <2>2. /\ most[v][c.type] \in Nat /\ most'[v][c.type] \in Nat
        /\ most[v][c.type] <= most'[v][c.type]
    BY <1>1, <1>4, <1>6, <2>1
  <2>3. Target(c) \in 1 .. most'[v][c.type]
    BY <2>1, <2>2
  <2> QED
    BY <2>3 DEF Reached, Target
<1> QED
  BY <1>6, <1>7, <1>8 DEF Remembers

\* Nothing is taken from what requests and checks know.
Grows ==
  /\ \A b \in Badge : Exists(b) => Exists(b)'
  /\ unlocked \subseteq unlocked'
  /\ \A u \in User, c \in Criterion : Earned(u, c) => Earned(u, c)'
  /\ Remembers
  /\ \A p \in Project : item[p].active => item'[p].active
  /\ \A u \in User, p \in Project : Access(u, p) => Access(u, p)'

LEMMA StillGrows ==
  ASSUME UNCHANGED <<item, enrolled, points, most, unlocked>>
  PROVE  Grows
BY DEF Grows, Exists, Earned, Progress, Target, Access, Remembers, Reached

LEMMA KnowsGrows ==
  ASSUME TypeOK, Grows, NEW q \in Requests, KnowsOf(q)
  PROVE  KnowsOf(q)'
<1>1. ASSUME q.op = "check" PROVE Owes(q)' /\ Evaluates(q)'
  <2>1. /\ q.user \in User /\ q.owed \subseteq Listed /\ q.todo \subseteq Listed
        /\ Owes(q) /\ Evaluates(q)
    BY <1>1, Kinds DEF Check, KnowsOf
  <2>2. Owes(q)'
    BY <2>1, Listing DEF Owes, Grows, Ahead
  <2>3. Evaluates(q)'
    BY <2>1, Listing DEF Evaluates, Grows, Remembers
  <2> QED
    BY <2>2, <2>3
<1>2. ASSUME Working(q) PROVE Informed(q)'
  <2>1. q.user \in User /\ q.project \in Project /\ Informed(q)
    BY <1>2, Kinds DEF Work, KnowsOf
  <2> QED
    BY <2>1 DEF Informed, Grows
<1> QED
  BY <1>1, <1>2 DEF KnowsOf, Working

Becomes(r, q) ==
  /\ req' = [o \in Request |-> req'[o]] /\ req'[r] = q
  /\ \A o \in Request \ {r} : req'[o] = req[o]

LEMMA Puts ==
  ASSUME TypeOK, NEW r \in Request, NEW q, req' = [req EXCEPT ![r] = q]
  PROVE  Becomes(r, q)
BY DEF TypeOK, Becomes

\* A step of one request that takes nothing away.
LEMMA OneStep ==
  ASSUME IInv, NEW r \in Request, NEW q \in Requests, Becomes(r, q),
         Grows, TablesOK', Counted', KnowsOf(q)'
  PROVE  IInv'
<1>1. req' \in [Request -> Requests] /\ req'[r] = q /\ \A o \in Request \ {r} : req'[o] = req[o]
  <2>1. \A o \in Request : req'[o] \in Requests
    BY TypeParts DEF IInv, Becomes
  <2> QED
    BY <2>1 DEF Becomes
<1>2. TypeOK'
  BY <1>1, TypeParts DEF TypeOK, TablesOK, Requests
<1>3. Knows'
  <2> SUFFICES ASSUME NEW o \in Request \ {r} PROVE KnowsOf(req[o])'
    BY <1>1 DEF Knows
  <2>1. PICK x \in Requests : x = req[o]
    BY TypeParts DEF IInv
  <2>2. KnowsOf(x)'
    BY <2>1, KnowsGrows DEF IInv, Knows
  <2> QED
    BY <1>1, <2>1, <2>2
<1> QED
  BY <1>2, <1>3 DEF IInv

LEMMA StillTables ==
  ASSUME IInv, UNCHANGED <<item, enrolled, points, most, unlocked, work>>
  PROVE  TablesOK' /\ Counted'
BY TypeParts DEF IInv, TablesOK, Counted, Progress, Exists

\* A step that writes no table.
LEMMA StillStep ==
  ASSUME IInv, NEW r \in Request, NEW q \in Requests, Becomes(r, q),
         UNCHANGED <<item, enrolled, points, most, unlocked, work>>, KnowsOf(q)
  PROVE  IInv'
<1>1. Grows
  BY StillGrows DEF IInv
<1>2. TablesOK' /\ Counted'
  BY StillTables
<1>3. KnowsOf(q)'
  BY <1>1, KnowsGrows DEF IInv
<1> QED
  BY <1>1, <1>2, <1>3, OneStep

LEMMA IdleKnows == Idle \in Requests /\ KnowsOf(Idle)
BY DEF Idle, Requests, KnowsOf, Working

-----------------------------------------------------------------------------
(* The initial state *)

LEMMA InitInv == Init => IInv
<1> SUFFICES ASSUME Init PROVE IInv
  OBVIOUS
<1>1. TypeOK
  BY PointsAssumption DEF Init, TypeOK
<1>2. Knows
  BY IdleKnows DEF Init, Knows
<1>3. Counted
  <2>1. \A u \in User : enrolled[u] = {} /\ points[u] = 0
    BY DEF Init
  <2>2. \A u \in User, t \in Type : most[u][t] = 0
    BY DEF Init
  <2> QED
    BY <2>1, <2>2, FS_EmptySet DEF Counted, Progress
<1> QED
  BY <1>1, <1>2, <1>3 DEF IInv

-----------------------------------------------------------------------------
(* Steps that write no table *)

LEMMA EndStep ==
  ASSUME IInv, NEW r \in Request, End(r), UNCHANGED <<item, enrolled, points, most, unlocked, work>>
  PROVE  IInv'
BY IdleKnows, StillStep, Puts DEF End, IInv

LEMMA BeginStep ==
  ASSUME IInv, NEW r \in Request, NEW q \in Requests, Begin(r, q), KnowsOf(q)
  PROVE  IInv'
BY StillStep, Puts DEF Begin, IInv

LEMMA AdminBegins ==
  ASSUME IInv, NEW r \in Request, NEW i \in Item,
         \/ \E active \in BOOLEAN \cup {None}, type \in Type \cup {None},
               value \in Value \cup {None} : EditRead(r, i, active, type, value)
         \/ DeleteRead(r, i)
  PROVE  IInv'
<1>1. ASSUME NEW q \in Edit \cup Delete, Begin(r, q) PROVE IInv'
  <2>1. q \in Requests /\ KnowsOf(q)
    BY Kinds DEF Requests, KnowsOf, Working
  <2> QED
    BY <1>1, <2>1, BeginStep
<1>2. ASSUME Exists(i)
      PROVE  /\ item[i].active \in BOOLEAN
             /\ item[i].criterion.type \in Type /\ item[i].criterion.value \in Value
  <2>1. item[i] \in Row
    BY <1>2 DEF Exists, IInv, TypeOK
  <2> QED
    BY <2>1, Criteria DEF Row
<1>3. ASSUME NEW active \in BOOLEAN \cup {None}, NEW type \in Type \cup {None},
             NEW value \in Value \cup {None}, EditRead(r, i, active, type, value)
      PROVE  IInv'
  <2> DEFINE a   == Kept(active, item[i].active)
             y   == Kept(type, item[i].criterion.type)
             n   == Kept(value, item[i].criterion.value)
             c   == [type |-> y, value |-> n]
             row == [active |-> a, criterion |-> c]
             q   == [op |-> "edit", pc |-> "write", item |-> i, new |-> row]
  <2>1. Begin(r, q) /\ Exists(i)
    BY <1>3, Zenon DEF EditRead
  <2>2. a \in BOOLEAN /\ y \in Type /\ n \in Value
    BY <1>2, <2>1, Zenon DEF Kept
  <2>3. row \in Row
    <3> HIDE DEF a, y, n
    <3>1. c \in Criterion
      BY <2>2, Zenon DEF Criterion
    <3> HIDE DEF c
    <3> QED
      BY <2>2, <3>1, Zenon DEF Row
  <2>4. q \in Edit
    <3> HIDE DEF row
    <3> QED
      BY <2>3 DEF Edit
  <2> QED
    BY <1>1, <2>1, <2>4
<1>4. CASE DeleteRead(r, i)
  <2>1. [op |-> "delete", pc |-> "write", item |-> i] \in Delete
    BY DEF Delete
  <2> QED
    BY <1>1, <1>4, <2>1 DEF DeleteRead
<1> QED
  BY <1>3, <1>4

LEMMA WorkBegins ==
  ASSUME IInv, NEW r \in Request, NEW op \in {"start", "complete", "skip"},
         NEW u \in User, NEW p \in Project, WorkRead(r, op, u, p)
  PROVE  IInv'
<1> DEFINE q == [op |-> op, pc |-> "access", user |-> u, project |-> p, missed |-> FALSE]
<1>1. FALSE \in BOOLEAN
  OBVIOUS
<1>2. q \in Work
  BY <1>1, Zenon DEF Work
<1>3. q \in Requests /\ KnowsOf(q)
  BY <1>2, Kinds DEF Requests, KnowsOf, Informed, WorkRead
<1> QED
  BY <1>3, BeginStep DEF WorkRead

LEMMA CheckParts ==
  ASSUME IInv, NEW r \in Request, req[r].op = "check"
  PROVE  /\ req[r] \in Check /\ req[r] \in Requests /\ Owes(req[r]) /\ Evaluates(req[r])
         /\ req[r].user \in User /\ req[r].todo \subseteq Listed
         /\ req[r].owed \subseteq Listed
<1>1. req[r] \in Requests /\ KnowsOf(req[r])
  BY TypeParts DEF IInv, Knows
<1>2. req[r] \in Check
  BY <1>1, Kinds
<1> QED
  BY <1>1, <1>2 DEF KnowsOf, Check

\* The check of user u that has come to pc.
CheckAt(u, pc, todo, cur, owed) ==
  [op |-> "check", pc |-> pc, user |-> u, todo |-> todo, cur |-> cur, owed |-> owed]

LEMMA CheckMoves ==
  ASSUME NEW u \in User, NEW pc \in {"list", "has", "count", "insert"},
         NEW todo \in SUBSET Listed, NEW cur \in Listed \cup {None},
         NEW owed \in SUBSET Listed
  PROVE  LET x == CheckAt(u, pc, todo, cur, owed) IN
         /\ x \in Check /\ x \in Requests /\ x.op = "check" /\ ~Working(x)
         /\ x.user = u /\ x.pc = pc /\ x.todo = todo /\ x.cur = cur /\ x.owed = owed
<1> DEFINE x == CheckAt(u, pc, todo, cur, owed)
<1>1. /\ x \in Check /\ x.user = u /\ x.pc = pc /\ x.todo = todo
      /\ x.cur = cur /\ x.owed = owed
  BY DEF Check, CheckAt
<1> HIDE DEF x
<1>2. x \in Requests /\ x.op = "check" /\ ~Working(x)
  BY <1>1, Kinds DEF Requests, Working
<1> QED
  BY <1>1, <1>2 DEF x

LEMMA CheckParted ==
  ASSUME NEW q \in Check
  PROVE  /\ q = CheckAt(q.user, q.pc, q.todo, q.cur, q.owed)
         /\ q.cur \in Listed \cup {None}
BY DEF Check, CheckAt

LEMMA ListStep ==
  ASSUME IInv, NEW r \in Request, CheckList(r)
  PROVE  IInv'
<1> DEFINE todo == {<<b, item[b].criterion>> : b \in {b \in Badge : item[b].active}}
           owed == {t \in todo : Earned(req[r].user, t[2])}
<1>1. /\ req[r].op = "check" /\ UNCHANGED <<item, enrolled, points, most, unlocked, work>>
      /\ req' = [req EXCEPT ![r].pc = "has", ![r].todo = todo, ![r].owed = owed]
  BY DEF CheckList, At
<1>2. /\ req[r] \in Check /\ req[r].user \in User
      /\ req[r].cur \in Listed \cup {None}
  BY <1>1, CheckParts, CheckParted
<1>3. \A t \in todo : t \in Listed /\ Exists(t[1])
  <2>1. \A b \in Badge : item[b].active => item[b] # NoItem /\ item[b].criterion \in Criterion
    BY Rows DEF IInv, TypeOK, Item
  <2> QED
    BY <2>1 DEF Listed, Exists
<1>4. todo \in SUBSET Listed /\ owed \in SUBSET Listed
  BY <1>3
<1>5. PICK x : x = CheckAt(req[r].user, "has", todo, req[r].cur, owed)
  OBVIOUS
<1>6. /\ x \in Requests /\ x.op = "check" /\ ~Working(x) /\ x.user = req[r].user
      /\ x.pc = "has" /\ x.todo = todo /\ x.owed = owed
  <2> HIDE DEF todo, owed
  <2> QED
    BY <1>2, <1>4, <1>5, CheckMoves
<1>7. Becomes(r, x)
  <2> HIDE DEF todo, owed
  <2>1. req'[r] = x
    BY <1>1, <1>2, <1>5 DEF Check, CheckAt, IInv, TypeOK
  <2> QED
    BY <1>1, <2>1 DEF Becomes, IInv, TypeOK
<1>8. KnowsOf(x)
  <2>1. Owes(x)
    <3>1. \A t \in owed : t \in todo /\ Earned(req[r].user, t[2])
      OBVIOUS
    <3> HIDE DEF todo, owed
    <3> QED
      BY <1>3, <1>6, <3>1 DEF Owes, Ahead
  <2> QED
    BY <1>6, <2>1 DEF KnowsOf, Evaluates
<1> QED
  BY <1>1, <1>6, <1>7, <1>8, StillStep

LEMMA HasStep ==
  ASSUME IInv, NEW r \in Request, CheckHas(r)
  PROVE  IInv'
<1>1. /\ req[r].op = "check" /\ req[r].pc = "has"
      /\ UNCHANGED <<item, enrolled, points, most, unlocked, work>>
  BY DEF CheckHas, At
<1>2. CASE End(r)
  BY <1>1, <1>2, EndStep
<1>3. ASSUME NEW t \in req[r].todo,
             req' = IF <<req[r].user, t[1]>> \in unlocked
                    THEN [req EXCEPT ![r].todo = @ \ {t}]
                    ELSE [req EXCEPT ![r].todo = @ \ {t}, ![r].cur = t, ![r].pc = "count"]
      PROVE  IInv'
  <2> DEFINE has  == <<req[r].user, t[1]>> \in unlocked
             pc   == IF has THEN "has" ELSE "count"
             cur  == IF has THEN req[r].cur ELSE t
             todo == req[r].todo \ {t}
  <2>1. /\ req[r] \in Check /\ req[r].owed \in SUBSET Listed /\ Owes(req[r])
        /\ todo \in SUBSET Listed /\ t \in Listed
        /\ req[r].user \in User /\ pc \in {"has", "count"}
        /\ cur \in Listed \cup {None}
    BY <1>1, CheckParts, CheckParted
  <2>2. PICK x : x = CheckAt(req[r].user, pc, todo, cur, req[r].owed)
    OBVIOUS
  <2>3. /\ x \in Requests /\ x.op = "check" /\ ~Working(x) /\ x.user = req[r].user
        /\ x.pc = pc /\ x.todo = todo /\ x.cur = cur /\ x.owed = req[r].owed
    <3> HIDE DEF todo, pc, cur
    <3> QED
      BY <2>1, <2>2, CheckMoves
  <2>4. Becomes(r, x)
    <3>1. req'[r] = x
      <4>1. CASE has
        BY <1>1, <1>3, <2>1, <2>2, <4>1 DEF Check, CheckAt, IInv, TypeOK
      <4>2. CASE ~has
        BY <1>1, <1>3, <2>1, <2>2, <4>2 DEF Check, CheckAt, IInv, TypeOK
      <4> QED
        BY <4>1, <4>2
    <3> QED
      BY <1>3, <3>1 DEF Becomes, IInv, TypeOK
  <2>5. Owes(x)
    <3> SUFFICES ASSUME NEW o \in req[r].owed, <<req[r].user, o[1]>> \notin unlocked
                 PROVE  Ahead(x, o)
      BY <2>1, <2>3 DEF Owes
    <3>1. o \in req[r].todo
      BY <1>1, <2>1 DEF Owes, Ahead
    <3>2. o = t => pc = "count" /\ cur = t
      OBVIOUS
    <3> QED
      BY <2>3, <3>1, <3>2 DEF Ahead
  <2>6. KnowsOf(x)
    <3>1. x.pc \in {"count", "insert"} => x.cur \in Listed
      BY <2>1, <2>3
    <3> QED
      BY <2>1, <2>3, <2>5, <3>1 DEF KnowsOf, Evaluates
  <2> QED
    BY <1>1, <2>3, <2>4, <2>6, StillStep
<1> QED
  BY <1>2, <1>3 DEF CheckHas

\* A check that goes on to the next badge with what it still owes.
LEMMA ProceedStep ==
  ASSUME IInv, NEW r \in Request, req[r].op = "check",
         NEW owed \in SUBSET req[r].owed,
         Becomes(r, CheckAt(req[r].user, "has", req[r].todo, None, owed)),
         Grows, TablesOK', Counted',
         \A t \in owed : t = req[r].cur => <<req[r].user, t[1]>> \in unlocked'
  PROVE  IInv'
<1>1. /\ req[r] \in Check /\ Owes(req[r]) /\ req[r].user \in User
      /\ req[r].todo \in SUBSET Listed /\ owed \in SUBSET Listed
  BY CheckParts
<1>2. PICK x, q : x = CheckAt(q.user, "has", q.todo, None, owed) /\ q = req[r]
  OBVIOUS
<1>3. /\ x \in Requests /\ x.op = "check" /\ ~Working(x) /\ x.user = q.user
      /\ x.pc = "has" /\ x.todo = q.todo /\ x.owed = owed
  BY <1>1, <1>2, CheckMoves
<1>4. Becomes(r, x)
  BY <1>2
<1>5. Owes(x)'
  <2> SUFFICES ASSUME NEW t \in owed
               PROVE  /\ Exists(t[1])' /\ Earned(q.user, t[2])'
                      /\ <<q.user, t[1]>> \in unlocked' \/ t \in q.todo
    BY <1>3 DEF Owes, Ahead
  <2>1. /\ Exists(t[1]) /\ Earned(q.user, t[2])
        /\ <<q.user, t[1]>> \in unlocked \/ t \in q.todo \/ t = q.cur
    BY <1>1, <1>2 DEF Owes, Ahead
  <2>2. t[1] \in Badge /\ t[2] \in Criterion
    BY <1>1, Listing
  <2> QED
    BY <1>1, <1>2, <2>1, <2>2 DEF Grows
<1>6. KnowsOf(x)'
  BY <1>3, <1>5 DEF KnowsOf, Evaluates
<1> QED
  BY <1>3, <1>4, <1>6, OneStep

LEMMA Proceeds ==
  ASSUME IInv, NEW r \in Request, req[r] \in Check, Proceed(r)
  PROVE  Becomes(r, CheckAt(req[r].user, "has", req[r].todo, None, req[r].owed))
<1>1. PICK x : x = CheckAt(req[r].user, "has", req[r].todo, None, req[r].owed)
  OBVIOUS
<1>2. req'[r] = x
  BY <1>1 DEF Proceed, Check, CheckAt, IInv, TypeOK
<1> QED
  BY <1>1, <1>2 DEF Becomes, Proceed, IInv, TypeOK

LEMMA CountStep ==
  ASSUME IInv, NEW r \in Request, CheckCount(r)
  PROVE  IInv'
<1>0. PICK u, c : u = req[r].user /\ c = req[r].cur[2]
  OBVIOUS
<1>1. /\ req[r].op = "check" /\ req[r].pc = "count"
      /\ UNCHANGED <<item, enrolled, points, most, unlocked, work>>
      /\ IF Earned(u, c) THEN Goto(r, "insert") ELSE Proceed(r)
  BY <1>0 DEF CheckCount, At
<1>2. /\ req[r] \in Check /\ Owes(req[r]) /\ u \in User
      /\ req[r].cur \in Listed /\ c \in Criterion
      /\ req[r].todo \in SUBSET Listed /\ req[r].owed \in SUBSET Listed
  BY <1>0, <1>1, CheckParts, Listing DEF Evaluates
<1>3. Grows /\ TablesOK' /\ Counted'
  BY <1>1, StillGrows, StillTables
<1>4. CASE ~Earned(u, c)
  <2>1. PICK owed : owed = req[r].owed
    OBVIOUS
  <2>2. Becomes(r, CheckAt(req[r].user, "has", req[r].todo, None, owed))
    BY <1>1, <1>2, <1>4, <2>1, Proceeds
  <2>3. \A t \in owed : t # req[r].cur
    BY <1>0, <1>2, <1>4, <2>1 DEF Owes
  <2> QED
    BY <1>1, <1>3, <2>1, <2>2, <2>3, ProceedStep
<1>5. CASE Earned(u, c)
  <2>1. PICK x : x = CheckAt(u, "insert", req[r].todo, req[r].cur, req[r].owed)
    OBVIOUS
  <2>2. /\ x \in Requests /\ x.op = "check" /\ ~Working(x) /\ x.user = u /\ x.pc = "insert"
        /\ x.todo = req[r].todo /\ x.cur = req[r].cur /\ x.owed = req[r].owed
    BY <1>2, <2>1, CheckMoves
  <2>3. Becomes(r, x)
    <3>1. req'[r] = x
      BY <1>0, <1>1, <1>2, <1>5, <2>1 DEF Check, CheckAt, IInv, TypeOK, Goto
    <3> QED
      BY <1>1, <1>5, <3>1 DEF Becomes, IInv, TypeOK, Goto
  <2>4. Owes(x)
    BY <1>1, <1>0, <1>2, <2>2 DEF Owes, Ahead
  <2>5. Reached(u, c)
    <3>1. /\ Target(c) > 0 /\ Progress(u, c.type) >= Target(c)
          /\ Target(c) \in Nat /\ c.type \in Type
      BY <1>2, <1>5, Criteria DEF Earned
    <3>2. /\ Progress(u, c.type) \in Nat /\ most[u][c.type] \in Nat
          /\ Progress(u, c.type) <= most[u][c.type]
      BY <1>2, <3>1, Finite DEF IInv, Counted
    <3>3. Target(c) \in 1 .. most[u][c.type]
      BY <3>1, <3>2
    <3> QED
      BY <3>3 DEF Reached
  <2>6. KnowsOf(x)
    BY <1>0, <1>2, <2>2, <2>4, <2>5 DEF KnowsOf, Evaluates
  <2> QED
    BY <1>1, <2>2, <2>3, <2>6, StillStep
<1> QED
  BY <1>4, <1>5

LEMMA SkipsStep ==
  ASSUME IInv, NEW r \in Request, CheckSkips(r)
  PROVE  IInv'
<1>1. PICK owed : owed = req[r].owed \ {req[r].cur}
  OBVIOUS
<1>2. /\ req[r].op = "check" /\ UNCHANGED <<item, enrolled, points, most, unlocked, work>>
      /\ req' = [req EXCEPT ![r].pc = "has", ![r].cur = None,
                            ![r].owed = req[r].owed \ {req[r].cur}]
  BY DEF CheckSkips
<1>3. Grows /\ TablesOK' /\ Counted'
  BY <1>2, StillGrows, StillTables
<1>4. req[r] \in Check
  BY <1>2, CheckParts
<1>5. PICK x : x = CheckAt(req[r].user, "has", req[r].todo, None, owed)
  OBVIOUS
<1>6. req'[r] = x
  BY <1>1, <1>2, <1>4, <1>5 DEF Check, CheckAt, IInv, TypeOK
<1>7. Becomes(r, CheckAt(req[r].user, "has", req[r].todo, None, owed))
  BY <1>2, <1>5, <1>6 DEF Becomes, IInv, TypeOK
<1>8. owed \in SUBSET req[r].owed /\ \A t \in owed : t # req[r].cur
  BY <1>1
<1> QED
  BY <1>2, <1>3, <1>7, <1>8, ProceedStep

LEMMA WorkParts ==
  ASSUME IInv, NEW r \in Request, Working(req[r])
  PROVE  /\ req[r] \in Work /\ req[r] \in Requests /\ Informed(req[r])
         /\ req[r].user \in User /\ req[r].project \in Project
         /\ Key(r) \in User \X Project
<1>1. req[r] \in Requests /\ KnowsOf(req[r])
  BY TypeParts DEF IInv, Knows
<1>2. req[r] \in Work
  BY <1>1, Kinds
<1> QED
  BY <1>1, <1>2 DEF KnowsOf, Work, Key

\* The access is looked up once, and the row of the work after it.
LEMMA WorkReads ==
  ASSUME IInv, NEW r \in Request, WorkAccess(r) \/ WorkFind(r)
  PROVE  IInv'
<1>1. Working(req[r]) /\ UNCHANGED <<item, enrolled, points, most, unlocked, work>>
  BY DEF WorkAccess, WorkFind, AtWork
<1>2. CASE End(r)
  BY <1>1, <1>2, EndStep
<1>3. ASSUME NEW pc \in {"find", "write"}, Goto(r, pc),
             req[r].pc # "access" \/ Access(req[r].user, req[r].project)
      PROVE  IInv'
  <2>1. req[r] \in Work /\ Informed(req[r])
    BY <1>1, WorkParts
  <2>2. PICK x : x = [req[r] EXCEPT !.pc = pc]
    OBVIOUS
  <2>3. /\ x \in Work /\ x.user = req[r].user /\ x.project = req[r].project
        /\ x.missed = req[r].missed
    BY <2>1, <2>2 DEF Work
  <2>4. x \in Requests /\ x.op # "check"
    BY <2>3, Kinds DEF Requests
  <2>5. Becomes(r, x)
    <3>1. req' = [req EXCEPT ![r] = x]
      BY <1>3, <2>2 DEF Goto
    <3> QED
      BY <3>1, Puts DEF IInv
  <2>6. KnowsOf(x)
    BY <1>3, <2>1, <2>3, <2>4 DEF KnowsOf, Informed
  <2> QED
    BY <1>1, <2>4, <2>5, <2>6, StillStep
<1> QED
  BY <1>2, <1>3 DEF WorkAccess, WorkFind, AtWork

-----------------------------------------------------------------------------
(* Steps that write a table *)

\* The record of the work in a project, whose row has to be there.
LEMMA WorkWrites ==
  ASSUME IInv, NEW r \in Request, StartInsert(r) \/ CompleteWrite(r) \/ SkipWrite(r)
  PROVE  /\ Working(req[r]) /\ req[r].pc = "write" /\ Key(r) \in User \X Project /\ End(r)
         /\ UNCHANGED <<item, enrolled, points, most, unlocked>>
         /\ \/ UNCHANGED work
            \/ /\ Exists(req[r].project)
               /\ \E status \in {"in_progress", "completed", "skipped"} :
                    /\ work' = [work EXCEPT ![Key(r)] = status]
                    /\ status = "in_progress" => work[Key(r)] = "none"
<1>1. /\ Working(req[r]) /\ req[r].pc = "write" /\ End(r)
      /\ UNCHANGED <<item, enrolled, points, most, unlocked>>
  BY DEF StartInsert, CompleteWrite, SkipWrite, WorkUpdate, At, Working
<1>2. Key(r) \in User \X Project /\ (work[Key(r)] # "none" => Exists(req[r].project))
  BY <1>1, WorkParts DEF IInv, TypeOK, Key
<1> QED
  BY <1>1, <1>2 DEF StartInsert, CompleteWrite, SkipWrite, WorkUpdate

LEMMA RecordStep ==
  ASSUME IInv, NEW r \in Request, StartInsert(r) \/ CompleteWrite(r) \/ SkipWrite(r)
  PROVE  IInv'
<1>1. /\ Working(req[r]) /\ Key(r) \in User \X Project /\ End(r)
      /\ UNCHANGED <<item, enrolled, points, most, unlocked>>
  BY WorkWrites
<1>2. CASE UNCHANGED work
  BY <1>1, <1>2, EndStep
<1>3. ASSUME NEW status \in {"in_progress", "completed", "skipped"}, Exists(req[r].project),
             work' = [work EXCEPT ![Key(r)] = status]
      PROVE  IInv'
  <2>1. /\ work' \in [User \X Project -> {"none", "in_progress", "completed", "skipped"}]
        /\ work'[Key(r)] = status
        /\ \A k \in (User \X Project) \ {Key(r)} : work'[k] = work[k]
    BY <1>1, <1>3 DEF IInv, TypeOK
  <2>2. \A k \in User \X Project : work'[k] # "none" => Exists(k[2])'
    <3>1. Key(r)[2] = req[r].project
      BY DEF Key
    <3> QED
      BY <1>1, <1>3, <2>1, <3>1 DEF IInv, TypeOK, Exists
  <2>3. TablesOK' /\ Counted'
    BY <1>1, <2>1, <2>2, TypeParts DEF IInv, TablesOK, Counted, Progress, Exists
  <2>4. Grows /\ Becomes(r, Idle)
    BY <1>1, StillGrows, Puts DEF IInv, End
  <2>5. KnowsOf(Idle)'
    BY DEF Idle, KnowsOf, Working
  <2> QED
    BY <2>3, <2>4, <2>5, IdleKnows, OneStep
<1> QED
  BY <1>2, <1>3, WorkWrites

LEMMA InsertStep ==
  ASSUME IInv, NEW r \in Request, CheckInsert(r)
  PROVE  IInv'
<1>0. PICK u, b : u = req[r].user /\ b = req[r].cur[1]
  OBVIOUS
<1>1. /\ req[r].op = "check" /\ req[r].pc = "insert" /\ Proceed(r)
      /\ UNCHANGED <<item, enrolled, points, most, work>>
      /\ unlocked' = IF Exists(b) THEN unlocked \cup {<<u, b>>} ELSE unlocked
  BY <1>0 DEF CheckInsert, At
<1>2. /\ req[r] \in Check /\ Owes(req[r]) /\ u \in User
      /\ req[r].cur \in Listed /\ b \in Badge
  BY <1>0, <1>1, CheckParts, Listing DEF Evaluates
<1>3. Grows
  BY <1>1 DEF Grows, Exists, Earned, Progress, Target, Access, Remembers, Reached
<1>4. TablesOK' /\ Counted'
  <2>1. unlocked' \subseteq User \X Badge /\ \A k \in unlocked' : Exists(k[2])
    BY <1>1, <1>2 DEF IInv, TypeOK
  <2> QED
    BY <1>1, <2>1, TypeParts DEF IInv, TablesOK, Counted, Progress, Exists
<1>5. PICK owed : owed = req[r].owed
  OBVIOUS
<1>6. Becomes(r, CheckAt(req[r].user, "has", req[r].todo, None, owed))
  BY <1>1, <1>2, <1>5, Proceeds
<1>7. \A o \in owed : o = req[r].cur => <<req[r].user, o[1]>> \in unlocked'
  BY <1>0, <1>1, <1>2, <1>5 DEF Owes
<1> QED
  BY <1>1, <1>3, <1>4, <1>5, <1>6, <1>7, ProceedStep

\* A step that takes nothing away and leaves the requests alone.
LEMMA NoRequestStep ==
  ASSUME IInv, UNCHANGED req, Grows, TablesOK', Counted'
  PROVE  IInv'
<1>1. TypeOK'
  BY TypeParts DEF IInv, TypeOK, TablesOK, Requests
<1>2. Knows'
  <2> SUFFICES ASSUME NEW r \in Request PROVE KnowsOf(req[r])'
    BY DEF Knows
  <2>1. PICK x \in Requests : x = req[r]
    BY TypeParts DEF IInv
  <2>2. KnowsOf(x)'
    BY <2>1, KnowsGrows DEF IInv, Knows
  <2> QED
    BY <2>1, <2>2
<1> QED
  BY <1>1, <1>2 DEF IInv

LEMMA CreateSteps ==
  ASSUME IInv, NEW i \in Item, NEW row \in Row, Create(i, row)
  PROVE  IInv'
<1>1. /\ item[i] = NoItem /\ item' = [item EXCEPT ![i] = row]
      /\ UNCHANGED <<enrolled, points, most, unlocked, work, req>>
  BY DEF Create, Exists
<1>2. /\ item' \in [Item -> Row \cup {NoItem}]
      /\ \A j \in Item : Exists(j) => item'[j] = item[j]
  BY <1>1 DEF IInv, TypeOK, Exists
<1>3. Grows
  <2>1. \A p \in Project : item[p].active => item'[p].active
    BY <1>2 DEF Exists, Item, NoItem
  <2> QED
    BY <1>1, <1>2, <2>1
    DEF Grows, Exists, Earned, Progress, Target, Access, Item, Remembers, Reached
<1>4. TablesOK' /\ Counted'
  <2>1. /\ \A k \in unlocked : k[2] \in Item /\ Exists(k[2])
        /\ \A k \in User \X Project : k[2] \in Item
    BY DEF IInv, TypeOK, Item
  <2>2. /\ \A k \in unlocked' : Exists(k[2])'
        /\ \A k \in User \X Project : work'[k] # "none" => Exists(k[2])'
    BY <1>1, <1>2, <2>1 DEF IInv, TypeOK, Exists
  <2> QED
    BY <1>1, <1>2, <2>2, TypeParts DEF IInv, TablesOK, Counted, Progress
<1> QED
  BY <1>1, <1>3, <1>4, NoRequestStep

\* What a user has earned without a change of enrollments and points.
LEMMA EarnedStays ==
  ASSUME NEW v, enrolled'[v] = enrolled[v], points'[v] = points[v]
  PROVE  /\ \A t : Progress(v, t)' = Progress(v, t)
         /\ \A c : Earned(v, c)' <=> Earned(v, c)
<1>1. \A t : Progress(v, t)' = Progress(v, t)
  BY DEF Progress
<1>2. \A c : Target(c)' = Target(c)
  BY DEF Target
<1> QED
  BY <1>1, <1>2 DEF Earned, Progress, Target

LEMMA EnrollGrows ==
  ASSUME IInv, NEW u \in User, NEW c \in Course, Enroll(u, c)
  PROVE  Grows /\ TablesOK' /\ Counted'
<1>1. /\ enrolled' = [enrolled EXCEPT ![u] = enrolled[u] \cup {c}]
      /\ UNCHANGED <<item, points, unlocked, work>> /\ Remember(u)
  BY DEF Enroll
<1>2. /\ enrolled' \in [User -> SUBSET Course] /\ enrolled'[u] = enrolled[u] \cup {c}
      /\ \A v \in User \ {u} : enrolled'[v] = enrolled[v]
  BY <1>1 DEF IInv, TypeOK
<1>3. \A v \in User, t \in Type : /\ Progress(v, t) \in Nat /\ Progress(v, t)' \in Nat
                                 /\ Progress(v, t) <= Progress(v, t)'
  <2> SUFFICES ASSUME NEW v \in User, NEW t \in Type
               PROVE  /\ Progress(v, t) \in Nat /\ Progress(v, t)' \in Nat
                      /\ Progress(v, t) <= Progress(v, t)'
    OBVIOUS
  <2>1. enrolled'[v] \subseteq Course /\ enrolled[v] \subseteq enrolled'[v]
    BY <1>2
  <2>2. IsFiniteSet(enrolled'[v]) /\ Cardinality(enrolled'[v]) \in Nat
    BY <2>1, UserAssumption, FS_Subset, FS_CardinalityType
  <2>3. /\ Cardinality(enrolled[v]) \in Nat /\ Progress(v, t) \in Nat
        /\ Cardinality(enrolled[v]) <= Cardinality(enrolled'[v])
    BY <2>1, <2>2, Finite, FS_Subset DEF IInv
  <2> QED
    BY <1>1, <2>2, <2>3 DEF Progress
<1>4. \A v \in User \ {u}, t \in Type : Progress(v, t)' = Progress(v, t)
  BY <1>1, <1>2 DEF Progress
<1>5. most' \in [User -> [Type -> Nat]] /\ Counted' /\ Remembers
  BY <1>1, <1>3, <1>4, HistoryGrows DEF IInv
<1>6. \A v \in User, d \in Criterion : Earned(v, d) => Earned(v, d)'
  <2> SUFFICES ASSUME NEW v \in User, NEW d \in Criterion, Earned(v, d) PROVE Earned(v, d)'
    OBVIOUS
  <2>1. d.type \in Type /\ Target(d) \in Nat
    BY Criteria
  <2>2. Target(d) > 0 /\ Progress(v, d.type)' >= Target(d)
    BY <1>3, <2>1 DEF Earned
  <2> QED
    BY <2>2 DEF Earned, Target
<1>7. Grows
  BY <1>1, <1>2, <1>5, <1>6 DEF Grows, Exists, Access
<1>8. TablesOK'
  BY <1>1, <1>2, <1>5, TypeParts DEF IInv, TablesOK, Exists
<1> QED
  BY <1>5, <1>7, <1>8

LEMMA EnrollSteps ==
  ASSUME IInv, NEW u \in User, NEW c \in Course,
         EnrollPaid(u, c) \/ \E r \in Request : EnrollFree(r, u, c)
  PROVE  IInv'
<1>1. Grows /\ TablesOK' /\ Counted'
  BY EnrollGrows DEF EnrollPaid, EnrollFree
<1>2. CASE EnrollPaid(u, c)
  BY <1>1, <1>2, NoRequestStep DEF EnrollPaid
<1>3. ASSUME NEW r \in Request, EnrollFree(r, u, c) PROVE IInv'
  <2>1. PICK x : x = CheckAt(u, "list", {}, None, {})
    OBVIOUS
  <2>2. /\ x \in Requests /\ x.op = "check" /\ ~Working(x) /\ x.pc = "list" /\ x.owed = {}
    BY <2>1, CheckMoves
  <2>3. Becomes(r, x)
    BY <1>3, <2>1, Puts DEF EnrollFree, CheckAt, IInv
  <2>4. KnowsOf(x)'
    BY <2>2 DEF KnowsOf, Owes, Evaluates, Working
  <2> QED
    BY <1>1, <2>2, <2>3, <2>4, OneStep
<1> QED
  BY <1>2, <1>3

\* A request of another after a step that may take something away.
LEMMA ManyStep ==
  ASSUME IInv, TablesOK', Counted', req' = [o \in Request |-> req'[o]],
         \A o \in Request :
           req'[o] = Idle \/ \E x \in Requests : x = req'[o] /\ KnowsOf(x)'
  PROVE  IInv'
<1>1. \A o \in Request : req'[o] \in Requests
  BY IdleKnows
<1>2. req' \in [Request -> Requests]
  BY <1>1
<1>3. TypeOK'
  BY <1>2, TypeParts DEF TypeOK, TablesOK, Requests
<1>4. Knows'
  <2> SUFFICES ASSUME NEW o \in Request PROVE KnowsOf(req[o])'
    BY DEF Knows
  <2>1. KnowsOf(Idle)'
    BY DEF KnowsOf, Idle, Working
  <2>2. PICK x \in Requests : x = req'[o] /\ KnowsOf(x)'
    BY <2>1, IdleKnows
  <2> QED
    BY <2>2
<1> QED
  BY <1>3, <1>4 DEF IInv

\* A request about a project, or a check, that is told of a loss.
LEMMA Told ==
  ASSUME NEW q \in Requests
  PROVE  /\ Working(q) =>
              /\ [q EXCEPT !.missed = TRUE] \in Work
              /\ [q EXCEPT !.missed = TRUE].missed
         /\ q.op = "check" => \A S \in SUBSET Listed :
              [q EXCEPT !.owed = S] = CheckAt(q.user, q.pc, q.todo, q.cur, S)
<1>1. ASSUME Working(q)
      PROVE  [q EXCEPT !.missed = TRUE] \in Work /\ [q EXCEPT !.missed = TRUE].missed
  <2>1. q \in Work
    BY <1>1, Kinds
  <2>2. TRUE \in BOOLEAN
    OBVIOUS
  <2>3. [q EXCEPT !.missed = TRUE] \in Work
    BY <2>1, <2>2, Zenon DEF Work
  <2>4. [q EXCEPT !.missed = TRUE].missed
    BY <2>1 DEF Work
  <2> QED
    BY <2>3, <2>4
<1>2. ASSUME q.op = "check", NEW S \in SUBSET Listed
      PROVE  [q EXCEPT !.owed = S] = CheckAt(q.user, q.pc, q.todo, q.cur, S)
  <2>1. q \in Check
    BY <1>2, Kinds
  <2> QED
    BY <2>1 DEF Check, CheckAt
<1> QED
  BY <1>1, <1>2

LEMMA MissedKnows ==
  ASSUME NEW q \in Requests, Working(q)
  PROVE  [q EXCEPT !.missed = TRUE] \in Requests /\ KnowsOf([q EXCEPT !.missed = TRUE])'
<1>1. PICK x : x = [q EXCEPT !.missed = TRUE]
  OBVIOUS
<1>2. x \in Work /\ x.missed
  BY <1>1, Told
<1>3. x \in Requests /\ x.op # "check" /\ Informed(x)'
  BY <1>2, Kinds DEF Requests, Informed
<1> QED
  BY <1>1, <1>3 DEF KnowsOf

Owing(q, S) == [q EXCEPT !.owed = S]

LEMMA OwesLess ==
  ASSUME NEW q \in Requests, q.op = "check", KnowsOf(q), NEW S \in SUBSET q.owed,
         Remembers,
         \A t \in S : /\ Exists(t[1])' /\ Earned(q.user, t[2])'
                      /\ <<q.user, t[1]>> \in unlocked => <<q.user, t[1]>> \in unlocked'
  PROVE  Owing(q, S) \in Requests /\ KnowsOf(Owing(q, S))'
<1>1. q \in Check /\ Owes(q) /\ Evaluates(q)
  BY Kinds DEF KnowsOf
<1>2. /\ q.user \in User /\ q.pc \in {"list", "has", "count", "insert"}
      /\ q.todo \in SUBSET Listed /\ q.cur \in Listed \cup {None}
      /\ S \in SUBSET Listed
  BY <1>1 DEF Check
<1>3. PICK x : x = CheckAt(q.user, q.pc, q.todo, q.cur, S)
  OBVIOUS
<1>4. /\ x \in Requests /\ x.op = "check" /\ ~Working(x) /\ x.user = q.user
      /\ x.pc = q.pc /\ x.todo = q.todo /\ x.cur = q.cur /\ x.owed = S
  BY <1>2, <1>3, CheckMoves
<1>5. x = Owing(q, S)
  BY <1>2, <1>3, Told DEF Owing
<1>6. Owes(x)'
  BY <1>1, <1>4 DEF Owes, Ahead
<1>7. Evaluates(x)'
  <2>1. q.pc = "insert" => Reached(q.user, q.cur[2])'
    BY <1>1, <1>2, Listing DEF Evaluates, Remembers
  <2> QED
    BY <1>1, <1>4, <2>1 DEF Evaluates
<1> QED
  BY <1>4, <1>5, <1>6, <1>7 DEF KnowsOf

\* What a change of the enrollments or points of u leaves of a check.
LEMMA ReckonedKnows ==
  ASSUME NEW q \in Requests, q.op = "check", KnowsOf(q), NEW u \in User, Remembers,
         UNCHANGED <<item, unlocked>>,
         \A v \in User \ {u} : enrolled'[v] = enrolled[v] /\ points'[v] = points[v],
         NEW x, x = Reckoned(u, q)
  PROVE  x \in Requests /\ KnowsOf(x)'
<1>1. q \in Check /\ q.user \in User /\ q.owed \subseteq Listed /\ Owes(q)
  BY Kinds DEF KnowsOf, Check
<1>2. PICK S : S = {t \in q.owed : q.user # u \/ Earned(u, t[2])'}
  OBVIOUS
<1>3. x = Owing(q, S)
  <2>1. CASE q.user = u
    BY <1>2, <2>1 DEF Reckoned, Owing
  <2>2. CASE q.user # u
    <3>1. S = q.owed
      BY <1>2, <2>2
    <3> QED
      BY <1>1, <2>2, <3>1 DEF Reckoned, Owing, Check
  <2> QED
    BY <2>1, <2>2
<1>4. ASSUME NEW t \in S
      PROVE  /\ Exists(t[1])' /\ Earned(q.user, t[2])'
             /\ <<q.user, t[1]>> \in unlocked => <<q.user, t[1]>> \in unlocked'
  <2>1. Exists(t[1]) /\ Earned(q.user, t[2]) /\ (q.user # u \/ Earned(u, t[2])')
    BY <1>1, <1>2 DEF Owes
  <2>2. Earned(q.user, t[2])'
    BY <1>1, <2>1, EarnedStays
  <2> QED
    BY <2>1, <2>2 DEF Exists
<1> QED
  BY <1>2, <1>3, <1>4, OwesLess

LEMMA UnenrollStep ==
  ASSUME IInv, NEW u \in User, NEW c \in Course, Unenroll(u, c)
  PROVE  IInv'
<1>1. /\ enrolled' = [enrolled EXCEPT ![u] = enrolled[u] \ {c}]
      /\ req' = [q \in Request |-> EnrollmentLost(u, c, req[q])]
      /\ UNCHANGED <<item, points, most, unlocked, work>>
  BY DEF Unenroll
<1>2. /\ enrolled' \in [User -> SUBSET Course] /\ enrolled'[u] = enrolled[u] \ {c}
      /\ \A v \in User \ {u} : enrolled'[v] = enrolled[v]
  BY <1>1 DEF IInv, TypeOK
<1>3. TablesOK' /\ Remembers
  BY <1>1, <1>2, TypeParts DEF IInv, TablesOK, Exists, Remembers, Reached, Target
<1>4. Counted'
  <2> SUFFICES ASSUME NEW v \in User, NEW t \in Type PROVE Progress(v, t)' <= most[v][t]
    BY <1>1 DEF Counted
  <2>1. /\ IsFiniteSet(enrolled[v]) /\ Cardinality(enrolled[v]) \in Nat
        /\ Progress(v, t) \in Nat /\ most[v][t] \in Nat
        /\ Progress(v, t) <= most[v][t] /\ enrolled'[v] \subseteq enrolled[v]
    BY <1>2, Finite DEF IInv, Counted
  <2>2. /\ Cardinality(enrolled'[v]) <= Cardinality(enrolled[v])
        /\ Cardinality(enrolled'[v]) \in Nat
    BY <2>1, FS_Subset, FS_CardinalityType
  <2> QED
    BY <1>1, <2>1, <2>2 DEF Progress
<1>5. ASSUME NEW o \in Request
      PROVE  \E x \in Requests : x = req'[o] /\ KnowsOf(x)'
  <2>1. PICK q \in Requests : q = req[o] /\ KnowsOf(q)
    BY TypeParts DEF IInv, Knows
  <2>2. PICK x : x = EnrollmentLost(u, c, q) /\ req'[o] = x
    BY <1>1, <2>1
  <2> SUFFICES x \in Requests /\ KnowsOf(x)'
    BY <2>2
  <2>3. CASE q.op = "check"
    <3>1. x = Reckoned(u, q)
      BY <2>2, <2>3 DEF EnrollmentLost
    <3> QED
      BY <1>1, <1>2, <1>3, <2>1, <2>3, <3>1, ReckonedKnows
  <2>4. CASE Working(q) /\ q.user = u /\ CourseOf[q.project] = c
    <3>1. q.op # "check"
      BY <2>4 DEF Working
    <3>2. x = [q EXCEPT !.missed = TRUE]
      BY <2>2, <2>4, <3>1 DEF EnrollmentLost
    <3> QED
      BY <2>2, <2>4, <3>2, MissedKnows
  <2>5. CASE q.op # "check" /\ ~(Working(q) /\ q.user = u /\ CourseOf[q.project] = c)
    <3>1. x = q
      BY <2>2, <2>5 DEF EnrollmentLost
    <3>2. Working(q) => Informed(q)'
      <4> SUFFICES ASSUME Working(q) PROVE Informed(q)'
        OBVIOUS
      <4>1. q.user \in User /\ Informed(q) /\ (q.user = u => CourseOf[q.project] # c)
        BY <2>1, <2>5, Kinds DEF Work, KnowsOf
      <4>2. Access(q.user, q.project) => Access(q.user, q.project)'
        BY <1>2, <4>1 DEF Access
      <4> QED
        BY <1>1, <4>1, <4>2 DEF Informed
    <3> QED
      BY <2>2, <2>5, <3>1, <3>2 DEF KnowsOf
  <2> QED
    BY <2>3, <2>4, <2>5
<1> QED
  BY <1>1, <1>3, <1>4, <1>5, ManyStep

LEMMA PointsStep ==
  ASSUME IInv, NEW u \in User, NEW n \in Points, PointsWritten(u, n)
  PROVE  IInv'
<1>1. /\ points' = [points EXCEPT ![u] = n]
      /\ req' = [q \in Request |-> Reckoned(u, req[q])]
      /\ UNCHANGED <<item, enrolled, unlocked, work>> /\ Remember(u)
  BY DEF PointsWritten
<1>2. /\ points' \in [User -> Points]
      /\ \A v \in User \ {u} : points'[v] = points[v]
  BY <1>1 DEF IInv, TypeOK
<1>3. /\ \A v \in User, t \in Type : Progress(v, t)' \in Nat
      /\ \A v \in User \ {u}, t \in Type : Progress(v, t)' = Progress(v, t)
  <2>1. \A v \in User : Cardinality(enrolled[v]) \in Nat /\ points'[v] \in Nat
    <3>1. "other" \in Type
      BY DEF Type
    <3> QED
      BY <1>2, <3>1, Finite, PointsAssumption DEF IInv
  <2> QED
    BY <1>1, <1>2, <2>1 DEF Progress
<1>4. most' \in [User -> [Type -> Nat]] /\ Counted' /\ Remembers
  BY <1>1, <1>3, HistoryGrows DEF IInv
<1>5. TablesOK'
  BY <1>1, <1>2, <1>4, TypeParts DEF IInv, TablesOK, Exists
<1>6. ASSUME NEW o \in Request
      PROVE  \E x \in Requests : x = req'[o] /\ KnowsOf(x)'
  <2>1. PICK q \in Requests : q = req[o] /\ KnowsOf(q)
    BY TypeParts DEF IInv, Knows
  <2>2. PICK x : x = Reckoned(u, q) /\ req'[o] = x
    BY <1>1, <2>1
  <2> SUFFICES x \in Requests /\ KnowsOf(x)'
    BY <2>2
  <2>3. CASE q.op = "check"
    BY <1>1, <1>2, <1>4, <2>1, <2>2, <2>3, ReckonedKnows
  <2>4. CASE q.op # "check"
    <3>1. x = q
      BY <2>2, <2>4 DEF Reckoned
    <3>2. Working(q) => Informed(q)'
      BY <1>1, <2>1 DEF KnowsOf, Informed, Access
    <3> QED
      BY <2>4, <3>1, <3>2 DEF KnowsOf
  <2> QED
    BY <2>3, <2>4
<1> QED
  BY <1>1, <1>4, <1>5, <1>6, ManyStep

\* What an edit or a deletion of item i leaves of a request q.
LEMMA EditKnows ==
  ASSUME IInv, NEW i \in Item, NEW q \in Requests, KnowsOf(q), NEW x, x = ItemWritten(i, q),
         \A j \in Item : Exists(j) => Exists(j)',
         \A j \in Item \ {i} : item'[j] = item[j],
         UNCHANGED <<enrolled, points, most, unlocked>>
  PROVE  x \in Requests /\ KnowsOf(x)'
<1>1. CASE Working(q) /\ q.project = i
  <2>1. x = [q EXCEPT !.missed = TRUE]
    BY <1>1 DEF ItemWritten
  <2> QED
    BY <1>1, <2>1, MissedKnows
<1>2. CASE ~(Working(q) /\ q.project = i)
  <2>1. x = q
    BY <1>2 DEF ItemWritten
  <2>2. q.op = "check" => Owes(q)' /\ Evaluates(q)'
    <3> SUFFICES ASSUME q.op = "check" PROVE Owes(q)' /\ Evaluates(q)'
      OBVIOUS
    <3>1. q.owed \subseteq Listed /\ Owes(q) /\ Evaluates(q)
      BY Kinds DEF Check, KnowsOf
    <3>2. Owes(q)'
      BY <3>1, Listing, EarnedStays DEF Owes, Ahead
    <3> QED
      BY <3>1, <3>2 DEF Evaluates, Reached, Target
  <2>3. Working(q) => Informed(q)'
    <3> SUFFICES ASSUME Working(q) PROVE Informed(q)'
      OBVIOUS
    <3>1. q.project \in Item \ {i} /\ Informed(q)
      BY <1>2, Kinds DEF Work, KnowsOf, Item
    <3> QED
      BY <3>1 DEF Informed, Access
  <2> QED
    BY <2>1, <2>2, <2>3 DEF KnowsOf
<1> QED
  BY <1>1, <1>2

LEMMA EditParts ==
  ASSUME TypeOK, NEW r \in Request
  PROVE  /\ req[r].op = "edit" => req[r].item \in Item /\ req[r].new \in Row
         /\ req[r].op = "delete" => req[r].item \in Item
BY TypeParts, Kinds DEF Edit, Delete

LEMMA EditStep ==
  ASSUME IInv, NEW r \in Request, EditWrite(r)
  PROVE  IInv'
<1>1. PICK i \in Item, row \in Row : i = req[r].item /\ row = req[r].new
  BY EditParts DEF EditWrite, At, IInv
<1>2. /\ item' = IF Exists(i) THEN [item EXCEPT ![i] = row] ELSE item
      /\ req' = [q \in Request |-> IF q = r THEN Idle ELSE ItemWritten(i, req[q])]
      /\ UNCHANGED <<enrolled, points, most, unlocked, work>>
  BY <1>1 DEF EditWrite
<1>3. /\ item' \in [Item -> Row \cup {NoItem}]
      /\ \A j \in Item \ {i} : item'[j] = item[j]
      /\ \A j \in Item : Exists(j) => Exists(j)'
  BY <1>2, Rows DEF IInv, TypeOK, Exists
<1>4. TablesOK' /\ Counted'
  <2>1. /\ \A k \in unlocked : k[2] \in Item
        /\ \A k \in User \X Project : k[2] \in Item
    BY DEF IInv, TypeOK, Item
  <2> QED
    BY <1>2, <1>3, <2>1, TypeParts DEF IInv, TablesOK, Counted, Progress
<1>5. ASSUME NEW o \in Request, o # r
      PROVE  \E x \in Requests : x = req'[o] /\ KnowsOf(x)'
  <2>1. PICK q \in Requests : q = req[o] /\ KnowsOf(q)
    BY TypeParts DEF IInv, Knows
  <2>2. PICK x : x = ItemWritten(i, q) /\ req'[o] = x
    BY <1>2, <1>5, <2>1
  <2>3. x \in Requests /\ KnowsOf(x)'
    BY <1>2, <1>3, <2>1, <2>2, EditKnows
  <2> QED
    BY <2>2, <2>3
<1> QED
  BY <1>2, <1>4, <1>5, ManyStep

LEMMA DeleteStep ==
  ASSUME IInv, NEW r \in Request, DeleteWrite(r)
  PROVE  IInv'
<1>1. PICK i \in Item : i = req[r].item
  BY EditParts DEF DeleteWrite, At, IInv
<1>2. /\ item' = [item EXCEPT ![i] = NoItem]
      /\ unlocked' = {k \in unlocked : k[2] # i}
      /\ work' = [k \in User \X Project |-> IF k[2] = i THEN "none" ELSE work[k]]
      /\ req' = [q \in Request |-> IF q = r THEN Idle ELSE ItemDeleted(i, req[q])]
      /\ UNCHANGED <<enrolled, points, most>>
  BY <1>1 DEF DeleteWrite
<1>3. /\ item' \in [Item -> Row \cup {NoItem}]
      /\ \A j \in Item \ {i} : item'[j] = item[j]
  BY <1>2 DEF IInv, TypeOK
<1>4. TablesOK' /\ Counted'
  <2>1. /\ \A k \in unlocked : k[2] \in Item
        /\ \A k \in User \X Project : k[2] \in Item
    BY DEF IInv, TypeOK, Item
  <2>2. /\ \A k \in unlocked' : Exists(k[2])'
        /\ \A k \in User \X Project : work'[k] # "none" => Exists(k[2])'
    BY <1>2, <1>3, <2>1 DEF IInv, TypeOK, Exists
  <2>3. work' \in [User \X Project -> {"none", "in_progress", "completed", "skipped"}]
    BY <1>2 DEF IInv, TypeOK
  <2> QED
    BY <1>2, <1>3, <2>2, <2>3, TypeParts DEF IInv, TablesOK, Counted, Progress
<1>5. ASSUME NEW o \in Request, o # r
      PROVE  \E x \in Requests : x = req'[o] /\ KnowsOf(x)'
  <2>1. PICK q \in Requests : q = req[o] /\ KnowsOf(q)
    BY TypeParts DEF IInv, Knows
  <2>2. PICK x : x = ItemDeleted(i, q) /\ req'[o] = x
    BY <1>2, <1>5, <2>1
  <2> SUFFICES x \in Requests /\ KnowsOf(x)'
    BY <2>2
  <2>3. CASE q.op = "check"
    <3>1. PICK S : S = {t \in q.owed : t[1] # i}
      OBVIOUS
    <3>2. x = Owing(q, S)
      BY <2>2, <2>3, <3>1 DEF ItemDeleted, Owing
    <3>3. q.owed \subseteq Listed /\ Owes(q)
      BY <2>1, <2>3, Kinds DEF Check, KnowsOf
    <3>4. /\ \A t \in S : /\ Exists(t[1])' /\ Earned(q.user, t[2])'
                          /\ <<q.user, t[1]>> \in unlocked => <<q.user, t[1]>> \in unlocked'
          /\ Remembers
      <4>1. Remembers
        BY <1>2 DEF Remembers, Reached, Target
      <4>2. ASSUME NEW t \in S
            PROVE  /\ Exists(t[1])' /\ Earned(q.user, t[2])'
                   /\ <<q.user, t[1]>> \in unlocked => <<q.user, t[1]>> \in unlocked'
        <5>1. t[1] \in Item \ {i} /\ Exists(t[1]) /\ Earned(q.user, t[2])
          BY <3>1, <3>3, Listing DEF Owes
        <5> QED
          BY <1>2, <1>3, <5>1, EarnedStays DEF Exists
      <4> QED
        BY <4>1, <4>2
    <3>5. S \in SUBSET q.owed
      BY <3>1
    <3> QED
      BY <1>2, <2>1, <2>3, <3>2, <3>4, <3>5, OwesLess
  <2>4. CASE q.op # "check" /\ Working(q) /\ q.project = i
    <3>1. x = [q EXCEPT !.missed = TRUE]
      BY <2>2, <2>4 DEF ItemDeleted, ItemWritten
    <3> QED
      BY <2>2, <2>4, <3>1, MissedKnows
  <2>5. CASE q.op # "check" /\ ~(Working(q) /\ q.project = i)
    <3>1. x = q
      BY <2>2, <2>5 DEF ItemDeleted, ItemWritten
    <3>2. Working(q) => Informed(q)'
      <4> SUFFICES ASSUME Working(q) PROVE Informed(q)'
        OBVIOUS
      <4>1. q.project \in Item \ {i} /\ Informed(q)
        BY <2>1, <2>5, Kinds DEF Work, KnowsOf, Item
      <4> QED
        BY <1>2, <1>3, <4>1 DEF Informed, Access
    <3> QED
      BY <2>1, <2>2, <2>5, <3>1, <3>2 DEF KnowsOf
  <2> QED
    BY <2>3, <2>4, <2>5
<1> QED
  BY <1>2, <1>4, <1>5, ManyStep

-----------------------------------------------------------------------------
(* The theorems *)

LEMMA NextStep == IInv /\ [Next]_vars => IInv'
<1> SUFFICES ASSUME IInv, [Next]_vars PROVE IInv'
  OBVIOUS
<1>1. CASE UNCHANGED vars
  <2>1. UNCHANGED <<item, enrolled, points, most, unlocked, work, req>>
    BY <1>1 DEF vars
  <2>2. Grows
    BY <2>1, StillGrows DEF IInv
  <2>3. TablesOK' /\ Counted'
    BY <2>1, TypeParts DEF IInv, TablesOK, Counted, Progress, Exists
  <2> QED
    BY <2>1, <2>2, <2>3, NoRequestStep
<1>2. ASSUME NEW r \in Request, Arrive(r) PROVE IInv'
  <2>1. Badge \subseteq Item /\ Project \subseteq Item
    BY DEF Item
  <2>2. CASE \E active \in BOOLEAN \cup {None} :
               \/ \E b \in Badge, type \in Type \cup {None}, value \in Value \cup {None} :
                    BadgeEdit(r, b, active, type, value)
               \/ \E p \in Project : ProjectEdit(r, p, active)
    BY <2>1, <2>2, AdminBegins DEF BadgeEdit, ProjectEdit
  <2>3. CASE \E i \in Item : DeleteRead(r, i)
    BY <2>3, AdminBegins
  <2>4. CASE \E u \in User, c \in Course : EnrollFree(r, u, c)
    BY <2>4, EnrollSteps
  <2>5. CASE \E op \in {"start", "complete", "skip"}, u \in User, p \in Project :
               WorkRead(r, op, u, p)
    BY <2>5, WorkBegins
  <2> QED
    BY <1>2, <2>2, <2>3, <2>4, <2>5 DEF Arrive
<1>3. ASSUME NEW r \in Request, Step(r) PROVE IInv'
  BY <1>3, ListStep, HasStep, CountStep, InsertStep, SkipsStep, WorkReads, RecordStep,
     EditStep, DeleteStep DEF Step, CheckStep, WorkStep
<1>4. ASSUME NEW r \in Request, Fail(r) PROVE IInv'
  BY <1>4, EndStep DEF Fail
<1>5. ASSUME NEW active \in BOOLEAN,
             \/ \E b \in Badge, type \in Type, value \in Value \cup {None} :
                  CreateBadge(b, active, type, value)
             \/ \E p \in Project : CreateProject(p, active)
      PROVE  IInv'
  <2>1. ASSUME NEW i \in Item, NEW c \in Criterion,
               Create(i, [active |-> active, criterion |-> c])
        PROVE  IInv'
    <3>1. [active |-> active, criterion |-> c] \in Row
      BY Zenon DEF Row
    <3> QED
      BY <2>1, <3>1, CreateSteps
  <2>2. ASSUME NEW b \in Badge, NEW type \in Type, NEW value \in Value \cup {None},
               CreateBadge(b, active, type, value)
        PROVE  IInv'
    <3>1. PICK n \in Value : n = IF value = None THEN 1 ELSE value
      BY ValueAssumption
    <3>2. PICK c \in Criterion : c = [type |-> type, value |-> n]
      BY DEF Criterion
    <3> QED
      BY <2>1, <2>2, <3>1, <3>2 DEF CreateBadge, Item
  <2>3. ASSUME NEW p \in Project, CreateProject(p, active) PROVE IInv'
    BY <2>1, <2>3, Criteria DEF CreateProject, Item
  <2> QED
    BY <1>5, <2>2, <2>3
<1>6. ASSUME NEW u \in User, NEW c \in Course, EnrollPaid(u, c) \/ Unenroll(u, c)
      PROVE  IInv'
  BY <1>6, EnrollSteps, UnenrollStep
<1>7. ASSUME NEW u \in User, NEW n \in Points, PointsWritten(u, n) PROVE IInv'
  BY <1>7, PointsStep
<1> QED
  BY <1>1, <1>2, <1>3, <1>4, <1>5, <1>6, <1>7 DEF Next

LEMMA Invariance == Spec => []IInv
BY InitInv, NextStep, PTL DEF Spec

\* Rows and requests keep their types and foreign keys: a check or a start that was
\* under way when its badge or project was deleted leaves nothing behind.
THEOREM TypeCorrect == Spec => []TypeOK
<1>1. IInv => TypeOK
  BY DEF IInv
<1> QED
  BY Invariance, <1>1, PTL

\* However checks, edits, deletions and enrollments interleave, a check that has gone
\* through its list has unlocked every badge that it still owes.
THEOREM EarnedUnlocks == Spec => []EarnedIsUnlocked
<1>1. IInv => EarnedIsUnlocked
  <2> SUFFICES ASSUME IInv, NEW r \in Request, At(r, "check", "has"), req[r].todo = {},
                      NEW t \in req[r].owed
               PROVE  <<req[r].user, t[1]>> \in unlocked
    BY DEF EarnedIsUnlocked
  <2>1. Owes(req[r])
    BY CheckParts DEF At
  <2> QED
    BY <2>1 DEF Owes, Ahead, At
<1> QED
  BY Invariance, <1>1, PTL

\* The steps that touch unlocked badges and work, of all steps.
LEMMA Touches ==
  ASSUME IInv, Next
  PROVE  /\ \/ UNCHANGED unlocked
            \/ \E r \in Request : CheckInsert(r) \/ DeleteWrite(r)
         /\ \/ UNCHANGED work
            \/ \E r \in Request : \/ StartInsert(r) \/ CompleteWrite(r) \/ SkipWrite(r)
                                  \/ DeleteWrite(r)
<1>1. ASSUME NEW r \in Request, Arrive(r) \/ Fail(r) PROVE UNCHANGED <<unlocked, work>>
  BY <1>1 DEF Arrive, Fail, BadgeEdit, ProjectEdit, EditRead, DeleteRead, EnrollFree, Enroll,
     WorkRead, Begin
<1>2. ASSUME NEW r \in Request, Step(r)
      PROVE  /\ CheckInsert(r) \/ DeleteWrite(r) \/ UNCHANGED unlocked
             /\ \/ StartInsert(r) \/ CompleteWrite(r) \/ SkipWrite(r) \/ DeleteWrite(r)
                \/ UNCHANGED work
  BY <1>2 DEF Step, CheckStep, WorkStep, CheckList, CheckHas, CheckCount, CheckInsert,
     CheckSkips, WorkAccess, WorkFind, StartInsert, CompleteWrite, SkipWrite, WorkUpdate,
     EditWrite
<1>3. ASSUME NEW u \in User, NEW c \in Course, EnrollPaid(u, c) \/ Unenroll(u, c)
      PROVE  UNCHANGED <<unlocked, work>>
  BY <1>3 DEF EnrollPaid, Enroll, Unenroll
<1>4. ASSUME NEW active \in BOOLEAN,
             \/ \E b \in Badge, type \in Type, value \in Value \cup {None} :
                  CreateBadge(b, active, type, value)
             \/ \E p \in Project : CreateProject(p, active)
      PROVE  UNCHANGED <<unlocked, work>>
  BY <1>4 DEF CreateBadge, CreateProject, Create
<1>5. ASSUME NEW u \in User, NEW n \in Points, PointsWritten(u, n)
      PROVE  UNCHANGED <<unlocked, work>>
  BY <1>5 DEF PointsWritten
<1> QED
  BY <1>1, <1>2, <1>3, <1>4, <1>5 DEF Next

\* A badge goes only to a user who has at some time had the enrollments or the points
\* that the badge asked for when the check listed it; a badge whose criterion has
\* another type, or whose target is not positive, goes to nobody.
THEOREM OnlyEarnedAwards == Spec => AwardsAreEarned
<1> DEFINE Awards == \A k \in unlocked' \ unlocked :
                       \E r \in Request : Deserved(r, k[1], k[2])
<1>1. IInv /\ [Next]_vars => [Awards]_vars
  <2> SUFFICES ASSUME IInv, Next, NEW k \in unlocked' \ unlocked
               PROVE  \E r \in Request : Deserved(r, k[1], k[2])
    OBVIOUS
  <2>1. PICK r \in Request : CheckInsert(r)
    BY Touches DEF DeleteWrite
  <2>2. At(r, "check", "insert") /\ k = <<req[r].user, req[r].cur[1]>>
    BY <2>1 DEF CheckInsert
  <2>3. Reached(req[r].user, req[r].cur[2])
    BY <2>2, CheckParts DEF At, Evaluates
  <2> QED
    BY <2>2, <2>3 DEF Deserved, Reached
<1> QED
  BY Invariance, <1>1, PTL DEF Spec, AwardsAreEarned

\* Work is recorded only with access to an open project, or for a request that was
\* overtaken by the edit, the deletion or the refund that took them away.
THEOREM WorkHasAccess == Spec => WorkNeedsAccess
<1> DEFINE Needs == \A u \in User, p \in Project :
                      work'[<<u, p>>] \notin {work[<<u, p>>], "none"} =>
                        \/ item[p].active /\ Access(u, p)
                        \/ \E r \in Request : WorkOf(r, u, p) /\ req[r].missed
<1>1. IInv /\ [Next]_vars => [Needs]_vars
  <2> SUFFICES ASSUME IInv, Next, NEW u \in User, NEW p \in Project,
                      work'[<<u, p>>] \notin {work[<<u, p>>], "none"}
               PROVE  \/ item[p].active /\ Access(u, p)
                      \/ \E r \in Request : WorkOf(r, u, p) /\ req[r].missed
    OBVIOUS
  <2>1. PICK r \in Request : StartInsert(r) \/ CompleteWrite(r) \/ SkipWrite(r)
    BY Touches DEF DeleteWrite
  <2>2. Working(req[r]) /\ req[r].pc = "write" /\ Key(r) = <<u, p>>
    <3>1. work \in [User \X Project -> {"none", "in_progress", "completed", "skipped"}]
      BY DEF IInv, TypeOK
    <3> QED
      BY <2>1, <3>1, WorkWrites
  <2>3. WorkOf(r, u, p) /\ Informed(req[r])
    BY <2>2, WorkParts DEF WorkOf, AtWork, Key
  <2> QED
    BY <2>2, <2>3 DEF Informed, Key
<1> QED
  BY Invariance, <1>1, PTL DEF Spec, WorkNeedsAccess

\* A start never throws work back, and only its project takes a record away.
THEOREM WorkStays == Spec => WorkIsKept
<1> DEFINE Stays == \A u \in User, p \in Project : LET k == <<u, p>> IN
                     /\ work'[k] = "in_progress" => work[k] \in {"none", "in_progress"}
                     /\ work'[k] = "none" => work[k] = "none" \/ item'[p] = NoItem
<1>1. IInv /\ [Next]_vars => [Stays]_vars
  <2> SUFFICES ASSUME IInv, Next, NEW u \in User, NEW p \in Project, NEW k, k = <<u, p>>
               PROVE  /\ work'[k] = "in_progress" => work[k] \in {"none", "in_progress"}
                      /\ work'[k] = "none" => work[k] = "none" \/ item'[p] = NoItem
    OBVIOUS
  <2>1. /\ work \in [User \X Project -> {"none", "in_progress", "completed", "skipped"}]
        /\ k \in User \X Project /\ item \in [Item -> Row \cup {NoItem}] /\ p \in Item
    BY DEF IInv, TypeOK, Item
  <2>2. CASE UNCHANGED work
    BY <2>2
  <2>3. ASSUME NEW r \in Request, StartInsert(r) \/ CompleteWrite(r) \/ SkipWrite(r)
        PROVE  /\ work'[k] = "in_progress" => work[k] \in {"none", "in_progress"}
               /\ work'[k] = "none" => work[k] = "none"
    BY <2>1, <2>3, WorkWrites
  <2>4. ASSUME NEW r \in Request, DeleteWrite(r)
        PROVE  /\ work'[k] = "in_progress" => work[k] \in {"none", "in_progress"}
               /\ work'[k] = "none" => work[k] = "none" \/ item'[p] = NoItem
    BY <2>1, <2>4 DEF DeleteWrite
  <2> QED
    BY <2>2, <2>3, <2>4, Touches
<1> QED
  BY Invariance, <1>1, PTL DEF Spec, WorkIsKept

=============================================================================
