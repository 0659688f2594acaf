-------------------------- MODULE IdentitiesProofs --------------------------
(***************************************************************************)
(* Theorems about Identities for every set of users, accounts, state       *)
(* values and requests.                                                    *)
(*                                                                         *)
(* A primary account is bound only by the request that has inserted the    *)
(* row of its user, there is one such request for a user (FirstBinds), and *)
(* a primary account is never unlinked, because the guard of UnlinkIdentity*)
(* would have to count a second one (Knows, PrimariesHold).  That, and the *)
(* password, is the way in that a user keeps (Entrance).                   *)
(***************************************************************************)
EXTENDS Identities, FiniteSetTheorems, TLAPS

\* What a request knows of its account between two statements.
KnowsOf(r) ==
  /\ At(r, "insert") => Who(r) \in Email
  /\ At(r, "attach") =>
       /\ req[r].user \in Email
       /\ Who(r) \in Account => req[r].grant = [flow |-> "link", user |-> req[r].user]
  /\ At(r, "count") => Bound(Who(r)) /\ acct[Who(r)].user = req[r].user
  /\ At(r, "unlink") => Bound(Who(r)) /\ ~acct[Who(r)].primary
Knows == \A r \in Request : KnowsOf(r)

IsPrimary(a) == Bound(a) /\ acct[a].primary

\* A request that is to bind the first account of its user is the only one, and
\* the user is there and has no primary account yet.
FirstBinds == \A r \in Request : At(r, "bind") =>
  /\ user[MailOf(Who(r))] # "none"
  /\ \A a \in Identity : IsPrimary(a) => acct[a].user # MailOf(Who(r))
  /\ \A q \in Request \ {r} : At(q, "bind") => MailOf(Who(q)) # MailOf(Who(r))

\* A primary account stays linked and is its user's only one.
PrimariesHold == \A a \in Identity : IsPrimary(a) =>
  /\ acct[a].live
  /\ user[acct[a].user] # "none"
  /\ \A b \in Identity : IsPrimary(b) /\ acct[b].user = acct[a].user => b = a

Entrance == \A e \in Email : user[e] # "none" =>
  \/ e \in password \cup cut
  \/ \E r \in Request : At(r, "bind") /\ MailOf(Who(r)) = e
  \/ \E a \in Identity : IsPrimary(a) /\ acct[a].user = e /\ MailOf(a) = e

\* Only an account that is bound was attached.
ViaBound == \A a \in Identity : via[a] # NoState => Bound(a)

IInv == /\ TypeOK /\ Knows /\ FirstBinds /\ PrimariesHold /\ Entrance
        /\ ViaBound /\ LinksAreConsented /\ StateSpentOnce

-----------------------------------------------------------------------------
(* Kinds of values *)

LEMMA Kinds ==
  /\ NoAcct \notin AcctRow
  /\ NoState \notin StateRow /\ NoState # Password /\ Password \notin StateRow
  /\ Idle \notin Busy
  /\ \A a \in Identity : MailOf(a) \in Email
<1>1. NoAcct \notin AcctRow
  BY NamesAssumption DEF NoAcct, AcctRow
<1>2. NoState \notin StateRow /\ NoState # Password /\ Password \notin StateRow
  BY DEF NoState, StateRow, Password
<1>3. Idle \notin Busy
  BY DEF Idle, Busy, Pc
<1>4. \A a \in Identity : MailOf(a) \in Email
  BY NamesAssumption DEF MailOf, Identity
<1> QED
  BY <1>1, <1>2, <1>3, <1>4

\* The parts of a request in flight.
LEMMA Parts ==
  ASSUME TypeOK, NEW r \in Request, req[r] # Idle
  PROVE  /\ req[r] \in Busy
         /\ Who(r) \in Identity /\ MailOf(Who(r)) \in Email
         /\ req[r].pc \in Pc /\ req[r].user \in Email \cup {None}
         /\ req[r].state \in State \cup {None} /\ req[r].grant \in Grant
BY Kinds DEF TypeOK, Busy, Who

\* A step of r leaves the other requests alone.
OthersStay(r) ==
  /\ req' \in [Request -> Busy \cup {Idle}]
  /\ \A q \in Request \ {r} : req'[q] = req[q]

LEMMA Begins ==
  ASSUME TypeOK, NEW r \in Request, NEW q \in Busy, Begin(r, q)
  PROVE  OthersStay(r) /\ req[r] = Idle /\ req'[r] = q /\ req'[r] # Idle
BY Kinds DEF TypeOK, Begin, OthersStay

LEMMA Goes ==
  ASSUME TypeOK, NEW r \in Request, req[r] # Idle, NEW pc \in Pc, Goto(r, pc)
  PROVE  /\ OthersStay(r)
         /\ req'[r] = [req[r] EXCEPT !.pc = pc] /\ req'[r] # Idle
         /\ req'[r].pc = pc /\ req'[r].who = req[r].who
         /\ req'[r].user = req[r].user /\ req'[r].state = req[r].state
         /\ req'[r].grant = req[r].grant
<1>1. req[r] \in Busy
  BY Parts
<1>2. [req[r] EXCEPT !.pc = pc] \in Busy
  BY <1>1 DEF Busy
<1>3. req' = [req EXCEPT ![r] = [req[r] EXCEPT !.pc = pc]]
  BY DEF Goto
<1>4. req'[r] = [req[r] EXCEPT !.pc = pc] /\ OthersStay(r)
  BY <1>2, <1>3 DEF TypeOK, OthersStay
<1> QED
  BY <1>1, <1>2, <1>4, Kinds DEF Busy

LEMMA Ends ==
  ASSUME TypeOK, NEW r \in Request, End(r)
  PROVE  OthersStay(r) /\ req'[r] = Idle
BY DEF TypeOK, End, OthersStay

\* How the account checks read when r's step leaves the others alone.
LEMMA OthersAt ==
  ASSUME NEW r \in Request, OthersStay(r), NEW q \in Request \ {r}
  PROVE  /\ \A pc : At(q, pc)' <=> At(q, pc)
         /\ Who(q)' = Who(q) /\ req'[q].user = req[q].user
         /\ req'[q].grant = req[q].grant
         /\ \A s : Holds(q, s)' <=> Holds(q, s)
BY DEF OthersStay, At, Who, Holds

\* A set whose members are all the same has at most one.
LEMMA AtMostOne ==
  ASSUME NEW S, \A a, b \in S : a = b
  PROVE  Cardinality(S) \in {0, 1}
<1>1. CASE S = {}
  BY <1>1, FS_EmptySet
<1>2. CASE S # {}
  <2>1. PICK a \in S : S = {a}
    BY <1>2
  <2> QED
    BY <2>1, FS_Singleton
<1> QED
  BY <1>1, <1>2

-----------------------------------------------------------------------------
(* The initial state *)

LEMMA InitInv == Init => IInv
<1> SUFFICES ASSUME Init PROVE IInv
  OBVIOUS
<1>1. /\ \A r \in Request : req[r] = Idle
      /\ \A a \in Identity : acct[a] = NoAcct /\ via[a] = NoState
      /\ \A e \in Email : user[e] = "none"
  BY DEF Init
<1>2. TypeOK
  BY DEF Init, TypeOK, Grant
<1>3. Knows /\ FirstBinds /\ PrimariesHold /\ Entrance /\ ViaBound /\ StateSpentOnce
  BY <1>1 DEF Knows, KnowsOf, FirstBinds, PrimariesHold, Entrance, ViaBound,
              StateSpentOnce, At, Holds, IsPrimary, Bound
<1>4. LinksAreConsented
  BY <1>1 DEF LinksAreConsented, Identity
<1> QED
  BY <1>2, <1>3, <1>4 DEF IInv

-----------------------------------------------------------------------------
(* Steps that change no table *)

\* Who may sign in is not touched when r neither begins nor ends to bind.
LEMMA TablesSame ==
  ASSUME IInv, NEW r \in Request, OthersStay(r), UNCHANGED <<tables, history>>,
         ~At(r, "bind"), ~At(r, "bind")', KnowsOf(r)',
         state' \in [State -> StateRow \cup {NoState}], StateSpentOnce'
  PROVE  IInv'
<1>1. /\ UNCHANGED <<user, password, acct, via, cut>>
      /\ \A q \in Request : At(q, "bind")' <=> At(q, "bind")
      /\ \A q \in Request : At(q, "bind") => Who(q)' = Who(q)
  BY OthersAt DEF tables, history
<1>2. TypeOK'
  BY <1>1 DEF IInv, TypeOK, OthersStay
<1>3. Knows'
  BY <1>1, OthersAt DEF IInv, Knows, KnowsOf, Bound
<1>4. FirstBinds'
  BY <1>1 DEF IInv, FirstBinds, IsPrimary, Bound, MailOf
<1>5. PrimariesHold' /\ ViaBound' /\ LinksAreConsented'
  BY <1>1 DEF IInv, PrimariesHold, ViaBound, LinksAreConsented, IsPrimary, Bound
<1>6. Entrance'
  BY <1>1 DEF IInv, Entrance, IsPrimary, Bound, MailOf
<1> QED
  BY <1>2, <1>3, <1>4, <1>5, <1>6 DEF IInv

\* Nothing happens to the states: they stay where they are.
LEMMA StatesStay ==
  ASSUME IInv, NEW r \in Request, OthersStay(r), UNCHANGED state,
         \A s \in State : Holds(r, s)' => Holds(r, s)
  PROVE  StateSpentOnce' /\ state' \in [State -> StateRow \cup {NoState}]
<1>1. \A q \in Request, s \in State : Holds(q, s)' => Holds(q, s)
  BY OthersAt
<1> QED
  BY <1>1 DEF IInv, TypeOK, StateSpentOnce

\* A state that a callback takes was held by nobody.
LEMMA StateTaken ==
  ASSUME IInv, NEW r \in Request, OthersStay(r), NEW s \in State, NEW flow, NEW u,
         Consume(s, flow, u), \A t \in State : Holds(r, t)' => t = s
  PROVE  StateSpentOnce' /\ state' \in [State -> StateRow \cup {NoState}]
<1>1. state[s] # NoState /\ state' = [state EXCEPT ![s] = NoState]
  BY DEF Consume
<1>2. state' \in [State -> StateRow \cup {NoState}] /\ state'[s] = NoState
      /\ \A t \in State \ {s} : state'[t] = state[t]
  BY <1>1 DEF IInv, TypeOK
<1>3. \A q \in Request : ~Holds(q, s)
  BY <1>1 DEF IInv, StateSpentOnce
<1>4. \A q \in Request \ {r}, t \in State : Holds(q, t)' => Holds(q, t) /\ t # s
  BY <1>3, OthersAt
<1> QED
  BY <1>2, <1>4 DEF IInv, StateSpentOnce

LEMMA StateSteps ==
  ASSUME IInv, States
  PROVE  IInv'
<1>1. PICK s \in State : \/ \E flow \in {"login", "link"}, u \in Email \cup {None} :
                              Authorize(s, flow, u)
                         \/ Expire(s)
  BY DEF States, StartLogin, StartLink
<1>2. UNCHANGED <<tables, req, history>>
  BY <1>1 DEF Authorize, Expire
<1>3. state' \in [State -> StateRow \cup {NoState}]
  BY <1>1 DEF Authorize, Expire, IInv, TypeOK, StateRow
<1>4. StateSpentOnce'
  <2>1. \A q \in Request, t \in State : Holds(q, t)' <=> Holds(q, t)
    BY <1>2 DEF Holds
  <2>2. \A t \in State : (\E q \in Request : Holds(q, t)) /\ state[t] = NoState
          => state'[t] = NoState
    BY <1>1 DEF Authorize, Expire, IInv, TypeOK
  <2> QED
    BY <2>1, <2>2 DEF IInv, StateSpentOnce
<1> QED
  BY <1>2, <1>3, <1>4 DEF IInv, TypeOK, Knows, KnowsOf, FirstBinds, PrimariesHold, Entrance,
       ViaBound, LinksAreConsented, IsPrimary, Bound, MailOf, At, Who, tables, history

\* A request that begins without a state value, knowing what it has to.
LEMMA ServingStep ==
  ASSUME IInv, NEW r \in Request, NEW q \in Busy, Begin(r, q), q.state = None,
         UNCHANGED <<tables, state, history>>,
         q.pc # "bind",
         q.pc = "insert" => q.who \in Email,
         q.pc = "attach" => q.user \in Email /\ q.who \notin Account,
         q.pc = "count" => Bound(q.who) /\ acct[q.who].user = q.user,
         q.pc = "unlink" => Bound(q.who) /\ ~acct[q.who].primary
  PROVE  IInv'
<1>1. OthersStay(r) /\ req[r] = Idle /\ req'[r] = q /\ req'[r] # Idle
  BY Begins DEF IInv
<1>2. StateSpentOnce' /\ state' \in [State -> StateRow \cup {NoState}]
  BY <1>1, StatesStay, NamesAssumption DEF Holds
<1>3. KnowsOf(r)' /\ ~At(r, "bind")' /\ ~At(r, "bind")
  BY <1>1 DEF KnowsOf, At, Who, Bound, tables
<1> QED
  BY <1>1, <1>2, <1>3, TablesSame

\* A callback that has taken its state.
LEMMA CallbackStep ==
  ASSUME IInv, NEW r \in Request, NEW q \in Busy, Begin(r, q),
         NEW s \in State, NEW flow, NEW w, Consume(s, flow, w), q.state = s,
         UNCHANGED <<tables, history>>,
         q.pc \in {"lookup", "attach"},
         q.pc = "attach" =>
           q.user \in Email /\ q.grant = [flow |-> "link", user |-> q.user]
  PROVE  IInv'
<1>1. OthersStay(r) /\ req[r] = Idle /\ req'[r] = q /\ req'[r] # Idle
  BY Begins DEF IInv
<1>2. StateSpentOnce' /\ state' \in [State -> StateRow \cup {NoState}]
  BY <1>1, StateTaken DEF Holds
<1>3. KnowsOf(r)' /\ ~At(r, "bind")' /\ ~At(r, "bind")
  BY <1>1 DEF KnowsOf, At, Who
<1> QED
  BY <1>1, <1>2, <1>3, TablesSame

LEMMA ServingBusy ==
  ASSUME NEW pc \in Pc, NEW a \in Identity, NEW u \in Email \cup {None}
  PROVE  LET q == Serving(pc, a, u) IN
         q \in Busy /\ q.pc = pc /\ q.who = a /\ q.user = u /\ q.state = None
BY DEF Serving, Busy, Grant

LEMMA ArriveSteps ==
  ASSUME IInv, NEW r \in Request, Arrive(r)
  PROVE  IInv'
<1> USE DEF Pc, Identity
<1>1. ASSUME NEW e \in Email, RegisterCheck(r, e) PROVE IInv'
  <2>1. Begin(r, Serving("insert", e, e)) /\ UNCHANGED <<tables, state, history>>
    BY <1>1 DEF RegisterCheck
  <2> QED
    BY <2>1, ServingBusy, ServingStep
<1>2. ASSUME NEW e \in Email, Login(r, e) PROVE IInv'
  <2>1. Begin(r, Serving("lookup", e, e)) /\ UNCHANGED <<tables, state, history>>
    BY <1>2 DEF Login
  <2> QED
    BY <2>1, ServingBusy, ServingStep
<1>3. ASSUME NEW a \in Account, NEW s \in State, NEW v \in BOOLEAN, Callback(r, a, s, v)
      PROVE  IInv'
  <2> DEFINE q == [Serving("lookup", a, None) EXCEPT !.verified = v, !.state = s]
  <2>1. Begin(r, q) /\ Consume(s, "login", None) /\ UNCHANGED <<tables, history>>
    BY <1>3 DEF Callback
  <2>2. q \in Busy /\ q.pc = "lookup" /\ q.state = s
    BY DEF Serving, Busy, Grant
  <2> QED
    BY <2>1, <2>2, CallbackStep
<1>4. ASSUME NEW u \in Email, NEW a \in Account, NEW s \in State, LinkCallback(r, u, a, s)
      PROVE  IInv'
  <2> DEFINE q == [Serving("attach", a, u) EXCEPT !.state = s, !.grant = state[s]]
  <2>1. Begin(r, q) /\ Consume(s, "link", u) /\ UNCHANGED <<tables, history>>
    BY <1>4 DEF LinkCallback
  <2>2. state[s] \in StateRow /\ state[s].flow = "link" /\ state[s].user = u
    BY <2>1 DEF Consume, IInv, TypeOK
  <2>3. state[s] = [flow |-> "link", user |-> u] /\ state[s] \in Grant
    BY <2>2 DEF StateRow, Grant
  <2>4. /\ q \in Busy /\ q.pc = "attach" /\ q.user = u /\ q.state = s
        /\ q.grant = state[s]
    BY <2>3 DEF Serving, Busy
  <2> QED
    BY <2>1, <2>3, <2>4, CallbackStep
<1>5. ASSUME NEW u \in Email, NEW e \in Email, LinkPassword(r, u, e) PROVE IInv'
  <2> DEFINE q == [Serving("attach", e, u) EXCEPT !.grant = Password]
  <2>1. Begin(r, q) /\ UNCHANGED <<tables, state, history>>
    BY <1>5 DEF LinkPassword
  <2>2. /\ q \in Busy /\ q.pc = "attach" /\ q.who = e /\ q.user = u /\ q.state = None
    BY DEF Serving, Busy, Grant
  <2> QED
    BY <2>1, <2>2, ServingStep, NamesAssumption
<1>6. ASSUME NEW u \in Email, NEW a \in Identity, UnlinkRead(r, u, a) PROVE IInv'
  <2>1. Bound(a) /\ acct[a].user = u /\ UNCHANGED <<tables, state, history>>
    BY <1>6 DEF UnlinkRead, Found
  <2>2. CASE acct[a].primary /\ Begin(r, Serving("count", a, u))
    BY <2>1, <2>2, ServingBusy, ServingStep
  <2>3. CASE ~acct[a].primary /\ Begin(r, Serving("unlink", a, u))
    BY <2>1, <2>3, ServingBusy, ServingStep
  <2> QED
    BY <1>6, <2>2, <2>3 DEF UnlinkRead
<1> QED
  BY <1>1, <1>2, <1>3, <1>4, <1>5, <1>6 DEF Arrive

\* A request that goes on, or takes no more interest in its state value.
LEMMA GoStep ==
  ASSUME IInv, NEW r \in Request, req[r] # Idle, ~At(r, "bind"),
         NEW pc \in Pc \ {"bind", "insert", "attach", "count"}, Goto(r, pc),
         pc = "unlink" => Bound(Who(r)) /\ ~acct[Who(r)].primary,
         UNCHANGED <<tables, state, history>>
  PROVE  IInv'
<1>1. /\ OthersStay(r) /\ req'[r] # Idle /\ req'[r].pc = pc
      /\ req'[r].who = req[r].who /\ req'[r].state = req[r].state
  BY Goes DEF IInv
<1>2. StateSpentOnce' /\ state' \in [State -> StateRow \cup {NoState}]
  BY <1>1, StatesStay DEF Holds
<1>3. KnowsOf(r)' /\ ~At(r, "bind")'
  BY <1>1 DEF KnowsOf, At, Who, Bound, tables
<1> QED
  BY <1>1, <1>2, <1>3, TablesSame

\* A request ends; if it was to bind a first account, its user is cut off.
LEMMA EndStep ==
  ASSUME IInv, NEW r \in Request, req[r] # Idle, End(r),
         UNCHANGED <<tables, state, via>>,
         \/ ~At(r, "bind") /\ cut' = cut
         \/ cut' = cut \cup {MailOf(Who(r))}
  PROVE  IInv'
<1>1. OthersStay(r) /\ req'[r] = Idle /\ UNCHANGED <<user, password, acct>>
  BY Ends DEF IInv, tables
<1>2. \A pc : ~At(r, pc)'
  BY <1>1 DEF At
<1>3. StateSpentOnce' /\ state' \in [State -> StateRow \cup {NoState}]
  BY <1>1, StatesStay DEF Holds
<1>4. cut' \subseteq Email /\ cut \subseteq cut'
  BY Parts DEF IInv, TypeOK
<1>5. TypeOK'
  BY <1>1, <1>3, <1>4 DEF IInv, TypeOK, OthersStay
<1>6. Knows'
  BY <1>1, <1>2, OthersAt DEF IInv, Knows, KnowsOf, Bound
<1>7. FirstBinds'
  BY <1>1, <1>2, OthersAt DEF IInv, FirstBinds, IsPrimary, Bound, MailOf
<1>8. PrimariesHold' /\ ViaBound' /\ LinksAreConsented'
  BY <1>1 DEF IInv, PrimariesHold, ViaBound, LinksAreConsented, IsPrimary, Bound
<1>9. Entrance'
  <2> SUFFICES ASSUME NEW e \in Email, user[e] # "none", e \notin password \cup cut',
                      ~\E a \in Identity : IsPrimary(a) /\ acct[a].user = e /\ MailOf(a) = e
               PROVE  \E q \in Request : At(q, "bind")' /\ MailOf(Who(q))' = e
    BY <1>1 DEF Entrance, IsPrimary, Bound, MailOf
  <2>1. PICK q \in Request : At(q, "bind") /\ MailOf(Who(q)) = e
    BY <1>4 DEF IInv, Entrance
  <2>2. q # r
    BY <2>1
  <2> QED
    BY <1>1, <2>1, <2>2, OthersAt DEF MailOf
<1> QED
  BY <1>3, <1>5, <1>6, <1>7, <1>8, <1>9 DEF IInv

LEMMA ReadSteps ==
  ASSUME IInv, NEW r \in Request,
         Lookup(r) \/ Match(r) \/ Enter(r) \/ UnlinkCount(r) \/ Fail(r)
  PROVE  IInv'
<1> USE DEF Pc
<1>1. CASE Lookup(r)
  <2>1. At(r, "lookup") /\ req[r] # Idle /\ ~At(r, "bind") /\ UNCHANGED <<tables, state, history>>
    BY <1>1 DEF Lookup, At
  <2>2. CASE ~Found(Who(r))
    <3> DEFINE q == [req[r] EXCEPT !.pc = "match", !.state = None]
    <3>1. req' = [req EXCEPT ![r] = q]
      BY <1>1, <2>2 DEF Lookup
    <3>2. q \in Busy /\ q.pc = "match" /\ q.state = None
      BY <2>1, Parts DEF IInv, Busy
    <3>3. OthersStay(r) /\ req'[r] = q
      BY <3>1, <3>2 DEF IInv, TypeOK, OthersStay
    <3>4. StateSpentOnce' /\ state' \in [State -> StateRow \cup {NoState}]
      BY <2>1, <3>2, <3>3, StatesStay, NamesAssumption DEF Holds
    <3>5. KnowsOf(r)' /\ ~At(r, "bind")'
      BY <3>2, <3>3 DEF KnowsOf, At
    <3> QED
      BY <2>1, <3>3, <3>4, <3>5, TablesSame
  <2>3. CASE Found(Who(r)) /\ Goto(r, "enter")
    BY <2>1, <2>3, GoStep
  <2>4. CASE End(r)
    BY <2>1, <2>4, EndStep DEF history
  <2> QED
    BY <1>1, <2>2, <2>3, <2>4 DEF Lookup
<1>2. CASE Match(r)
  <2>1. At(r, "match") /\ req[r] # Idle /\ ~At(r, "bind") /\ UNCHANGED <<tables, state, history>>
    BY <1>2 DEF Match, At
  <2>2. Goto(r, "link") \/ Goto(r, "create") \/ End(r)
    BY <1>2 DEF Match
  <2> QED
    BY <2>1, <2>2, GoStep, EndStep DEF history
<1>3. CASE Enter(r)
  BY <1>3, EndStep DEF Enter, At, history
<1>4. CASE UnlinkCount(r)
  <2>1. At(r, "count") /\ req[r] # Idle /\ ~At(r, "bind") /\ UNCHANGED <<tables, state, history>>
    BY <1>4 DEF UnlinkCount, At
  <2>2. Cardinality(Primaries(req[r].user)) \in {0, 1}
    <3>1. \A a, b \in Primaries(req[r].user) : a = b
      BY DEF IInv, PrimariesHold, IsPrimary, Primaries, Owned
    <3> QED
      BY <3>1, AtMostOne
  <2>3. End(r)
    BY <1>4, <2>2 DEF UnlinkCount
  <2> QED
    BY <2>1, <2>3, EndStep DEF history
<1>5. CASE Fail(r)
  BY <1>5, EndStep DEF Fail
<1> QED
  BY <1>1, <1>2, <1>3, <1>4, <1>5

-----------------------------------------------------------------------------
(* Steps that change the users *)

\* What other modules do to users: nobody gets a row without a password.
LEMMA UserSteps ==
  ASSUME IInv, Users
  PROVE  IInv'
<1>1. PICK e \in Email : AdminCreate(e) \/ Disable(e) \/ Restore(e) \/ ResetPassword(e)
  BY DEF Users
<1>2. UNCHANGED <<acct, state, req, via, cut>>
  BY <1>1 DEF AdminCreate, Disable, Restore, ResetPassword, history
<1>3. /\ user' \in [Email -> {"none", "active", "disabled"}]
      /\ \A f \in Email : user[f] # "none" => user'[f] # "none"
      /\ \A f \in Email : user'[f] # "none" => user[f] # "none" \/ f \in password'
      /\ password \subseteq password'
      /\ password' \subseteq {f \in Email : user'[f] # "none"}
  BY <1>1 DEF AdminCreate, Disable, Restore, ResetPassword, IInv, TypeOK
<1>4. TypeOK'
  BY <1>2, <1>3 DEF IInv, TypeOK
<1>5. Knows' /\ ViaBound' /\ LinksAreConsented' /\ StateSpentOnce'
  BY <1>2 DEF IInv, Knows, KnowsOf, ViaBound, LinksAreConsented, StateSpentOnce,
              At, Who, Holds, Bound
<1>6. FirstBinds'
  <2>1. \A r \in Request : At(r, "bind") => MailOf(Who(r)) \in Email
    BY Parts DEF IInv, At
  <2> QED
    BY <1>2, <1>3, <2>1 DEF IInv, FirstBinds, At, Who, IsPrimary, Bound, MailOf
<1>7. PrimariesHold'
  <2>1. \A a \in Identity : IsPrimary(a) => acct[a].user \in Email
    BY DEF IInv, TypeOK, IsPrimary, Bound, AcctRow
  <2> QED
    BY <1>2, <1>3, <2>1 DEF IInv, PrimariesHold, IsPrimary, Bound
<1>8. Entrance'
  BY <1>2, <1>3 DEF IInv, Entrance, At, Who, IsPrimary, Bound, MailOf
<1> QED
  BY <1>4, <1>5, <1>6, <1>7, <1>8 DEF IInv

\* A request inserts the row of a user and goes on to bind the first account.
LEMMA NewUserStep ==
  ASSUME IInv, NEW r \in Request, req[r] # Idle, ~At(r, "bind"),
         Goto(r, "bind"), user[MailOf(Who(r))] = "none",
         user' = [user EXCEPT ![MailOf(Who(r))] = "active"],
         password' \in {password, password \cup {MailOf(Who(r))}},
         UNCHANGED <<acct, state, history>>
  PROVE  IInv'
<1> DEFINE e == MailOf(Who(r))
<1>1. /\ OthersStay(r) /\ req'[r] # Idle /\ req'[r].pc = "bind"
      /\ req'[r].who = req[r].who /\ req'[r].state = req[r].state
  BY Goes DEF IInv, Pc
<1>2. e \in Email /\ MailOf(Who(r))' = e /\ At(r, "bind")'
      /\ \A pc : pc # "bind" => ~At(r, pc)'
  BY <1>1, Parts DEF IInv, MailOf, Who, At
<1>3. UNCHANGED <<via, cut>>
  BY DEF history
<1>4. /\ user' \in [Email -> {"none", "active", "disabled"}] /\ user'[e] = "active"
      /\ \A f \in Email \ {e} : user'[f] = user[f]
  BY <1>2 DEF IInv, TypeOK
<1>5. StateSpentOnce' /\ state' \in [State -> StateRow \cup {NoState}]
  BY <1>1, StatesStay DEF Holds
<1>6. TypeOK'
  <2>1. password' \subseteq {f \in Email : user'[f] # "none"}
    BY <1>2, <1>4 DEF IInv, TypeOK
  <2> QED
    BY <1>1, <1>3, <1>4, <1>5, <2>1 DEF IInv, TypeOK, OthersStay
<1>7. Knows'
  BY <1>2, OthersAt, <1>1 DEF IInv, Knows, KnowsOf, Bound
<1>8. FirstBinds'
  <2>1. \A a \in Identity : IsPrimary(a) => acct[a].user # e
    BY DEF IInv, PrimariesHold
  <2>2. ASSUME NEW q \in Request \ {r}, At(q, "bind")'
        PROVE  /\ At(q, "bind") /\ MailOf(Who(q))' = MailOf(Who(q))
               /\ MailOf(Who(q)) \in Email \ {e}
    <3>1. At(q, "bind") /\ MailOf(Who(q))' = MailOf(Who(q))
      BY <1>1, <2>2, OthersAt DEF MailOf
    <3>2. user[MailOf(Who(q))] # "none" /\ MailOf(Who(q)) \in Email
      BY <3>1, Parts DEF IInv, FirstBinds, At
    <3> QED
      BY <3>1, <3>2
  <2>3. \A a \in Identity : IsPrimary(a)' <=> IsPrimary(a)
    BY DEF IsPrimary, Bound
  <2> QED
    BY <1>2, <1>4, <2>1, <2>2, <2>3 DEF IInv, FirstBinds
<1>9. PrimariesHold'
  <2>1. \A a \in Identity : IsPrimary(a) => acct[a].user \in Email
    BY DEF IInv, TypeOK, IsPrimary, Bound, AcctRow
  <2> QED
    BY <1>4, <2>1 DEF IInv, PrimariesHold, IsPrimary, Bound
<1>10. ViaBound' /\ LinksAreConsented'
  BY <1>3 DEF IInv, ViaBound, LinksAreConsented, Bound
<1>11. Entrance'
  <2> SUFFICES ASSUME NEW f \in Email \ {e}, user[f] # "none"
               PROVE  \/ f \in password' \cup cut'
                      \/ \E q \in Request : At(q, "bind")' /\ MailOf(Who(q))' = f
                      \/ \E a \in Identity : IsPrimary(a) /\ acct[a].user = f /\ MailOf(a) = f
    BY <1>2, <1>4 DEF Entrance, IsPrimary, Bound, MailOf
  <2>1. CASE f \in password \cup cut
    BY <1>3, <2>1
  <2>2. CASE \E q \in Request : At(q, "bind") /\ MailOf(Who(q)) = f
    BY <1>1, <2>2, OthersAt DEF MailOf
  <2> QED
    BY <2>1, <2>2 DEF IInv, Entrance
<1> QED
  BY <1>5, <1>6, <1>7, <1>8, <1>9, <1>10, <1>11 DEF IInv

LEMMA RegisterStep ==
  ASSUME IInv, NEW r \in Request, RegisterUser(r) \/ CreateUser(r)
  PROVE  IInv'
<1>1. CASE RegisterUser(r)
  <2>1. /\ req[r] # Idle /\ ~At(r, "bind") /\ Who(r) \in Email
        /\ UNCHANGED <<acct, state, history>>
    BY <1>1 DEF RegisterUser, At, IInv, Knows, KnowsOf
  <2>2. MailOf(Who(r)) = Who(r)
    BY <2>1 DEF MailOf
  <2>3. CASE user[Who(r)] = "none"
    BY <1>1, <2>1, <2>2, <2>3, NewUserStep DEF RegisterUser
  <2>4. CASE End(r) /\ UNCHANGED <<user, password>>
    BY <2>1, <2>4, EndStep DEF tables, history
  <2> QED
    BY <1>1, <2>3, <2>4 DEF RegisterUser
<1>2. CASE CreateUser(r)
  <2>1. /\ req[r] # Idle /\ ~At(r, "bind") /\ UNCHANGED <<password, acct, state, history>>
    BY <1>2 DEF CreateUser, At
  <2>2. CASE user[MailOf(Who(r))] = "none"
    BY <1>2, <2>1, <2>2, NewUserStep DEF CreateUser
  <2>3. CASE End(r) /\ UNCHANGED user
    BY <2>1, <2>3, EndStep DEF tables, history
  <2> QED
    BY <1>2, <2>2, <2>3 DEF CreateUser
<1> QED
  BY <1>1, <1>2

-----------------------------------------------------------------------------
(* Steps that change the accounts *)

LEMMA Binds ==
  ASSUME TypeOK, NEW a \in Identity, ~Bound(a), NEW e \in Email, NEW p \in BOOLEAN,
         Bind(a, e, p)
  PROVE  /\ acct' \in [Identity -> AcctRow \cup {NoAcct}]
         /\ Bound(a)' /\ acct'[a].user = e /\ acct'[a].primary = p /\ acct'[a].live
         /\ \A b \in Identity \ {a} : acct'[b] = acct[b]
         /\ \A b \in Identity : Bound(b) => Bound(b)' /\ acct'[b] = acct[b]
<1> DEFINE row == [user |-> e, primary |-> p, live |-> TRUE]
<1>1. row \in AcctRow /\ row # NoAcct
  <2>1. TRUE \in BOOLEAN
    OBVIOUS
  <2>2. row \in AcctRow
    BY <2>1, Zenon DEF AcctRow
  <2> QED
    BY <2>2, Kinds
<1>2. acct' = [acct EXCEPT ![a] = row]
  BY DEF Bind
<1>3. /\ acct' \in [Identity -> AcctRow \cup {NoAcct}] /\ acct'[a] = row
      /\ \A b \in Identity \ {a} : acct'[b] = acct[b]
  BY <1>1, <1>2 DEF TypeOK
<1> QED
  BY <1>1, <1>3 DEF Bound

\* What r knows and the others know, when accounts are only added or marked
\* and no request reaches a place where it has to know something new.
LEMMA KnowsStays ==
  ASSUME IInv, NEW r \in Request, OthersStay(r), KnowsOf(r)',
         \A b \in Identity : Bound(b) =>
           /\ Bound(b)' /\ acct'[b].user = acct[b].user
           /\ acct'[b].primary = acct[b].primary
  PROVE  Knows'
<1> SUFFICES ASSUME NEW q \in Request \ {r} PROVE KnowsOf(q)'
  BY DEF Knows
<1>1. \A pc : At(q, pc)' => At(q, pc) /\ Who(q) \in Identity
  BY OthersAt, Parts DEF IInv, At
<1> QED
  BY <1>1, OthersAt DEF IInv, Knows, KnowsOf

\* An account beside the primary one: linked by upsertUser, or attached.
LEMMA SecondStep ==
  ASSUME IInv, NEW r \in Request, ~At(r, "bind"), OthersStay(r),
         ~At(r, "bind")', KnowsOf(r)', \A s \in State : Holds(r, s)' => Holds(r, s),
         NEW a \in Identity, ~Bound(a), NEW e \in Email, Bind(a, e, FALSE),
         NEW g \in Grant, via' = [via EXCEPT ![a] = g],
         a \in Account => g \in {NoState, [flow |-> "link", user |-> e]},
         UNCHANGED <<user, password, state, cut>>
  PROVE  IInv'
<1>1. /\ acct' \in [Identity -> AcctRow \cup {NoAcct}]
      /\ Bound(a)' /\ acct'[a].user = e /\ ~acct'[a].primary
      /\ \A b \in Identity \ {a} : acct'[b] = acct[b]
      /\ \A b \in Identity : Bound(b) => Bound(b)' /\ acct'[b] = acct[b]
  BY Binds DEF IInv
<1>2. \A b \in Identity : /\ IsPrimary(b)' <=> IsPrimary(b)
                          /\ IsPrimary(b) => acct'[b] = acct[b]
  BY <1>1 DEF IsPrimary, Bound
<1>3. \A q \in Request : /\ At(q, "bind")' <=> At(q, "bind")
                         /\ At(q, "bind") => MailOf(Who(q))' = MailOf(Who(q))
  BY OthersAt DEF MailOf
<1>4. StateSpentOnce'
  BY StatesStay
<1>5. via' \in [Identity -> Grant] /\ via'[a] = g
      /\ \A b \in Identity \ {a} : via'[b] = via[b]
  BY DEF IInv, TypeOK
<1>6. TypeOK'
  BY <1>1, <1>5 DEF IInv, TypeOK, OthersStay
<1>7. Knows'
  BY <1>1, KnowsStays
<1>8. FirstBinds'
  BY <1>2, <1>3 DEF IInv, FirstBinds
<1>9. PrimariesHold'
  BY <1>2 DEF IInv, PrimariesHold
<1>10. Entrance'
  BY <1>2, <1>3, Kinds DEF IInv, Entrance, MailOf
<1>11. ViaBound'
  BY <1>1, <1>5 DEF IInv, ViaBound, Bound
<1>12. LinksAreConsented'
  <2> SUFFICES ASSUME NEW b \in Account, via'[b] # NoState
               PROVE  via'[b] = [flow |-> "link", user |-> acct'[b].user]
    BY DEF LinksAreConsented
  <2>1. CASE b = a
    BY <1>1, <1>5, <2>1
  <2>2. CASE b # a
    BY <1>1, <1>5, <2>2 DEF IInv, LinksAreConsented, Identity
  <2> QED
    BY <2>1, <2>2
<1> QED
  BY <1>4, <1>6, <1>7, <1>8, <1>9, <1>10, <1>11, <1>12 DEF IInv

LEMMA LinkSteps ==
  ASSUME IInv, NEW r \in Request, Link(r) \/ Attach(r)
  PROVE  IInv'
<1>1. CASE Link(r)
  <2>1. /\ req[r] # Idle /\ ~At(r, "bind") /\ UNCHANGED <<user, password, state, via, cut>>
        /\ Who(r) \in Identity /\ MailOf(Who(r)) \in Email
    BY <1>1, Parts DEF Link, At, IInv, history
  <2>2. CASE Bound(Who(r))
    BY <1>1, <2>1, <2>2, EndStep DEF Link, tables
  <2>3. CASE ~Bound(Who(r))
    <3>1. /\ OthersStay(r) /\ req'[r] # Idle /\ req'[r].pc = "enter"
          /\ req'[r].state = req[r].state
      BY <1>1, <2>1, <2>3, Goes DEF Link, IInv, Pc
    <3>2. KnowsOf(r)' /\ ~At(r, "bind")' /\ \A s \in State : Holds(r, s)' => Holds(r, s)
      BY <2>1, <3>1 DEF KnowsOf, At, Holds
    <3>3. via[Who(r)] = NoState /\ NoState \in Grant
      BY <2>1, <2>3 DEF IInv, ViaBound, Grant
    <3>4. via' = [via EXCEPT ![Who(r)] = NoState]
      BY <2>1, <3>3 DEF IInv, TypeOK
    <3>5. Bind(Who(r), MailOf(Who(r)), FALSE)
      BY <1>1, <2>3 DEF Link
    <3> QED
      BY <2>1, <2>3, <3>1, <3>2, <3>3, <3>4, <3>5, SecondStep
  <2> QED
    BY <2>2, <2>3
<1>2. CASE Attach(r)
  <2>1. /\ req[r] # Idle /\ At(r, "attach") /\ ~At(r, "bind")
        /\ UNCHANGED <<user, password, state, cut>>
        /\ Who(r) \in Identity /\ End(r)
    BY <1>2, Parts DEF Attach, At, IInv
  <2>2. CASE Bound(Who(r))
    BY <1>2, <2>1, <2>2, EndStep DEF Attach, tables
  <2>3. CASE ~Bound(Who(r))
    <3>1. OthersStay(r) /\ req'[r] = Idle
      BY <2>1, Ends DEF IInv
    <3>2. KnowsOf(r)' /\ ~At(r, "bind")' /\ \A s \in State : Holds(r, s)' => Holds(r, s)
      BY <3>1 DEF KnowsOf, At, Holds
    <3>3. /\ req[r].user \in Email /\ req[r].grant \in Grant
          /\ Who(r) \in Account => req[r].grant = [flow |-> "link", user |-> req[r].user]
      BY <2>1, Parts DEF IInv, Knows, KnowsOf
    <3>4. /\ Bind(Who(r), req[r].user, FALSE)
          /\ via' = [via EXCEPT ![Who(r)] = req[r].grant]
      BY <1>2, <2>3 DEF Attach
    <3> QED
      BY <2>1, <2>3, <3>1, <3>2, <3>3, <3>4, SecondStep
  <2> QED
    BY <2>2, <2>3
<1> QED
  BY <1>1, <1>2

\* The first account of a new user is the primary one.
LEMMA FirstStep ==
  ASSUME IInv, NEW r \in Request, BindFirst(r)
  PROVE  IInv'
<1>1. /\ req[r] # Idle /\ At(r, "bind") /\ UNCHANGED <<user, password, state, via>>
      /\ Who(r) \in Identity /\ MailOf(Who(r)) \in Email
  BY Parts DEF BindFirst, At, IInv
<1>2. PICK a \in Identity, e \in Email : a = Who(r) /\ e = MailOf(Who(r))
  BY <1>1
<1>3. CASE Bound(a)
  BY <1>1, <1>2, <1>3, EndStep DEF BindFirst, tables
<1>4. CASE ~Bound(a)
  <2>1. PICK pc \in {"lookup", "enter"} : Goto(r, pc)
    BY <1>2, <1>4 DEF BindFirst
  <2>2. /\ OthersStay(r) /\ req'[r] # Idle /\ req'[r].pc = pc
        /\ req'[r].state = req[r].state
    BY <1>1, <2>1, Goes DEF IInv, Pc
  <2>3. KnowsOf(r)' /\ ~At(r, "bind")' /\ \A s \in State : Holds(r, s)' => Holds(r, s)
    BY <1>1, <2>2 DEF KnowsOf, At, Holds
  <2>4. Bind(a, e, TRUE) /\ UNCHANGED cut
    BY <1>2, <1>4 DEF BindFirst
  <2>5. /\ acct' \in [Identity -> AcctRow \cup {NoAcct}]
        /\ Bound(a)' /\ acct'[a].user = e /\ acct'[a].primary /\ acct'[a].live
        /\ \A b \in Identity \ {a} : acct'[b] = acct[b]
        /\ \A b \in Identity : Bound(b) => Bound(b)' /\ acct'[b] = acct[b]
    BY <1>4, <2>4, Binds DEF IInv
  <2>6. \A b \in Identity \ {a} : IsPrimary(b)' <=> IsPrimary(b)
    BY <2>5 DEF IsPrimary, Bound
  <2>7. IsPrimary(a)' /\ ~IsPrimary(a)
    BY <1>4, <2>5 DEF IsPrimary
  <2>8. /\ user[e] # "none"
        /\ \A b \in Identity : IsPrimary(b) => acct[b].user # e
        /\ \A q \in Request \ {r} : At(q, "bind") => MailOf(Who(q)) # e
    BY <1>1, <1>2 DEF IInv, FirstBinds
  <2>9. StateSpentOnce'
    BY <1>1, <2>2, <2>3, StatesStay
  <2>10. TypeOK'
    BY <1>1, <2>2, <2>4, <2>5 DEF IInv, TypeOK, OthersStay
  <2>11. Knows'
    BY <2>2, <2>3, <2>5, KnowsStays
  <2>12. FirstBinds'
    BY <1>1, <1>2, <2>2, <2>3, <2>5, <2>6, <2>8, OthersAt DEF IInv, FirstBinds, MailOf
  <2>13. PrimariesHold'
    BY <1>1, <2>5, <2>6, <2>7, <2>8 DEF IInv, PrimariesHold
  <2>14. Entrance'
    <3> SUFFICES ASSUME NEW f \in Email \ {e}, user[f] # "none", f \notin password \cup cut
                 PROVE  \/ \E q \in Request : At(q, "bind")' /\ MailOf(Who(q))' = f
                        \/ \E b \in Identity : /\ IsPrimary(b)' /\ acct'[b].user = f
                                               /\ MailOf(b) = f
      BY <1>1, <1>2, <2>4, <2>5, <2>7 DEF Entrance, MailOf
    <3>1. CASE \E q \in Request : At(q, "bind") /\ MailOf(Who(q)) = f
      BY <1>2, <2>2, <3>1, OthersAt DEF MailOf
    <3>2. CASE \E b \in Identity : IsPrimary(b) /\ acct[b].user = f /\ MailOf(b) = f
      BY <2>5, <2>6, <2>7, <3>2
    <3> QED
      BY <3>1, <3>2 DEF IInv, Entrance
  <2>15. ViaBound' /\ LinksAreConsented'
    BY <1>1, <2>5 DEF IInv, ViaBound, LinksAreConsented, Identity
  <2> QED
    BY <2>9, <2>10, <2>11, <2>12, <2>13, <2>14, <2>15 DEF IInv
<1> QED
  BY <1>3, <1>4

\* Only an account that is not primary is unlinked.
LEMMA UnlinkStep ==
  ASSUME IInv, NEW r \in Request, UnlinkWrite(r)
  PROVE  IInv'
<1>0. PICK a : a = Who(r)
  OBVIOUS
<1>1. /\ At(r, "unlink") /\ req[r] # Idle /\ End(r)
      /\ acct' = [acct EXCEPT ![a].live = FALSE]
      /\ UNCHANGED <<user, password, state, via, cut>>
  BY <1>0 DEF UnlinkWrite, At, history
<1>2. a \in Identity /\ Bound(a) /\ ~acct[a].primary
  BY <1>0, <1>1, Parts DEF IInv, Knows, KnowsOf
<1>3. OthersStay(r) /\ req'[r] = Idle
  BY <1>1, Ends DEF IInv
<1>4. /\ \A pc : ~At(r, pc)' /\ KnowsOf(r)'
      /\ \A s \in State : Holds(r, s)' => Holds(r, s)
      /\ ~At(r, "bind")
  BY <1>1, <1>3 DEF KnowsOf, At, Holds
<1>5. acct[a] \in AcctRow
  BY <1>2 DEF IInv, TypeOK, Bound
<1>6. /\ acct' \in [Identity -> AcctRow \cup {NoAcct}]
      /\ acct'[a] \in AcctRow /\ acct'[a].user = acct[a].user
      /\ acct'[a].primary = acct[a].primary
      /\ \A b \in Identity \ {a} : acct'[b] = acct[b]
  BY <1>1, <1>2, <1>5 DEF IInv, TypeOK, AcctRow
<1>7. \A b \in Identity : /\ Bound(b)' <=> Bound(b)
                          /\ acct'[b].user = acct[b].user
                          /\ acct'[b].primary = acct[b].primary
  BY <1>2, <1>6, Kinds DEF Bound
<1>8. \A b \in Identity : /\ IsPrimary(b)' <=> IsPrimary(b)
                          /\ IsPrimary(b) => acct'[b] = acct[b]
  BY <1>2, <1>6, <1>7 DEF IsPrimary
<1>9. \A q \in Request : /\ At(q, "bind")' <=> At(q, "bind")
                         /\ At(q, "bind") => MailOf(Who(q))' = MailOf(Who(q))
  BY <1>3, <1>4, OthersAt DEF MailOf
<1>10. StateSpentOnce'
  BY <1>1, <1>3, <1>4, StatesStay
<1>11. TypeOK'
  BY <1>1, <1>3, <1>6 DEF IInv, TypeOK, OthersStay
<1>12. Knows'
  BY <1>3, <1>4, <1>7, KnowsStays
<1>13. FirstBinds' /\ PrimariesHold'
  <2>1. FirstBinds'
    BY <1>1, <1>7, <1>8, <1>9 DEF IInv, FirstBinds
  <2>2. PrimariesHold'
    <3> SUFFICES ASSUME NEW b \in Identity, IsPrimary(b)'
                 PROVE  /\ acct'[b].live
                        /\ user[acct'[b].user] # "none"
                        /\ \A c \in Identity :
                             IsPrimary(c)' /\ acct'[c].user = acct'[b].user => c = b
      BY <1>1 DEF PrimariesHold
    <3>1. IsPrimary(b) /\ acct'[b] = acct[b]
      BY <1>8
    <3> QED
      BY <3>1, <1>8 DEF IInv, PrimariesHold
  <2> QED
    BY <2>1, <2>2
<1>14. Entrance'
  BY <1>1, <1>8, <1>9, Kinds DEF IInv, Entrance, MailOf
<1>15. ViaBound' /\ LinksAreConsented'
  BY <1>1, <1>7 DEF IInv, ViaBound, LinksAreConsented, Identity
<1> QED
  BY <1>10, <1>11, <1>12, <1>13, <1>14, <1>15 DEF IInv

LEMMA NextStep == IInv /\ [Next]_vars => IInv'
<1> SUFFICES ASSUME IInv, [Next]_vars PROVE IInv'
  OBVIOUS
<1>1. CASE UNCHANGED vars
  BY <1>1 DEF vars, tables, history, IInv, TypeOK, Knows, KnowsOf, FirstBinds, PrimariesHold,
     Entrance, ViaBound, LinksAreConsented, StateSpentOnce, IsPrimary, Bound, MailOf, At,
     Who, Holds
<1>2. ASSUME NEW r \in Request, Arrive(r) \/ Serve(r) PROVE IInv'
  BY <1>2, ArriveSteps, ReadSteps, RegisterStep, LinkSteps, FirstStep, UnlinkStep DEF Serve
<1> QED
  BY <1>1, <1>2, UserSteps, StateSteps DEF Next

-----------------------------------------------------------------------------
(* The theorems *)

LEMMA Invariance == Spec => []IInv
BY InitInv, NextStep, PTL DEF Spec

\* Rows, states and requests keep their types: in particular no statement
\* writes an account that is not there.
THEOREM TypeCorrect == Spec => []TypeOK
<1>1. IInv => TypeOK
  BY DEF IInv
<1> QED
  BY Invariance, <1>1, PTL

\* No order of registrations, first sign-ins and links gives a user a second
\* primary account.
THEOREM PrimaryIsOne == Spec => []OnePrimary
<1>1. IInv => OnePrimary
  <2> SUFFICES ASSUME IInv, NEW e \in Email
               PROVE  Cardinality({a \in Owned(e) : acct[a].primary}) <= 1
    BY DEF OnePrimary
  <2>1. \A a, b \in {a \in Owned(e) : acct[a].primary} : a = b
    BY DEF IInv, PrimariesHold, IsPrimary, Owned
  <2>2. Cardinality({a \in Owned(e) : acct[a].primary}) \in {0, 1}
    BY <2>1, AtMostOne
  <2> QED
    BY <2>2
<1> QED
  BY Invariance, <1>1, PTL

\* A user keeps a password or the live account of the own email, unless the
\* insert of the first account was lost.
THEOREM WayStays == Spec => []WayIn
<1>1. IInv => WayIn
  BY DEF IInv, Entrance, PrimariesHold, WayIn, Owned, IsPrimary
<1> QED
  BY Invariance, <1>1, PTL

\* An external account that a callback attached belongs to the user who began
\* the link flow whose state the callback took.
THEOREM Consent == Spec => []LinksAreConsented
<1>1. IInv => LinksAreConsented
  BY DEF IInv
<1> QED
  BY Invariance, <1>1, PTL

\* A state that one callback has taken is neither stored nor held by another.
THEOREM StatesAreSpent == Spec => []StateSpentOnce
<1>1. IInv => StateSpentOnce
  BY DEF IInv
<1> QED
  BY Invariance, <1>1, PTL
=============================================================================
