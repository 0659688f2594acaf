------------------------ MODULE HackathonTeamsProofs ------------------------
(***************************************************************************)
(* Theorems about HackathonTeams for every set of users, teams, names,     *)
(* submissions, sizes and requests.                                        *)
(*                                                                         *)
(* Between its check and its write a request is in one of two situations:  *)
(* what it has checked still holds, or a statement of another request has  *)
(* come in between, and then the request has missed it (Knows).  A write   *)
(* in the first situation keeps the rule that was checked, and one in the  *)
(* second is what raced records.  So each rule of the code holds of        *)
(* everything that is not in raced.                                        *)
(***************************************************************************)
EXTENDS HackathonTeams, FiniteSetTheorems, TLAPS

\* What a request has found out, unless it has missed a change.
KnowsName(r) == At(r, "create", "member") \/ At(r, "create", "write") =>
  req[r].name \in req[r].missed \/ Named(req[r].name) = {}

KnowsUser(r) ==
  At(r, "create", "write") \/ At(r, "join", "count") \/ At(r, "join", "write") =>
    req[r].user \in req[r].missed \/ TeamsOf(req[r].user) = {}

KnowsSize(r) == req[r].op = "join" =>
  /\ team[req[r].team].state # "none"
  /\ At(r, "join", "write") =>
       \/ req[r].team \in req[r].missed
       \/ Cardinality(Members(req[r].team)) < req[r].size

KnowsRole(r) == req[r].op = "leave" =>
  \/ <<req[r].team, req[r].user>> \in req[r].missed
  \/ role[req[r].team][req[r].user] = "member"

KnowsEntry(r) == req[r].op \in {"patch", "judge"} =>
  /\ sub[req[r].entry] # NoRow
  /\ \/ req[r].entry \in req[r].missed
     \/ /\ sub[req[r].entry].score = req[r].copy.score
        /\ sub[req[r].entry].dated = req[r].copy.dated

KnowsOf(r) == /\ KnowsName(r) /\ KnowsUser(r) /\ KnowsSize(r)
              /\ KnowsRole(r) /\ KnowsEntry(r)
Knows == \A r \in Request : KnowsOf(r)

\* The rules of the code, of what is not in raced.
TeamsAgree == \A u \in User : u \in raced \/ \A s, t \in TeamsOf(u) : s = t
NamesAgree == \A n \in Name : n \in raced \/ \A s, t \in Named(n) : s = t
Admitted   == \A t \in Team : /\ IsFiniteSet(Members(t))
                              /\ t \in raced \/ Cardinality(Members(t)) <= limit[t]

IInv == /\ TypeOK /\ TeamsAreWhole /\ Knows
        /\ TeamsAgree /\ NamesAgree /\ Admitted

-----------------------------------------------------------------------------
(* Kinds of values, and what a step does to the requests *)

LEMMA Kinds ==
  /\ Idle \notin Requests
  /\ NoRow \notin SubRow
  /\ \A q \in Requests : q.op # "none" /\ q.missed \in SUBSET Thing
<1>1. \A q \in Requests : q.op # "none" /\ q.missed \in SUBSET Thing
  BY DEF Requests, Op
<1>2. Idle \notin Requests
  BY <1>1 DEF Idle
<1>3. NoRow \notin SubRow
  BY DEF NoRow, SubRow
<1> QED
  BY <1>1, <1>2, <1>3

\* A set whose members are all the same has at most one.
LEMMA AtMostOne ==
  ASSUME NEW S, \A a, b \in S : a = b
  PROVE  Cardinality(S) <= 1
<1>1. CASE S = {}
  BY <1>1, FS_EmptySet
<1>2. CASE S # {}
  <2>1. PICK a \in S : S = {a}
    BY <1>2
  <2> QED
    BY <2>1, FS_Singleton
<1> QED
  BY <1>1, <1>2

LEMMA SizesArePositive == \A n \in Sizes \cup {1} : n \in Nat /\ 1 <= n
BY SizesAssumption

ReqOK == /\ req \in [Request -> Requests \cup {Idle}]
         /\ \A r \in Request : req[r] # Idle => Loaded(req[r])

LEMMA Parts ==
  ASSUME TypeOK, NEW r \in Request, req[r] # Idle
  PROVE  req[r] \in Requests /\ Loaded(req[r])
BY DEF TypeOK

\* The same request, which may have missed something more.
Same(q, p) ==
  /\ p.op = q.op /\ p.pc = q.pc /\ p.user = q.user /\ p.team = q.team
  /\ p.name = q.name /\ p.entry = q.entry /\ p.size = q.size /\ p.copy = q.copy
  /\ q.missed \subseteq p.missed

OthersKeep(r) == \A q \in Request \ {r} :
  IF req[q] = Idle THEN req'[q] = Idle
  ELSE req'[q] \in Requests /\ req'[q] # Idle /\ Same(req[q], req'[q])

LEMMA Starts ==
  ASSUME TypeOK, NEW r \in Request, NEW q \in Requests, Loaded(q), Start(r, q)
  PROVE  ReqOK' /\ OthersKeep(r) /\ req[r] = Idle /\ req'[r] = q /\ req'[r] # Idle
<1>1. req[r] = Idle /\ req' = [req EXCEPT ![r] = q]
  BY DEF Start
<1>2. req'[r] = q /\ \A o \in Request \ {r} : req'[o] = req[o]
  BY <1>1 DEF TypeOK
<1>3. OthersKeep(r)
  BY <1>2, Parts DEF OthersKeep, Same
<1>4. ReqOK'
  BY <1>1, <1>2 DEF TypeOK, ReqOK, Loaded
<1> QED
  BY <1>1, <1>2, <1>3, <1>4, Kinds

LEMMA Ends ==
  ASSUME TypeOK, NEW r \in Request, End(r)
  PROVE  ReqOK' /\ OthersKeep(r) /\ req'[r] = Idle
<1>1. req' = [req EXCEPT ![r] = Idle]
  BY DEF End
<1>2. req'[r] = Idle /\ \A o \in Request \ {r} : req'[o] = req[o]
  BY <1>1 DEF TypeOK
<1>3. OthersKeep(r)
  BY <1>2, Parts DEF OthersKeep, Same
<1>4. ReqOK'
  BY <1>1, <1>2 DEF TypeOK, ReqOK, Loaded
<1> QED
  BY <1>2, <1>3, <1>4

LEMMA Passes ==
  ASSUME TypeOK, NEW r \in Request, req[r] # Idle, NEW X, NEW pc \in Pc, Pass(r, X, pc)
  PROVE  /\ ReqOK' /\ OthersKeep(r) /\ req'[r] # Idle
         /\ req'[r] = [req[r] EXCEPT !.missed = @ \ X, !.pc = pc]
         /\ req'[r].op = req[r].op /\ req'[r].pc = pc /\ req'[r].user = req[r].user
         /\ req'[r].team = req[r].team /\ req'[r].name = req[r].name
         /\ req'[r].entry = req[r].entry /\ req'[r].size = req[r].size
         /\ req'[r].copy = req[r].copy /\ req'[r].missed = req[r].missed \ X
<1> DEFINE p == [req[r] EXCEPT !.missed = @ \ X, !.pc = pc]
<1>1. req[r] \in Requests /\ Loaded(req[r])
  BY Parts
<1>2. p \in Requests
  BY <1>1 DEF Requests
<1>3. /\ p.op = req[r].op /\ p.pc = pc /\ p.user = req[r].user
      /\ p.team = req[r].team /\ p.name = req[r].name
      /\ p.entry = req[r].entry /\ p.size = req[r].size
      /\ p.copy = req[r].copy /\ p.missed = req[r].missed \ X
  BY <1>1 DEF Requests
<1>4. req' = [req EXCEPT ![r] = p]
  BY DEF Pass
<1>5. req'[r] = p /\ \A o \in Request \ {r} : req'[o] = req[o]
  BY <1>4 DEF TypeOK
<1>6. Loaded(p)
  BY <1>1, <1>3 DEF Loaded
<1> HIDE DEF p
<1>7. OthersKeep(r)
  BY <1>5, Parts DEF OthersKeep, Same
<1>8. ReqOK'
  BY <1>2, <1>4, <1>5, <1>6 DEF TypeOK, ReqOK, Loaded
<1> USE DEF p
<1> QED
  BY <1>2, <1>3, <1>5, <1>7, <1>8, Kinds

LEMMA Finishes ==
  ASSUME TypeOK, NEW r \in Request, req[r] # Idle, NEW W \in SUBSET Thing, Finish(r, W)
  PROVE  /\ ReqOK' /\ OthersKeep(r) /\ req'[r] = Idle
         /\ \A q \in Request \ {r} :
              req[q] # Idle => W \cap About(req[q]) \subseteq req'[q].missed
         /\ raced' = raced \cup (W \cap req[r].missed) /\ raced' \subseteq Thing
<1> DEFINE p(q) == [req[q] EXCEPT !.missed = @ \cup (W \cap About(req[q]))]
<1>1. /\ req' = [q \in Request |->
                   IF q = r \/ req[q] = Idle THEN IF q = r THEN Idle ELSE req[q]
                   ELSE p(q)]
      /\ raced' = raced \cup (W \cap req[r].missed)
  BY DEF Finish
<1>2. ASSUME NEW q \in Request, req[q] # Idle
      PROVE  /\ p(q) \in Requests /\ Same(req[q], p(q)) /\ Loaded(p(q))
             /\ W \cap About(req[q]) \subseteq p(q).missed
  <2>1. req[q] \in Requests /\ Loaded(req[q])
    BY <1>2, Parts
  <2> DEFINE A == W \cap About(req[q])
  <2>2. A \in SUBSET Thing
    OBVIOUS
  <2> HIDE DEF A
  <2>3. [req[q] EXCEPT !.missed = @ \cup A] \in Requests
    BY <2>1, <2>2 DEF Requests
  <2>4. /\ Same(req[q], [req[q] EXCEPT !.missed = @ \cup A])
        /\ A \subseteq [req[q] EXCEPT !.missed = @ \cup A].missed
    BY <2>1 DEF Requests, Same
  <2>5. Loaded([req[q] EXCEPT !.missed = @ \cup A])
    BY <2>1, <2>4 DEF Loaded, Same
  <2> QED
    BY <2>3, <2>4, <2>5 DEF A
<1> HIDE DEF p
<1>3. req'[r] = Idle
  BY <1>1
<1>4. \A q \in Request \ {r} : IF req[q] = Idle THEN req'[q] = Idle ELSE req'[q] = p(q)
  BY <1>1
<1>5. OthersKeep(r)
  BY <1>2, <1>4, Kinds DEF OthersKeep
<1>6. ReqOK'
  <2>1. req' = [q \in Request |-> req'[q]]
    BY <1>1
  <2>2. \A q \in Request : req'[q] \in Requests \cup {Idle}
    BY <1>2, <1>3, <1>4
  <2>3. \A q \in Request : req'[q] # Idle => Loaded(req'[q])
    BY <1>2, <1>3, <1>4
  <2> QED
    BY <2>1, <2>2, <2>3 DEF ReqOK, Loaded
<1>7. raced' \subseteq Thing
  BY <1>1 DEF TypeOK
<1> QED
  BY <1>1, <1>2, <1>3, <1>4, <1>5, <1>6, <1>7

\* Of an idle slot there is nothing to know.
LEMMA KnowsIdle ==
  ASSUME NEW r \in Request, req'[r] = Idle
  PROVE  KnowsOf(r)'
BY DEF KnowsOf, KnowsName, KnowsUser, KnowsSize, KnowsRole, KnowsEntry, At, Idle

\* A step that leaves teams, members and submissions alone.
LEMMA StillStep ==
  ASSUME IInv, NEW r \in Request, ReqOK', OthersKeep(r), KnowsOf(r)',
         reg' \subseteq User, UNCHANGED <<hack, team, role, sub, history>>
  PROVE  IInv'
<1>1. TypeOK'
  BY DEF IInv, TypeOK, ReqOK, history
<1>2. Knows'
  <2> SUFFICES ASSUME NEW q \in Request \ {r}, req'[q] # Idle PROVE KnowsOf(q)'
    BY KnowsIdle DEF Knows
  <2>1. req[q] # Idle /\ Same(req[q], req'[q])
    BY DEF OthersKeep
  <2>2. KnowsOf(q)
    BY DEF IInv, Knows
  <2> QED
    BY <2>1, <2>2 DEF Same, KnowsOf, KnowsName, KnowsUser, KnowsSize, KnowsRole,
       KnowsEntry, At, Named, Live, TeamsOf, Members
<1>3. TeamsAreWhole'
  BY DEF IInv, TeamsAreWhole, Live, Members
<1>4. TeamsAgree' /\ NamesAgree' /\ Admitted'
  BY DEF IInv, TeamsAgree, NamesAgree, Admitted, TeamsOf, Named, Live, Members, history
<1> QED
  BY <1>1, <1>2, <1>3, <1>4 DEF IInv

-----------------------------------------------------------------------------
(* The initial state *)

LEMMA InitInv == Init => IInv
<1> SUFFICES ASSUME Init PROVE IInv
  OBVIOUS
<1>1. /\ \A r \in Request : req[r] = Idle
      /\ \A t \in Team : /\ ~Live(t) /\ Members(t) = {} /\ limit[t] = 1
      /\ \A s \in Submission : sub[s] = NoRow
  BY DEF Init, Live, Members, NoTeam
<1>2. TypeOK
  BY DEF Init, TypeOK, NoTeam, Idle
<1>3. TeamsAreWhole
  BY <1>1 DEF TeamsAreWhole
<1>4. Knows
  BY <1>1 DEF Knows, KnowsOf, KnowsName, KnowsUser, KnowsSize, KnowsRole, KnowsEntry, At, Idle
<1>5. TeamsAgree /\ NamesAgree
  BY <1>1 DEF TeamsAgree, NamesAgree, TeamsOf, Members, Named
<1>6. Admitted
  BY <1>1, FS_EmptySet DEF Admitted
<1> QED
  BY <1>2, <1>3, <1>4, <1>5, <1>6 DEF IInv

-----------------------------------------------------------------------------
(* Steps that write at most the hackathon and the registrations *)

LEMMA HackSteps ==
  ASSUME IInv, Close \/ EditHackathon
  PROVE  IInv'
<1>1. hack' \in [open : BOOLEAN, size : Sizes]
  <2>1. CASE Close
    <3>1. hack \in [open : BOOLEAN, size : Sizes] /\ FALSE \in BOOLEAN
      BY DEF IInv, TypeOK
    <3> QED
      BY <2>1, <3>1 DEF Close
  <2> QED
    BY <2>1 DEF EditHackathon
<1>2. UNCHANGED <<reg, team, role, sub, req, history>>
  BY DEF Close, EditHackathon
<1>3. TypeOK'
  BY <1>1, <1>2 DEF IInv, TypeOK, history
<1>4. Knows'
  BY <1>2 DEF IInv, Knows, KnowsOf, KnowsName, KnowsUser, KnowsSize, KnowsRole, KnowsEntry,
     At, Named, Live, TeamsOf, Members
<1>5. TeamsAreWhole'
  BY <1>2 DEF IInv, TeamsAreWhole, Live, Members
<1>6. TeamsAgree' /\ NamesAgree' /\ Admitted'
  BY <1>2 DEF IInv, TeamsAgree, NamesAgree, Admitted, TeamsOf, Named, Live, Members, history
<1> QED
  BY <1>3, <1>4, <1>5, <1>6 DEF IInv

\* A request begins, and knows what its first statement has read.
LEMMA BeginStep ==
  ASSUME IInv, NEW r \in Request, NEW q \in Requests, Loaded(q), Start(r, q),
         q.pc \notin {"member", "count"},
         q.op = "create" => q.pc = "name",
         q.op = "join" => q.pc # "write" /\ Live(q.team),
         q.op = "leave" => role[q.team][q.user] = "member",
         q.op \in {"patch", "judge"} => sub[q.entry] # NoRow /\ q.copy = sub[q.entry],
         UNCHANGED <<tables, history>>
  PROVE  IInv'
<1>1. ReqOK' /\ OthersKeep(r) /\ req'[r] = q
  BY Starts DEF IInv
<1>2. KnowsOf(r)'
  BY <1>1 DEF KnowsOf, KnowsName, KnowsUser, KnowsSize, KnowsRole, KnowsEntry, At, Live,
     tables
<1> QED
  BY <1>1, <1>2, StillStep DEF tables, IInv, TypeOK

LEMMA BeginSteps ==
  ASSUME IInv, NEW r \in Request, NEW u \in User,
         \/ RegisterBegin(r, u) \/ CancelBegin(r, u)
         \/ \E n \in Name : CreateBegin(r, u, n)
         \/ \E t \in Team : LeaveBegin(r, u, t)
         \/ \E t \in Team \cup {None} : SubmitBegin(r, u, t)
  PROVE  IInv'
<1>1. ASSUME NEW op \in {"register", "cancel"}, UNCHANGED <<tables, history>>,
             Start(r, [Blank EXCEPT !.op = op, !.user = u])
      PROVE  IInv'
  <2> DEFINE q == [Blank EXCEPT !.op = op, !.user = u]
  <2>1. q \in Requests /\ Loaded(q)
    BY DEF Requests, Loaded, Blank, Op, Pc
  <2>2. q.op = op /\ q.pc = "write"
    BY DEF Blank
  <2> QED
    BY <1>1, <2>1, <2>2, BeginStep
<1>2. ASSUME NEW n \in Name, CreateBegin(r, u, n) PROVE IInv'
  <2> DEFINE q == [Blank EXCEPT !.op = "create", !.pc = "name", !.user = u, !.name = n]
  <2>1. q \in Requests /\ Loaded(q)
    BY DEF Requests, Loaded, Blank, Op, Pc
  <2>2. q.op = "create" /\ q.pc = "name"
    BY DEF Blank
  <2> QED
    BY <1>2, <2>1, <2>2, BeginStep DEF CreateBegin
<1>3. ASSUME NEW t \in Team, LeaveBegin(r, u, t) PROVE IInv'
  <2> DEFINE op == IF role[t][u] = "captain" THEN "disband" ELSE "leave"
             q  == [Blank EXCEPT !.op = op, !.user = u, !.team = t]
  <2>1. q \in Requests /\ Loaded(q)
    BY DEF Requests, Loaded, Blank, Op, Pc
  <2>2. q.op = op /\ q.pc = "write" /\ q.team = t /\ q.user = u
    BY DEF Blank
  <2>3. role[t][u] \in {"none", "captain", "member"} /\ role[t][u] # "none"
    <3>1. u \in Members(t) /\ role \in [Team -> [User -> {"none", "captain", "member"}]]
      BY <1>3 DEF LeaveBegin, IInv, TypeOK
    <3> QED
      BY <3>1 DEF Members
  <2>4. op \in {"disband", "leave"} /\ (op = "leave" => role[t][u] = "member")
    BY <2>3
  <2>5. Start(r, q) /\ UNCHANGED <<tables, history>>
    BY <1>3 DEF LeaveBegin
  <2> HIDE DEF op, q
  <2> QED
    BY <2>1, <2>2, <2>4, <2>5, BeginStep
<1>4. ASSUME NEW t \in Team \cup {None}, SubmitBegin(r, u, t) PROVE IInv'
  <2> DEFINE q == [Blank EXCEPT !.op = "submit", !.user = u, !.team = t]
  <2>1. q \in Requests /\ Loaded(q)
    BY DEF Requests, Loaded, Blank, Op, Pc
  <2>2. q.op = "submit" /\ q.pc = "write"
    BY DEF Blank
  <2> QED
    BY <1>4, <2>1, <2>2, BeginStep DEF SubmitBegin
<1> QED
  BY <1>1, <1>2, <1>3, <1>4 DEF RegisterBegin, CancelBegin

LEMMA JoinBeginStep ==
  ASSUME IInv, NEW r \in Request, NEW u \in User, NEW t \in Team, JoinBegin(r, u, t)
  PROVE  IInv'
<1> DEFINE q == [Blank EXCEPT !.op = "join", !.pc = "member", !.user = u, !.team = t,
                              !.size = hack.size]
<1>1. hack.size \in Sizes
  BY DEF IInv, TypeOK
<1>2. q \in Requests /\ Loaded(q)
  BY <1>1 DEF Requests, Loaded, Blank, Op, Pc
<1>3. q.op = "join" /\ q.pc = "member" /\ q.team = t
  BY DEF Blank
<1>4. Live(t) /\ Start(r, q) /\ UNCHANGED <<tables, history>>
  BY DEF JoinBegin
<1>5. ReqOK' /\ OthersKeep(r) /\ req'[r] = q
  BY <1>2, <1>4, Starts DEF IInv
<1>6. KnowsOf(r)'
  BY <1>3, <1>4, <1>5 DEF KnowsOf, KnowsName, KnowsUser, KnowsSize, KnowsRole, KnowsEntry,
     At, Live, tables
<1> QED
  BY <1>4, <1>5, <1>6, StillStep DEF tables, IInv, TypeOK

LEMMA EntryBegins ==
  ASSUME IInv, NEW r \in Request, NEW s \in Submission,
         (\E u \in User : PatchBegin(r, u, s)) \/ JudgeBegin(r, s)
  PROVE  IInv'
<1>1. sub[s] \in SubRow /\ sub[s] # NoRow
  BY DEF PatchBegin, JudgeBegin, IInv, TypeOK
<1>2. ASSUME NEW u \in User, PatchBegin(r, u, s) PROVE IInv'
  <2> DEFINE v  == IF sub[s].user = u THEN None ELSE u
             pc == IF sub[s].user = u THEN "write" ELSE "owner"
             q  == [Blank EXCEPT !.op = "patch", !.entry = s, !.copy = sub[s],
                                 !.user = v, !.pc = pc]
  <2>1. q \in Requests /\ Loaded(q)
    BY <1>1 DEF Requests, Loaded, Blank, Op, Pc
  <2>2. q.op = "patch" /\ q.pc = pc /\ q.entry = s /\ q.copy = sub[s]
    BY DEF Blank
  <2>3. Start(r, q) /\ UNCHANGED <<tables, history>>
    BY <1>2 DEF PatchBegin
  <2>4. pc \in {"write", "owner"}
    OBVIOUS
  <2> HIDE DEF q, pc
  <2> QED
    BY <1>1, <2>1, <2>2, <2>3, <2>4, BeginStep
<1>3. CASE JudgeBegin(r, s)
  <2> DEFINE q == [Blank EXCEPT !.op = "judge", !.entry = s, !.copy = sub[s]]
  <2>1. q \in Requests /\ Loaded(q)
    BY <1>1 DEF Requests, Loaded, Blank, Op, Pc
  <2>2. q.op = "judge" /\ q.pc = "write" /\ q.entry = s /\ q.copy = sub[s]
    BY DEF Blank
  <2> QED
    BY <1>1, <1>3, <2>1, <2>2, BeginStep DEF JudgeBegin
<1> QED
  BY <1>2, <1>3

LEMMA EndStep ==
  ASSUME IInv, NEW r \in Request, End(r), reg' \subseteq User,
         UNCHANGED <<hack, team, role, sub, history>>
  PROVE  IInv'
BY Ends, KnowsIdle, StillStep DEF IInv

LEMMA RegistrationWrites ==
  ASSUME IInv, NEW r \in Request, RegisterWrite(r) \/ CancelWrite(r)
  PROVE  IInv'
<1>1. reg' \subseteq User
  BY DEF RegisterWrite, CancelWrite, At, IInv, TypeOK, Loaded
<1> QED
  BY <1>1, EndStep DEF RegisterWrite, CancelWrite

\* A check that passes: r knows what it has found.
LEMMA PassStep ==
  ASSUME IInv, NEW r \in Request, req[r] # Idle, NEW X, NEW pc \in Pc, Pass(r, X, pc),
         UNCHANGED <<tables, history>>, KnowsOf(r)'
  PROVE  IInv'
BY Passes, StillStep DEF tables, IInv, TypeOK

LEMMA Checks ==
  ASSUME IInv, NEW r \in Request,
         CreateName(r) \/ MemberCheck(r) \/ JoinCount(r) \/ PatchOwner(r)
  PROVE  IInv'
<1>1. /\ req[r] # Idle /\ UNCHANGED <<tables, history>> /\ TypeOK
      /\ reg' \subseteq User /\ UNCHANGED <<hack, team, role, sub, history>>
      /\ UNCHANGED <<team, role, sub>>
  BY DEF CreateName, MemberCheck, JoinCount, PatchOwner, At, tables, IInv, TypeOK
<1>2. KnowsOf(r) /\ Loaded(req[r])
  BY <1>1, Parts DEF IInv, Knows
<1>3. CASE End(r)
  BY <1>1, <1>3, EndStep
<1>4. ASSUME CreateName(r), ~End(r) PROVE IInv'
  <2>1. /\ At(r, "create", "name") /\ Named(req[r].name) = {}
        /\ Pass(r, {req[r].name}, "member")
    BY <1>4 DEF CreateName
  <2>2. KnowsOf(r)'
    <3>1. /\ req'[r].op = "create" /\ req'[r].pc = "member"
          /\ req'[r].name = req[r].name
      BY <1>1, <2>1, Passes DEF At, Pc
    <3> QED
      BY <1>1, <2>1, <3>1 DEF KnowsOf, KnowsName, KnowsUser, KnowsSize, KnowsRole,
         KnowsEntry, At, Named, Live
  <2> QED
    BY <1>1, <2>1, <2>2, PassStep DEF Pc
<1>5. ASSUME MemberCheck(r), ~End(r) PROVE IInv'
  <2> DEFINE pc == IF req[r].op = "join" THEN "count" ELSE "write"
  <2>1. /\ At(r, "create", "member") \/ At(r, "join", "member")
        /\ TeamsOf(req[r].user) = {} /\ Pass(r, {req[r].user}, pc)
    BY <1>5 DEF MemberCheck
  <2>2. req[r].name # req[r].user \/ req[r].op = "join"
    BY <1>2, <2>1, NamesAssumption DEF Loaded, At
  <2>3. KnowsOf(r)'
    <3>1. /\ req'[r].op = req[r].op /\ req'[r].op \in {"create", "join"}
          /\ req'[r].pc = pc /\ req'[r].user = req[r].user /\ req'[r].team = req[r].team
          /\ req'[r].name = req[r].name /\ req'[r].missed = req[r].missed \ {req[r].user}
      BY <1>1, <2>1, Passes DEF At, Pc
    <3>2. KnowsName(r)'
      BY <1>1, <1>2, <2>1, <2>2, <3>1 DEF KnowsOf, KnowsName, At, Named, Live
    <3>3. KnowsUser(r)'
      BY <1>1, <2>1, <3>1 DEF KnowsUser, TeamsOf, Members
    <3>4. KnowsSize(r)'
      BY <1>1, <1>2, <3>1 DEF KnowsOf, KnowsSize, At
    <3> QED
      BY <3>1, <3>2, <3>3, <3>4 DEF KnowsOf, KnowsRole, KnowsEntry
  <2> QED
    BY <1>1, <2>1, <2>3, PassStep DEF Pc
<1>6. ASSUME JoinCount(r), ~End(r) PROVE IInv'
  <2>1. /\ At(r, "join", "count") /\ Pass(r, {req[r].team}, "write")
        /\ Cardinality(Members(req[r].team)) < req[r].size
    BY <1>6 DEF JoinCount
  <2>2. req[r].team # req[r].user
    BY <1>2, <2>1, NamesAssumption DEF Loaded, At
  <2>3. KnowsOf(r)'
    <3>1. /\ req'[r].op = "join" /\ req'[r].pc = "write"
          /\ req'[r].user = req[r].user /\ req'[r].team = req[r].team
          /\ req'[r].size = req[r].size /\ req'[r].missed = req[r].missed \ {req[r].team}
      BY <1>1, <2>1, Passes DEF At, Pc
    <3>2. KnowsUser(r)'
      BY <1>1, <1>2, <2>1, <2>2, <3>1 DEF KnowsOf, KnowsUser, At, TeamsOf, Members
    <3>3. KnowsSize(r)'
      BY <1>1, <1>2, <2>1, <3>1 DEF KnowsOf, KnowsSize, At, Members
    <3> QED
      BY <3>1, <3>2, <3>3 DEF KnowsOf, KnowsName, KnowsRole, KnowsEntry, At
  <2> QED
    BY <1>1, <2>1, <2>3, PassStep DEF Pc
<1>7. ASSUME PatchOwner(r), ~End(r) PROVE IInv'
  <2>1. At(r, "patch", "owner") /\ Pass(r, {}, "write")
    BY <1>7 DEF PatchOwner
  <2>2. KnowsOf(r)'
    <3>1. /\ req'[r].op = "patch" /\ req'[r].entry = req[r].entry
          /\ req'[r].copy = req[r].copy /\ req'[r].missed = req[r].missed \ {}
      <4>1. "write" \in Pc /\ req[r].op = "patch"
        BY <2>1 DEF At, Pc
      <4> QED
        BY <1>1, <2>1, <4>1, Passes
    <3> QED
      BY <1>1, <1>2, <2>1, <3>1 DEF KnowsOf, KnowsName, KnowsUser, KnowsSize, KnowsRole,
         KnowsEntry, At
  <2> QED
    BY <1>1, <2>1, <2>2, PassStep DEF Pc
<1> QED
  BY <1>3, <1>4, <1>5, <1>6, <1>7

-----------------------------------------------------------------------------
(* Writes.  The rows of the team tables are written one at a time; what the  *)
(* other requests know of them is lost only with the word being missed.      *)

\* What another request knows after a write of the things of W.
LEMMA OthersKnow ==
  ASSUME IInv, NEW r \in Request, NEW W, OthersKeep(r), KnowsOf(r)',
         \A q \in Request \ {r} : req[q] # Idle => W \cap About(req[q]) \subseteq req'[q].missed,
         \A n \in Name : n \in W \/ Named(n)' \subseteq Named(n),
         \A u \in User : u \in W \/ TeamsOf(u)' \subseteq TeamsOf(u),
         \A t \in Team : team[t].state # "none" =>
           /\ team'[t].state # "none"
           /\ t \in W \/ Members(t)' \subseteq Members(t)
           /\ \A u \in User : <<t, u>> \in W \/ role[t][u] # "member" \/ role'[t][u] = "member",
         \A s \in Submission : sub[s] # NoRow =>
           /\ sub'[s] # NoRow
           /\ s \in W \/ (sub'[s].score = sub[s].score /\ sub'[s].dated = sub[s].dated)
  PROVE  Knows'
<1> SUFFICES ASSUME NEW q \in Request \ {r}, req'[q] # Idle PROVE KnowsOf(q)'
  BY KnowsIdle DEF Knows
<1>1. /\ req[q] # Idle /\ Same(req[q], req'[q]) /\ KnowsOf(q) /\ Loaded(req[q])
      /\ W \cap About(req[q]) \subseteq req'[q].missed
  BY Parts DEF OthersKeep, IInv, Knows
<1>2. KnowsName(q)'
  <2> SUFFICES ASSUME At(q, "create", "member") \/ At(q, "create", "write"),
                      req[q].name \notin req'[q].missed
               PROVE  Named(req[q].name)' = {}
    BY <1>1 DEF KnowsName, At, Same
  <2>1. req[q].op = "create" /\ req[q].name \in Name /\ req[q].name \notin W
    BY <1>1 DEF At, Loaded, About
  <2> QED
    BY <1>1, <2>1 DEF KnowsOf, KnowsName, Same
<1>3. KnowsUser(q)'
  <2> SUFFICES ASSUME At(q, "create", "write") \/ At(q, "join", "count") \/ At(q, "join", "write"),
                      req[q].user \notin req'[q].missed
               PROVE  TeamsOf(req[q].user)' = {}
    BY <1>1 DEF KnowsUser, At, Same
  <2>1. req[q].op \in {"create", "join"} /\ req[q].user \in User /\ req[q].user \notin W
    BY <1>1 DEF At, Loaded, About
  <2> QED
    BY <1>1, <2>1 DEF KnowsOf, KnowsUser, Same
<1>4. KnowsSize(q)'
  <2> SUFFICES ASSUME req[q].op = "join" PROVE KnowsSize(q)'
    BY <1>1 DEF KnowsSize, Same
  <2> PICK t \in Team : t = req[q].team
    BY <1>1 DEF Loaded
  <2>1. req[q].size \in Sizes
    BY <1>1 DEF Loaded
  <2>2. req[q].size \in Nat
    BY <2>1, SizesArePositive
  <2>3. team[t].state # "none"
    BY <1>1 DEF KnowsOf, KnowsSize
  <2>4. ASSUME At(q, "join", "write"), t \notin req'[q].missed
        PROVE  Cardinality(Members(t)') < req[q].size
    <3>1. t \notin W
      BY <1>1, <2>4 DEF At, About
    <3>2. Members(t)' \subseteq Members(t)
      BY <2>3, <3>1
    <3>3. Cardinality(Members(t)) < req[q].size /\ IsFiniteSet(Members(t))
      BY <1>1, <2>4 DEF KnowsOf, KnowsSize, Same, IInv, Admitted
    <3>4. /\ Cardinality(Members(t)') <= Cardinality(Members(t))
          /\ Cardinality(Members(t)') \in Nat /\ Cardinality(Members(t)) \in Nat
      BY <3>2, <3>3, FS_Subset, FS_CardinalityType
    <3> QED
      BY <2>2, <3>3, <3>4
  <2>5. /\ team'[t].state # "none" /\ t = req'[q].team /\ req'[q].size = req[q].size
        /\ At(q, "join", "write")' => At(q, "join", "write")
    BY <1>1, <2>3 DEF Same, At
  <2> QED
    BY <2>4, <2>5 DEF KnowsSize
<1>5. KnowsRole(q)'
  <2> SUFFICES ASSUME req[q].op = "leave", <<req[q].team, req[q].user>> \notin req'[q].missed
               PROVE  role'[req[q].team][req[q].user] = "member"
    BY <1>1 DEF KnowsRole, Same
  <2>1. /\ req[q].team \in Team /\ req[q].user \in User
        /\ <<req[q].team, req[q].user>> \notin W
        /\ role[req[q].team][req[q].user] = "member"
    BY <1>1 DEF Loaded, About, KnowsOf, KnowsRole, Same
  <2>2. req[q].user \in Members(req[q].team)
    BY <2>1 DEF Members
  <2>3. team[req[q].team].state # "none"
    BY <2>1, <2>2 DEF IInv, TeamsAreWhole, Live
  <2> QED
    BY <2>1, <2>3
<1>6. KnowsEntry(q)'
  <2> SUFFICES ASSUME req[q].op \in {"patch", "judge"}
               PROVE  /\ sub'[req[q].entry] # NoRow
                      /\ \/ req[q].entry \in req'[q].missed
                         \/ /\ sub'[req[q].entry].score = req[q].copy.score
                            /\ sub'[req[q].entry].dated = req[q].copy.dated
    BY <1>1 DEF KnowsEntry, Same
  <2>1. req[q].entry \in Submission /\ About(req[q]) = {req[q].entry}
    BY <1>1 DEF Loaded, About
  <2> QED
    BY <1>1, <2>1 DEF KnowsOf, KnowsEntry, Same
<1> QED
  BY <1>2, <1>3, <1>4, <1>5, <1>6 DEF KnowsOf

\* A write ends its request.
LEMMA Writes ==
  ASSUME IInv, NEW r \in Request, req[r] # Idle, NEW W \in SUBSET Thing, Finish(r, W)
  PROVE  /\ ReqOK' /\ OthersKeep(r) /\ KnowsOf(r)'
         /\ \A q \in Request \ {r} :
              req[q] # Idle => W \cap About(req[q]) \subseteq req'[q].missed
         /\ raced' = raced \cup (W \cap req[r].missed)
         /\ raced' \subseteq Thing /\ raced \subseteq raced'
BY Finishes, KnowsIdle DEF IInv

\* Members who leave a team do not make it too large.
LEMMA FewerFit ==
  ASSUME TypeOK, Admitted, raced \subseteq raced', UNCHANGED limit,
         \A t \in Team : Members(t)' \subseteq Members(t)
  PROVE  Admitted'
<1> SUFFICES ASSUME NEW t \in Team
             PROVE  /\ IsFiniteSet(Members(t)')
                    /\ t \in raced' \/ Cardinality(Members(t)') <= limit[t]
  BY DEF Admitted
<1>1. /\ IsFiniteSet(Members(t)') /\ Cardinality(Members(t)') <= Cardinality(Members(t))
      /\ Cardinality(Members(t)') \in Nat /\ Cardinality(Members(t)) \in Nat
  BY FS_Subset, FS_CardinalityType DEF Admitted
<1>2. limit[t] \in Nat
  BY SizesArePositive DEF TypeOK
<1> QED
  BY <1>1, <1>2 DEF Admitted

LEMMA CreateStep ==
  ASSUME IInv, NEW r \in Request, CreateWrite(r)
  PROVE  IInv'
<1>1. PICK u \in User, n \in Name : u = req[r].user /\ n = req[r].name
  BY DEF CreateWrite, At, IInv, TypeOK, Loaded
<1>2. /\ At(r, "create", "write") /\ req[r] # Idle /\ KnowsOf(r)
      /\ UNCHANGED <<hack, reg, sub, limit>> /\ reg \subseteq User
  BY DEF CreateWrite, At, IInv, Knows, TypeOK
<1>3. CASE End(r) /\ UNCHANGED <<team, role, raced>>
  BY <1>2, <1>3, EndStep DEF history
<1>4. ASSUME NEW t \in Team, team[t] = NoTeam,
             team' = [team EXCEPT ![t] = [state |-> "live", name |-> n, captain |-> u]],
             role' = [role EXCEPT ![t][u] = "captain"],
             Finish(r, {u, n})
      PROVE  IInv'
  <2>1. /\ ReqOK' /\ OthersKeep(r) /\ KnowsOf(r)'
        /\ \A q \in Request \ {r} :
             req[q] # Idle => {u, n} \cap About(req[q]) \subseteq req'[q].missed
        /\ raced' = raced \cup ({u, n} \cap req[r].missed)
        /\ raced' \subseteq Thing /\ raced \subseteq raced'
    BY <1>2, <1>4, Writes DEF Thing
  <2>2. /\ team'[t] = [state |-> "live", name |-> n, captain |-> u]
        /\ \A s \in Team \ {t} : team'[s] = team[s]
    BY <1>4 DEF IInv, TypeOK
  <2>3. /\ role'[t][u] = "captain" /\ \A v \in User \ {u} : role'[t][v] = role[t][v]
        /\ \A s \in Team \ {t} : role'[s] = role[s]
    BY <1>4 DEF IInv, TypeOK
  <2>4. ~Live(t) /\ team[t].state = "none" /\ Members(t) = {}
    BY <1>4 DEF IInv, TeamsAreWhole, Live, NoTeam
  <2>5. Live(t)' /\ Members(t)' = {u} /\ {v \in User : role'[t][v] = "captain"} = {u}
    BY <2>2, <2>3, <2>4 DEF Live, Members
  <2>6. \A s \in Team \ {t} : (Live(s)' <=> Live(s)) /\ Members(s)' = Members(s)
    BY <2>2, <2>3 DEF Live, Members
  <2>7. /\ TeamsOf(u)' = TeamsOf(u) \cup {t}
        /\ \A v \in User \ {u} : TeamsOf(v)' = TeamsOf(v)
    BY <2>3, <2>4 DEF TeamsOf, Members
  <2>8. /\ Named(n)' = Named(n) \cup {t}
        /\ \A m \in Name \ {n} : Named(m)' = Named(m)
    BY <2>2, <2>4, <2>6 DEF Named, Live
  <2>9. TypeOK'
    <3>1. team' \in [Team -> [state : {"none", "live", "deleted"}, name : Name \cup {None},
                              captain : User \cup {None}]]
      BY <1>4 DEF IInv, TypeOK
    <3>2. role' \in [Team -> [User -> {"none", "captain", "member"}]]
      BY <1>4 DEF IInv, TypeOK
    <3> QED
      BY <1>2, <2>1, <3>1, <3>2 DEF IInv, TypeOK, ReqOK
  <2>10. Knows'
    <3>1. \A m \in Name : m \in {u, n} \/ Named(m)' \subseteq Named(m)
      BY <2>8
    <3>2. \A v \in User : v \in {u, n} \/ TeamsOf(v)' \subseteq TeamsOf(v)
      BY <2>7
    <3>3. \A s \in Team : team[s].state # "none" =>
            /\ team'[s].state # "none"
            /\ s \in {u, n} \/ Members(s)' \subseteq Members(s)
            /\ \A v \in User :
                 <<s, v>> \in {u, n} \/ role[s][v] # "member" \/ role'[s][v] = "member"
      BY <2>2, <2>3, <2>4, <2>6
    <3>4. \A s \in Submission : sub[s] # NoRow =>
            /\ sub'[s] # NoRow
            /\ s \in {u, n} \/ (sub'[s].score = sub[s].score /\ sub'[s].dated = sub[s].dated)
      BY <1>2
    <3> QED
      BY <2>1, <3>1, <3>2, <3>3, <3>4, OthersKnow
  <2>11. TeamsAreWhole'
    <3>1. {v \in User : role[t][v] = "captain"}' = {team'[t].captain}
      BY <2>2, <2>5
    <3>2. \A s \in Team \ {t} : team'[s] = team[s] /\ role'[s] = role[s]
      BY <2>2, <2>3
    <3> QED
      BY <1>2, <2>5, <2>6, <3>1, <3>2 DEF IInv, TeamsAreWhole
  <2>12. TeamsAgree'
    <3> SUFFICES ASSUME NEW v \in User, v \notin raced', NEW s \in TeamsOf(v)',
                        NEW o \in TeamsOf(v)'
                 PROVE  s = o
      BY DEF TeamsAgree
    <3>1. CASE v = u
      <4>1. TeamsOf(u) = {}
        BY <1>1, <1>2, <2>1, <3>1 DEF KnowsOf, KnowsUser, At
      <4> QED
        BY <2>7, <3>1, <4>1
    <3>2. CASE v # u
      BY <2>1, <2>7, <3>2 DEF IInv, TeamsAgree
    <3> QED
      BY <3>1, <3>2
  <2>13. NamesAgree'
    <3> SUFFICES ASSUME NEW m \in Name, m \notin raced', NEW s \in Named(m)',
                        NEW o \in Named(m)'
                 PROVE  s = o
      BY DEF NamesAgree
    <3>1. CASE m = n
      <4>1. Named(n) = {}
        BY <1>1, <1>2, <2>1, <3>1 DEF KnowsOf, KnowsName, At
      <4> QED
        BY <2>8, <3>1, <4>1
    <3>2. CASE m # n
      BY <2>1, <2>8, <3>2 DEF IInv, NamesAgree
    <3> QED
      BY <3>1, <3>2
  <2>14. Admitted'
    <3>1. limit[t] \in Sizes \cup {1}
      BY DEF IInv, TypeOK
    <3>2. 1 <= limit[t]
      BY <3>1, SizesArePositive
    <3>3. IsFiniteSet({u}) /\ Cardinality({u}) = 1
      BY FS_Singleton
    <3> QED
      BY <1>2, <2>1, <2>5, <2>6, <3>2, <3>3 DEF IInv, Admitted
  <2> QED
    BY <2>9, <2>10, <2>11, <2>12, <2>13, <2>14 DEF IInv
<1> QED
  BY <1>1, <1>3, <1>4 DEF CreateWrite

LEMMA JoinStep ==
  ASSUME IInv, NEW r \in Request, JoinWrite(r)
  PROVE  IInv'
<1>1. PICK u \in User, t \in Team : u = req[r].user /\ t = req[r].team
  BY DEF JoinWrite, At, IInv, TypeOK, Loaded
<1>2. /\ At(r, "join", "write") /\ req[r] # Idle /\ KnowsOf(r)
      /\ UNCHANGED <<hack, reg, team, sub>> /\ reg \subseteq User
  BY DEF JoinWrite, At, IInv, Knows, TypeOK
<1>3. CASE ~(Live(t) /\ u \notin Members(t))
  BY <1>1, <1>2, <1>3, EndStep DEF JoinWrite
<1>4. CASE Live(t) /\ u \notin Members(t)
  <2> DEFINE size == req[r].size
  <2>1. /\ role' = [role EXCEPT ![t][u] = "member"]
        /\ limit' = [limit EXCEPT ![t] = IF @ < size THEN size ELSE @]
        /\ Finish(r, {t, u})
    BY <1>1, <1>4 DEF JoinWrite
  <2>2. /\ ReqOK' /\ OthersKeep(r) /\ KnowsOf(r)'
        /\ \A q \in Request \ {r} :
             req[q] # Idle => {t, u} \cap About(req[q]) \subseteq req'[q].missed
        /\ raced' = raced \cup ({t, u} \cap req[r].missed)
        /\ raced' \subseteq Thing /\ raced \subseteq raced'
    BY <1>2, <2>1, Writes DEF Thing
  <2>3. /\ role[t][u] = "none"
        /\ role'[t][u] = "member" /\ \A v \in User \ {u} : role'[t][v] = role[t][v]
        /\ \A s \in Team \ {t} : role'[s] = role[s]
    BY <1>4, <2>1 DEF IInv, TypeOK, Members
  <2>4. /\ Members(t)' = Members(t) \cup {u}
        /\ \A s \in Team \ {t} : Members(s)' = Members(s)
        /\ \A s \in Team : Live(s)' <=> Live(s)
    BY <1>2, <2>3 DEF Members, Live
  <2>5. /\ TeamsOf(u)' = TeamsOf(u) \cup {t}
        /\ \A v \in User \ {u} : TeamsOf(v)' = TeamsOf(v)
    BY <2>3 DEF TeamsOf
  <2>6. \A m \in Name : Named(m)' = Named(m)
    BY <1>2 DEF Named, Live
  <2>7. /\ size \in Sizes /\ size \in Nat /\ limit[t] \in Sizes \cup {1} /\ limit[t] \in Nat
    BY <1>2, SizesArePositive DEF IInv, TypeOK, Loaded, At
  <2>8. /\ limit'[t] \in Sizes \cup {1} /\ limit'[t] \in Nat /\ limit'[t] >= size
        /\ limit'[t] >= limit[t] /\ \A s \in Team \ {t} : limit'[s] = limit[s]
    BY <2>1, <2>7 DEF IInv, TypeOK
  <2> HIDE DEF size
  <2>9. TypeOK'
    <3>1. role' \in [Team -> [User -> {"none", "captain", "member"}]]
      BY <2>1 DEF IInv, TypeOK
    <3>2. limit' \in [Team -> Sizes \cup {1}]
      BY <2>1, <2>7 DEF IInv, TypeOK
    <3> QED
      BY <1>2, <2>2, <3>1, <3>2 DEF IInv, TypeOK, ReqOK
  <2>10. Knows'
    <3>1. \A m \in Name : m \in {t, u} \/ Named(m)' \subseteq Named(m)
      BY <2>6
    <3>2. \A v \in User : v \in {t, u} \/ TeamsOf(v)' \subseteq TeamsOf(v)
      BY <2>5
    <3>3. \A s \in Team : team[s].state # "none" =>
            /\ team'[s].state # "none"
            /\ s \in {t, u} \/ Members(s)' \subseteq Members(s)
            /\ \A v \in User :
                 <<s, v>> \in {t, u} \/ role[s][v] # "member" \/ role'[s][v] = "member"
      BY <1>2, <2>3, <2>4
    <3>4. \A s \in Submission : sub[s] # NoRow =>
            /\ sub'[s] # NoRow
            /\ s \in {t, u} \/ (sub'[s].score = sub[s].score /\ sub'[s].dated = sub[s].dated)
      BY <1>2
    <3> QED
      BY <2>2, <3>1, <3>2, <3>3, <3>4, OthersKnow
  <2>11. TeamsAreWhole'
    <3>1. \A s \in Team : {v \in User : role[s][v] = "captain"}'
                            = {v \in User : role[s][v] = "captain"}
      BY <2>3
    <3> QED
      BY <1>2, <1>4, <2>4, <3>1 DEF IInv, TeamsAreWhole
  <2>12. TeamsAgree'
    <3> SUFFICES ASSUME NEW v \in User, v \notin raced', NEW s \in TeamsOf(v)',
                        NEW o \in TeamsOf(v)'
                 PROVE  s = o
      BY DEF TeamsAgree
    <3>1. CASE v = u
      <4>1. TeamsOf(u) = {}
        BY <1>1, <1>2, <2>2, <3>1 DEF KnowsOf, KnowsUser, At
      <4> QED
        BY <2>5, <3>1, <4>1
    <3>2. CASE v # u
      BY <2>2, <2>5, <3>2 DEF IInv, TeamsAgree
    <3> QED
      BY <3>1, <3>2
  <2>13. NamesAgree'
    BY <2>2, <2>6 DEF IInv, NamesAgree
  <2>14. Admitted'
    <3>1. IsFiniteSet(Members(t)) /\ Cardinality(Members(t)) \in Nat
      BY FS_CardinalityType DEF IInv, Admitted
    <3>2. /\ IsFiniteSet(Members(t)')
          /\ Cardinality(Members(t)') = Cardinality(Members(t)) + 1
      BY <1>4, <2>4, <3>1, FS_AddElement
    <3>3. ASSUME t \notin raced' PROVE Cardinality(Members(t)') <= limit'[t]
      <4>1. Cardinality(Members(t)) < size
        BY <1>1, <1>2, <2>2, <3>3 DEF KnowsOf, KnowsSize, At, size
      <4> QED
        BY <2>7, <2>8, <3>1, <3>2, <4>1
    <3> QED
      BY <2>2, <2>4, <2>8, <3>2, <3>3 DEF IInv, Admitted
  <2> QED
    BY <2>9, <2>10, <2>11, <2>12, <2>13, <2>14 DEF IInv
<1> QED
  BY <1>3, <1>4

\* The row that leaves is still the member's, or the request has missed that it is not.
LEMMA LeaveStep ==
  ASSUME IInv, NEW r \in Request, LeaveWrite(r)
  PROVE  IInv'
<1>1. PICK u \in User, t \in Team : u = req[r].user /\ t = req[r].team
  BY DEF LeaveWrite, At, IInv, TypeOK, Loaded
<1>2. /\ At(r, "leave", "write") /\ req[r] # Idle /\ KnowsOf(r)
      /\ UNCHANGED <<hack, reg, team, sub, limit>> /\ reg \subseteq User
  BY DEF LeaveWrite, At, IInv, Knows, TypeOK
<1>3. CASE <<t, u>> \in req[r].missed
  BY <1>1, <1>2, <1>3, EndStep DEF LeaveWrite, history
<1>4. CASE <<t, u>> \notin req[r].missed
  <2>1. /\ role' = [role EXCEPT ![t][u] = "none"]
        /\ Finish(r, {<<t, u>>})
    BY <1>1, <1>4 DEF LeaveWrite
  <2>2. /\ ReqOK' /\ OthersKeep(r) /\ KnowsOf(r)'
        /\ \A q \in Request \ {r} :
             req[q] # Idle => {<<t, u>>} \cap About(req[q]) \subseteq req'[q].missed
        /\ raced' \subseteq Thing /\ raced \subseteq raced'
    BY <1>2, <2>1, Writes DEF Thing
  <2>3. /\ role[t][u] = "member"
        /\ role'[t][u] = "none" /\ \A v \in User \ {u} : role'[t][v] = role[t][v]
        /\ \A s \in Team \ {t} : role'[s] = role[s]
    BY <1>1, <1>2, <1>4, <2>1 DEF IInv, TypeOK, KnowsOf, KnowsRole, At
  <2>4. /\ \A s \in Team : (Live(s)' <=> Live(s)) /\ Members(s)' \subseteq Members(s)
        /\ \A v \in User : TeamsOf(v)' \subseteq TeamsOf(v)
        /\ \A m \in Name : Named(m)' = Named(m)
    BY <1>2, <2>3 DEF Members, Live, TeamsOf, Named
  <2>5. TypeOK'
    <3>1. role' \in [Team -> [User -> {"none", "captain", "member"}]]
      BY <2>1 DEF IInv, TypeOK
    <3> QED
      BY <1>2, <2>2, <3>1 DEF IInv, TypeOK, ReqOK
  <2>6. Knows'
    <3>1. \A s \in Team : team[s].state # "none" =>
            /\ team'[s].state # "none"
            /\ s \in {<<t, u>>} \/ Members(s)' \subseteq Members(s)
            /\ \A v \in User :
                 <<s, v>> \in {<<t, u>>} \/ role[s][v] # "member" \/ role'[s][v] = "member"
      BY <1>2, <2>3, <2>4
    <3>2. \A s \in Submission : sub[s] # NoRow =>
            /\ sub'[s] # NoRow
            /\ s \in {<<t, u>>} \/ (sub'[s].score = sub[s].score /\ sub'[s].dated = sub[s].dated)
      BY <1>2
    <3> QED
      BY <2>2, <2>4, <3>1, <3>2, OthersKnow
  <2>7. TeamsAreWhole'
    <3>1. \A s \in Team : {v \in User : role[s][v] = "captain"}'
                            = {v \in User : role[s][v] = "captain"}
      BY <2>3
    <3>2. \A s \in Team : ~Live(s)' => Members(s)' = {}
      BY <2>4 DEF IInv, TeamsAreWhole
    <3> QED
      BY <1>2, <2>4, <3>1, <3>2 DEF IInv, TeamsAreWhole
  <2>8. TeamsAgree' /\ NamesAgree'
    BY <2>2, <2>4 DEF IInv, TeamsAgree, NamesAgree
  <2>9. Admitted'
    BY <1>2, <2>2, <2>4, FewerFit DEF IInv
  <2> QED
    BY <2>5, <2>6, <2>7, <2>8, <2>9 DEF IInv
<1> QED
  BY <1>3, <1>4

LEMMA DisbandStep ==
  ASSUME IInv, NEW r \in Request, DisbandWrite(r)
  PROVE  IInv'
<1>1. PICK t \in Team : t = req[r].team
  BY DEF DisbandWrite, At, IInv, TypeOK, Loaded
<1> DEFINE W == {t} \X Members(t)
<1>2. /\ req[r] # Idle /\ UNCHANGED <<hack, reg, limit>> /\ reg \subseteq User
      /\ team' = [team EXCEPT ![t].state = "deleted"]
      /\ role' = [role EXCEPT ![t] = [u \in User |-> "none"]]
      /\ sub' = [s \in Submission |-> IF sub[s] # NoRow /\ sub[s].team = t
                                      THEN [sub[s] EXCEPT !.team = None] ELSE sub[s]]
      /\ Finish(r, W)
  BY <1>1 DEF DisbandWrite, At, IInv, TypeOK
<1>3. /\ ReqOK' /\ OthersKeep(r) /\ KnowsOf(r)'
      /\ \A q \in Request \ {r} :
           req[q] # Idle => W \cap About(req[q]) \subseteq req'[q].missed
      /\ raced' \subseteq Thing /\ raced \subseteq raced'
  <2>1. W \in SUBSET Thing
    BY DEF Thing, Members
  <2> HIDE DEF W
  <2> QED
    BY <1>2, <2>1, Writes
<1>4. /\ team'[t].state = "deleted" /\ \A s \in Team \ {t} : team'[s] = team[s]
      /\ \A u \in User : role'[t][u] = "none"
      /\ \A s \in Team \ {t} : role'[s] = role[s]
  BY <1>2 DEF IInv, TypeOK
<1>5. ASSUME NEW s \in Submission
      PROVE  /\ sub'[s] \in SubRow \cup {NoRow} /\ (sub[s] = NoRow <=> sub'[s] = NoRow)
             /\ sub[s] # NoRow =>
                  /\ sub'[s].score = sub[s].score /\ sub'[s].dated = sub[s].dated
                  /\ sub'[s].team # t /\ sub'[s].team \in {sub[s].team, None}
  <2>1. sub[s] \in SubRow \cup {NoRow} /\ None # t
    BY NamesAssumption DEF IInv, TypeOK
  <2>2. CASE sub[s] # NoRow /\ sub[s].team = t
    <3>1. sub'[s] = [sub[s] EXCEPT !.team = None] /\ sub[s] \in SubRow
      BY <1>2, <2>1, <2>2
    <3>2. /\ [sub[s] EXCEPT !.team = None] \in SubRow
          /\ [sub[s] EXCEPT !.team = None].score = sub[s].score
          /\ [sub[s] EXCEPT !.team = None].dated = sub[s].dated
          /\ [sub[s] EXCEPT !.team = None].team = None
      BY <3>1 DEF SubRow
    <3> QED
      BY <2>1, <2>2, <3>1, <3>2, Kinds
  <2>3. CASE ~(sub[s] # NoRow /\ sub[s].team = t)
    BY <1>2, <2>1, <2>3
  <2> QED
    BY <2>2, <2>3
<1>6. /\ Members(t)' = {} /\ ~Live(t)'
      /\ \A s \in Team \ {t} : (Live(s)' <=> Live(s)) /\ Members(s)' = Members(s)
      /\ \A s \in Team : Members(s)' \subseteq Members(s)
      /\ \A v \in User : TeamsOf(v)' \subseteq TeamsOf(v)
      /\ \A m \in Name : Named(m)' \subseteq Named(m)
  BY <1>4 DEF Members, Live, TeamsOf, Named
<1>7. TypeOK'
  <2>1. team' \in [Team -> [state : {"none", "live", "deleted"}, name : Name \cup {None},
                            captain : User \cup {None}]]
    BY <1>2 DEF IInv, TypeOK
  <2>2. role' \in [Team -> [User -> {"none", "captain", "member"}]]
    BY <1>2 DEF IInv, TypeOK
  <2>3. sub' \in [Submission -> SubRow \cup {NoRow}]
    BY <1>2, <1>5
  <2> QED
    BY <1>2, <1>3, <2>1, <2>2, <2>3 DEF IInv, TypeOK, ReqOK
<1>8. Knows'
  <2>1. \A m \in Name : m \in W \/ Named(m)' \subseteq Named(m)
    BY <1>6
  <2>2. \A v \in User : v \in W \/ TeamsOf(v)' \subseteq TeamsOf(v)
    BY <1>6
  <2>3. ASSUME NEW s \in Team, team[s].state # "none"
        PROVE  /\ team'[s].state # "none"
               /\ s \in W \/ Members(s)' \subseteq Members(s)
               /\ \A v \in User :
                    <<s, v>> \in W \/ role[s][v] # "member" \/ role'[s][v] = "member"
    <3>1. CASE s = t
      BY <1>4, <1>6, <3>1 DEF Members
    <3>2. CASE s # t
      BY <1>4, <1>6, <2>3, <3>2
    <3> QED
      BY <3>1, <3>2
  <2>4. \A s \in Submission : sub[s] # NoRow =>
          /\ sub'[s] # NoRow
          /\ s \in W \/ (sub'[s].score = sub[s].score /\ sub'[s].dated = sub[s].dated)
    BY <1>5
  <2> HIDE DEF W
  <2> QED
    BY <1>3, <2>1, <2>2, <2>3, <2>4, OthersKnow
<1>9. TeamsAreWhole'
  <2> SUFFICES ASSUME NEW s \in Team
               PROVE  /\ Live(s)' => {u \in User : role'[s][u] = "captain"} = {team'[s].captain}
                      /\ ~Live(s)' => Members(s)' = {}
                      /\ \A e \in Submission : sub'[e] # NoRow /\ sub'[e].team = s => Live(s)'
    BY DEF TeamsAreWhole
  <2>1. CASE s = t
    BY <1>5, <1>6, <2>1
  <2>2. CASE s # t
    <3>1. s # None
      BY NamesAssumption
    <3>2. \A e \in Submission : sub'[e] # NoRow /\ sub'[e].team = s =>
                                  sub[e] # NoRow /\ sub[e].team = s
      BY <1>5, <3>1
    <3> QED
      BY <1>4, <1>6, <2>2, <3>2 DEF IInv, TeamsAreWhole
  <2> QED
    BY <2>1, <2>2
<1>10. TeamsAgree' /\ NamesAgree'
  BY <1>3, <1>6 DEF IInv, TeamsAgree, NamesAgree
<1>11. Admitted'
  BY <1>2, <1>3, <1>6, FewerFit DEF IInv
<1> QED
  BY <1>7, <1>8, <1>9, <1>10, <1>11 DEF IInv

\* A disbanded team takes neither scores nor dates with it.
LEMMA DisbandKeeps ==
  ASSUME IInv, NEW r \in Request, DisbandWrite(r), NEW s \in Submission, sub[s] # NoRow
  PROVE  sub'[s].score = sub[s].score /\ sub'[s].dated = sub[s].dated
<1>1. sub[s] \in SubRow
  BY DEF IInv, TypeOK
<1>2. sub'[s] \in {sub[s], [sub[s] EXCEPT !.team = None]}
  BY DEF DisbandWrite
<1> QED
  BY <1>1, <1>2 DEF SubRow

\* A step that changes no more than the submissions, none of which changes its team
\* or goes, and the date and score of no other than entry e.
LEMMA EntryStep ==
  ASSUME IInv, NEW r \in Request, NEW W, ReqOK', OthersKeep(r), KnowsOf(r)',
         \A q \in Request \ {r} : req[q] # Idle => W \cap About(req[q]) \subseteq req'[q].missed,
         sub' \in [Submission -> SubRow \cup {NoRow}],
         \A s \in Submission : sub[s] # NoRow =>
           /\ sub'[s] # NoRow /\ sub'[s].team = sub[s].team
           /\ s \in W \/ (sub'[s].score = sub[s].score /\ sub'[s].dated = sub[s].dated),
         \A s \in Submission, t \in Team :
           sub[s] = NoRow /\ sub'[s] # NoRow /\ sub'[s].team = t => Live(t),
         raced \subseteq raced', raced' \subseteq Thing,
         UNCHANGED <<hack, reg, team, role, limit>>
  PROVE  IInv'
<1>1. TypeOK'
  BY DEF IInv, TypeOK, ReqOK
<1>2. /\ \A t \in Team : (Live(t)' <=> Live(t)) /\ Members(t)' = Members(t)
      /\ \A u \in User : TeamsOf(u)' = TeamsOf(u)
      /\ \A n \in Name : Named(n)' = Named(n)
  BY DEF Live, Members, TeamsOf, Named
<1>3. Knows'
  <2>1. \A n \in Name : n \in W \/ Named(n)' \subseteq Named(n)
    BY <1>2
  <2>2. \A u \in User : u \in W \/ TeamsOf(u)' \subseteq TeamsOf(u)
    BY <1>2
  <2>3. \A t \in Team : team[t].state # "none" =>
          /\ team'[t].state # "none"
          /\ t \in W \/ Members(t)' \subseteq Members(t)
          /\ \A u \in User : <<t, u>> \in W \/ role[t][u] # "member" \/ role'[t][u] = "member"
    BY <1>2
  <2>4. \A s \in Submission : sub[s] # NoRow =>
          /\ sub'[s] # NoRow
          /\ s \in W \/ (sub'[s].score = sub[s].score /\ sub'[s].dated = sub[s].dated)
    OBVIOUS
  <2> QED
    BY <2>1, <2>2, <2>3, <2>4, OthersKnow
<1>4. TeamsAreWhole'
  <2>1. \A s \in Submission, t \in Team : sub'[s] # NoRow /\ sub'[s].team = t => Live(t)
    BY DEF IInv, TeamsAreWhole
  <2> QED
    BY <1>2, <2>1 DEF IInv, TeamsAreWhole
<1>5. TeamsAgree' /\ NamesAgree'
  BY <1>2 DEF IInv, TeamsAgree, NamesAgree
<1>6. Admitted'
  BY <1>2, FewerFit DEF IInv
<1> QED
  BY <1>1, <1>3, <1>4, <1>5, <1>6 DEF IInv

LEMMA SubmitStep ==
  ASSUME IInv, NEW r \in Request, SubmitWrite(r)
  PROVE  IInv'
<1>1. /\ End(r) /\ req[r] # Idle /\ UNCHANGED <<hack, reg, team, role, history>>
      /\ UNCHANGED <<limit, raced>> /\ reg \subseteq User /\ raced \subseteq Thing
      /\ TypeOK /\ req[r] \in Requests
  BY Parts DEF SubmitWrite, At, IInv, TypeOK, history
<1>2. CASE UNCHANGED sub
  BY <1>1, <1>2, EndStep
<1>3. ASSUME NEW s \in Submission, NEW submitted \in BOOLEAN, sub[s] = NoRow,
             req[r].team # None => Live(req[r].team),
             sub' = [sub EXCEPT ![s] =
                       [team |-> req[r].team,
                        user |-> IF req[r].team = None THEN req[r].user ELSE None,
                        score |-> FALSE, dated |-> submitted]]
      PROVE  IInv'
  <2> DEFINE u   == IF req[r].team = None THEN req[r].user ELSE None
             row == [team |-> req[r].team, user |-> u, score |-> FALSE, dated |-> submitted]
  <2>1. req[r].team \in Team \cup {None} /\ u \in User \cup {None} /\ FALSE \in BOOLEAN
    BY <1>1 DEF Requests
  <2>2. row \in SubRow
    <3> HIDE DEF u
    <3> QED
      BY <2>1, Zenon DEF SubRow
  <2>3. row.team = req[r].team
    OBVIOUS
  <2>4. sub' = [sub EXCEPT ![s] = row]
    BY <1>3
  <2> HIDE DEF row
  <2>5. /\ sub' \in [Submission -> SubRow \cup {NoRow}] /\ sub'[s] = row
        /\ \A e \in Submission \ {s} : sub'[e] = sub[e]
    BY <1>1, <2>2, <2>4 DEF TypeOK
  <2>6. /\ ReqOK' /\ OthersKeep(r) /\ KnowsOf(r)'
        /\ \A q \in Request \ {r} : req[q] # Idle => {} \cap About(req[q]) \subseteq req'[q].missed
    BY <1>1, Ends, KnowsIdle
  <2>7. \A e \in Submission : sub[e] # NoRow =>
          /\ sub'[e] # NoRow /\ sub'[e].team = sub[e].team
          /\ e \in {} \/ (sub'[e].score = sub[e].score /\ sub'[e].dated = sub[e].dated)
    BY <1>3, <2>5
  <2>8. \A e \in Submission, t \in Team :
          sub[e] = NoRow /\ sub'[e] # NoRow /\ sub'[e].team = t => Live(t)
    BY <1>3, <2>3, <2>5, NamesAssumption
  <2> QED
    BY <1>1, <2>5, <2>6, <2>7, <2>8, EntryStep
<1> QED
  BY <1>1, <1>2, <1>3 DEF SubmitWrite

\* The row that a patch or a judgement writes.
LEMMA Rewrites ==
  ASSUME TypeOK, NEW s \in Submission, sub[s] # NoRow,
         NEW score \in BOOLEAN, NEW dated \in BOOLEAN,
         sub' = [sub EXCEPT ![s].score = score, ![s].dated = dated]
  PROVE  /\ sub' \in [Submission -> SubRow \cup {NoRow}]
         /\ sub'[s].score = score /\ sub'[s].dated = dated /\ sub'[s].team = sub[s].team
         /\ sub'[s] # NoRow
         /\ \A e \in Submission \ {s} : sub'[e] = sub[e]
<1> DEFINE row == [sub[s] EXCEPT !.score = score, !.dated = dated]
<1>1. sub[s] \in SubRow
  BY DEF TypeOK
<1>2. row \in SubRow
  BY <1>1, Zenon DEF SubRow
<1>3. row.score = score /\ row.dated = dated /\ row.team = sub[s].team
  BY <1>1 DEF SubRow
<1>4. sub' = [sub EXCEPT ![s] = row]
  BY DEF TypeOK
<1> HIDE DEF row
<1>5. sub'[s] = row /\ \A e \in Submission \ {s} : sub'[e] = sub[e]
  BY <1>4 DEF TypeOK
<1>6. sub' \in [Submission -> SubRow \cup {NoRow}]
  BY <1>2, <1>4 DEF TypeOK
<1> QED
  BY <1>2, <1>3, <1>5, <1>6, Kinds

\* What a patch or a judgement does to its entry.
LEMMA EntryWrites ==
  ASSUME IInv, NEW r \in Request, PatchWrite(r) \/ JudgeWrite(r)
  PROVE  LET s == req[r].entry IN
         /\ s \in Submission /\ sub[s] # NoRow /\ req[r] # Idle
         /\ sub' \in [Submission -> SubRow \cup {NoRow}]
         /\ sub'[s] # NoRow /\ sub'[s].team = sub[s].team
         /\ \A e \in Submission \ {s} : sub'[e] = sub[e]
         /\ Finish(r, {s}) /\ UNCHANGED <<hack, reg, team, role, limit>>
         /\ s \notin req[r].missed =>
              /\ sub[s].score => sub'[s].score
              /\ sub[s].dated => sub'[s].dated
<1> DEFINE s   == req[r].entry
           old == req[r].copy
<1>1. /\ req[r] # Idle /\ s \in Submission /\ sub[s] # NoRow /\ old \in SubRow
      /\ s \notin req[r].missed => sub[s].score = old.score /\ sub[s].dated = old.dated
      /\ Finish(r, {s}) /\ UNCHANGED <<hack, reg, team, role, limit>> /\ TypeOK
  BY DEF PatchWrite, JudgeWrite, At, IInv, TypeOK, Loaded, Knows, KnowsOf, KnowsEntry
<1>2. old.score \in BOOLEAN /\ old.dated \in BOOLEAN
  BY <1>1 DEF SubRow
<1>3. PICK score \in BOOLEAN, dated \in BOOLEAN :
        /\ sub' = [sub EXCEPT ![s].score = score, ![s].dated = dated]
        /\ (old.score => score) /\ (old.dated => dated)
  <2>1. CASE PatchWrite(r)
    <3>1. PICK submitted \in BOOLEAN :
            sub' = [sub EXCEPT ![s].score = old.score, ![s].dated = old.dated \/ submitted]
      BY <2>1 DEF PatchWrite
    <3>2. (old.dated \/ submitted) \in BOOLEAN
      OBVIOUS
    <3> HIDE DEF s, old
    <3> QED
      BY <1>2, <3>1, <3>2, Zenon
  <2>2. CASE JudgeWrite(r)
    <3>1. sub' = [sub EXCEPT ![s].score = TRUE, ![s].dated = old.dated]
      BY <2>2 DEF JudgeWrite
    <3> HIDE DEF s, old
    <3> QED
      BY <1>2, <3>1, Zenon
  <2> QED
    BY <2>1, <2>2
<1>4. /\ sub' \in [Submission -> SubRow \cup {NoRow}]
      /\ sub'[s].score = score /\ sub'[s].dated = dated /\ sub'[s].team = sub[s].team
      /\ sub'[s] # NoRow
      /\ \A e \in Submission \ {s} : sub'[e] = sub[e]
  <2> HIDE DEF s
  <2> QED
    BY <1>1, <1>3, Rewrites
<1> QED
  BY <1>1, <1>3, <1>4

LEMMA EntrySteps ==
  ASSUME IInv, NEW r \in Request, PatchWrite(r) \/ JudgeWrite(r)
  PROVE  IInv'
<1>1. PICK s : s = req[r].entry
  OBVIOUS
<1>2. /\ s \in Submission /\ sub[s] # NoRow /\ req[r] # Idle
      /\ sub' \in [Submission -> SubRow \cup {NoRow}]
      /\ sub'[s] # NoRow /\ sub'[s].team = sub[s].team
      /\ \A e \in Submission \ {s} : sub'[e] = sub[e]
      /\ Finish(r, {s}) /\ UNCHANGED <<hack, reg, team, role, limit>>
  BY <1>1, EntryWrites
<1>3. /\ ReqOK' /\ OthersKeep(r) /\ KnowsOf(r)'
      /\ \A q \in Request \ {r} :
           req[q] # Idle => {s} \cap About(req[q]) \subseteq req'[q].missed
      /\ raced' \subseteq Thing /\ raced \subseteq raced'
  BY <1>2, Writes DEF Thing
<1>4. \A e \in Submission : sub[e] # NoRow =>
        /\ sub'[e] # NoRow /\ sub'[e].team = sub[e].team
        /\ e \in {s} \/ (sub'[e].score = sub[e].score /\ sub'[e].dated = sub[e].dated)
  BY <1>2
<1>5. \A e \in Submission, t \in Team :
        sub[e] = NoRow /\ sub'[e] # NoRow /\ sub'[e].team = t => Live(t)
  BY <1>2
<1> QED
  BY <1>2, <1>3, <1>4, <1>5, EntryStep

-----------------------------------------------------------------------------
(* The theorems *)

LEMMA NextStep == IInv /\ [Next]_vars => IInv'
<1> SUFFICES ASSUME IInv, [Next]_vars PROVE IInv'
  OBVIOUS
<1>1. CASE UNCHANGED vars
  <2>1. UNCHANGED <<hack, reg, team, role, sub, req, raced, limit>>
    BY <1>1 DEF vars, tables, history
  <2>2. TypeOK'
    BY <2>1 DEF IInv, TypeOK
  <2>3. Knows'
    BY <2>1 DEF IInv, Knows, KnowsOf, KnowsName, KnowsUser, KnowsSize, KnowsRole,
       KnowsEntry, At, Named, Live, TeamsOf, Members
  <2>4. TeamsAreWhole'
    BY <2>1 DEF IInv, TeamsAreWhole, Live, Members
  <2>5. TeamsAgree' /\ NamesAgree' /\ Admitted'
    BY <2>1 DEF IInv, TeamsAgree, NamesAgree, Admitted, TeamsOf, Named, Live, Members
  <2> QED
    BY <2>2, <2>3, <2>4, <2>5 DEF IInv
<1>2. ASSUME NEW r \in Request, Fail(r) PROVE IInv'
  BY <1>2, EndStep DEF Fail, tables, IInv, TypeOK
<1>3. CASE Close \/ EditHackathon
  BY <1>3, HackSteps
<1>4. ASSUME NEW r \in Request, NEW u \in User,
             \/ RegisterBegin(r, u) \/ CancelBegin(r, u)
             \/ \E n \in Name : CreateBegin(r, u, n)
             \/ \E t \in Team : JoinBegin(r, u, t) \/ LeaveBegin(r, u, t)
             \/ \E t \in Team \cup {None} : SubmitBegin(r, u, t)
             \/ \E s \in Submission : PatchBegin(r, u, s)
      PROVE  IInv'
  BY <1>4, BeginSteps, JoinBeginStep, EntryBegins
<1>5. ASSUME NEW r \in Request,
             \/ RegisterWrite(r) \/ CancelWrite(r)
             \/ CreateName(r) \/ MemberCheck(r) \/ CreateWrite(r)
             \/ JoinCount(r) \/ JoinWrite(r) \/ LeaveWrite(r) \/ DisbandWrite(r)
             \/ SubmitWrite(r) \/ PatchOwner(r) \/ PatchWrite(r)
             \/ (\E s \in Submission : JudgeBegin(r, s)) \/ JudgeWrite(r)
      PROVE  IInv'
  BY <1>5, RegistrationWrites, Checks, CreateStep, JoinStep, LeaveStep, DisbandStep,
     SubmitStep, EntrySteps, EntryBegins
<1> QED
  BY <1>1, <1>2, <1>3, <1>4, <1>5 DEF Next

LEMMA Invariance == Spec => []IInv
BY InitInv, NextStep, PTL DEF Spec

\* Rows and requests keep their types: no statement writes a row that is not there.
THEOREM TypeCorrect == Spec => []TypeOK
<1>1. IInv => TypeOK
  BY DEF IInv
<1> QED
  BY Invariance, <1>1, PTL

\* Whatever joins, leaves and disbandings overlap, a live team has the captain its
\* row names and no other, and one that is disbanded has neither members nor entries.
THEOREM TeamsStayWhole == Spec => []TeamsAreWhole
<1>1. IInv => TeamsAreWhole
  BY DEF IInv
<1> QED
  BY Invariance, <1>1, PTL

\* A user is in more than one team only through requests that overtook each other.
THEOREM OneTeam == Spec => []OneTeamEach
<1>1. IInv => OneTeamEach
  <2> SUFFICES ASSUME IInv, NEW u \in User, u \notin raced
               PROVE  Cardinality(TeamsOf(u)) <= 1
    BY DEF OneTeamEach
  <2>1. \A s, t \in TeamsOf(u) : s = t
    BY DEF IInv, TeamsAgree
  <2> QED
    BY <2>1, AtMostOne
<1> QED
  BY Invariance, <1>1, PTL

\* Unless a join was overtaken, a team keeps to the sizes its members joined under.
THEOREM TeamsFit == Spec => []TeamFits
<1>1. IInv => TeamFits
  BY DEF IInv, Admitted, TeamFits
<1> QED
  BY Invariance, <1>1, PTL

\* Two live teams share a name only if their creations overlapped.
THEOREM NamesDiffer == Spec => []NamesUnique
<1>1. IInv => NamesUnique
  <2> SUFFICES ASSUME IInv, NEW n \in Name, n \notin raced
               PROVE  Cardinality(Named(n)) <= 1
    BY DEF NamesUnique
  <2>1. \A s, t \in Named(n) : s = t
    BY DEF IInv, NamesAgree
  <2> QED
    BY <2>1, AtMostOne
<1> QED
  BY Invariance, <1>1, PTL

\* A score or a date is erased only by a write whose copy of the row was outdated.
THEOREM ScoresAreKept == Spec => NothingErased
<1> DEFINE Keeps == \A s \in Submission : sub[s] # NoRow /\ s \notin raced' =>
                      /\ sub[s].score => sub'[s].score
                      /\ sub[s].dated => sub'[s].dated
<1>1. IInv /\ [Next]_vars => [Keeps]_vars
  <2> SUFFICES ASSUME IInv, Next PROVE Keeps
    OBVIOUS
  <2>1. CASE UNCHANGED sub
    BY <2>1
  <2>2. ASSUME NEW r \in Request, DisbandWrite(r) PROVE Keeps
    BY <2>2, DisbandKeeps
  <2>3. ASSUME NEW r \in Request, SubmitWrite(r) PROVE Keeps
    BY <2>3 DEF SubmitWrite, IInv, TypeOK
  <2>4. ASSUME NEW r \in Request, PatchWrite(r) \/ JudgeWrite(r) PROVE Keeps
    <3>1. PICK e : e = req[r].entry
      OBVIOUS
    <3>2. /\ e \in Submission /\ req[r] # Idle /\ Finish(r, {e})
          /\ \A s \in Submission \ {e} : sub'[s] = sub[s]
          /\ e \notin req[r].missed => /\ sub[e].score => sub'[e].score
                                       /\ sub[e].dated => sub'[e].dated
      BY <2>4, <3>1, EntryWrites
    <3>3. e \in req[r].missed => e \in raced'
      BY <3>2 DEF Finish
    <3> QED
      BY <3>2, <3>3
  <2> QED
    BY <2>1, <2>2, <2>3, <2>4 DEF Next, Close, EditHackathon, RegisterBegin, CancelBegin,
       CreateBegin, JoinBegin, LeaveBegin, SubmitBegin, PatchBegin, JudgeBegin, tables,
       RegisterWrite, CancelWrite, CreateName, MemberCheck, CreateWrite, JoinCount,
       JoinWrite, LeaveWrite, PatchOwner, Fail
<1> QED
  BY Invariance, <1>1, PTL DEF Spec, NothingErased

=============================================================================
