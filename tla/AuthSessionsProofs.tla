-------------------------- MODULE AuthSessionsProofs --------------------------
(***************************************************************************)
(* Theorems about AuthSessions, for any users, tokens, links and requests, *)
(* and any number of password changes and faults.                          *)
(***************************************************************************)
EXTENDS AuthSessions, TLAPS

-----------------------------------------------------------------------------
(* The inductive invariants behind the properties *)

\* A handler carries what its operation was called with.
Carries ==
  \A r \in Request :
    /\ req[r].op = "refresh" => req[r].token \in Token
    /\ req[r].op = "confirm" => req[r].link \in Link
    /\ req[r].pc \in {"send", "drop"} => req[r].link \in Link
    /\ req[r].pc = "issue" => req[r].op \in {"login", "refresh"}

TypeInv == TypeOK /\ Carries

\* Stored tokens, and those that requests present, descend from a login.
Rooted ==
  /\ \A t \in Token : refresh[t] # None => family[t] # None
  /\ \A t \in Token : family[t] # None => family[family[t]] # None
  /\ \A r \in Request : req[r].op = "refresh" => family[req[r].token] # None

\* A reset request holds its user's row from the lock to the commit, and by the
\* time it inserts, the rows of all the links of that user.
Holding ==
  \A r \in Request :
    /\ At(r, "forgot", "delete") \/ At(r, "forgot", "insert") => rowLock[req[r].user] = r
    /\ At(r, "forgot", "insert") => \A l \in LinksOf(req[r].user) : rowLock[l] = r

\* A link that can still be used has not been.
Unspent == \A l \in Link : link[l].state \in {"none", "live"} => spent[l] = 0

-----------------------------------------------------------------------------
(* Type correctness *)

ReqOK == req \in [Request -> Serving \cup {Idle}] /\ Carries

\* A request with the program counter of a handler has the record of one.
LEMMA Busy ==
  ASSUME TypeOK, NEW r \in Request, req[r].pc \in Pc
  PROVE  req[r] \in Serving
BY DEF TypeOK, Idle, Pc

\* Starting a request keeps the type of req.
LEMMA StartKeeps ==
  ASSUME TypeInv, NEW r \in Request, NEW op \in Op,
         NEW pc \in Pc \ {"send", "drop", "issue"}, NEW u \in User,
         NEW t \in Token \cup {None}, NEW l \in Link \cup {None}, NEW v \in Nat,
         op = "refresh" => t \in Token, op = "confirm" => l \in Link,
         Start(r, op, pc, u, t, l, v)
  PROVE  ReqOK'
<1> DEFINE new == [op |-> op, pc |-> pc, user |-> u, token |-> t, link |-> l, seen |-> v]
<1>1. new \in Serving
  BY DEF Serving
<1>2. req' = [req EXCEPT ![r] = new]
  BY DEF Start
<1>3. req' \in [Request -> Serving \cup {Idle}]
  BY <1>1, <1>2 DEF TypeInv, TypeOK
<1>4. Carries'
  BY <1>2 DEF TypeInv, TypeOK, Carries
<1> QED
  BY <1>3, <1>4 DEF ReqOK

\* Moving a request on keeps the type of req.
LEMMA GotoKeeps ==
  ASSUME TypeInv, NEW r \in Request, req[r].pc \in Pc, NEW pc \in Pc,
         pc \in {"send", "drop"} => req[r].link \in Link,
         pc = "issue" => req[r].op \in {"login", "refresh"},
         Goto(r, pc)
  PROVE  ReqOK'
<1>1. req[r] \in Serving
  BY Busy DEF TypeInv
<1>2. [req[r] EXCEPT !.pc = pc] \in Serving
  BY <1>1 DEF Serving
<1>3. req' = [req EXCEPT ![r] = [req[r] EXCEPT !.pc = pc]]
  BY DEF Goto, TypeInv, TypeOK
<1>4. req' \in [Request -> Serving \cup {Idle}]
  BY <1>2, <1>3 DEF TypeInv, TypeOK
<1>5. ASSUME NEW q \in Request
      PROVE  /\ q # r => req'[q] = req[q]
             /\ req'[r].pc = pc /\ req'[r].op = req[r].op
             /\ req'[r].token = req[r].token /\ req'[r].link = req[r].link
  BY <1>1, <1>3 DEF TypeInv, TypeOK, Serving
<1>6. Carries'
  BY <1>5 DEF TypeInv, Carries
<1> QED
  BY <1>4, <1>6 DEF ReqOK

\* Ending a request keeps the type of req.
LEMMA EndKeeps ==
  ASSUME TypeInv, NEW r \in Request, End(r)
  PROVE  ReqOK'
BY DEF End, TypeInv, TypeOK, Carries, ReqOK, Idle

\* Locks are held by requests.
LEMMA LockKeeps ==
  ASSUME TypeInv, NEW r \in Request, NEW X, Lock(r, X)
  PROVE  rowLock' \in [User \cup Link -> Request \cup {None}]
BY DEF TypeInv, TypeOK, Lock

LEMMA UnlockKeeps ==
  ASSUME TypeInv, NEW r \in Request, Unlock(r)
  PROVE  rowLock' \in [User \cup Link -> Request \cup {None}]
BY DEF TypeInv, TypeOK, Unlock

\* The initial state is well typed.
LEMMA InitType == Init => TypeInv
BY DEF Init, TypeInv, TypeOK, Carries, Idle

\* A request that arrives is well formed.
LEMMA ArriveType ==
  ASSUME TypeInv, NEW r \in Request, Arrive(r)
  PROVE  TypeInv'
<1>0. UNCHANGED <<rows, expired, mailed, faults, history>>
  BY DEF Arrive, LoginBegin, ForgotBegin, AccountBegin, RefreshLookup, ConfirmBegin
<1>1. ReqOK'
  <2>0. /\ \A u \in User : secret[u] \in Nat
        /\ \A t \in Token : refresh[t] \in User \cup {None} /\ under[t] \in Nat
    BY DEF TypeInv, TypeOK
  <2>1. ASSUME NEW u \in User, LoginBegin(r, u) PROVE ReqOK'
    BY <2>0, <2>1, StartKeeps DEF LoginBegin, Op, Pc
  <2>2. ASSUME NEW u \in User, ForgotBegin(r, u) PROVE ReqOK'
    BY <2>0, <2>2, StartKeeps DEF ForgotBegin, Op, Pc
  <2>3. ASSUME NEW u \in User, NEW op \in Account, AccountBegin(r, op, u) PROVE ReqOK'
    <3>1. op \in Op /\ op # "refresh" /\ op # "confirm"
      BY DEF Account, Op
    <3> QED
      BY <2>0, <2>3, <3>1, StartKeeps DEF AccountBegin, Pc
  <2>4. ASSUME NEW t \in Token, RefreshLookup(r, t) PROVE ReqOK'
    <3>1. refresh[t] \in User
      BY <2>0, <2>4 DEF RefreshLookup
    <3>2. PICK pc \in {"cleanup", "consume"} :
            Start(r, "refresh", pc, refresh[t], t, None, under[t])
      BY <2>4 DEF RefreshLookup
    <3>3. /\ pc \in Pc \ {"send", "drop", "issue"}
          /\ "refresh" \in Op /\ None \in Link \cup {None}
          /\ t \in Token \cup {None} /\ under[t] \in Nat
      BY <2>0 DEF Op, Pc
    <3> QED
      BY <3>1, <3>2, <3>3, StartKeeps
  <2>5. ASSUME NEW l \in Link, ConfirmBegin(r, l) PROVE ReqOK'
    <3>1. link[l].user \in User
      BY <2>5 DEF ConfirmBegin, TypeInv, TypeOK
    <3> QED
      BY <2>0, <2>5, <3>1, StartKeeps DEF ConfirmBegin, Op, Pc
  <2> QED
    BY <2>1, <2>2, <2>3, <2>4, <2>5 DEF Arrive
<1> QED
  BY <1>0, <1>1 DEF TypeInv, TypeOK, ReqOK, rows, history

\* A statement of a handler leaves well-typed rows and requests.
LEMMA StepType ==
  ASSUME TypeInv, NEW r \in Request, Step(r)
  PROVE  TypeInv'
<1>0. /\ TypeOK /\ Carries
      /\ req[r].pc \in Pc => req[r] \in Serving /\ req[r].user \in User
  BY Busy DEF TypeInv, Serving
<1>1. CASE LoginResolve(r)
  <2>1. ReqOK'
    BY <1>1, GotoKeeps, EndKeeps DEF LoginResolve, At, Pc
  <2> QED
    BY <1>0, <1>1, <2>1 DEF LoginResolve, TypeInv, TypeOK, ReqOK, rows, history
<1>2. CASE Issue(r)
  <2>1. ReqOK'
    BY <1>2, EndKeeps DEF Issue
  <2>2. /\ req[r].user \in User /\ req[r].seen \in Nat
        /\ req[r].op # "login" => req[r].token \in Token
    BY <1>0, <1>2 DEF Issue, Pc, Carries, Serving
  <2>3. /\ refresh' \in [Token -> User \cup {None}] /\ under' \in [Token -> Nat]
        /\ family' \in [Token -> Token \cup {None}] /\ late' \subseteq Token
    BY <1>0, <1>2, <2>2 DEF Issue, TypeOK
  <2> QED
    BY <1>0, <1>2, <2>1, <2>3 DEF Issue, TypeInv, TypeOK, ReqOK
<1>3. CASE RefreshConsume(r)
  <2>1. ReqOK'
    BY <1>3, GotoKeeps DEF RefreshConsume, At, Pc
  <2>2. req[r].token \in Token
    BY <1>0, <1>3 DEF RefreshConsume, At, Carries
  <2> QED
    BY <1>0, <1>3, <2>1, <2>2 DEF RefreshConsume, TypeInv, TypeOK, ReqOK, history
<1>4. CASE RevokeAll(r)
  <2>1. ReqOK'
    BY <1>4, EndKeeps DEF RevokeAll
  <2> QED
    BY <1>0, <1>4, <2>1 DEF RevokeAll, DeleteSessions, TypeInv, TypeOK, ReqOK, history
<1>5. CASE PasswordWrite(r)
  <2>1. ReqOK'
    BY <1>5, GotoKeeps DEF PasswordWrite, Pc
  <2>2. \A u \in User : secret[u] + 1 \in Nat
    BY <1>0 DEF TypeOK
  <2>3. secret' \in [User -> Nat]
    BY <1>0, <1>5, <2>2 DEF PasswordWrite, TypeOK
  <2> QED
    BY <1>0, <1>5, <2>1, <2>3 DEF PasswordWrite, TypeInv, TypeOK, ReqOK, history
<1>6. CASE DisableWrite(r)
  <2>1. ReqOK'
    BY <1>6, GotoKeeps DEF DisableWrite, At, Pc
  <2> QED
    BY <1>0, <1>6, <2>1 DEF DisableWrite, TypeInv, TypeOK, ReqOK, history
<1>7. CASE RestoreWrite(r)
  <2>1. ReqOK'
    BY <1>7, EndKeeps DEF RestoreWrite
  <2> QED
    BY <1>0, <1>7, <2>1 DEF RestoreWrite, TypeInv, TypeOK, ReqOK, history
<1>8. CASE ReplaceLock(r)
  <2>1. ReqOK' /\ rowLock' \in [User \cup Link -> Request \cup {None}]
    BY <1>8, GotoKeeps, LockKeeps DEF ReplaceLock, At, Pc
  <2> QED
    BY <1>0, <1>8, <2>1 DEF ReplaceLock, TypeInv, TypeOK, ReqOK, history
<1>9. CASE ReplaceDelete(r)
  <2>1. ReqOK' /\ rowLock' \in [User \cup Link -> Request \cup {None}]
    BY <1>9, GotoKeeps, LockKeeps DEF ReplaceDelete, At, Pc
  <2> QED
    BY <1>0, <1>9, <2>1 DEF ReplaceDelete, TypeInv, TypeOK, ReqOK, history
<1>10. CASE ReplaceInsert(r)
  <2>1. req[r] \in Serving /\ req[r].user \in User
    BY <1>0, <1>10 DEF ReplaceInsert, At, Pc
  <2>2. rowLock' \in [User \cup Link -> Request \cup {None}]
    BY <1>10, UnlockKeeps DEF ReplaceInsert
  <2>3. CASE link' = link /\ End(r)
    <3>1. ReqOK'
      BY <2>3, EndKeeps
    <3> QED
      BY <1>0, <1>10, <2>2, <2>3, <3>1 DEF ReplaceInsert, TypeInv, TypeOK, ReqOK, history
  <2>4. CASE ~ (link' = link /\ End(r))
    <3>1. PICK l \in Link :
            /\ link' = [x \in Link |->
                          IF x = l THEN [user |-> req[r].user, state |-> "live"]
                          ELSE IF rowLock[x] = r THEN [link[x] EXCEPT !.state = "gone"]
                          ELSE link[x]]
            /\ req' = [req EXCEPT ![r].link = l, ![r].pc = "send"]
      BY <1>10, <2>4 DEF ReplaceInsert
    <3>2. ASSUME NEW x \in Link
          PROVE  /\ link'[x] \in [user : User \cup {None},
                                  state : {"none", "live", "used", "gone"}]
                 /\ link'[x].state \in {"live", "used"} => link'[x].user \in User
      <4>1. /\ link[x] \in [user : User \cup {None}, state : {"none", "live", "used", "gone"}]
            /\ link[x].state \in {"live", "used"} => link[x].user \in User
        BY <1>0 DEF TypeOK
      <4>2. CASE x = l
        BY <2>1, <3>1, <4>2
      <4>3. CASE x # l /\ rowLock[x] = r
        BY <3>1, <4>1, <4>3
      <4>4. CASE x # l /\ rowLock[x] # r
        BY <3>1, <4>1, <4>4
      <4> QED
        BY <4>2, <4>3, <4>4
    <3>3. [req[r] EXCEPT !.link = l, !.pc = "send"] \in Serving
      BY <2>1 DEF Serving, Pc
    <3>4. req' = [req EXCEPT ![r] = [req[r] EXCEPT !.link = l, !.pc = "send"]]
      BY <1>0, <3>1 DEF TypeOK
    <3>5. Carries'
      <4>1. ASSUME NEW q \in Request
            PROVE  /\ q # r => req'[q] = req[q]
                   /\ req'[r].pc = "send" /\ req'[r].op = req[r].op
                   /\ req'[r].token = req[r].token /\ req'[r].link = l
        BY <1>0, <2>1, <3>4 DEF TypeOK, Serving
      <4> QED
        BY <1>0, <4>1 DEF Carries
    <3>6. link' = [x \in Link |-> link'[x]]
      BY <3>1
    <3>7. /\ link' \in [Link -> [user : User \cup {None},
                                 state : {"none", "live", "used", "gone"}]]
          /\ req' \in [Request -> Serving \cup {Idle}]
      BY <1>0, <3>2, <3>3, <3>4, <3>6 DEF TypeOK
    <3> QED
      BY <1>0, <1>10, <2>2, <3>2, <3>5, <3>7 DEF ReplaceInsert, TypeInv, TypeOK, history
  <2> QED
    BY <2>3, <2>4
<1>11. CASE ForgotSend(r)
  <2>1. req[r].link \in Link
    BY <1>0, <1>11 DEF ForgotSend, At, Carries
  <2>2. ReqOK'
    BY <1>11, <2>1, GotoKeeps, EndKeeps DEF ForgotSend, At, Pc
  <2> QED
    BY <1>0, <1>11, <2>1, <2>2 DEF ForgotSend, TypeInv, TypeOK, ReqOK, rows, history
<1>12. CASE ForgotDrop(r)
  <2>1. ReqOK' /\ req[r].link \in Link
    BY <1>0, <1>12, EndKeeps DEF ForgotDrop, At, Carries
  <2> QED
    BY <1>0, <1>12, <2>1 DEF ForgotDrop, TypeInv, TypeOK, ReqOK, history
<1>13. CASE ConsumeLock(r)
  <2>1. ReqOK' /\ rowLock' \in [User \cup Link -> Request \cup {None}]
    <3>1. CASE HasRow(req[r].link)
      BY <1>13, <3>1, GotoKeeps, LockKeeps DEF ConsumeLock, At, Pc
    <3>2. CASE ~ HasRow(req[r].link)
      BY <1>0, <1>13, <3>2, EndKeeps DEF ConsumeLock, TypeOK
    <3> QED
      BY <3>1, <3>2
  <2> QED
    BY <1>0, <1>13, <2>1 DEF ConsumeLock, TypeInv, TypeOK, ReqOK, history
<1>14. CASE ConsumeCommit(r)
  <2>1. ReqOK' /\ rowLock' \in [User \cup Link -> Request \cup {None}]
    BY <1>14, EndKeeps, UnlockKeeps DEF ConsumeCommit
  <2>2. req[r].link \in Link /\ req[r].user \in User
    BY <1>0, <1>14 DEF ConsumeCommit, At, Pc, Carries
  <2>3. CASE ~ Usable(req[r].link)
    BY <1>0, <1>14, <2>1, <2>3 DEF ConsumeCommit, TypeInv, TypeOK, ReqOK
  <2>4. CASE Usable(req[r].link)
    <3>1. /\ refresh' \in [Token -> User \cup {None}]
          /\ secret' \in [User -> Nat] /\ spent' \in [Link -> Nat]
      <4>1. /\ \A u \in User : secret[u] + 1 \in Nat
            /\ \A l \in Link : spent[l] + 1 \in Nat
        BY <1>0 DEF TypeOK
      <4>2. /\ secret' = [secret EXCEPT ![req[r].user] = @ + 1]
            /\ spent' = [spent EXCEPT ![req[r].link] = @ + 1]
            /\ DeleteSessions(req[r].user)
        BY <1>14, <2>4 DEF ConsumeCommit, SpendLink
      <4>3. secret' \in [User -> Nat]
        BY <1>0, <4>1, <4>2 DEF TypeOK
      <4>4. spent' \in [Link -> Nat]
        BY <1>0, <4>1, <4>2 DEF TypeOK
      <4>5. refresh' \in [Token -> User \cup {None}]
        BY <1>0, <4>2 DEF TypeOK, DeleteSessions
      <4> QED
        BY <4>3, <4>4, <4>5
    <3>2. ASSUME NEW x \in Link
          PROVE  /\ link'[x] \in [user : User \cup {None},
                                  state : {"none", "live", "used", "gone"}]
                 /\ link'[x].state \in {"live", "used"} => link'[x].user \in User
      <4>1. /\ link[x] \in [user : User \cup {None}, state : {"none", "live", "used", "gone"}]
            /\ link[x].state \in {"live", "used"} => link[x].user \in User
        BY <1>0 DEF TypeOK
      <4>2. CASE x = req[r].link
        BY <1>14, <2>4, <4>1, <4>2 DEF ConsumeCommit, SpendLink, Usable
      <4>3. CASE x # req[r].link /\ x \in LinksOf(req[r].user)
        <5>1. link[x].user \in User
          BY <2>2, <4>3 DEF LinksOf
        <5> QED
          BY <1>14, <2>4, <4>1, <4>3, <5>1 DEF ConsumeCommit, SpendLink
      <4>4. CASE x # req[r].link /\ x \notin LinksOf(req[r].user)
        BY <1>14, <2>4, <4>1, <4>4 DEF ConsumeCommit, SpendLink
      <4> QED
        BY <4>2, <4>3, <4>4
    <3>3. link' = [x \in Link |-> link'[x]]
      BY <1>14, <2>4 DEF ConsumeCommit, SpendLink
    <3>4. link' \in [Link -> [user : User \cup {None},
                              state : {"none", "live", "used", "gone"}]]
      BY <3>2, <3>3
    <3> QED
      BY <1>0, <1>14, <2>1, <3>1, <3>2, <3>4 DEF ConsumeCommit, SpendLink, TypeInv, TypeOK, ReqOK
  <2> QED
    BY <2>3, <2>4
<1>15. CASE DeadlockVictim(r)
  <2>1. ReqOK' /\ rowLock' \in [User \cup Link -> Request \cup {None}]
    BY <1>15, EndKeeps, UnlockKeeps DEF DeadlockVictim
  <2> QED
    BY <1>0, <1>15, <2>1 DEF DeadlockVictim, TypeInv, TypeOK, ReqOK, history
<1> QED
  BY <1>1, <1>2, <1>3, <1>4, <1>5, <1>6, <1>7, <1>8, <1>9, <1>10, <1>11, <1>12,
     <1>13, <1>14, <1>15 DEF Step

\* Faults, logout and time leave well-typed rows and requests.
LEMMA EnvironmentType ==
  ASSUME TypeInv,
         \/ \E r \in Request : Abort(r)
         \/ \E t \in Token : Logout(t) \/ TokenExpires(t)
         \/ \E l \in Link : LinkExpires(l)
         \/ Crash
  PROVE  TypeInv'
<1>0. TypeOK /\ Carries
  BY DEF TypeInv
<1>1. ASSUME NEW r \in Request, Abort(r) PROVE TypeInv'
  <2>1. ReqOK' /\ rowLock' \in [User \cup Link -> Request \cup {None}]
    BY <1>1, EndKeeps, UnlockKeeps DEF Abort
  <2>2. faults' \in Nat
    BY <1>0, <1>1 DEF Abort, TypeOK
  <2> QED
    BY <1>0, <1>1, <2>1, <2>2 DEF Abort, TypeInv, TypeOK, ReqOK, history
<1>2. ASSUME NEW t \in Token, Logout(t) PROVE TypeInv'
  BY <1>0, <1>2 DEF Logout, TypeInv, TypeOK, Carries, history
<1>3. ASSUME NEW t \in Token, TokenExpires(t) PROVE TypeInv'
  BY <1>0, <1>3 DEF TokenExpires, TypeInv, TypeOK, Carries, rows, history
<1>4. ASSUME NEW l \in Link, LinkExpires(l) PROVE TypeInv'
  BY <1>0, <1>4 DEF LinkExpires, TypeInv, TypeOK, Carries, rows, history
<1>5. CASE Crash
  BY <1>0, <1>5 DEF Crash, TypeInv, TypeOK, Carries, Idle, history
<1> QED
  BY <1>1, <1>2, <1>3, <1>4, <1>5

\* Every step keeps the types.
LEMMA NextType == TypeInv /\ [Next]_vars => TypeInv'
<1> SUFFICES ASSUME TypeInv, [Next]_vars PROVE TypeInv'
  OBVIOUS
<1>1. CASE \E r \in Request : Arrive(r)
  BY <1>1, ArriveType
<1>2. CASE \E r \in Request : Step(r)
  BY <1>2, StepType
<1>3. CASE UNCHANGED vars
  BY <1>3 DEF vars, rows, history, TypeInv, TypeOK, Carries
<1> QED
  BY <1>1, <1>2, <1>3, EnvironmentType DEF Next

LEMMA TypeInvariant == Spec => []TypeInv
BY InitType, NextType, PTL DEF Spec

\* Rows, locks and requests keep their types, with any number of concurrent
\* requests, faults and crashes.
THEOREM TypeCorrect == Spec => []TypeOK
<1>1. TypeInv => TypeOK
  BY DEF TypeInv
<1> QED
  BY <1>1, TypeInvariant, PTL

-----------------------------------------------------------------------------
(* What the steps of one request do to the others, the rows and the locks *)

\* A step of one request leaves the records of the others.
LEMMA OthersKept ==
  ASSUME TypeInv, NEW r \in Request, Arrive(r) \/ Step(r) \/ Abort(r),
         NEW q \in Request \ {r}
  PROVE  req'[q] = req[q]
<1>0. req \in [Request -> Serving \cup {Idle}]
  BY DEF TypeInv, TypeOK
<1>1. ASSUME NEW pc, Goto(r, pc) PROVE req'[q] = req[q]
  BY <1>0, <1>1 DEF Goto
<1>2. ASSUME End(r) PROVE req'[q] = req[q]
  BY <1>0, <1>2 DEF End
<1>3. CASE Arrive(r)
  BY <1>0, <1>3 DEF Arrive, LoginBegin, ForgotBegin, AccountBegin, RefreshLookup,
     ConfirmBegin, Start
<1>4. CASE Abort(r)
  BY <1>2, <1>4 DEF Abort
<1>5. CASE ReplaceInsert(r)
  BY <1>0, <1>2, <1>5 DEF ReplaceInsert
<1>6. CASE Step(r) /\ ~ ReplaceInsert(r)
  <2>1. End(r) \/ \E pc : Goto(r, pc)
    BY <1>6 DEF Step, LoginResolve, Issue, RefreshConsume, RevokeAll, PasswordWrite,
       DisableWrite, RestoreWrite, ReplaceLock, ReplaceDelete, ForgotSend, ForgotDrop,
       ConsumeLock, ConsumeCommit, DeadlockVictim
  <2> QED
    BY <1>1, <1>2, <2>1
<1> QED
  BY <1>3, <1>4, <1>5, <1>6

\* A step of one request leaves the locks of the others.
LEMMA LocksKept ==
  ASSUME TypeInv, NEW r \in Request, Arrive(r) \/ Step(r) \/ Abort(r),
         NEW q \in Request \ {r}, NEW x \in User \cup Link, rowLock[x] = q
  PROVE  rowLock'[x] = q
<1>0. q # None
  BY NamesAssumption
<1>1. ASSUME Unlock(r) PROVE rowLock'[x] = q
  BY <1>1 DEF Unlock
<1>2. ASSUME NEW X, Lock(r, X), \A y \in X : Free(y) PROVE rowLock'[x] = q
  BY <1>0, <1>2 DEF Lock, Free
<1>3. CASE Arrive(r)
  BY <1>3 DEF Arrive, LoginBegin, ForgotBegin, AccountBegin, RefreshLookup,
     ConfirmBegin, rows
<1>4. CASE Abort(r)
  BY <1>1, <1>4 DEF Abort
<1>5. CASE ReplaceLock(r)
  BY <1>2, <1>5 DEF ReplaceLock
<1>6. CASE ReplaceDelete(r)
  BY <1>2, <1>6 DEF ReplaceDelete
<1>7. CASE ConsumeLock(r)
  BY <1>2, <1>7 DEF ConsumeLock
<1>8. CASE ReplaceInsert(r) \/ ConsumeCommit(r) \/ DeadlockVictim(r)
  BY <1>1, <1>8 DEF ReplaceInsert, ConsumeCommit, DeadlockVictim
<1>9. CASE \/ LoginResolve(r) \/ Issue(r) \/ RefreshConsume(r) \/ RevokeAll(r)
           \/ PasswordWrite(r) \/ DisableWrite(r) \/ RestoreWrite(r)
           \/ ForgotSend(r) \/ ForgotDrop(r)
  BY <1>9 DEF LoginResolve, Issue, RefreshConsume, RevokeAll, PasswordWrite,
     DisableWrite, RestoreWrite, ForgotSend, ForgotDrop, rows
<1> QED
  BY <1>3, <1>4, <1>5, <1>6, <1>7, <1>8, <1>9 DEF Step

\* Only the insertion of a reset request adds a link row; no row changes hands.
RowsShrink == \A l \in Link : HasRow(l)' => HasRow(l) /\ link'[l].user = link[l].user

LEMMA OnlyInsertAdds ==
  ASSUME TypeInv, [Next]_vars, \A r \in Request : ~ ReplaceInsert(r)
  PROVE  RowsShrink
<1>0. link \in [Link -> [user : User \cup {None}, state : {"none", "live", "used", "gone"}]]
  BY DEF TypeInv, TypeOK
<1>1. ASSUME UNCHANGED link PROVE RowsShrink
  BY <1>1 DEF RowsShrink, HasRow
<1>2. ASSUME NEW r \in Request, ForgotDrop(r) PROVE RowsShrink
  BY <1>0, <1>2 DEF ForgotDrop, RowsShrink, HasRow
<1>3. ASSUME NEW r \in Request, ConsumeCommit(r) PROVE RowsShrink
  <2>1. CASE ~ Usable(req[r].link)
    BY <1>1, <1>3, <2>1 DEF ConsumeCommit
  <2>2. CASE Usable(req[r].link)
    <3> SUFFICES ASSUME NEW l \in Link, HasRow(l)'
                 PROVE  HasRow(l) /\ link'[l].user = link[l].user
      BY DEF RowsShrink
    <3>1. CASE l = req[r].link
      BY <1>0, <1>3, <2>2, <3>1 DEF ConsumeCommit, SpendLink, Usable, HasRow
    <3>2. CASE l # req[r].link
      BY <1>0, <1>3, <2>2, <3>2 DEF ConsumeCommit, SpendLink, HasRow
    <3> QED
      BY <3>1, <3>2
  <2> QED
    BY <2>1, <2>2
<1>4. ASSUME NEW r \in Request, Step(r) PROVE RowsShrink
  BY <1>1, <1>2, <1>3, <1>4 DEF Step, LoginResolve, Issue, RefreshConsume, RevokeAll,
     PasswordWrite, DisableWrite, RestoreWrite, ReplaceLock, ReplaceDelete, ForgotSend,
     ConsumeLock, DeadlockVictim, rows
<1>5. ASSUME NEW r \in Request, Arrive(r) \/ Abort(r) PROVE RowsShrink
  BY <1>1, <1>5 DEF Arrive, LoginBegin, ForgotBegin, AccountBegin, RefreshLookup,
     ConfirmBegin, Abort, rows
<1>6. CASE \/ \E t \in Token : Logout(t) \/ TokenExpires(t)
           \/ \E l \in Link : LinkExpires(l)
           \/ Crash
           \/ UNCHANGED vars
  BY <1>1, <1>6 DEF Logout, TokenExpires, LinkExpires, Crash, vars, rows
<1> QED
  BY <1>4, <1>5, <1>6 DEF Next

\* What the insertion of a reset request does to the links: it adds one, and
\* the rows that its transaction has locked are gone.
LEMMA InsertEffect ==
  ASSUME TypeInv, NEW r \in Request, ReplaceInsert(r)
  PROVE  \/ UNCHANGED link
         \/ \E l \in Link :
              /\ link[l].state = "none"
              /\ link'[l] = [user |-> req[r].user, state |-> "live"]
              /\ \A x \in Link \ {l} :
                   IF rowLock[x] = r THEN link'[x] = [link[x] EXCEPT !.state = "gone"]
                   ELSE link'[x] = link[x]
BY DEF ReplaceInsert

-----------------------------------------------------------------------------
(* One row of password_reset_tokens per user *)

Replacing(r) == At(r, "forgot", "delete") \/ At(r, "forgot", "insert")

\* A step that adds no row leaves what the other requests hold.
LEMMA OthersHold ==
  ASSUME TypeInv, Holding, RowsShrink,
         NEW r \in Request, Arrive(r) \/ Step(r) \/ Abort(r),
         NEW q \in Request \ {r}, Replacing(q)'
  PROVE  /\ rowLock'[req'[q].user] = q
         /\ At(q, "forgot", "insert")' =>
              \A l \in LinksOf(req[q].user)' : rowLock'[l] = q
<1>1. req'[q] = req[q]
  BY OthersKept
<1>2. Replacing(q) /\ (At(q, "forgot", "insert")' => At(q, "forgot", "insert"))
  BY <1>1 DEF Replacing, At
<1>3. req[q].user \in User
  BY <1>2, Busy DEF Replacing, At, Pc, TypeInv, Serving
<1>4. LinksOf(req[q].user)' \subseteq LinksOf(req[q].user)
  BY <1>1 DEF LinksOf, RowsShrink
<1>5. \A x \in User \cup Link : rowLock[x] = q => rowLock'[x] = q
  BY LocksKept
<1>6. rowLock'[req'[q].user] = q
  BY <1>1, <1>2, <1>3, <1>5 DEF Holding, Replacing
<1>7. ASSUME At(q, "forgot", "insert")', NEW l \in LinksOf(req[q].user)'
      PROVE  rowLock'[l] = q
  <2>1. l \in LinksOf(req[q].user) /\ l \in Link
    BY <1>4, <1>7 DEF LinksOf
  <2>2. rowLock[l] = q
    BY <1>2, <1>7, <2>1 DEF Holding
  <2> QED
    BY <1>5, <2>1, <2>2
<1> QED
  BY <1>6, <1>7

\* A step after which its own request replaces no link.
LEMMA HoldingKept ==
  ASSUME TypeInv, Holding, RowsShrink,
         NEW r \in Request, Arrive(r) \/ Step(r) \/ Abort(r), ~ Replacing(r)'
  PROVE  Holding'
<1>1. \A q \in Request : Replacing(q)' => q # r
  OBVIOUS
<1> QED
  BY <1>1, OthersHold DEF Holding, Replacing

\* Taking the user's lock.
LEMMA LockHolds ==
  ASSUME TypeInv, Holding, RowsShrink, NEW r \in Request, ReplaceLock(r)
  PROVE  Holding'
<1>0. /\ Step(r) /\ rowLock' = [x \in User \cup Link |->
                                  IF x \in {req[r].user} THEN r ELSE rowLock[x]]
      /\ req[r] \in Serving
  BY Busy DEF ReplaceLock, Step, Lock, At, Pc, TypeInv
<1>1. req'[r].user = req[r].user /\ req'[r].pc = "delete"
  BY <1>0 DEF ReplaceLock, Goto, TypeInv, TypeOK, Serving
<1>2. rowLock'[req'[r].user] = r
  BY <1>0, <1>1 DEF Serving
<1>3. SUFFICES ASSUME NEW q \in Request, Replacing(q)'
               PROVE  /\ rowLock'[req'[q].user] = q
                      /\ At(q, "forgot", "insert")' =>
                           \A l \in LinksOf(req[q].user)' : rowLock'[l] = q
  BY DEF Holding, Replacing
<1>4. CASE q = r
  BY <1>1, <1>2, <1>4 DEF At
<1>5. CASE q # r
  BY <1>0, <1>3, <1>5, OthersHold
<1> QED
  BY <1>4, <1>5

\* Deleting the rows of the user's links locks all of them.
LEMMA DeleteHolds ==
  ASSUME TypeInv, Holding, RowsShrink, NEW r \in Request, ReplaceDelete(r)
  PROVE  Holding'
<1>0. /\ Step(r) /\ link' = link
      /\ rowLock' = [x \in User \cup Link |->
                       IF x \in LinksOf(req[r].user) THEN r ELSE rowLock[x]]
      /\ req[r] \in Serving /\ Replacing(r)
  BY Busy DEF ReplaceDelete, Step, Lock, At, Pc, TypeInv, Replacing
<1>1. req'[r].user = req[r].user /\ req[r].user \in User
  BY <1>0 DEF ReplaceDelete, Goto, TypeInv, TypeOK, Serving
<1>2. rowLock'[req'[r].user] = r
  BY <1>0, <1>1 DEF Holding, Replacing
<1>3. \A l \in LinksOf(req[r].user)' : rowLock'[l] = r
  BY <1>0, <1>1 DEF LinksOf, HasRow
<1>4. SUFFICES ASSUME NEW q \in Request, Replacing(q)'
               PROVE  /\ rowLock'[req'[q].user] = q
                      /\ At(q, "forgot", "insert")' =>
                           \A l \in LinksOf(req[q].user)' : rowLock'[l] = q
  BY DEF Holding, Replacing
<1>5. CASE q = r
  BY <1>2, <1>3, <1>5
<1>6. CASE q # r
  BY <1>0, <1>4, <1>6, OthersHold
<1> QED
  BY <1>5, <1>6

\* The insertion meets no other request that replaces a link of the same user.
LEMMA InsertHolds ==
  ASSUME TypeInv, Holding, OneLinkRow, NEW r \in Request, ReplaceInsert(r)
  PROVE  Holding' /\ OneLinkRow'
<1>0. /\ Step(r) /\ req[r] \in Serving /\ Replacing(r) /\ req[r].user \in User
      /\ rowLock[req[r].user] = r
      /\ \A l \in LinksOf(req[r].user) : rowLock[l] = r
  BY Busy DEF ReplaceInsert, Step, At, Pc, TypeInv, Replacing, Holding, Serving
<1>1. ~ Replacing(r)'
  <2>1. CASE End(r)
    BY <2>1 DEF End, Idle, Replacing, At, TypeInv, TypeOK
  <2>2. CASE ~ End(r)
    <3>1. PICK l \in Link : req' = [req EXCEPT ![r].link = l, ![r].pc = "send"]
      BY <2>2 DEF ReplaceInsert
    <3>2. req'[r].pc = "send"
      BY <1>0, <3>1 DEF TypeInv, TypeOK, Serving
    <3> QED
      BY <3>2 DEF Replacing, At
  <2> QED
    BY <2>1, <2>2
<1>2. CASE UNCHANGED link
  <2>1. RowsShrink
    BY <1>2 DEF RowsShrink, HasRow
  <2> QED
    BY <1>0, <1>1, <1>2, <2>1, HoldingKept DEF OneLinkRow, HasRow
<1>3. CASE ~ UNCHANGED link
  <2>1. PICK n \in Link :
          /\ link[n].state = "none"
          /\ link'[n] = [user |-> req[r].user, state |-> "live"]
          /\ \A x \in Link \ {n} :
               IF rowLock[x] = r THEN link'[x] = [link[x] EXCEPT !.state = "gone"]
               ELSE link'[x] = link[x]
    BY <1>3, InsertEffect
  <2>2. ASSUME NEW l \in Link, l # n, HasRow(l)'
        PROVE  HasRow(l) /\ link'[l] = link[l] /\ link[l].user # req[r].user
    <3>1. link[l] \in [user : User \cup {None}, state : {"none", "live", "used", "gone"}]
      BY DEF TypeInv, TypeOK
    <3>2. rowLock[l] # r /\ link'[l] = link[l]
      BY <2>1, <2>2, <3>1 DEF HasRow
    <3> QED
      BY <1>0, <2>2, <3>2 DEF HasRow, LinksOf
  <2>3. HasRow(n)' /\ link'[n].user = req[r].user
    BY <2>1 DEF HasRow
  <2>4. OneLinkRow'
    <3> SUFFICES ASSUME NEW l \in Link, NEW m \in Link, HasRow(l)', HasRow(m)',
                        link'[l].user = link'[m].user, l # m
                 PROVE  FALSE
      BY DEF OneLinkRow
    <3>1. CASE l # n /\ m # n
      BY <2>2, <3>1 DEF OneLinkRow
    <3>2. CASE l = n \/ m = n
      BY <2>2, <2>3, <3>2
    <3> QED
      BY <3>1, <3>2
  <2>5. ASSUME NEW q \in Request, Replacing(q)'
        PROVE  /\ rowLock'[req'[q].user] = q
               /\ At(q, "forgot", "insert")' =>
                    \A l \in LinksOf(req[q].user)' : rowLock'[l] = q
    <3>1. q # r /\ req'[q] = req[q]
      BY <1>0, <1>1, <2>5, OthersKept
    <3>2. Replacing(q) /\ (At(q, "forgot", "insert")' => At(q, "forgot", "insert"))
      BY <2>5, <3>1 DEF Replacing, At
    <3>3. req[q].user \in User
      BY <3>2, Busy DEF Replacing, At, Pc, TypeInv, Serving
    <3>4. \A x \in User \cup Link : rowLock[x] = q => rowLock'[x] = q
      BY <1>0, <3>1, LocksKept
    <3>5. rowLock[req[q].user] = q
      BY <3>2 DEF Holding, Replacing
    <3>6. req[q].user # req[r].user
      BY <1>0, <3>1, <3>5
    <3>7. ASSUME NEW l \in LinksOf(req[q].user)', At(q, "forgot", "insert")'
          PROVE  rowLock'[l] = q
      <4>1. l \in Link /\ HasRow(l)' /\ link'[l].user = req[q].user
        BY <3>1, <3>7 DEF LinksOf
      <4>2. l # n
        BY <2>3, <3>6, <4>1
      <4>3. l \in LinksOf(req[q].user)
        BY <2>2, <4>1, <4>2 DEF LinksOf
      <4>4. rowLock[l] = q
        BY <3>2, <3>7, <4>3 DEF Holding
      <4> QED
        BY <3>4, <4>1, <4>4
    <3> QED
      BY <3>1, <3>3, <3>4, <3>5, <3>7
  <2>6. Holding'
    BY <2>5 DEF Holding, Replacing
  <2> QED
    BY <2>4, <2>6
<1> QED
  BY <1>2, <1>3

\* After any other step of a request it replaces no link.
LEMMA NotReplacing ==
  ASSUME TypeInv, NEW r \in Request,
         \/ Arrive(r)
         \/ Step(r) /\ ~ ReplaceLock(r) /\ ~ ReplaceDelete(r) /\ ~ ReplaceInsert(r)
         \/ Abort(r)
  PROVE  ~ Replacing(r)'
<1>0. req \in [Request -> Serving \cup {Idle}]
  BY DEF TypeInv, TypeOK
<1>1. ASSUME End(r) PROVE ~ Replacing(r)'
  BY <1>0, <1>1 DEF End, Idle, Replacing, At
<1>2. ASSUME NEW pc \in Pc \ {"delete", "insert"}, req[r].pc \in Pc, Goto(r, pc)
      PROVE  ~ Replacing(r)'
  <2>1. req[r] \in Serving
    BY <1>2, Busy DEF TypeInv
  <2>2. req'[r].pc = pc
    BY <1>0, <1>2, <2>1 DEF Goto, Serving
  <2> QED
    BY <2>2 DEF Replacing, At
<1>3. CASE Arrive(r)
  BY <1>0, <1>3 DEF Arrive, LoginBegin, ForgotBegin, AccountBegin, RefreshLookup,
     ConfirmBegin, Start, Replacing, At
<1>4. CASE Abort(r)
  BY <1>1, <1>4 DEF Abort
<1>5. CASE Step(r) /\ ~ ReplaceLock(r) /\ ~ ReplaceDelete(r) /\ ~ ReplaceInsert(r)
  <2>1. \/ End(r)
        \/ req[r].pc \in Pc /\ \E pc \in Pc \ {"delete", "insert"} : Goto(r, pc)
    BY <1>5 DEF Step, LoginResolve, Issue, RefreshConsume, RevokeAll, PasswordWrite,
       DisableWrite, RestoreWrite, ForgotSend, ForgotDrop, ConsumeLock, ConsumeCommit,
       DeadlockVictim, At, Pc
  <2> QED
    BY <1>1, <1>2, <2>1
<1> QED
  BY <1>3, <1>4, <1>5

LEMMA RowStep ==
  ASSUME TypeInv, Holding, OneLinkRow, [Next]_vars
  PROVE  Holding' /\ OneLinkRow'
<1>1. CASE \E r \in Request : ReplaceInsert(r)
  BY <1>1, InsertHolds
<1>2. CASE \A r \in Request : ~ ReplaceInsert(r)
  <2>1. RowsShrink
    BY <1>2, OnlyInsertAdds
  <2>2. OneLinkRow'
    BY <2>1 DEF RowsShrink, OneLinkRow
  <2>3. ASSUME NEW r \in Request, Arrive(r) \/ Step(r) \/ Abort(r) PROVE Holding'
    BY <1>2, <2>1, <2>3, LockHolds, DeleteHolds, NotReplacing, HoldingKept
  <2>4. CASE \/ \E t \in Token : Logout(t) \/ TokenExpires(t)
             \/ \E l \in Link : LinkExpires(l)
             \/ UNCHANGED vars
    BY <2>2, <2>4 DEF Logout, TokenExpires, LinkExpires, vars, rows, Holding, At, LinksOf,
       HasRow
  <2>5. CASE Crash
    BY <2>2, <2>5 DEF Crash, Holding, At, Idle
  <2> QED
    BY <2>2, <2>3, <2>4, <2>5 DEF Next
<1> QED
  BY <1>1, <1>2

\* However many reset requests and confirmations run, a user has at most one
\* row in password_reset_tokens.
THEOREM OneRow == Spec => []OneLinkRow
<1>1. Init => Holding /\ OneLinkRow
  BY DEF Init, Holding, OneLinkRow, At, Idle, HasRow
<1>2. TypeInv /\ Holding /\ OneLinkRow /\ [Next]_vars => (Holding /\ OneLinkRow)'
  BY RowStep
<1> QED
  BY <1>1, <1>2, TypeInvariant, PTL DEF Spec

-----------------------------------------------------------------------------
(* A link is spent once *)

LEMMA SpentStep ==
  ASSUME TypeInv, Unspent, LinkSpentOnce, [Next]_vars
  PROVE  Unspent' /\ LinkSpentOnce'
<1>0. /\ link \in [Link -> [user : User \cup {None}, state : {"none", "live", "used", "gone"}]]
      /\ spent \in [Link -> Nat]
  BY DEF TypeInv, TypeOK
<1>1. ASSUME UNCHANGED <<link, spent>> PROVE Unspent' /\ LinkSpentOnce'
  BY <1>1 DEF Unspent, LinkSpentOnce
<1>2. ASSUME NEW r \in Request, ForgotDrop(r) PROVE Unspent' /\ LinkSpentOnce'
  BY <1>0, <1>2 DEF ForgotDrop, history, Unspent, LinkSpentOnce
<1>3. ASSUME NEW r \in Request, ReplaceInsert(r) PROVE Unspent' /\ LinkSpentOnce'
  <2>1. spent' = spent
    BY <1>3 DEF ReplaceInsert, history
  <2>2. CASE UNCHANGED link
    BY <1>1, <2>1, <2>2
  <2>3. CASE ~ UNCHANGED link
    <3>1. PICK n \in Link :
            /\ link[n].state = "none"
            /\ \A x \in Link \ {n} :
                 IF rowLock[x] = r THEN link'[x] = [link[x] EXCEPT !.state = "gone"]
                 ELSE link'[x] = link[x]
      BY <1>3, <2>3, InsertEffect
    <3>2. ASSUME NEW l \in Link, link'[l].state \in {"none", "live"}
          PROVE  link[l].state \in {"none", "live"}
      BY <1>0, <3>1, <3>2
    <3> QED
      BY <2>1, <3>2 DEF Unspent, LinkSpentOnce
  <2> QED
    BY <2>2, <2>3
<1>4. ASSUME NEW r \in Request, ConsumeCommit(r) PROVE Unspent' /\ LinkSpentOnce'
  <2>1. CASE ~ Usable(req[r].link)
    BY <1>1, <1>4, <2>1 DEF ConsumeCommit
  <2>2. CASE Usable(req[r].link)
    <3>1. req[r].link \in Link /\ spent[req[r].link] = 0
      BY <1>4, <2>2 DEF ConsumeCommit, At, TypeInv, Carries, Usable, Unspent
    <3>2. spent' = [spent EXCEPT ![req[r].link] = 1]
      BY <1>0, <1>4, <2>2, <3>1 DEF ConsumeCommit, SpendLink
    <3>3. ASSUME NEW l \in Link, link'[l].state \in {"none", "live"}
          PROVE  link[l].state \in {"none", "live"} /\ l # req[r].link
      BY <1>0, <1>4, <2>2, <3>1, <3>3 DEF ConsumeCommit, SpendLink
    <3> QED
      BY <1>0, <3>1, <3>2, <3>3 DEF Unspent, LinkSpentOnce
  <2> QED
    BY <2>1, <2>2
<1>5. ASSUME NEW r \in Request, Step(r) PROVE Unspent' /\ LinkSpentOnce'
  BY <1>1, <1>2, <1>3, <1>4, <1>5 DEF Step, LoginResolve, Issue, RefreshConsume,
     RevokeAll, PasswordWrite, DisableWrite, RestoreWrite, ReplaceLock, ReplaceDelete,
     ForgotSend, ConsumeLock, DeadlockVictim, rows, history
<1>6. ASSUME NEW r \in Request, Arrive(r) \/ Abort(r) PROVE Unspent' /\ LinkSpentOnce'
  BY <1>1, <1>6 DEF Arrive, LoginBegin, ForgotBegin, AccountBegin, RefreshLookup,
     ConfirmBegin, Abort, rows, history
<1>7. CASE \/ \E t \in Token : Logout(t) \/ TokenExpires(t)
           \/ \E l \in Link : LinkExpires(l)
           \/ Crash
           \/ UNCHANGED vars
  BY <1>1, <1>7 DEF Logout, TokenExpires, LinkExpires, Crash, vars, rows, history
<1> QED
  BY <1>5, <1>6, <1>7 DEF Next

\* However many confirmations of a link were validated before one of them
\* committed, it changes a password at most once.
THEOREM SpentOnce == Spec => []LinkSpentOnce
<1>1. Init => Unspent /\ LinkSpentOnce
  BY DEF Init, Unspent, LinkSpentOnce
<1>2. TypeInv /\ Unspent /\ LinkSpentOnce /\ [Next]_vars => (Unspent /\ LinkSpentOnce)'
  BY SpentStep
<1> QED
  BY <1>1, <1>2, TypeInvariant, PTL DEF Spec

-----------------------------------------------------------------------------
(* Revocation reaches every session it can see *)

Witnessed(t) == \E r \in Request : req[r].pc = "revoke" /\ req[r].user = refresh[t]

\* A step that stores no token, changes no account and leaves the requests
\* that are about to revoke.
LEMMA RevocationKept ==
  ASSUME RevocationReaches, UNCHANGED <<active, secret, under, late, faults>>,
         \A t \in Token : refresh'[t] # None => refresh'[t] = refresh[t],
         \A r \in Request : req[r].pc = "revoke" => req'[r] = req[r]
  PROVE  RevocationReaches'
BY DEF RevocationReaches, Outdated

\* A request that is not about to revoke, and stores or changes nothing here.
LEMMA HarmlessStep ==
  ASSUME TypeInv, RevocationReaches, NEW r \in Request, Arrive(r) \/ Step(r),
         req[r].pc # "revoke", UNCHANGED <<active, secret, under, late, faults>>,
         \A t \in Token : refresh'[t] # None => refresh'[t] = refresh[t]
  PROVE  RevocationReaches'
<1>1. \A q \in Request : req[q].pc = "revoke" => req'[q] = req[q]
  BY OthersKept
<1> QED
  BY <1>1, RevocationKept

LEMMA RevocationStep ==
  ASSUME TypeInv, RevocationReaches, [Next]_vars
  PROVE  RevocationReaches'
<1>0. TypeOK
  BY DEF TypeInv
<1>1. ASSUME NEW r \in Request, Arrive(r) PROVE RevocationReaches'
  <2>1. req[r].pc # "revoke" /\ UNCHANGED <<refresh, active, secret, under, late, faults>>
    BY <1>1 DEF Arrive, LoginBegin, ForgotBegin, AccountBegin, RefreshLookup,
       ConfirmBegin, Start, Idle, rows, history
  <2> QED
    BY <1>1, <2>1, HarmlessStep
<1>2. ASSUME NEW r \in Request,
             \/ LoginResolve(r) \/ RefreshConsume(r)
             \/ ReplaceLock(r) \/ ReplaceDelete(r) \/ ReplaceInsert(r)
             \/ ForgotSend(r) \/ ForgotDrop(r) \/ ConsumeLock(r) \/ DeadlockVictim(r)
      PROVE  RevocationReaches'
  <2>1. /\ Step(r)
        /\ req[r].pc # "revoke" /\ UNCHANGED <<active, secret, under, late, faults>>
    BY <1>2 DEF Step, LoginResolve, RefreshConsume, ReplaceLock, ReplaceDelete,
       ReplaceInsert, ForgotSend, ForgotDrop, ConsumeLock, DeadlockVictim, WaitsFor, At,
       rows, history
  <2>2. refresh' = refresh \/ refresh' = [refresh EXCEPT ![req[r].token] = None]
    BY <1>2 DEF LoginResolve, RefreshConsume, ReplaceLock, ReplaceDelete,
       ReplaceInsert, ForgotSend, ForgotDrop, ConsumeLock, DeadlockVictim, rows
  <2>3. \A t \in Token : refresh'[t] # None => refresh'[t] = refresh[t]
    BY <1>0, <2>2 DEF TypeOK
  <2> QED
    BY <2>1, <2>3, HarmlessStep
<1>3. ASSUME NEW r \in Request, RevokeAll(r) PROVE RevocationReaches'
  <2> SUFFICES ASSUME faults = 0, NEW t \in Token, Outdated(t)', t \notin late
               PROVE  Witnessed(t)'
    BY <1>3 DEF RevocationReaches, RevokeAll, history, Witnessed
  <2>1. refresh[t] # req[r].user /\ refresh'[t] = refresh[t]
    BY <1>3 DEF RevokeAll, DeleteSessions, Outdated
  <2>2. Outdated(t)
    BY <1>3, <2>1 DEF RevokeAll, history, Outdated
  <2>3. PICK q \in Request : req[q].pc = "revoke" /\ req[q].user = refresh[t]
    BY <2>2 DEF RevocationReaches
  <2>4. q # r /\ Step(r)
    BY <1>3, <2>1, <2>3 DEF Step
  <2>5. req'[q] = req[q]
    BY <2>4, OthersKept
  <2> QED
    BY <2>1, <2>3, <2>5 DEF Witnessed
<1>4. ASSUME NEW r \in Request, PasswordWrite(r) \/ DisableWrite(r) PROVE RevocationReaches'
  <2>1. /\ req[r].pc = "write" /\ Step(r) /\ Goto(r, "revoke")
        /\ UNCHANGED <<refresh, under, late, faults>>
        /\ \A u \in User \ {req[r].user} : active'[u] = active[u] /\ secret'[u] = secret[u]
    BY <1>0, <1>4 DEF PasswordWrite, DisableWrite, Step, history, At, TypeOK
  <2>2. req[r] \in Serving
    BY <1>0, <2>1, Busy DEF Pc
  <2>3. req'[r].pc = "revoke" /\ req'[r].user = req[r].user
    BY <1>0, <2>1, <2>2 DEF Goto, TypeOK, Serving
  <2> SUFFICES ASSUME faults = 0, NEW t \in Token, Outdated(t)', t \notin late
               PROVE  Witnessed(t)'
    BY <2>1 DEF RevocationReaches, Witnessed
  <2>4. CASE refresh[t] = req[r].user
    BY <2>1, <2>3, <2>4 DEF Witnessed
  <2>5. CASE refresh[t] # req[r].user
    <3>1. refresh[t] \in User
      BY <1>0, <2>1 DEF Outdated, TypeOK
    <3>2. Outdated(t)
      BY <2>1, <2>5, <3>1 DEF Outdated
    <3>3. PICK q \in Request : req[q].pc = "revoke" /\ req[q].user = refresh[t]
      BY <3>2 DEF RevocationReaches
    <3>4. req'[q] = req[q]
      BY <2>1, <3>3, OthersKept
    <3> QED
      BY <2>1, <3>3, <3>4 DEF Witnessed
  <2> QED
    BY <2>4, <2>5
<1>5. ASSUME NEW r \in Request, RestoreWrite(r) PROVE RevocationReaches'
  <2>1. /\ req[r].pc = "write" /\ Step(r)
        /\ UNCHANGED <<refresh, secret, under, late, faults>>
        /\ \A u \in User : active[u] => active'[u]
    BY <1>0, <1>5 DEF RestoreWrite, Step, history, At, TypeOK
  <2> SUFFICES ASSUME faults = 0, NEW t \in Token, Outdated(t)', t \notin late
               PROVE  Witnessed(t)'
    BY <2>1 DEF RevocationReaches, Witnessed
  <2>2. refresh[t] \in User
    BY <1>0, <2>1 DEF Outdated, TypeOK
  <2>3. Outdated(t)
    BY <2>1, <2>2 DEF Outdated
  <2>4. PICK q \in Request : req[q].pc = "revoke" /\ req[q].user = refresh[t]
    BY <2>3 DEF RevocationReaches
  <2>5. req'[q] = req[q]
    BY <2>1, <2>4, OthersKept
  <2> QED
    BY <2>1, <2>4, <2>5 DEF Witnessed
<1>6. ASSUME NEW r \in Request, Issue(r) PROVE RevocationReaches'
  <2>1. /\ req[r].pc = "issue" /\ Step(r) /\ UNCHANGED <<active, secret, faults>>
        /\ req[r].user \in User
    BY <1>0, <1>6, Busy DEF Issue, Step, Pc, Serving
  <2>2. CASE UNCHANGED <<refresh, under, late>>
    BY <2>1, <2>2, HarmlessStep
  <2>3. CASE ~ UNCHANGED <<refresh, under, late>>
    <3>1. PICK n \in Token :
            /\ refresh' = [refresh EXCEPT ![n] = req[r].user]
            /\ under' = [under EXCEPT ![n] = req[r].seen]
            /\ late' = IF active[req[r].user] /\ req[r].seen = secret[req[r].user]
                       THEN late ELSE late \cup {n}
      BY <1>6, <2>3 DEF Issue
    <3> SUFFICES ASSUME faults = 0, NEW t \in Token, Outdated(t)', t \notin late'
                 PROVE  Witnessed(t)'
      BY <2>1 DEF RevocationReaches, Witnessed
    <3>2. t # n
      BY <1>0, <2>1, <3>1 DEF Outdated, TypeOK
    <3>3. /\ refresh'[t] = refresh[t] /\ under'[t] = under[t] /\ t \notin late
      BY <1>0, <3>1, <3>2 DEF TypeOK
    <3>4. Outdated(t)
      BY <2>1, <3>3 DEF Outdated
    <3>5. PICK q \in Request : req[q].pc = "revoke" /\ req[q].user = refresh[t]
      BY <3>3, <3>4 DEF RevocationReaches
    <3>6. req'[q] = req[q]
      BY <2>1, <3>5, OthersKept
    <3> QED
      BY <3>3, <3>5, <3>6 DEF Witnessed
  <2> QED
    BY <2>2, <2>3
<1>7. ASSUME NEW r \in Request, ConsumeCommit(r) PROVE RevocationReaches'
  <2>1. /\ req[r].pc = "commit" /\ Step(r) /\ UNCHANGED <<active, under, late, faults>>
    BY <1>7 DEF ConsumeCommit, At, Step
  <2>2. CASE ~ Usable(req[r].link)
    BY <1>7, <2>1, <2>2, HarmlessStep DEF ConsumeCommit
  <2>3. CASE Usable(req[r].link)
    <3>1. /\ secret' = [secret EXCEPT ![req[r].user] = @ + 1]
          /\ DeleteSessions(req[r].user)
      BY <1>7, <2>3 DEF ConsumeCommit, SpendLink
    <3> SUFFICES ASSUME faults = 0, NEW t \in Token, Outdated(t)', t \notin late
                 PROVE  Witnessed(t)'
      BY <2>1 DEF RevocationReaches, Witnessed
    <3>2. refresh'[t] = refresh[t] /\ refresh[t] # req[r].user
      BY <3>1 DEF DeleteSessions, Outdated
    <3>3. refresh[t] \in User
      BY <1>0, <3>2 DEF Outdated, TypeOK
    <3>4. secret'[refresh[t]] = secret[refresh[t]]
      BY <1>0, <3>1, <3>2, <3>3 DEF TypeOK
    <3>5. Outdated(t)
      BY <2>1, <3>2, <3>4 DEF Outdated
    <3>6. PICK q \in Request : req[q].pc = "revoke" /\ req[q].user = refresh[t]
      BY <3>5 DEF RevocationReaches
    <3>7. req'[q] = req[q]
      BY <2>1, <3>6, OthersKept
    <3> QED
      BY <3>2, <3>6, <3>7 DEF Witnessed
  <2> QED
    BY <2>2, <2>3
<1>8. ASSUME NEW r \in Request, Abort(r) PROVE RevocationReaches'
  <2>1. faults' # 0
    BY <1>0, <1>8 DEF Abort, TypeOK
  <2> QED
    BY <2>1 DEF RevocationReaches
<1>9. ASSUME NEW t \in Token, Logout(t) PROVE RevocationReaches'
  <2>1. \A s \in Token : refresh'[s] # None => refresh'[s] = refresh[s]
    BY <1>0, <1>9 DEF Logout, TypeOK
  <2> QED
    BY <1>9, <2>1, RevocationKept DEF Logout, history
<1>10. CASE \/ \E t \in Token : TokenExpires(t)
            \/ \E l \in Link : LinkExpires(l)
            \/ UNCHANGED vars
  BY <1>10, RevocationKept DEF TokenExpires, LinkExpires, vars, rows, history
<1>11. CASE Crash
  <2>1. faults' # 0
    BY <1>0, <1>11 DEF Crash, TypeOK
  <2> QED
    BY <2>1 DEF RevocationReaches
<1> QED
  BY <1>1, <1>2, <1>3, <1>4, <1>5, <1>6, <1>7, <1>8, <1>9, <1>10, <1>11 DEF Next, Step

\* A password change, a reset or a disable leaves no session behind but those
\* stored after it by a login or refresh that was already past its checks.
THEOREM Revocation == Spec => []RevocationReaches
<1>1. Init => RevocationReaches
  BY DEF Init, RevocationReaches, Outdated
<1>2. TypeInv /\ RevocationReaches /\ [Next]_vars => RevocationReaches'
  BY RevocationStep
<1> QED
  BY <1>1, <1>2, TypeInvariant, PTL DEF Spec

-----------------------------------------------------------------------------
(* One valid token per login *)

Tokens == Rooted /\ OneTokenPerLogin

\* A step that stores no token and starts no rotation.
LEMMA TokensKept ==
  ASSUME Tokens, UNCHANGED family,
         \A t \in Token : refresh'[t] # None => refresh[t] # None,
         \A r \in Request :
           /\ Rotating(r)' => Rotating(r) /\ req'[r].token = req[r].token
           /\ req'[r].op = "refresh" => family[req'[r].token] # None
  PROVE  Tokens'
<1>1. Rooted'
  BY DEF Tokens, Rooted
<1>2. \A t \in Token : Holders(t)' \subseteq Holders(t)
  BY DEF Holders
<1>3. OneTokenPerLogin'
  BY <1>2 DEF Tokens, OneTokenPerLogin
<1> QED
  BY <1>1, <1>3 DEF Tokens

\* A step of one request, after which it does not rotate.
LEMMA TokensKeptBy ==
  ASSUME TypeInv, Tokens, NEW r \in Request, Arrive(r) \/ Step(r) \/ Abort(r),
         UNCHANGED family, ~ Rotating(r)',
         \A t \in Token : refresh'[t] # None => refresh[t] # None,
         req'[r].op = "refresh" => family[req'[r].token] # None
  PROVE  Tokens'
<1>1. ASSUME NEW q \in Request \ {r} PROVE req'[q] = req[q]
  BY OthersKept
<1>2. ASSUME NEW q \in Request
      PROVE  /\ Rotating(q)' => Rotating(q) /\ req'[q].token = req[q].token
             /\ req'[q].op = "refresh" => family[req'[q].token] # None
  <2>1. CASE q = r
    BY <2>1
  <2>2. CASE q # r
    BY <1>1, <2>2 DEF Rotating, At, Tokens, Rooted
  <2> QED
    BY <2>1, <2>2
<1> QED
  BY <1>2, TokensKept

\* The conditional DELETE passes the session from the token to the request.
LEMMA ConsumeTokens ==
  ASSUME TypeInv, Tokens, NEW r \in Request, RefreshConsume(r)
  PROVE  Tokens'
<1>a. /\ req[r] \in Serving /\ Step(r) /\ At(r, "refresh", "consume")
      /\ req[r].token \in Token /\ family' = family /\ family[req[r].token] # None
  BY Busy DEF RefreshConsume, Step, At, Pc, TypeInv, Carries, Tokens, Rooted, history
<1>b. PICK tok \in Token, f \in Token : tok = req[r].token /\ f = family[tok]
  BY <1>a DEF TypeInv, TypeOK
<1>0. /\ req[r] \in Serving /\ Step(r) /\ At(r, "refresh", "consume")
      /\ tok = req[r].token /\ f = family[tok] /\ family' = family /\ f # None
  BY <1>a, <1>b
<1>1. ASSUME NEW pc, Goto(r, pc)
      PROVE  req'[r].op = "refresh" /\ req'[r].token = tok /\ req'[r].pc = pc
  BY <1>0, <1>1 DEF Goto, At, TypeInv, TypeOK, Serving
<1>2. CASE refresh[tok] # None /\ tok \notin expired
  <2>1. Goto(r, "issue") /\ refresh' = [refresh EXCEPT ![tok] = None]
    BY <1>0, <1>2 DEF RefreshConsume
  <2>2. req'[r].op = "refresh" /\ req'[r].token = tok /\ req'[r].pc = "issue"
    BY <1>1, <2>1
  <2>3. \A q \in Request \ {r} : req'[q] = req[q]
    BY <1>0, OthersKept
  <2>4. Rooted'
    BY <1>0, <2>1, <2>2, <2>3 DEF Tokens, Rooted, TypeInv, TypeOK
  <2>5. \A s \in Token : refresh'[s] # None => refresh[s] # None /\ s # tok
    BY <1>0, <2>1 DEF TypeInv, TypeOK
  <2>6. ASSUME NEW t \in Token, t # f PROVE Holders(t)' \subseteq Holders(t)
    BY <1>0, <2>2, <2>3, <2>5, <2>6 DEF Holders, Rotating, At
  <2>7. tok \in Holders(f) /\ f \in Token
    BY <1>0, <1>2 DEF Holders, TypeInv, TypeOK
  <2>8. \A x \in Holders(f) : x = tok
    BY <2>7 DEF Tokens, OneTokenPerLogin
  <2>9. \A q \in Request \ {r} : Rotating(q)' => family[req[q].token] # f
    <3> SUFFICES ASSUME NEW q \in Request \ {r}, Rotating(q)', family[req[q].token] = f
                 PROVE  FALSE
      OBVIOUS
    <3>1. q \in Holders(f)
      BY <2>3 DEF Holders, Rotating, At
    <3> QED
      BY <1>0, <2>8, <3>1, NamesAssumption
  <2>10. \A x \in Holders(f)' : x = r
    <3> SUFFICES ASSUME NEW x \in Holders(f)', x # r PROVE FALSE
      OBVIOUS
    <3>1. CASE x \in Token /\ refresh'[x] # None /\ family'[x] = f
      <4>1. x \in Holders(f)
        BY <1>0, <2>5, <3>1 DEF Holders
      <4> QED
        BY <2>5, <2>8, <3>1, <4>1
    <3>2. CASE x \in Request /\ Rotating(x)' /\ family'[req'[x].token] = f
      BY <1>0, <2>3, <2>9, <3>2
    <3> QED
      BY <1>0, <3>1, <3>2 DEF Holders
  <2>11. OneTokenPerLogin'
    BY <2>6, <2>10 DEF Tokens, OneTokenPerLogin
  <2> QED
    BY <2>4, <2>11 DEF Tokens
<1>3. CASE ~ (refresh[tok] # None /\ tok \notin expired)
  <2>1. Goto(r, "reuse") /\ refresh' = refresh
    BY <1>0, <1>3 DEF RefreshConsume
  <2>2. ~ Rotating(r)'
    BY <1>1, <2>1 DEF Rotating, At
  <2> QED
    BY <1>0, <1>1, <2>1, <2>2, TokensKeptBy
<1> QED
  BY <1>2, <1>3

\* A stored successor takes the session over from the request, and a login
\* starts one of its own.
LEMMA IssueTokens ==
  ASSUME TypeInv, Tokens, NEW r \in Request, Issue(r)
  PROVE  Tokens'
<1>0. /\ req[r].pc = "issue" /\ Step(r) /\ req' = [req EXCEPT ![r] = Idle]
      /\ req[r].op # "login" => Rotating(r) /\ req[r].token \in Token
      /\ req[r].user \in User /\ req[r].user # None
  <2>1. req[r] \in Serving
    BY Busy DEF Issue, Pc, TypeInv
  <2> QED
    BY <2>1, NamesAssumption DEF Issue, Step, End, TypeInv, Carries, Rotating, At, Serving
<1>1. req'[r] = Idle /\ ~ Rotating(r)' /\ req'[r].op # "refresh"
  BY <1>0 DEF Rotating, At, Idle, TypeInv, TypeOK
<1>2. \A q \in Request \ {r} : req'[q] = req[q]
  BY <1>0, OthersKept
<1>3. CASE UNCHANGED <<refresh, family>>
  BY <1>0, <1>1, <1>3, TokensKeptBy
<1>4. CASE ~ UNCHANGED <<refresh, family>>
  <2>1. PICK n \in Token, g \in Token :
          /\ family[n] = None
          /\ refresh' = [refresh EXCEPT ![n] = req[r].user]
          /\ family' = [family EXCEPT ![n] = g]
          /\ g = IF req[r].op = "login" THEN n ELSE family[req[r].token]
    <3>1. req[r].op # "login" => family[req[r].token] \in Token
      BY <1>0 DEF Tokens, Rooted, Rotating, At, TypeInv, TypeOK
    <3> QED
      BY <1>4, <3>1 DEF Issue
  <2>3. /\ family'[n] = g
        /\ \A s \in Token \ {n} : family'[s] = family[s] /\ refresh'[s] = refresh[s]
    BY <2>1 DEF TypeInv, TypeOK
  <2>4. g = n \/ (family[g] # None /\ g # n)
    BY <1>0, <2>1 DEF Tokens, Rooted, Rotating, At
  <2>5. \A q \in Request : req[q].op = "refresh" =>
          /\ req[q].token \in Token \ {n}
          /\ family[req[q].token] # None /\ family'[req[q].token] = family[req[q].token]
    BY <2>1, <2>3 DEF Tokens, Rooted, TypeInv, Carries
  <2>6. Rooted'
    <3>1. \A t \in Token : refresh'[t] # None => family'[t] # None
      BY <2>3, NamesAssumption DEF Tokens, Rooted
    <3>2. ASSUME NEW t \in Token, family'[t] # None PROVE family'[family'[t]] # None
      <4>1. CASE t = n
        BY <2>3, <2>4, <4>1, NamesAssumption
      <4>2. CASE t # n
        <5>1. family[t] \in Token /\ family[family[t]] # None
          BY <2>3, <3>2, <4>2 DEF Tokens, Rooted, TypeInv, TypeOK
        <5> QED
          BY <2>1, <2>3, <4>2, <5>1
      <4> QED
        BY <4>1, <4>2
    <3>3. \A q \in Request : req'[q].op = "refresh" => family'[req'[q].token] # None
      BY <1>1, <1>2, <2>5
    <3> QED
      BY <3>1, <3>2, <3>3 DEF Rooted
  <2>7. ASSUME NEW t \in Token, NEW x \in Holders(t)', x # n PROVE x \in Holders(t) /\ x # r
    <3>1. CASE x \in Token /\ refresh'[x] # None /\ family'[x] = t
      BY <2>3, <2>7, <3>1, NamesAssumption DEF Holders
    <3>2. CASE x \in Request /\ Rotating(x)' /\ family'[req'[x].token] = t
      BY <1>1, <1>2, <2>5, <3>2 DEF Holders, Rotating, At
    <3> QED
      BY <3>1, <3>2 DEF Holders
  <2>8. ASSUME NEW t \in Token, n \in Holders(t)' PROVE t = g
    BY <2>3, <2>8, NamesAssumption DEF Holders
  <2>9. \A x \in Holders(g)' : x = n
    <3> SUFFICES ASSUME NEW x \in Holders(g)', x # n PROVE FALSE
      OBVIOUS
    <3>1. x \in Holders(g) /\ x # r
      BY <2>7
    <3>2. CASE req[r].op = "login"
      <4>1. \A s \in Token : family[s] # n
        BY <2>1, NamesAssumption DEF Tokens, Rooted
      <4>2. \A q \in Request : Rotating(q) => family[req[q].token] # n
        BY <2>5, <4>1 DEF Rotating, At
      <4> QED
        BY <2>1, <3>1, <3>2, <4>1, <4>2 DEF Holders
    <3>3. CASE req[r].op # "login"
      <4>1. r \in Holders(g)
        BY <1>0, <2>1, <3>3 DEF Holders
      <4> QED
        BY <3>1, <4>1 DEF Tokens, OneTokenPerLogin
    <3> QED
      BY <3>2, <3>3
  <2>10. OneTokenPerLogin'
    <3> SUFFICES ASSUME NEW t \in Token, NEW x \in Holders(t)', NEW y \in Holders(t)'
                 PROVE  x = y
      BY DEF OneTokenPerLogin
    <3>1. CASE t = g
      BY <2>9, <3>1
    <3>2. CASE t # g
      BY <2>7, <2>8, <3>2 DEF Tokens, OneTokenPerLogin
    <3> QED
      BY <3>1, <3>2
  <2> QED
    BY <2>6, <2>10 DEF Tokens
<1> QED
  BY <1>3, <1>4

LEMMA TokensStep ==
  ASSUME TypeInv, Tokens, [Next]_vars
  PROVE  Tokens'
<1>0. TypeOK
  BY DEF TypeInv
<1>1. ASSUME NEW r \in Request, Arrive(r) PROVE Tokens'
  <2>1. UNCHANGED <<refresh, family>>
    BY <1>1 DEF Arrive, LoginBegin, ForgotBegin, AccountBegin, RefreshLookup,
       ConfirmBegin, rows, history
  <2>2. /\ ~ Rotating(r)'
        /\ req'[r].op = "refresh" => req'[r].token \in Token /\ refresh[req'[r].token] # None
    BY <1>0, <1>1 DEF Arrive, LoginBegin, ForgotBegin, AccountBegin, RefreshLookup,
       ConfirmBegin, Start, Account, Rotating, At, TypeOK
  <2> QED
    BY <1>1, <2>1, <2>2, TokensKeptBy DEF Tokens, Rooted
<1>2. ASSUME NEW r \in Request, RefreshConsume(r) \/ Issue(r) PROVE Tokens'
  BY <1>2, ConsumeTokens, IssueTokens
<1>3. ASSUME NEW r \in Request, Step(r) \/ Abort(r), ~ RefreshConsume(r), ~ Issue(r)
      PROVE  Tokens'
  <2>1. UNCHANGED family
    BY <1>3 DEF Step, LoginResolve, RevokeAll, PasswordWrite, DisableWrite, RestoreWrite,
       ReplaceLock, ReplaceDelete, ReplaceInsert, ForgotSend, ForgotDrop, ConsumeLock,
       ConsumeCommit, DeadlockVictim, Abort, history
  <2>2. refresh' = refresh \/ DeleteSessions(req[r].user)
    BY <1>3 DEF Step, LoginResolve, RevokeAll, PasswordWrite, DisableWrite, RestoreWrite,
       ReplaceLock, ReplaceDelete, ReplaceInsert, ForgotSend, ForgotDrop, ConsumeLock,
       ConsumeCommit, DeadlockVictim, Abort, rows
  <2>3. \A t \in Token : refresh'[t] # None => refresh[t] # None
    BY <2>2 DEF DeleteSessions
  <2>4. ~ Rotating(r)' /\ req'[r].op # "refresh"
    <3>1. CASE End(r)
      BY <1>0, <3>1 DEF End, Idle, Rotating, At, TypeOK
    <3>2. CASE ~ End(r)
      <4>1. req[r].op # "refresh" /\ req[r].pc \in Pc
        BY <1>3, <3>2 DEF Step, LoginResolve, RevokeAll, PasswordWrite, DisableWrite,
           RestoreWrite, ReplaceLock, ReplaceDelete, ReplaceInsert, ForgotSend, ForgotDrop,
           ConsumeLock, ConsumeCommit, DeadlockVictim, Abort, At, Pc
      <4>2. \/ \E pc : Goto(r, pc)
            \/ \E l \in Link : req' = [req EXCEPT ![r].link = l, ![r].pc = "send"]
        BY <1>3, <3>2 DEF Step, LoginResolve, RevokeAll, PasswordWrite, DisableWrite,
           RestoreWrite, ReplaceLock, ReplaceDelete, ReplaceInsert, ForgotSend, ForgotDrop,
           ConsumeLock, ConsumeCommit, DeadlockVictim, Abort
      <4>3. req[r] \in Serving
        BY <1>0, <4>1, Busy
      <4>4. req'[r].op = req[r].op
        <5>1. ASSUME NEW pc, Goto(r, pc) PROVE req'[r].op = req[r].op
          BY <1>0, <4>3, <5>1 DEF Goto, TypeOK, Serving
        <5>2. ASSUME NEW l \in Link, req' = [req EXCEPT ![r].link = l, ![r].pc = "send"]
              PROVE  req'[r].op = req[r].op
          BY <1>0, <4>3, <5>2 DEF TypeOK, Serving
        <5> QED
          BY <4>2, <5>1, <5>2
      <4> QED
        BY <4>1, <4>4 DEF Rotating, At
    <3> QED
      BY <3>1, <3>2
  <2> QED
    BY <1>3, <2>1, <2>3, <2>4, TokensKeptBy
<1>4. CASE \/ \E t \in Token : Logout(t) \/ TokenExpires(t)
           \/ \E l \in Link : LinkExpires(l)
           \/ Crash
           \/ UNCHANGED vars
  <2>1. UNCHANGED family
    BY <1>4 DEF Logout, TokenExpires, LinkExpires, Crash, vars, history
  <2>2. refresh' = refresh \/ \E t \in Token : refresh' = [refresh EXCEPT ![t] = None]
    BY <1>4 DEF Logout, TokenExpires, LinkExpires, Crash, vars, rows
  <2>3. \A t \in Token : refresh'[t] # None => refresh[t] # None
    BY <1>0, <2>2 DEF TypeOK
  <2>4. req' = req \/ req' = [r \in Request |-> Idle]
    BY <1>4 DEF Logout, TokenExpires, LinkExpires, Crash, vars, rows
  <2>5. \A r \in Request :
          /\ Rotating(r)' => Rotating(r) /\ req'[r].token = req[r].token
          /\ req'[r].op = "refresh" => family[req'[r].token] # None
    BY <2>4 DEF Rotating, At, Idle, Tokens, Rooted
  <2> QED
    BY <2>1, <2>3, <2>5, TokensKept
<1> QED
  BY <1>1, <1>2, <1>3, <1>4 DEF Next

\* Whatever number of refreshes presents the tokens of a login at the same
\* time, the login has at most one valid token.
THEOREM OneToken == Spec => []OneTokenPerLogin
<1>1. Init => Tokens
  BY DEF Init, Tokens, Rooted, OneTokenPerLogin, Holders, Rotating, At, Idle
<1>2. TypeInv /\ Tokens /\ [Next]_vars => Tokens'
  BY TokensStep
<1>3. Tokens => OneTokenPerLogin
  BY DEF Tokens
<1> QED
  BY <1>1, <1>2, <1>3, TypeInvariant, PTL DEF Spec

=============================================================================
