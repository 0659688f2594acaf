--------------------------- MODULE OrderFlowProofs ---------------------------
(***************************************************************************)
(* Theorems about OrderFlow, for every catalog, every set of orders, users *)
(* and requests, and every number of faults.                               *)
(***************************************************************************)
EXTENDS OrderFlow, TLAPS

-----------------------------------------------------------------------------
(* Type correctness *)

\* A request that is being served has the record of one.
LEMMA ServingReq ==
  ASSUME TypeOK, NEW r \in Request, req[r] # Idle
  PROVE  req[r] \in Serving
BY DEF TypeOK

\* Moving a request to another program counter keeps the type of req.
LEMMA GotoType ==
  ASSUME TypeOK, NEW r \in Request, req[r].pc # "idle",
         NEW pc \in Pc \ {"idle"}, Goto(r, pc)
  PROVE  req' \in [Request -> {Idle} \cup Serving]
<1>1. req[r] # Idle
  BY DEF Idle
<1>2. req[r] \in Serving
  BY <1>1, ServingReq
<1>3. [req[r] EXCEPT !.pc = pc] \in Serving
  BY <1>2 DEF Serving
<1> QED
  BY <1>3 DEF Goto, TypeOK

\* Ending a request keeps the type of req.
LEMMA EndType ==
  ASSUME TypeOK, NEW r \in Request, End(r)
  PROVE  req' \in [Request -> {Idle} \cup Serving]
BY DEF End, TypeOK

\* Starting a request keeps the type of req.
LEMMA StartType ==
  ASSUME TypeOK, NEW r \in Request, NEW op \in Op \ {"none"},
         NEW pc \in Pc \ {"idle"}, NEW u \in User, NEW i \in Item,
         NEW o \in Order \cup {None}, NEW todo \in Seq(Course),
         Start(r, op, pc, u, i, o, todo)
  PROVE  req' \in [Request -> {Idle} \cup Serving]
BY DEF Start, TypeOK, Serving

\* The next upsert of a request keeps the type of req.
LEMMA NextTargetType ==
  ASSUME TypeOK, NEW r \in Request, req[r].pc = "write", NextTarget(r)
  PROVE  req' \in [Request -> {Idle} \cup Serving]
<1>1. req[r] \in Serving
  BY ServingReq DEF Idle
<1>2. CASE req[r].todo = <<>>
  BY <1>2, GotoType DEF NextTarget, Pc
<1>3. CASE req[r].todo # <<>>
  <2>1. req[r].todo \in Seq(Course)
    BY <1>1 DEF Serving
  <2>2. /\ Head(req[r].todo) \in Course
        /\ Tail(req[r].todo) \in Seq(Course)
    BY <1>3, <2>1
  <2> DEFINE next == [req[r] EXCEPT !.pc = "lookup", !.target = Head(req[r].todo),
                                    !.todo = Tail(req[r].todo)]
  <2>3. next \in Serving
    BY <1>1, <2>2 DEF Serving, Item, Pc
  <2>4. req' = [req EXCEPT ![r] = next]
    BY <1>3 DEF NextTarget, TypeOK
  <2> QED
    BY <2>3, <2>4 DEF TypeOK
<1> QED
  BY <1>2, <1>3

\* The courses that come with an item are a sequence of courses.
LEMMA CoursesTooType == ASSUME NEW i \in Item PROVE CoursesToo(i) \in Seq(Course)
BY CatalogAssumption DEF CoursesToo, Item

\* The rows that a revocation leaves are rows.
LEMMA RevokeType ==
  ASSUME TypeOK, NEW keys, NEW source, Revoke(keys, source)
  PROVE  enrolled' \in [User \X Item -> [source : Source, live : BOOLEAN]]
<1>1. ASSUME NEW k \in User \X Item
      PROVE [enrolled[k] EXCEPT !.live = FALSE] \in [source : Source, live : BOOLEAN]
  <2>1. enrolled[k] \in [source : Source, live : BOOLEAN]
    BY DEF TypeOK
  <2> QED
    BY <2>1
<1> QED
  BY <1>1 DEF Revoke, TypeOK

\* The initial state is well typed.
LEMMA InitType == Init => TypeOK
BY DEF Init, TypeOK, Status, Source

\* Requests arrive with well-formed parameters.
LEMMA ArriveType == ASSUME TypeOK, NEW r \in Request, Arrive(r) PROVE TypeOK'
<1>0. <<>> \in Seq(Course) /\ None \in Order \cup {None}
  OBVIOUS
<1>1. req' \in [Request -> {Idle} \cup Serving]
  <2>1. ASSUME NEW u \in User, NEW i \in Item, CreateBegin(r, u, i)
        PROVE req' \in [Request -> {Idle} \cup Serving]
    BY <1>0, <2>1, StartType, CoursesTooType DEF CreateBegin, Op, Pc
  <2>2. ASSUME NEW u \in User, NEW i \in Item, Grant(r, u, i)
        PROVE req' \in [Request -> {Idle} \cup Serving]
    BY <1>0, <2>2, StartType DEF Grant, Op, Pc
  <2>3. ASSUME NEW u \in User, NEW c \in Course, EnrollFree(r, u, c)
        PROVE req' \in [Request -> {Idle} \cup Serving]
    BY <1>0, <2>3, StartType DEF EnrollFree, Op, Pc, Item
  <2>4. ASSUME NEW u \in User, NEW o \in Order,
               PayBegin(r, u, o) \/ CancelBegin(r, u, o) \/ RefundBegin(r, u, o)
        PROVE req' \in [Request -> {Idle} \cup Serving]
    <3>1. ItemOf[o] \in Item
      BY OrderAssumption
    <3>2. CASE PayBegin(r, u, o)
      BY <3>1, <3>2, StartType, CoursesTooType DEF PayBegin, Op, Pc
    <3>3. CASE CancelBegin(r, u, o)
      BY <1>0, <3>1, <3>3, StartType DEF CancelBegin, Op, Pc
    <3>4. CASE RefundBegin(r, u, o)
      BY <1>0, <3>1, <3>4, StartType DEF RefundBegin, Op, Pc
    <3> QED
      BY <2>4, <3>2, <3>3, <3>4
  <2> QED
    BY <2>1, <2>2, <2>3, <2>4 DEF Arrive
<1>2. UNCHANGED <<status, enrolled, study, late, audit, notices, certified, faults>>
  BY DEF Arrive, CreateBegin, Grant, EnrollFree, PayBegin, CancelBegin, RefundBegin
<1> QED
  BY <1>1, <1>2 DEF TypeOK

\* The audit entry of a request that is being served is well formed.
LEMMA AuditedType ==
  ASSUME TypeOK, NEW r \in Request, req[r].pc # "idle"
  PROVE  Audited(r) \in [op : Op, user : User, item : Item, order : Order \cup {None}]
BY ServingReq DEF Idle, Audited, Serving

\* Counting a notification keeps the type of notices.
LEMMA NotifyType ==
  ASSUME TypeOK, NEW o, NEW kind, Notify(o, kind)
  PROVE  notices' \in [Order \X {"created", "refunded"} -> Nat]
<1>1. ASSUME <<o, kind>> \in Order \X {"created", "refunded"}
      PROVE  notices[<<o, kind>>] + 1 \in Nat
  BY <1>1 DEF TypeOK
<1> QED
  BY <1>1 DEF Notify, TypeOK

\* Adding a certificate keeps the type of certified.
LEMMA CertifyType ==
  ASSUME TypeOK, NEW u \in User, NEW i \in Item, Certify(u, i)
  PROVE  certified' \subseteq User \X Item
BY DEF Certify, TypeOK

\* The steps that place, pay, cancel and refund an order.
LEMMA StatusStepType ==
  ASSUME TypeOK, NEW r \in Request,
         CreatePlace(r) \/ PayMark(r) \/ CancelMark(r) \/ RefundMark(r)
  PROVE  TypeOK'
<1>1. status' \in [Order -> Status]
  BY DEF TypeOK, CreatePlace, PayMark, CancelMark, RefundMark, Status
<1>2. req' \in [Request -> {Idle} \cup Serving]
  <2>1. CASE CreatePlace(r)
    <3>1. req[r] \in Serving
      BY <2>1, ServingReq DEF CreatePlace, At, Idle
    <3>2. ASSUME NEW o \in Order
          PROVE  [req[r] EXCEPT !.order = o, !.pc = "finish"] \in Serving
      BY <3>1 DEF Serving, Pc
    <3>3. CASE End(r)
      BY <3>3, EndType
    <3>4. ASSUME NEW o \in Order,
                 req' = [req EXCEPT ![r].order = o, ![r].pc = "finish"]
          PROVE  req' \in [Request -> {Idle} \cup Serving]
      <4>1. req' = [req EXCEPT ![r] = [req[r] EXCEPT !.order = o, !.pc = "finish"]]
        BY <3>4 DEF TypeOK
      <4> QED
        BY <3>2, <4>1 DEF TypeOK
    <3> QED
      BY <2>1, <3>3, <3>4 DEF CreatePlace, Fresh
  <2>2. CASE PayMark(r) \/ CancelMark(r) \/ RefundMark(r)
    BY <2>2, GotoType, EndType DEF PayMark, CancelMark, RefundMark, At, Pc
  <2> QED
    BY <2>1, <2>2
<1>3. UNCHANGED <<enrolled, study, late, audit, notices, certified, faults>>
  BY DEF CreatePlace, PayMark, CancelMark, RefundMark
<1> QED
  BY <1>1, <1>2, <1>3 DEF TypeOK

\* The steps of UpsertEnrollment.
LEMMA UpsertStepType ==
  ASSUME TypeOK, NEW r \in Request,
         UpsertLookup(r) \/ UpsertWrite(r) \/ UpsertConflict(r)
  PROVE  TypeOK'
<1>0. req[r] \in Serving
  BY ServingReq DEF UpsertLookup, UpsertWrite, UpsertConflict, Idle
<1>1. CASE UpsertLookup(r)
  <2> DEFINE next == [req[r] EXCEPT !.pc = "write",
                                    !.found = HasRow(req[r].user, req[r].target)]
  <2>1. next \in Serving
    BY <1>0 DEF Serving, Pc, HasRow
  <2>2. req' = [req EXCEPT ![r] = next]
    BY <1>1 DEF UpsertLookup, TypeOK
  <2> QED
    BY <1>1, <2>1, <2>2 DEF TypeOK, UpsertLookup
<1>2. CASE UpsertWrite(r)
  <2>1. <<req[r].user, req[r].target>> \in User \X Item
    BY <1>0 DEF Serving
  <2>2. [source |-> SourceOf(r), live |-> TRUE] \in [source : Source, live : BOOLEAN]
    BY DEF SourceOf, Source
  <2>3. enrolled' \in [User \X Item -> [source : Source, live : BOOLEAN]]
    BY <1>2, <2>1, <2>2 DEF UpsertWrite, TypeOK
  <2>4. req' \in [Request -> {Idle} \cup Serving]
    BY <1>2, NextTargetType DEF UpsertWrite
  <2> QED
    BY <1>2, <2>3, <2>4 DEF UpsertWrite, TypeOK
<1>3. CASE UpsertConflict(r)
  <2>1. req' \in [Request -> {Idle} \cup Serving]
    BY <1>3, GotoType, EndType DEF UpsertConflict, Pc
  <2> QED
    BY <1>3, <2>1 DEF UpsertConflict, TypeOK
<1> QED
  BY <1>1, <1>2, <1>3

\* The check and the revocations of a refund.
LEMMA RefundStepType ==
  ASSUME TypeOK, NEW r \in Request,
         RefundCheck(r) \/ RefundRevoke(r) \/ RefundRevokeCourses(r)
  PROVE  TypeOK'
<1>1. req' \in [Request -> {Idle} \cup Serving]
  BY GotoType, EndType DEF RefundCheck, RefundRevoke, RefundRevokeCourses, At, Pc
<1>2. enrolled' \in [User \X Item -> [source : Source, live : BOOLEAN]]
  <2>1. CASE RefundCheck(r)
    BY <2>1 DEF RefundCheck, TypeOK
  <2>2. CASE RefundRevoke(r)
    BY <2>2, RevokeType DEF RefundRevoke
  <2>3. CASE RefundRevokeCourses(r)
    BY <2>3, RevokeType DEF RefundRevokeCourses
  <2> QED
    BY <2>1, <2>2, <2>3
<1>3. UNCHANGED <<status, study, late, audit, notices, certified, faults>>
  BY DEF RefundCheck, RefundRevoke, RefundRevokeCourses
<1> QED
  BY <1>1, <1>2, <1>3 DEF TypeOK

\* The tails of the handlers.
Finish(r) == \/ FinishOrder(r) \/ FinishFreeEnroll(r) \/ FinishPay(r)
             \/ FinishCancel(r) \/ FinishRefund(r) \/ FinishGrant(r)

\* The tails of the handlers keep every type.
LEMMA FinishType == ASSUME TypeOK, NEW r \in Request, Finish(r) PROVE TypeOK'
<1> USE DEF Finish, FinishOrder, FinishFreeEnroll, FinishPay, FinishCancel,
            FinishRefund, FinishGrant
<1>0. req[r].pc # "idle" /\ req[r] \in Serving
  BY ServingReq DEF At, Idle
<1>1. req' \in [Request -> {Idle} \cup Serving]
  BY EndType
<1>2. audit' \subseteq [op : Op, user : User, item : Item, order : Order \cup {None}]
  <2>1. audit' \subseteq audit \cup {Audited(r)}
    OBVIOUS
  <2> QED
    BY <1>0, <2>1, AuditedType DEF TypeOK
<1>3. notices' \in [Order \X {"created", "refunded"} -> Nat]
  BY NotifyType DEF TypeOK
<1>4. certified' \subseteq User \X Item
  <2>1. req[r].user \in User /\ req[r].item \in Item
    BY <1>0 DEF Serving
  <2> QED
    BY <2>1, CertifyType DEF TypeOK
<1>5. UNCHANGED <<status, enrolled, study, late, faults>>
  OBVIOUS
<1> QED
  BY <1>1, <1>2, <1>3, <1>4, <1>5 DEF TypeOK

\* Faults, learning and the passing of time.
LEMMA AroundType ==
  ASSUME TypeOK,
         \/ \E r \in Request : Abort(r) \/ SwallowError(r)
         \/ \E u \in User, c \in Course : CompleteLessons(u, c)
         \/ \E o \in Order : RefundWindowCloses(o)
  PROVE  TypeOK'
<1>1. ASSUME NEW r \in Request, Abort(r) PROVE TypeOK'
  <2>1. req' \in [Request -> {Idle} \cup Serving]
    BY <1>1, EndType DEF Abort
  <2> QED
    BY <1>1, <2>1 DEF Abort, TypeOK
<1>2. ASSUME NEW r \in Request, SwallowError(r) PROVE TypeOK'
  <2>1. req' \in [Request -> {Idle} \cup Serving]
    BY <1>2, GotoType DEF SwallowError, Pc
  <2> QED
    BY <1>2, <2>1 DEF SwallowError, TypeOK
<1>3. ASSUME NEW u \in User, NEW c \in Course, CompleteLessons(u, c) PROVE TypeOK'
  BY <1>3 DEF CompleteLessons, TypeOK
<1>4. ASSUME NEW o \in Order, RefundWindowCloses(o) PROVE TypeOK'
  BY <1>4 DEF RefundWindowCloses, TypeOK
<1> QED
  BY <1>1, <1>2, <1>3, <1>4

\* Every step keeps every type.
LEMMA NextType == TypeOK /\ [Next]_vars => TypeOK'
<1> SUFFICES ASSUME TypeOK, [Next]_vars PROVE TypeOK'
  OBVIOUS
<1>1. CASE UNCHANGED vars
  BY <1>1 DEF vars, TypeOK
<1>2. ASSUME NEW r \in Request, Step(r) PROVE TypeOK'
  BY <1>2, StatusStepType, UpsertStepType, RefundStepType, FinishType
     DEF Step, Finish
<1> QED
  BY <1>1, <1>2, ArriveType, AroundType DEF Next

\* Type correctness of the purchase flow.
THEOREM TypeCorrect == Spec => []TypeOK
BY InitType, NextType, PTL DEF Spec

-----------------------------------------------------------------------------
(* Stale reads hold, and with them the ledger refinement *)

\* The fields that a handler never changes once it works on an order.
SameRequest(r) ==
  /\ req'[r].op = req[r].op /\ req'[r].user = req[r].user
  /\ req'[r].item = req[r].item /\ req'[r].order = req[r].order

OthersStay(s) == \A r \in Request : r # s => req'[r] = req[r]

\* Goto changes the program counter of one request and nothing else.
LEMMA GotoEffect ==
  ASSUME TypeOK, NEW s \in Request, req[s].pc # "idle", NEW pc, Goto(s, pc)
  PROVE  /\ SameRequest(s) /\ OthersStay(s)
         /\ req'[s].pc = pc
         /\ req'[s].target = req[s].target /\ req'[s].todo = req[s].todo
<1>1. req[s] \in Serving
  BY ServingReq DEF Idle
<1>2. req' = [req EXCEPT ![s] = [req[s] EXCEPT !.pc = pc]]
  BY DEF Goto, TypeOK
<1>3. req'[s] = [req[s] EXCEPT !.pc = pc] /\ OthersStay(s)
  BY <1>2 DEF TypeOK, OthersStay
<1> QED
  BY <1>1, <1>3 DEF Serving, SameRequest

\* End frees one slot and leaves the other requests alone.
LEMMA EndEffect ==
  ASSUME TypeOK, NEW s \in Request, End(s)
  PROVE  req'[s] = Idle /\ OthersStay(s)
BY DEF End, TypeOK, OthersStay

\* Start fills one idle slot with the request described.
LEMMA StartEffect ==
  ASSUME TypeOK, NEW s \in Request, NEW op, NEW pc, NEW u, NEW i, NEW o, NEW todo,
         Start(s, op, pc, u, i, o, todo)
  PROVE  /\ req[s] = Idle /\ OthersStay(s)
         /\ req'[s].op = op /\ req'[s].pc = pc /\ req'[s].user = u
         /\ req'[s].item = i /\ req'[s].order = o
         /\ req'[s].target = i /\ req'[s].todo = todo
BY DEF Start, TypeOK, OthersStay

\* The SELECT of an upsert moves its own request only, on the same target.
LEMMA LookupEffect ==
  ASSUME TypeOK, NEW s \in Request, UpsertLookup(s)
  PROVE  /\ SameRequest(s) /\ OthersStay(s)
         /\ req'[s].pc = "write"
         /\ req'[s].target = req[s].target /\ req'[s].todo = req[s].todo
<1> DEFINE next == [req[s] EXCEPT !.pc = "write",
                                  !.found = HasRow(req[s].user, req[s].target)]
<1>1. req[s] \in Serving
  BY ServingReq DEF Idle, UpsertLookup
<1>2. req' = [req EXCEPT ![s] = next]
  BY DEF UpsertLookup, TypeOK
<1>3. req'[s] = next /\ OthersStay(s)
  BY <1>2 DEF TypeOK, OthersStay
<1> QED
  BY <1>1, <1>3 DEF Serving, SameRequest

\* After a write a handler finishes or turns to the next course of its list.
LEMMA NextTargetEffect ==
  ASSUME TypeOK, NEW s \in Request, req[s].pc = "write", NextTarget(s)
  PROVE  /\ SameRequest(s) /\ OthersStay(s)
         /\ \/ req'[s].pc = "finish" /\ req'[s].target = req[s].target
               /\ req'[s].todo = req[s].todo
            \/ /\ req[s].todo # <<>> /\ req'[s].pc = "lookup"
               /\ req'[s].target = Head(req[s].todo)
               /\ req'[s].todo = Tail(req[s].todo)
<1>1. req[s] \in Serving
  BY ServingReq DEF Idle
<1>2. CASE req[s].todo = <<>>
  BY <1>2, GotoEffect DEF NextTarget
<1>3. CASE req[s].todo # <<>>
  <2> DEFINE next == [req[s] EXCEPT !.pc = "lookup", !.target = Head(req[s].todo),
                                    !.todo = Tail(req[s].todo)]
  <2>1. req' = [req EXCEPT ![s] = next]
    BY <1>3 DEF NextTarget, TypeOK
  <2>2. req'[s] = next /\ OthersStay(s)
    BY <2>1 DEF TypeOK, OthersStay
  <2> QED
    BY <1>1, <1>3, <2>2 DEF Serving, SameRequest
<1> QED
  BY <1>2, <1>3

\* Placing an order ends with a fresh order of the item, or with none.
LEMMA PlaceEffect ==
  ASSUME TypeOK, NEW s \in Request, CreatePlace(s)
  PROVE  /\ OthersStay(s)
         /\ \/ req'[s] = Idle
            \/ /\ req'[s].op = "create" /\ req'[s].pc = "finish"
               /\ req'[s].user = req[s].user /\ req'[s].item = req[s].item
               /\ req'[s].target = req[s].target /\ req'[s].todo = req[s].todo
               /\ req'[s].order \in Fresh(req[s].user, req[s].item)
<1>1. req[s] \in Serving /\ req[s].op = "create"
  BY ServingReq DEF Idle, CreatePlace, At
<1>2. CASE End(s)
  BY <1>2, EndEffect
<1>3. ASSUME NEW o \in Fresh(req[s].user, req[s].item),
             req' = [req EXCEPT ![s].order = o, ![s].pc = "finish"]
      PROVE  /\ OthersStay(s) /\ req'[s].order = o
             /\ req'[s].op = "create" /\ req'[s].pc = "finish"
             /\ req'[s].user = req[s].user /\ req'[s].item = req[s].item
             /\ req'[s].target = req[s].target /\ req'[s].todo = req[s].todo
  <2>1. OthersStay(s) /\ req'[s] = [req[s] EXCEPT !.order = o, !.pc = "finish"]
    BY <1>3 DEF TypeOK, OthersStay
  <2> QED
    BY <1>1, <2>1 DEF Serving
<1> QED
  BY <1>2, <1>3 DEF CreatePlace

\* A request on an order is on an existing id, for its buyer and its item.
OwnOrder(r) ==
  req[r].op \in {"pay", "cancel", "refund"} =>
    /\ req[r].order \in Order
    /\ req[r].user = Buyer[req[r].order]
    /\ req[r].item = ItemOf[req[r].order]

\* Requests are identified by their order as long as they run.
LEMMA OwnOrderStep ==
  ASSUME TypeOK, \A r \in Request : OwnOrder(r), [Next]_vars
  PROVE  \A r \in Request : OwnOrder(r)'
<1> SUFFICES ASSUME NEW r \in Request PROVE OwnOrder(r)'
  OBVIOUS
<1>1. ASSUME NEW s \in Request, Arrive(s) PROVE OwnOrder(r)'
  <2>1. CASE r # s
    BY <1>1, <2>1, StartEffect
       DEF Arrive, CreateBegin, Grant, EnrollFree, PayBegin, CancelBegin, RefundBegin,
           OthersStay, OwnOrder
  <2>2. ASSUME r = s, NEW u \in User, NEW i \in Item, CreateBegin(s, u, i) \/ Grant(s, u, i)
        PROVE  OwnOrder(r)'
    <3>1. req'[s].op \in {"create", "grant"}
      BY <2>2, StartEffect DEF CreateBegin, Grant
    <3> QED
      BY <2>2, <3>1 DEF OwnOrder
  <2>3. ASSUME r = s, NEW u \in User, NEW c \in Course, EnrollFree(s, u, c)
        PROVE  OwnOrder(r)'
    <3>1. req'[s].op = "enroll"
      BY <2>3, StartEffect DEF EnrollFree
    <3> QED
      BY <2>3, <3>1 DEF OwnOrder
  <2>4. ASSUME r = s, NEW u \in User, NEW o \in Order,
               PayBegin(s, u, o) \/ CancelBegin(s, u, o) \/ RefundBegin(s, u, o)
        PROVE  OwnOrder(r)'
    <3>1. req'[s].order = o /\ req'[s].user = Buyer[o] /\ req'[s].item = ItemOf[o]
      BY <2>4, StartEffect DEF PayBegin, CancelBegin, RefundBegin
    <3> QED
      BY <2>4, <3>1 DEF OwnOrder
  <2> QED
    BY <1>1, <2>1, <2>2, <2>3, <2>4 DEF Arrive
<1>2. ASSUME NEW s \in Request, CreatePlace(s) PROVE OwnOrder(r)'
  BY <1>2, PlaceEffect DEF OthersStay, OwnOrder, Idle
<1>3. ASSUME NEW s \in Request, SameRequest(s) \/ req'[s] = Idle, OthersStay(s)
      PROVE  OwnOrder(r)'
  BY <1>3 DEF SameRequest, OthersStay, OwnOrder, Idle
<1>4. ASSUME NEW s \in Request, Step(s) PROVE OwnOrder(r)'
  <2>1. CASE UpsertLookup(s) \/ UpsertWrite(s) \/ UpsertConflict(s)
    BY <1>3, <2>1, LookupEffect, NextTargetEffect, GotoEffect, EndEffect
       DEF UpsertWrite, UpsertConflict
  <2>2. CASE PayMark(s) \/ CancelMark(s) \/ RefundCheck(s) \/ RefundMark(s)
               \/ RefundRevoke(s) \/ RefundRevokeCourses(s)
    BY <1>3, <2>2, GotoEffect, EndEffect
       DEF PayMark, CancelMark, RefundCheck, RefundMark, RefundRevoke,
           RefundRevokeCourses, At
  <2>3. CASE Finish(s)
    BY <1>3, <2>3, EndEffect
       DEF Finish, FinishOrder, FinishFreeEnroll, FinishPay, FinishCancel,
           FinishRefund, FinishGrant
  <2> QED
    BY <1>2, <1>4, <2>1, <2>2, <2>3 DEF Step, Finish
<1>5. ASSUME UNCHANGED req PROVE OwnOrder(r)'
  BY <1>5 DEF OwnOrder
<1>6. ASSUME NEW s \in Request, Abort(s) PROVE OwnOrder(r)'
  BY <1>3, <1>6, EndEffect DEF Abort
<1>7. ASSUME NEW s \in Request, SwallowError(s) PROVE OwnOrder(r)'
  BY <1>3, <1>7, GotoEffect DEF SwallowError
<1> QED
  BY <1>1, <1>4, <1>5, <1>6, <1>7 DEF Next, vars, CompleteLessons, RefundWindowCloses

OwnOrders == \A r \in Request : OwnOrder(r)

\* The three conditional steps of the ledger and the refund's unconditional
\* one: behind StaleReadsHold each of them is a step of OrderLedger or none.
LEMMA StatusStep ==
  ASSUME TypeOK, StaleReadsHold, OwnOrders, [Next]_vars
  PROVE  status' = status \/ Ledger!Next
<1>1. ASSUME NEW s \in Request, CreatePlace(s) PROVE status' = status \/ Ledger!Next
  BY <1>1 DEF CreatePlace, Fresh, Ledger!Next, Ledger!Place, Ledger!Move
<1>2. ASSUME NEW s \in Request, PayMark(s) PROVE status' = status \/ Ledger!Next
  <2>1. req[s].order \in Order
    BY <1>2 DEF OwnOrders, OwnOrder, PayMark, At
  <2> QED
    BY <1>2, <2>1 DEF PayMark, StillPending, Ledger!Next, Ledger!Pay, Ledger!Move
<1>3. ASSUME NEW s \in Request, CancelMark(s) PROVE status' = status \/ Ledger!Next
  <2>1. req[s].order \in Order
    BY <1>3 DEF OwnOrders, OwnOrder, CancelMark, At
  <2> QED
    BY <1>3, <2>1 DEF CancelMark, StillPending, Ledger!Next, Ledger!Cancel, Ledger!Move
<1>4. ASSUME NEW s \in Request, RefundMark(s) PROVE status' = status \/ Ledger!Next
  <2>1. req[s].order \in Order
    BY <1>4 DEF OwnOrders, OwnOrder, RefundMark, At
  <2>2. status[req[s].order] \in {"paid", "refunded"}
    BY <1>4 DEF StaleReadsHold, ReadHolds, RefundMark, At
  <2>3. CASE status[req[s].order] = "refunded"
    BY <1>4, <2>1, <2>3 DEF RefundMark, TypeOK
  <2>4. CASE status[req[s].order] = "paid"
    BY <1>4, <2>1, <2>4 DEF RefundMark, Ledger!Next, Ledger!Refund, Ledger!Move
  <2> QED
    BY <2>2, <2>3, <2>4
<1>5. ASSUME NEW s \in Request,
             \/ Arrive(s) \/ Abort(s) \/ SwallowError(s)
             \/ UpsertLookup(s) \/ UpsertWrite(s) \/ UpsertConflict(s)
             \/ RefundCheck(s) \/ RefundRevoke(s) \/ RefundRevokeCourses(s)
             \/ Finish(s)
      PROVE  status' = status
  BY <1>5 DEF Arrive, CreateBegin, Grant, EnrollFree, PayBegin, CancelBegin, RefundBegin,
              Abort, SwallowError, UpsertLookup, UpsertWrite, UpsertConflict,
              RefundCheck, RefundRevoke, RefundRevokeCourses, Finish, FinishOrder,
              FinishFreeEnroll, FinishPay, FinishCancel, FinishRefund, FinishGrant
<1> QED
  BY <1>1, <1>2, <1>3, <1>4, <1>5
     DEF Next, Step, Finish, vars, CompleteLessons, RefundWindowCloses

\* What can be relied on of a status that another request read earlier.
Reliable ==
  \A o \in Order :
    /\ status[o] # "none" => status'[o] # "none"
    /\ status[o] \in {"paid", "refunded"} => status'[o] \in {"paid", "refunded"}
    /\ status[o] = "refunded" => status'[o] = "refunded"
    /\ status[o] = "expired" => status'[o] = "expired"

\* Steps of the ledger leave the statuses that handlers rely on standing.
LEMMA LedgerIsReliable ==
  ASSUME TypeOK, status' = status \/ Ledger!Next
  PROVE  Reliable
<1>1. CASE status' = status
  BY <1>1 DEF Reliable
<1>2. ASSUME NEW o \in Order,
             Ledger!Place(o) \/ Ledger!Pay(o) \/ Ledger!Cancel(o) \/ Ledger!Refund(o)
      PROVE  Reliable
  BY <1>2 DEF Reliable, TypeOK, Ledger!Place, Ledger!Pay, Ledger!Cancel, Ledger!Refund,
              Ledger!Move
<1> QED
  BY <1>1, <1>2 DEF Ledger!Next

\* The program counters that each kind of handler goes through.
PcFits(r) ==
  /\ req[r].pc \in {"lookup", "write"} => req[r].op \in {"create", "pay", "enroll", "grant"}
  /\ req[r].pc \in {"revoke", "revokeCourses"} => req[r].op = "refund"

\* No step takes a handler to a program counter of another one.
LEMMA PcFitsStep ==
  ASSUME TypeOK, \A r \in Request : PcFits(r), [Next]_vars
  PROVE  \A r \in Request : PcFits(r)'
<1> SUFFICES ASSUME NEW r \in Request PROVE PcFits(r)'
  OBVIOUS
<1>1. ASSUME NEW s \in Request, OthersStay(s), r # s PROVE PcFits(r)'
  BY <1>1 DEF OthersStay, PcFits
<1>2. ASSUME NEW s \in Request, req'[s] = Idle, OthersStay(s) PROVE PcFits(r)'
  BY <1>1, <1>2 DEF PcFits, Idle
<1>3. ASSUME NEW s \in Request, SameRequest(s), OthersStay(s), PcFits(s),
             \/ req'[s].pc \notin {"lookup", "write", "revoke", "revokeCourses"}
             \/ req'[s].pc \in {"lookup", "write"} /\ req[s].pc \in {"lookup", "write"}
             \/ req'[s].pc \in {"lookup", "write"} /\ req[s].op = "pay"
             \/ req'[s].pc \in {"revoke", "revokeCourses"} /\ req[s].op = "refund"
      PROVE  PcFits(r)'
  BY <1>1, <1>3 DEF PcFits, SameRequest
<1>4. ASSUME NEW s \in Request, Arrive(s) PROVE PcFits(r)'
  <2>1. OthersStay(s)
    BY <1>4, StartEffect DEF Arrive, CreateBegin, Grant, EnrollFree, PayBegin,
                             CancelBegin, RefundBegin
  <2>2. \/ req'[s].pc \in {"place", "mark", "check"}
        \/ req'[s].pc = "lookup" /\ req'[s].op \in {"create", "grant", "enroll"}
    <3>1. ASSUME NEW u \in User, NEW i \in Item, CreateBegin(s, u, i) \/ Grant(s, u, i)
          PROVE  \/ req'[s].pc = "place"
                 \/ req'[s].pc = "lookup" /\ req'[s].op \in {"create", "grant"}
      BY <3>1, StartEffect DEF CreateBegin, Grant
    <3>2. ASSUME NEW u \in User, NEW c \in Course, EnrollFree(s, u, c)
          PROVE  req'[s].pc = "lookup" /\ req'[s].op = "enroll"
      BY <3>2, StartEffect DEF EnrollFree
    <3>3. ASSUME NEW u \in User, NEW o \in Order,
                 PayBegin(s, u, o) \/ CancelBegin(s, u, o) \/ RefundBegin(s, u, o)
          PROVE  req'[s].pc \in {"mark", "check"}
      BY <3>3, StartEffect DEF PayBegin, CancelBegin, RefundBegin
    <3> QED
      BY <1>4, <3>1, <3>2, <3>3 DEF Arrive
  <2> QED
    BY <1>1, <2>1, <2>2 DEF PcFits
<1>5. ASSUME NEW s \in Request, Step(s) PROVE PcFits(r)'
  <2>1. CASE CreatePlace(s)
    BY <1>1, <1>2, <2>1, PlaceEffect DEF PcFits
  <2>2. CASE UpsertLookup(s) \/ UpsertWrite(s)
    <3>1. req[s].pc \in {"lookup", "write"}
      BY <2>2 DEF UpsertLookup, UpsertWrite
    <3>2. /\ SameRequest(s) /\ OthersStay(s)
          /\ req'[s].pc \in {"lookup", "write", "finish"}
      BY <2>2, LookupEffect, NextTargetEffect DEF UpsertWrite
    <3> QED
      BY <1>3, <3>1, <3>2
  <2>3. CASE UpsertConflict(s)
    BY <1>2, <1>3, <2>3, EndEffect, GotoEffect DEF UpsertConflict
  <2>4. CASE PayMark(s) \/ CancelMark(s) \/ RefundCheck(s) \/ RefundMark(s)
               \/ RefundRevoke(s) \/ RefundRevokeCourses(s)
    BY <1>2, <1>3, <2>4, EndEffect, GotoEffect
       DEF PayMark, CancelMark, RefundCheck, RefundMark, RefundRevoke,
           RefundRevokeCourses, At
  <2>5. CASE Finish(s)
    BY <1>2, <2>5, EndEffect
       DEF Finish, FinishOrder, FinishFreeEnroll, FinishPay, FinishCancel,
           FinishRefund, FinishGrant
  <2> QED
    BY <1>5, <2>1, <2>2, <2>3, <2>4, <2>5 DEF Step, Finish
<1>6. ASSUME NEW s \in Request, Abort(s) \/ SwallowError(s) PROVE PcFits(r)'
  BY <1>2, <1>3, <1>6, EndEffect, GotoEffect DEF Abort, SwallowError, PcFits
<1>7. ASSUME UNCHANGED req PROVE PcFits(r)'
  BY <1>7 DEF PcFits
<1> QED
  BY <1>4, <1>5, <1>6, <1>7 DEF Next, vars, CompleteLessons, RefundWindowCloses

PcFitAll == \A r \in Request : PcFits(r)

\* The condition of a request survives the steps of the others.
LEMMA ReadStays ==
  ASSUME OwnOrders, StaleReadsHold, Reliable, NEW r \in Request, req'[r] = req[r]
  PROVE  ReadHolds(r)'
<1>1. ReadHolds(r) /\ OwnOrder(r)
  BY DEF OwnOrders, StaleReadsHold
<1> QED
  BY <1>1 DEF ReadHolds, OwnOrder, Reliable, PaidPhase, At

\* A request that begins to work on an order establishes its condition.
LEMMA ReadBegins ==
  ASSUME TypeOK, NEW s \in Request, Arrive(s)
  PROVE  OthersStay(s) /\ ReadHolds(s)'
<1>1. ASSUME NEW u \in User, NEW i \in Item, CreateBegin(s, u, i) \/ Grant(s, u, i)
      PROVE  OthersStay(s) /\ req'[s].op \in {"create", "grant"}
  BY <1>1, StartEffect DEF CreateBegin, Grant
<1>2. ASSUME NEW u \in User, NEW c \in Course, EnrollFree(s, u, c)
      PROVE  OthersStay(s) /\ req'[s].op = "enroll"
  BY <1>2, StartEffect DEF EnrollFree
<1>3. ASSUME req'[s].op \in {"create", "grant", "enroll"} PROVE ReadHolds(s)'
  BY <1>3 DEF ReadHolds, PaidPhase, At
<1>4. ASSUME NEW u \in User, NEW o \in Order, PayBegin(s, u, o) \/ CancelBegin(s, u, o)
      PROVE  OthersStay(s) /\ ReadHolds(s)'
  <2>1. /\ OthersStay(s) /\ req'[s].op \in {"pay", "cancel"} /\ req'[s].pc = "mark"
        /\ req'[s].order = o /\ status'[o] = "pending"
    BY <1>4, StartEffect DEF PayBegin, CancelBegin
  <2> QED
    BY <2>1 DEF ReadHolds, PaidPhase, At
<1>5. ASSUME NEW u \in User, NEW o \in Order, RefundBegin(s, u, o)
      PROVE  OthersStay(s) /\ ReadHolds(s)'
  <2>1. /\ OthersStay(s) /\ req'[s].op = "refund" /\ req'[s].pc = "check"
        /\ req'[s].order = o /\ status'[o] = "paid"
    BY <1>5, StartEffect DEF RefundBegin
  <2> QED
    BY <2>1 DEF ReadHolds, PaidPhase, At
<1> QED
  BY <1>1, <1>2, <1>3, <1>4, <1>5 DEF Arrive

\* A handler that goes on keeps what it read, or has just written it.
LEMMA ReadGoesOn ==
  ASSUME TypeOK, StaleReadsHold, OwnOrders, PcFitAll, Reliable, NEW s \in Request,
         Step(s) \/ Abort(s) \/ SwallowError(s)
  PROVE  OthersStay(s) /\ ReadHolds(s)'
<1>0. ReadHolds(s) /\ OwnOrder(s) /\ PcFits(s)
  BY DEF StaleReadsHold, OwnOrders, PcFitAll
<1>1. ASSUME req'[s] = Idle PROVE ReadHolds(s)'
  BY <1>1 DEF Idle, ReadHolds, PaidPhase, At
<1>2. CASE CreatePlace(s)
  <2>1. OthersStay(s) /\ (req'[s] = Idle \/ req'[s].op = "create")
    BY <1>2, PlaceEffect
  <2> QED
    BY <1>1, <2>1 DEF ReadHolds, PaidPhase, At
<1>3. ASSUME SameRequest(s), req[s].pc \in {"lookup", "write"},
             req'[s].pc \in {"lookup", "write", "finish"}
      PROVE  ReadHolds(s)'
  BY <1>0, <1>3 DEF ReadHolds, OwnOrder, PcFits, Reliable, SameRequest, PaidPhase, At
<1>4. CASE UpsertLookup(s)
  BY <1>3, <1>4, LookupEffect DEF UpsertLookup
<1>5. CASE UpsertWrite(s)
  BY <1>3, <1>5, NextTargetEffect DEF UpsertWrite
<1>6. CASE UpsertConflict(s)
  <2>1. CASE End(s)
    BY <1>1, <2>1, EndEffect
  <2>2. CASE Goto(s, "finish")
    BY <1>3, <1>6, <2>2, GotoEffect DEF UpsertConflict
  <2> QED
    BY <1>6, <2>1, <2>2 DEF UpsertConflict
<1>7. CASE PayMark(s) \/ CancelMark(s) \/ RefundMark(s)
  <2>1. CASE End(s)
    BY <1>1, <2>1, EndEffect
  <2>2. CASE ~ End(s) /\ PayMark(s)
    <3>1. /\ SameRequest(s) /\ OthersStay(s) /\ req[s].op = "pay" /\ req'[s].pc = "lookup"
      BY <2>2, GotoEffect DEF PayMark, At
    <3>2. status'[req[s].order] = "paid"
      BY <1>0, <2>2 DEF PayMark, At, OwnOrder, TypeOK
    <3> QED
      BY <3>1, <3>2 DEF SameRequest, ReadHolds, PaidPhase, At
  <2>3. CASE ~ End(s) /\ CancelMark(s)
    <3>1. /\ SameRequest(s) /\ OthersStay(s) /\ req[s].op = "cancel" /\ req'[s].pc = "finish"
      BY <2>3, GotoEffect DEF CancelMark, At
    <3>2. status'[req[s].order] = "expired"
      BY <1>0, <2>3 DEF CancelMark, At, OwnOrder, TypeOK
    <3> QED
      BY <3>1, <3>2 DEF SameRequest, ReadHolds, PaidPhase, At
  <2>4. CASE RefundMark(s)
    <3>1. /\ SameRequest(s) /\ OthersStay(s) /\ req[s].op = "refund" /\ req'[s].pc = "revoke"
      BY <2>4, GotoEffect DEF RefundMark, At
    <3>2. status'[req[s].order] = "refunded"
      BY <1>0, <2>4 DEF RefundMark, At, OwnOrder, TypeOK
    <3> QED
      BY <3>1, <3>2 DEF SameRequest, ReadHolds, PaidPhase, At
  <2> QED
    BY <1>7, <2>1, <2>2, <2>3, <2>4
<1>8. CASE RefundCheck(s)
  <2>1. CASE End(s)
    BY <1>1, <2>1, EndEffect
  <2>2. CASE Goto(s, "mark")
    <3>1. /\ SameRequest(s) /\ OthersStay(s) /\ req[s].op = "refund" /\ req'[s].pc = "mark"
          /\ status' = status /\ req[s].pc = "check"
      BY <1>8, <2>2, GotoEffect DEF RefundCheck, At
    <3> QED
      BY <1>0, <3>1 DEF SameRequest, ReadHolds, PaidPhase, At
  <2> QED
    BY <1>8, <2>1, <2>2 DEF RefundCheck
<1>9. ASSUME req[s].pc \in {"revoke", "revokeCourses"}, SameRequest(s)
      PROVE  ReadHolds(s)'
  BY <1>0, <1>9 DEF ReadHolds, PcFits, OwnOrder, Reliable, SameRequest, PaidPhase, At
<1>10. CASE RefundRevoke(s) \/ RefundRevokeCourses(s)
  BY <1>9, <1>10, GotoEffect DEF RefundRevoke, RefundRevokeCourses, At
<1>11. CASE Finish(s) \/ Abort(s)
  BY <1>1, <1>11, EndEffect
     DEF Finish, FinishOrder, FinishFreeEnroll, FinishPay, FinishCancel, FinishRefund,
         FinishGrant, Abort
<1>12. CASE SwallowError(s)
  BY <1>3, <1>9, <1>12, GotoEffect DEF SwallowError
<1> QED
  BY <1>2, <1>4, <1>5, <1>6, <1>7, <1>8, <1>10, <1>11, <1>12 DEF Step, Finish

(* The inductive invariant: what a handler read needs, besides the types,  *)
(* that the handler works on its user's order and stays in its own program.*)
Inv == TypeOK /\ OwnOrders /\ PcFitAll /\ StaleReadsHold

\* Nothing is being served in an initial state.
LEMMA InitInv == Init => Inv
<1> SUFFICES ASSUME Init PROVE Inv
  OBVIOUS
<1>1. TypeOK
  BY InitType
<1>2. \A r \in Request : req[r] = Idle
  BY DEF Init
<1> QED
  BY <1>1, <1>2 DEF Inv, OwnOrders, OwnOrder, PcFitAll, PcFits, StaleReadsHold, ReadHolds,
                    PaidPhase, At, Idle

\* Every step keeps the inductive invariant.
LEMMA NextInv == Inv /\ [Next]_vars => Inv'
<1> SUFFICES ASSUME Inv, [Next]_vars PROVE Inv'
  OBVIOUS
<1>1. TypeOK' /\ OwnOrders' /\ PcFitAll'
  BY NextType, OwnOrderStep, PcFitsStep DEF Inv, OwnOrders, PcFitAll
<1>2. Reliable
  BY StatusStep, LedgerIsReliable DEF Inv
<1>3. ASSUME NEW r \in Request PROVE ReadHolds(r)'
  <2>1. CASE req'[r] = req[r]
    BY <1>2, <2>1, ReadStays DEF Inv
  <2>2. ASSUME NEW s \in Request, Arrive(s) \/ Step(s) \/ Abort(s) \/ SwallowError(s)
        PROVE  ReadHolds(r)'
    BY <1>2, <2>1, <2>2, ReadBegins, ReadGoesOn DEF Inv, OthersStay
  <2> QED
    BY <2>1, <2>2 DEF Next, vars, CompleteLessons, RefundWindowCloses
<1> QED
  BY <1>1, <1>3 DEF Inv, StaleReadsHold

\* The inductive invariant holds in every reachable state.
LEMMA InvAlways == Spec => []Inv
BY InitInv, NextInv, PTL DEF Spec

\* What a handler read of its order stays true until it acts on it, for every
\* number of concurrent requests, orders and faults.
THEOREM StaleReads == Spec => []StaleReadsHold
BY InvAlways, PTL DEF Inv

\* The request-level model implements the ledger: MarkPaid, Cancel and the
\* unconditional MarkRefunded take every order through OrderLedger's states.
THEOREM LedgerRefinement == Spec => LedgerSpec
<1>1. Init => Ledger!Init
  BY DEF Init, Ledger!Init
<1>2. Inv /\ [Next]_vars => [Ledger!Next]_status
  BY StatusStep DEF Inv
<1> QED
  BY <1>1, <1>2, InvAlways, PTL DEF Spec, LedgerSpec, Ledger!Spec

-----------------------------------------------------------------------------
(* One payment wins, and the audit log agrees with the rows *)

\* A payment is past MarkPaid because it was so before, or because its own
\* conditional UPDATE has just found the order pending.
LEMMA PaidPhaseStep ==
  ASSUME Inv, [Next]_vars, NEW r \in Request, PaidPhase(r)'
  PROVE  /\ req'[r].order = req[r].order
         /\ \/ PaidPhase(r)
            \/ OthersStay(r) /\ req[r].op = "pay" /\ StillPending(req[r].order)
<1> DEFINE Goal == /\ req'[r].order = req[r].order
                   /\ \/ PaidPhase(r)
                      \/ OthersStay(r) /\ req[r].op = "pay" /\ StillPending(req[r].order)
<1>0. TypeOK /\ PcFitAll
  BY DEF Inv
<1>1. CASE req'[r] = req[r]
  BY <1>1 DEF PaidPhase
<1>2. CASE req'[r] = Idle
  BY <1>2 DEF PaidPhase, Idle
<1>3. CASE SameRequest(r) /\ req[r].pc \in {"lookup", "write"}
  BY <1>3 DEF PaidPhase, SameRequest
<1>4. ASSUME NEW s \in Request, Arrive(s) PROVE Goal
  <2>1. CASE r # s
    BY <1>0, <1>1, <1>4, <2>1, ReadBegins DEF OthersStay
  <2>2. ASSUME r = s, NEW u \in User, NEW i \in Item, CreateBegin(s, u, i) \/ Grant(s, u, i)
        PROVE  Goal
    <3>1. req'[s].op \in {"create", "grant"}
      BY <1>0, <2>2, StartEffect DEF CreateBegin, Grant
    <3> QED
      BY <2>2, <3>1 DEF PaidPhase
  <2>3. ASSUME r = s, NEW u \in User, NEW c \in Course, EnrollFree(s, u, c)
        PROVE  Goal
    <3>1. req'[s].op = "enroll"
      BY <1>0, <2>3, StartEffect DEF EnrollFree
    <3> QED
      BY <2>3, <3>1 DEF PaidPhase
  <2>4. ASSUME r = s, NEW u \in User, NEW o \in Order,
               PayBegin(s, u, o) \/ CancelBegin(s, u, o) \/ RefundBegin(s, u, o)
        PROVE  Goal
    <3>1. req'[s].pc \in {"mark", "check"}
      BY <1>0, <2>4, StartEffect DEF PayBegin, CancelBegin, RefundBegin
    <3> QED
      BY <2>4, <3>1 DEF PaidPhase
  <2> QED
    BY <1>4, <2>1, <2>2, <2>3, <2>4 DEF Arrive
<1>5. ASSUME NEW s \in Request, Step(s) \/ Abort(s) \/ SwallowError(s), r # s PROVE Goal
  BY <1>1, <1>5, LedgerIsReliable, StatusStep, ReadGoesOn DEF Inv, OthersStay
<1>6. CASE Step(r)
  <2>1. CASE CreatePlace(r)
    BY <1>0, <1>2, <2>1, PlaceEffect DEF PaidPhase
  <2>2. CASE UpsertLookup(r) \/ UpsertWrite(r)
    BY <1>0, <1>3, <2>2, LookupEffect, NextTargetEffect DEF UpsertLookup, UpsertWrite
  <2>3. CASE UpsertConflict(r)
    BY <1>0, <1>2, <1>3, <2>3, GotoEffect, EndEffect DEF UpsertConflict
  <2>4. CASE PayMark(r)
    <3>1. CASE End(r)
      BY <1>0, <1>2, <3>1, EndEffect
    <3>2. CASE ~ End(r)
      <4>1. SameRequest(r) /\ OthersStay(r) /\ StillPending(req[r].order)
        BY <1>0, <2>4, <3>2, GotoEffect DEF PayMark, At
      <4> QED
        BY <2>4, <4>1 DEF PayMark, At, SameRequest
    <3> QED
      BY <3>1, <3>2
  <2>5. CASE CancelMark(r) \/ RefundCheck(r) \/ RefundMark(r) \/ RefundRevoke(r)
               \/ RefundRevokeCourses(r)
    <3>1. req'[r] = Idle \/ (SameRequest(r) /\ req[r].op \in {"cancel", "refund"})
      BY <1>0, <2>5, GotoEffect, EndEffect
         DEF CancelMark, RefundCheck, RefundMark, RefundRevoke, RefundRevokeCourses, At
    <3> QED
      BY <1>2, <3>1 DEF SameRequest, PaidPhase
  <2>6. CASE Finish(r)
    BY <1>0, <1>2, <2>6, EndEffect
       DEF Finish, FinishOrder, FinishFreeEnroll, FinishPay, FinishCancel,
           FinishRefund, FinishGrant
  <2> QED
    BY <1>6, <2>1, <2>2, <2>3, <2>4, <2>5, <2>6 DEF Step, Finish
<1>7. CASE Abort(r)
  BY <1>0, <1>2, <1>7, EndEffect DEF Abort
<1>8. CASE SwallowError(r)
  <2>1. req[r].pc # "idle" /\ SameRequest(r)
    BY <1>0, <1>8, GotoEffect DEF SwallowError
  <2>2. CASE req[r].pc \in {"revoke", "revokeCourses"}
    <3>1. req[r].op = "refund"
      BY <1>0, <2>2 DEF PcFitAll, PcFits
    <3> QED
      BY <2>1, <3>1 DEF SameRequest, PaidPhase
  <2> QED
    BY <1>3, <1>8, <2>1, <2>2 DEF SwallowError
<1> QED
  BY <1>1, <1>4, <1>5, <1>6, <1>7, <1>8
     DEF Next, vars, CompleteLessons, RefundWindowCloses

\* A second payment cannot get past MarkPaid: the order is no longer pending.
LEMMA OnePaymentStep == Inv /\ OnePaymentWins /\ [Next]_vars => OnePaymentWins'
<1> SUFFICES ASSUME Inv, OnePaymentWins, [Next]_vars, NEW r1 \in Request, NEW r2 \in Request,
                    r1 # r2, PaidPhase(r1)', PaidPhase(r2)', req'[r1].order = req'[r2].order
             PROVE  FALSE
  BY DEF OnePaymentWins
<1>1. req[r1].order = req[r2].order
  BY PaidPhaseStep
<1>2. ASSUME NEW r \in Request, PaidPhase(r) PROVE ~ StillPending(req[r].order)
  BY <1>2 DEF Inv, StaleReadsHold, ReadHolds, StillPending
<1>3. ASSUME NEW r \in Request, req'[r] = req[r] PROVE PaidPhase(r)' = PaidPhase(r)
  BY <1>3 DEF PaidPhase
<1> QED
  BY <1>1, <1>2, <1>3, PaidPhaseStep DEF OnePaymentWins, OthersStay

\* At most one payment of an order gets past MarkPaid.
THEOREM OnePayment == Spec => []OnePaymentWins
<1>1. Init => OnePaymentWins
  BY DEF Init, OnePaymentWins, PaidPhase, Idle
<1> QED
  BY <1>1, OnePaymentStep, InvAlways, PTL DEF Spec

\* The audit entries of endings name an order.
AuditOrders == \A e \in audit : e.op \in {"pay", "cancel", "refund"} => e.order \in Order

\* A refund notice is sent by a request that has seen the refund.
LEMMA NoticesStep == Inv /\ NoticesAgree /\ [Next]_vars => NoticesAgree'
<1> SUFFICES ASSUME Inv, NoticesAgree, [Next]_vars PROVE NoticesAgree'
  OBVIOUS
<1>1. Reliable
  BY StatusStep, LedgerIsReliable DEF Inv
<1>2. CASE notices' = notices
  BY <1>1, <1>2 DEF NoticesAgree, Reliable
<1>3. ASSUME NEW s \in Request, FinishOrder(s) PROVE NoticesAgree'
  <2>1. \A o \in Order : notices'[<<o, "refunded">>] = notices[<<o, "refunded">>]
    BY <1>3 DEF FinishOrder, Notify, Inv, TypeOK
  <2> QED
    BY <1>1, <2>1 DEF NoticesAgree, Reliable
<1>4. ASSUME NEW s \in Request, FinishRefund(s) PROVE NoticesAgree'
  <2>1. status' = status /\ status[req[s].order] = "refunded"
    BY <1>4 DEF FinishRefund, Inv, StaleReadsHold, ReadHolds, At
  <2>2. \A o \in Order \ {req[s].order} :
          notices'[<<o, "refunded">>] = notices[<<o, "refunded">>]
    BY <1>4 DEF FinishRefund, Notify, Inv, TypeOK
  <2> QED
    BY <2>1, <2>2 DEF NoticesAgree
<1>5. ASSUME NEW s \in Request,
             \/ Arrive(s) \/ Abort(s) \/ SwallowError(s) \/ CreatePlace(s)
             \/ UpsertLookup(s) \/ UpsertWrite(s) \/ UpsertConflict(s)
             \/ PayMark(s) \/ CancelMark(s)
             \/ RefundCheck(s) \/ RefundMark(s) \/ RefundRevoke(s) \/ RefundRevokeCourses(s)
             \/ FinishFreeEnroll(s) \/ FinishPay(s) \/ FinishCancel(s) \/ FinishGrant(s)
      PROVE  notices' = notices
  BY <1>5 DEF Arrive, CreateBegin, Grant, EnrollFree, PayBegin, CancelBegin, RefundBegin,
              Abort, SwallowError, CreatePlace, UpsertLookup, UpsertWrite, UpsertConflict,
              PayMark, CancelMark, RefundCheck, RefundMark, RefundRevoke,
              RefundRevokeCourses, FinishFreeEnroll, FinishPay, FinishCancel, FinishGrant
<1> QED
  BY <1>2, <1>3, <1>4, <1>5
     DEF Next, Step, vars, CompleteLessons, RefundWindowCloses

\* Each audit entry is true when it is written and stays true.
LEMMA AuditStep == Inv /\ AuditOrders /\ AuditAgrees /\ [Next]_vars
                     => AuditOrders' /\ AuditAgrees'
<1> SUFFICES ASSUME Inv, AuditOrders, AuditAgrees, [Next]_vars
             PROVE  AuditOrders' /\ AuditAgrees'
  OBVIOUS
<1>0. NoticesAgree'
  BY NoticesStep DEF AuditAgrees
<1>1. Reliable
  BY StatusStep, LedgerIsReliable DEF Inv
<1>2. CASE audit' = audit
  BY <1>1, <1>2, <1>0 DEF AuditOrders, AuditAgrees, Reliable
<1>3. ASSUME NEW s \in Request, Finish(s) PROVE AuditOrders' /\ AuditAgrees'
  <2>1. ReadHolds(s) /\ OwnOrder(s) /\ status' = status /\ req[s].pc = "finish"
    BY <1>3 DEF Inv, StaleReadsHold, OwnOrders, Finish, FinishOrder, FinishFreeEnroll,
                FinishPay, FinishCancel, FinishRefund, FinishGrant, At
  <2>2. audit' \subseteq audit \cup {Audited(s)}
    BY <1>3 DEF Finish, FinishOrder, FinishFreeEnroll, FinishPay, FinishCancel,
                FinishRefund, FinishGrant
  <2>3. Audited(s).op = req[s].op /\ Audited(s).order = req[s].order
    BY DEF Audited
  <2> QED
    BY <1>0, <2>1, <2>2, <2>3 DEF AuditOrders, AuditAgrees, ReadHolds, PaidPhase, At, OwnOrder
<1>4. ASSUME NEW s \in Request,
             \/ Arrive(s) \/ Abort(s) \/ SwallowError(s) \/ CreatePlace(s)
             \/ UpsertLookup(s) \/ UpsertWrite(s) \/ UpsertConflict(s)
             \/ PayMark(s) \/ CancelMark(s)
             \/ RefundCheck(s) \/ RefundMark(s) \/ RefundRevoke(s) \/ RefundRevokeCourses(s)
      PROVE  audit' = audit
  BY <1>4 DEF Arrive, CreateBegin, Grant, EnrollFree, PayBegin, CancelBegin, RefundBegin,
              Abort, SwallowError, CreatePlace, UpsertLookup, UpsertWrite, UpsertConflict,
              PayMark, CancelMark, RefundCheck, RefundMark, RefundRevoke,
              RefundRevokeCourses
<1> QED
  BY <1>2, <1>3, <1>4
     DEF Next, Step, Finish, vars, CompleteLessons, RefundWindowCloses

\* The audit log and the order rows never contradict each other.
THEOREM AuditTruth == Spec => []AuditAgrees
<1>1. Init => AuditOrders /\ AuditAgrees
  BY DEF Init, AuditOrders, AuditAgrees, NoticesAgree
<1> QED
  BY <1>1, AuditStep, InvAlways, PTL DEF Spec

-----------------------------------------------------------------------------
(* Access and certificates are paid for *)

IsCourseOf(c, i) == i \in Degree /\ c \in CoursesOf(i)

\* What a request may still write: its own item, courses of it when it pays
\* for or enrolls in a degree, and on behalf of create only for a free item.
Purpose(r) ==
  /\ req[r].target # req[r].item =>
       req[r].op \in {"create", "pay"} /\ IsCourseOf(req[r].target, req[r].item)
  /\ req[r].todo # <<>> => req[r].op \in {"create", "pay"}
  /\ \A n \in 1 .. Len(req[r].todo) : IsCourseOf(req[r].todo[n], req[r].item)
  /\ At(r, "create", "lookup") \/ At(r, "create", "write") => CostType[req[r].item] = "free"
  /\ At(r, "create", "finish") /\ req[r].order = None => CostType[req[r].item] = "free"

Purposes == \A r \in Request : Purpose(r)

\* The courses that come with an item are courses of it.
LEMMA CoursesTooOf ==
  ASSUME NEW i \in Item, NEW n \in 1 .. Len(CoursesToo(i))
  PROVE  IsCourseOf(CoursesToo(i)[n], i)
BY CatalogAssumption DEF CoursesToo, IsCourseOf, CoursesOf

\* A request that has just arrived has its purpose.
LEMMA PurposeBegins ==
  ASSUME TypeOK, NEW s \in Request, Arrive(s)
  PROVE  Purpose(s)'
<1>1. ASSUME NEW u \in User, NEW i \in Item, CreateBegin(s, u, i) PROVE Purpose(s)'
  <2>1. CASE CostType[i] = "free"
    <3>1. /\ req'[s].op = "create" /\ req'[s].pc = "lookup" /\ req'[s].target = i
          /\ req'[s].item = i /\ req'[s].todo = CoursesToo(i)
      BY <1>1, <2>1, StartEffect DEF CreateBegin
    <3> QED
      BY <2>1, <3>1, CoursesTooOf DEF Purpose, At, IsCourseOf, CoursesOf
  <2>2. CASE CostType[i] # "free"
    <3>1. /\ req'[s].op = "create" /\ req'[s].pc = "place" /\ req'[s].target = i
          /\ req'[s].item = i /\ req'[s].todo = <<>>
      BY <1>1, <2>2, StartEffect DEF CreateBegin
    <3> QED
      BY <3>1 DEF Purpose, At
  <2> QED
    BY <2>1, <2>2
<1>2. ASSUME NEW u \in User, NEW i \in Item, Grant(s, u, i) PROVE Purpose(s)'
  <2>1. /\ req'[s].op = "grant" /\ req'[s].target = i /\ req'[s].item = i
        /\ req'[s].todo = <<>>
    BY <1>2, StartEffect DEF Grant
  <2> QED
    BY <2>1 DEF Purpose, At
<1>3. ASSUME NEW u \in User, NEW c \in Course, EnrollFree(s, u, c) PROVE Purpose(s)'
  <2>1. /\ req'[s].op = "enroll" /\ req'[s].target = c /\ req'[s].item = c
        /\ req'[s].todo = <<>>
    BY <1>3, StartEffect DEF EnrollFree
  <2> QED
    BY <2>1 DEF Purpose, At
<1>4. ASSUME NEW u \in User, NEW o \in Order, PayBegin(s, u, o) PROVE Purpose(s)'
  <2>1. /\ req'[s].op = "pay" /\ req'[s].target = ItemOf[o] /\ req'[s].item = ItemOf[o]
        /\ req'[s].todo = CoursesToo(ItemOf[o])
    BY <1>4, StartEffect DEF PayBegin
  <2> QED
    BY <2>1, CoursesTooOf, OrderAssumption DEF Purpose, At, IsCourseOf, CoursesOf
<1>5. ASSUME NEW u \in User, NEW o \in Order, CancelBegin(s, u, o) \/ RefundBegin(s, u, o)
      PROVE  Purpose(s)'
  <2>1. /\ req'[s].op \in {"cancel", "refund"} /\ req'[s].target = req'[s].item
        /\ req'[s].todo = <<>>
    BY <1>5, StartEffect DEF CancelBegin, RefundBegin
  <2> QED
    BY <2>1 DEF Purpose, At
<1> QED
  BY <1>1, <1>2, <1>3, <1>4, <1>5 DEF Arrive

\* A request that goes on keeps its purpose.
LEMMA PurposeGoesOn ==
  ASSUME Inv, NEW s \in Request, Purpose(s), Step(s) \/ Abort(s) \/ SwallowError(s)
  PROVE  Purpose(s)'
<1>0. TypeOK /\ PcFits(s)
  BY DEF Inv, PcFitAll
<1>1. ASSUME req'[s] = Idle PROVE Purpose(s)'
  BY <1>1 DEF Idle, Purpose, At
<1>2. ASSUME SameRequest(s), req'[s].target = req[s].target, req'[s].todo = req[s].todo,
             req[s].op # "create"
      PROVE  Purpose(s)'
  BY <1>2 DEF Purpose, SameRequest, At, IsCourseOf, CoursesOf
<1>3. ASSUME SameRequest(s), req'[s].target = req[s].target, req'[s].todo = req[s].todo,
             req[s].pc \in {"lookup", "write"}
      PROVE  Purpose(s)'
  BY <1>3 DEF Purpose, SameRequest, At, IsCourseOf, CoursesOf
<1>4. CASE CreatePlace(s)
  <2>1. CASE req'[s] = Idle
    BY <1>1, <2>1
  <2>2. CASE req'[s] # Idle
    <3>1. /\ req'[s].op = "create" /\ req'[s].pc = "finish" /\ req[s].op = "create"
          /\ req'[s].item = req[s].item /\ req'[s].target = req[s].target
          /\ req'[s].todo = req[s].todo /\ req'[s].order # None
      BY <1>0, <1>4, <2>2, PlaceEffect, BoundAssumption DEF CreatePlace, At, Fresh
    <3> QED
      BY <3>1 DEF Purpose, At, IsCourseOf, CoursesOf
  <2> QED
    BY <2>1, <2>2
<1>5. CASE UpsertLookup(s)
  BY <1>0, <1>3, <1>5, LookupEffect DEF UpsertLookup
<1>6. CASE UpsertWrite(s)
  <2>1. CASE req'[s].target = req[s].target /\ req'[s].todo = req[s].todo
    BY <1>0, <1>3, <1>6, <2>1, NextTargetEffect DEF UpsertWrite
  <2>2. CASE ~ (req'[s].target = req[s].target /\ req'[s].todo = req[s].todo)
    <3>1. /\ SameRequest(s) /\ req[s].pc = "write" /\ req'[s].pc = "lookup"
          /\ req[s].todo # <<>> /\ req'[s].target = Head(req[s].todo)
          /\ req'[s].todo = Tail(req[s].todo)
      BY <1>0, <1>6, <2>2, NextTargetEffect DEF UpsertWrite
    <3>2. req[s].todo \in Seq(Course)
      BY <1>0, <3>1, ServingReq DEF Serving, Idle
    <3>3. /\ 1 \in 1 .. Len(req[s].todo) /\ Head(req[s].todo) = req[s].todo[1]
          /\ \A n \in 1 .. Len(Tail(req[s].todo)) :
               /\ n + 1 \in 1 .. Len(req[s].todo)
               /\ Tail(req[s].todo)[n] = req[s].todo[n + 1]
      BY <3>1, <3>2
    <3>4. /\ req[s].op \in {"create", "pay"}
          /\ IsCourseOf(req'[s].target, req[s].item)
          /\ \A n \in 1 .. Len(req'[s].todo) : IsCourseOf(req'[s].todo[n], req[s].item)
      BY <3>1, <3>3 DEF Purpose
    <3> QED
      BY <3>1, <3>4 DEF Purpose, SameRequest, At, IsCourseOf, CoursesOf
  <2> QED
    BY <2>1, <2>2
<1>7. CASE UpsertConflict(s)
  <2>1. CASE End(s)
    BY <1>0, <1>1, <2>1, EndEffect
  <2>2. CASE Goto(s, "finish")
    BY <1>0, <1>3, <1>7, <2>2, GotoEffect DEF UpsertConflict
  <2> QED
    BY <1>7, <2>1, <2>2 DEF UpsertConflict
<1>8. CASE PayMark(s) \/ CancelMark(s) \/ RefundCheck(s) \/ RefundMark(s)
             \/ RefundRevoke(s) \/ RefundRevokeCourses(s)
  BY <1>0, <1>1, <1>2, <1>8, GotoEffect, EndEffect
     DEF PayMark, CancelMark, RefundCheck, RefundMark, RefundRevoke, RefundRevokeCourses, At
<1>9. CASE Finish(s) \/ Abort(s)
  BY <1>0, <1>1, <1>9, EndEffect
     DEF Finish, FinishOrder, FinishFreeEnroll, FinishPay, FinishCancel, FinishRefund,
         FinishGrant, Abort
<1>10. CASE SwallowError(s)
  <2>1. /\ req[s].pc # "idle" /\ SameRequest(s)
        /\ req'[s].target = req[s].target /\ req'[s].todo = req[s].todo
    BY <1>0, <1>10, GotoEffect DEF SwallowError
  <2>2. CASE req[s].pc \in {"revoke", "revokeCourses"}
    BY <1>0, <1>2, <2>1, <2>2 DEF PcFits
  <2> QED
    BY <1>3, <1>10, <2>1, <2>2 DEF SwallowError
<1> QED
  BY <1>4, <1>5, <1>6, <1>7, <1>8, <1>9, <1>10 DEF Step, Finish

\* Every request keeps its purpose in every step.
LEMMA PurposeStep == Inv /\ Purposes /\ [Next]_vars => Purposes'
<1> SUFFICES ASSUME Inv, Purposes, [Next]_vars, NEW r \in Request PROVE Purpose(r)'
  BY DEF Purposes
<1>1. CASE req'[r] = req[r]
  BY <1>1 DEF Purposes, Purpose, At, IsCourseOf, CoursesOf
<1>2. ASSUME NEW s \in Request, Arrive(s) PROVE Purpose(r)'
  BY <1>1, <1>2, PurposeBegins, ReadBegins DEF Inv, OthersStay
<1>3. ASSUME NEW s \in Request, Step(s) \/ Abort(s) \/ SwallowError(s) PROVE Purpose(r)'
  <2>1. OthersStay(s)
    BY <1>3, StatusStep, LedgerIsReliable, ReadGoesOn DEF Inv
  <2> QED
    BY <1>1, <1>3, <2>1, PurposeGoesOn DEF OthersStay, Purposes
<1> QED
  BY <1>1, <1>2, <1>3 DEF Next, vars, CompleteLessons, RefundWindowCloses

\* What AccessIsPaidFor says of one row.
RowIsPaidFor(u, i) ==
  /\ enrolled[<<u, i>>].source = "order" => Settled(u, i)
  /\ enrolled[<<u, i>>].source = "degree" =>
       \E d \in Degree : i \in CoursesOf(d) /\ (CostType[d] = "free" \/ Settled(u, d))
  /\ <<u, i>> \in certified => CostType[i] = "free" \/ Settled(u, i)

\* Money that was taken stays taken: an order that was paid or refunded stays so.
LEMMA SettledStays ==
  ASSUME Reliable, NEW u, NEW i, Settled(u, i)
  PROVE  Settled(u, i)'
BY DEF Settled, Reliable

\* A payment past MarkPaid has settled the item it is for.
LEMMA PaidIsSettled ==
  ASSUME Inv, NEW s \in Request, PaidPhase(s)
  PROVE  Settled(req[s].user, req[s].item)
BY DEF Inv, OwnOrders, OwnOrder, StaleReadsHold, ReadHolds, PaidPhase, Settled

\* An upsert writes a source that its request may hand out.
LEMMA WriteIsPaidFor ==
  ASSUME Inv, Purposes, AccessIsPaidFor, [Next]_vars, NEW s \in Request, UpsertWrite(s),
         NEW u \in User, NEW i \in Item
  PROVE  RowIsPaidFor(u, i)'
<1>1. Reliable
  BY StatusStep, LedgerIsReliable DEF Inv
<1>2. RowIsPaidFor(u, i) /\ certified' = certified
  BY DEF AccessIsPaidFor, RowIsPaidFor, UpsertWrite
<1>3. CASE <<u, i>> # <<req[s].user, req[s].target>>
  <2>1. enrolled'[<<u, i>>] = enrolled[<<u, i>>]
    BY <1>3 DEF UpsertWrite, Inv, TypeOK
  <2> QED
    BY <1>1, <1>2, <2>1, SettledStays DEF RowIsPaidFor, CoursesOf
<1>4. CASE u = req[s].user /\ i = req[s].target
  <2>1. enrolled'[<<u, i>>].source = SourceOf(s)
    BY <1>4 DEF UpsertWrite, Inv, TypeOK
  <2>2. CASE req[s].target = req[s].item /\ req[s].op = "pay"
    <3>1. PaidPhase(s)
      BY <2>2 DEF UpsertWrite, PaidPhase
    <3>2. Settled(u, i)'
      BY <1>1, <1>4, <2>2, <3>1, PaidIsSettled, SettledStays
    <3> QED
      BY <1>1, <1>2, <2>1, <2>2, <3>2 DEF RowIsPaidFor, SourceOf, CoursesOf
  <2>3. CASE req[s].target = req[s].item /\ req[s].op # "pay"
    BY <1>1, <1>2, <2>1, <2>3, SettledStays DEF RowIsPaidFor, SourceOf
  <2>4. CASE req[s].target # req[s].item
    <3>1. IsCourseOf(i, req[s].item) /\ req[s].op \in {"create", "pay"}
      BY <1>4, <2>4 DEF Purposes, Purpose
    <3>2. CASE req[s].op = "create"
      <4>1. CostType[req[s].item] = "free"
        BY <3>2 DEF Purposes, Purpose, UpsertWrite, At
      <4> QED
        BY <1>1, <1>2, <2>1, <2>4, <3>1, <4>1, SettledStays
           DEF RowIsPaidFor, SourceOf, IsCourseOf, CoursesOf
    <3>3. CASE req[s].op = "pay"
      <4>1. PaidPhase(s)
        BY <3>3 DEF UpsertWrite, PaidPhase
      <4>2. PICK d \in Degree : d = req[s].item /\ i \in CoursesOf(d)
        BY <3>1 DEF IsCourseOf
      <4>3. Settled(u, d)'
        BY <1>1, <1>4, <4>1, <4>2, PaidIsSettled, SettledStays
      <4> QED
        BY <1>1, <1>2, <2>1, <2>4, <4>2, <4>3, SettledStays
           DEF RowIsPaidFor, SourceOf, CoursesOf
    <3> QED
      BY <3>1, <3>2, <3>3
  <2> QED
    BY <2>2, <2>3, <2>4
<1> QED
  BY <1>3, <1>4

\* A handler's tail certifies a free enrollment or a payment past MarkPaid.
LEMMA FinishIsPaidFor ==
  ASSUME Inv, Purposes, AccessIsPaidFor, [Next]_vars, NEW s \in Request, Finish(s),
         NEW u \in User, NEW i \in Item
  PROVE  RowIsPaidFor(u, i)'
<1>1. Reliable
  BY StatusStep, LedgerIsReliable DEF Inv
<1>2. RowIsPaidFor(u, i) /\ enrolled' = enrolled
  BY DEF AccessIsPaidFor, RowIsPaidFor, Finish, FinishOrder, FinishFreeEnroll, FinishPay,
         FinishCancel, FinishRefund, FinishGrant
<1>3. certified' = certified \/
      \/ /\ certified' = certified \cup {<<req[s].user, req[s].item>>}
         /\ CostType[req[s].item] = "free" \/ PaidPhase(s)
  <2>1. CASE FinishFreeEnroll(s)
    BY <2>1 DEF FinishFreeEnroll, Certify, Purposes, Purpose
  <2>2. CASE FinishPay(s)
    BY <2>2 DEF FinishPay, Certify, PaidPhase, At
  <2> QED
    BY <2>1, <2>2 DEF Finish, FinishOrder, FinishCancel, FinishRefund, FinishGrant
<1>4. <<u, i>> \in certified' /\ <<u, i>> \notin certified =>
        CostType[i] = "free" \/ Settled(u, i)
  BY <1>3, PaidIsSettled
<1> QED
  BY <1>1, <1>2, <1>4, SettledStays DEF RowIsPaidFor, CoursesOf

\* No step hands out access or a certificate that is not paid for.
LEMMA AccessStep == Inv /\ Purposes /\ AccessIsPaidFor /\ [Next]_vars => AccessIsPaidFor'
<1> SUFFICES ASSUME Inv, Purposes, AccessIsPaidFor, [Next]_vars, NEW u \in User, NEW i \in Item
             PROVE  RowIsPaidFor(u, i)'
  BY DEF AccessIsPaidFor, RowIsPaidFor, Settled, CoursesOf
<1>1. Reliable
  BY StatusStep, LedgerIsReliable DEF Inv
<1>2. CASE enrolled'[<<u, i>>].source = enrolled[<<u, i>>].source /\ certified' = certified
  <2>1. RowIsPaidFor(u, i)
    BY DEF AccessIsPaidFor, RowIsPaidFor
  <2> QED
    BY <1>1, <1>2, <2>1, SettledStays DEF RowIsPaidFor, CoursesOf
<1>3. ASSUME NEW keys, NEW source, Revoke(keys, source), certified' = certified
      PROVE  RowIsPaidFor(u, i)'
  <2>1. enrolled[<<u, i>>] \in [source : Source, live : BOOLEAN]
    BY DEF Inv, TypeOK
  <2>2. enrolled'[<<u, i>>] \in {enrolled[<<u, i>>], [enrolled[<<u, i>>] EXCEPT !.live = FALSE]}
    BY <1>3 DEF Revoke
  <2>3. enrolled'[<<u, i>>].source = enrolled[<<u, i>>].source
    BY <2>1, <2>2
  <2> QED
    BY <1>2, <1>3, <2>3
<1>4. ASSUME NEW s \in Request,
             \/ Arrive(s) \/ Abort(s) \/ SwallowError(s) \/ CreatePlace(s)
             \/ UpsertLookup(s) \/ UpsertConflict(s) \/ PayMark(s) \/ CancelMark(s)
             \/ RefundCheck(s) \/ RefundMark(s)
      PROVE  enrolled' = enrolled /\ certified' = certified
  BY <1>4 DEF Arrive, CreateBegin, Grant, EnrollFree, PayBegin, CancelBegin, RefundBegin,
              Abort, SwallowError, CreatePlace, UpsertLookup, UpsertConflict,
              PayMark, CancelMark, RefundCheck, RefundMark
<1>5. ASSUME NEW s \in Request, RefundRevoke(s) \/ RefundRevokeCourses(s)
      PROVE  RowIsPaidFor(u, i)'
  BY <1>3, <1>5 DEF RefundRevoke, RefundRevokeCourses
<1> QED
  BY <1>2, <1>4, <1>5, WriteIsPaidFor, FinishIsPaidFor
     DEF Next, Step, Finish, vars, CompleteLessons, RefundWindowCloses

\* Access attributed to an order, and degree certificates, go back to a
\* payment of the same user, for every interleaving and every fault.
THEOREM AccessPaid == Spec => []AccessIsPaidFor
<1>1. Init => Purposes /\ AccessIsPaidFor
  <2> SUFFICES ASSUME Init PROVE Purposes /\ AccessIsPaidFor
    OBVIOUS
  <2>1. \A r \in Request : req[r] = Idle
    BY DEF Init
  <2>2. Purposes
    BY <2>1 DEF Purposes, Purpose, At, Idle
  <2>3. AccessIsPaidFor
    BY DEF Init, AccessIsPaidFor
  <2> QED
    BY <2>2, <2>3
<1> QED
  BY <1>1, PurposeStep, AccessStep, InvAlways, PTL DEF Spec

-----------------------------------------------------------------------------
(* A paid order has access *)

\* Request r is the payment of order o between MarkPaid and the write of the
\* enrollment that was bought.
Opening(r, o) ==
  /\ req[r].op = "pay" /\ req[r].pc \in {"lookup", "write"}
  /\ req[r].order = o /\ req[r].target = ItemOf[o]

Opened(o) == \/ HasAccess(Buyer[o], ItemOf[o])
             \/ RefundReaches(Buyer[o], ItemOf[o])

\* Without faults every paid order is opened, or its payment is about to.
PaidIsOpened ==
  faults = 0 => \A o \in Order :
    status[o] = "paid" => Opened(o) \/ \E r \in Request : Opening(r, o)

\* Only a refund makes a row of enrollments lose its access: a payment whose
\* INSERT meets a row that another request wrote need not write its own.
RowsStay ==
  \A u \in User, i \in Item : HasRow(u, i) => HasAccess(u, i) \/ RefundReaches(u, i)

\* A payment writes the item it is for first, and only a refund of a degree
\* goes on to the courses.
Aim(r) == /\ At(r, "pay", "mark") => req[r].target = req[r].item
          /\ req[r].pc = "revokeCourses" => req[r].item \in Degree

Aims == \A r \in Request : Aim(r)

(* The second inductive invariant, on top of the one of the stale reads.    *)
OpenInv == Aims /\ RowsStay /\ PaidIsOpened

\* A request that has just arrived has its aim.
LEMMA AimBegins == ASSUME TypeOK, NEW s \in Request, Arrive(s) PROVE Aim(s)'
<1>1. ASSUME NEW u \in User, NEW i \in Item, CreateBegin(s, u, i) \/ Grant(s, u, i)
      PROVE  req'[s].pc \in {"lookup", "place"}
  BY <1>1, StartEffect DEF CreateBegin, Grant
<1>2. ASSUME NEW u \in User, NEW c \in Course, EnrollFree(s, u, c)
      PROVE  req'[s].pc = "lookup"
  BY <1>2, StartEffect DEF EnrollFree
<1>3. ASSUME NEW u \in User, NEW o \in Order,
             PayBegin(s, u, o) \/ CancelBegin(s, u, o) \/ RefundBegin(s, u, o)
      PROVE  req'[s].pc \in {"mark", "check"} /\ req'[s].target = req'[s].item
  BY <1>3, StartEffect DEF PayBegin, CancelBegin, RefundBegin
<1> QED
  BY <1>1, <1>2, <1>3 DEF Arrive, Aim, At

\* A request that goes on keeps its aim.
LEMMA AimGoesOn ==
  ASSUME TypeOK, NEW s \in Request, Step(s) \/ Abort(s) \/ SwallowError(s)
  PROVE  Aim(s)'
<1>1. ASSUME req'[s] = Idle \/ req'[s].pc \in {"lookup", "write", "revoke", "finish"}
      PROVE  Aim(s)'
  BY <1>1 DEF Idle, Aim, At
<1>2. ASSUME SameRequest(s), req[s].item \in Degree, req'[s].pc = "revokeCourses"
      PROVE  Aim(s)'
  BY <1>2 DEF SameRequest, Aim, At
<1>3. CASE CreatePlace(s)
  BY <1>1, <1>3, PlaceEffect
<1>4. CASE UpsertLookup(s) \/ UpsertWrite(s)
  BY <1>1, <1>4, LookupEffect, NextTargetEffect DEF UpsertWrite
<1>5. CASE UpsertConflict(s) \/ PayMark(s) \/ CancelMark(s) \/ RefundMark(s)
  BY <1>1, <1>5, GotoEffect, EndEffect
     DEF UpsertConflict, PayMark, CancelMark, RefundMark, At
<1>6. CASE RefundCheck(s)
  <2>1. CASE End(s)
    BY <1>1, <2>1, EndEffect
  <2>2. CASE Goto(s, "mark")
    <3>1. req'[s].op = "refund" /\ req'[s].pc = "mark"
      BY <1>6, <2>2, GotoEffect DEF RefundCheck, At, SameRequest
    <3> QED
      BY <3>1 DEF Aim, At
  <2> QED
    BY <1>6, <2>1, <2>2 DEF RefundCheck
<1>7. CASE RefundRevoke(s) \/ RefundRevokeCourses(s) \/ SwallowError(s)
  <2>1. CASE Goto(s, "finish")
    BY <1>1, <1>7, <2>1, GotoEffect
       DEF RefundRevoke, RefundRevokeCourses, SwallowError, At
  <2>2. CASE Goto(s, "revokeCourses") /\ req[s].item \in Degree
    BY <1>2, <1>7, <2>2, GotoEffect
       DEF RefundRevoke, RefundRevokeCourses, SwallowError, At
  <2> QED
    BY <1>7, <2>1, <2>2 DEF RefundRevoke, RefundRevokeCourses, SwallowError
<1>8. CASE Finish(s) \/ Abort(s)
  BY <1>1, <1>8, EndEffect
     DEF Finish, FinishOrder, FinishFreeEnroll, FinishPay, FinishCancel, FinishRefund,
         FinishGrant, Abort
<1> QED
  BY <1>3, <1>4, <1>5, <1>6, <1>7, <1>8 DEF Step, Finish

\* Every request keeps its aim in every step.
LEMMA AimStep == Inv /\ Aims /\ [Next]_vars => Aims'
<1> SUFFICES ASSUME Inv, Aims, [Next]_vars, NEW r \in Request PROVE Aim(r)'
  BY DEF Aims
<1>1. CASE req'[r] = req[r]
  BY <1>1 DEF Aims, Aim, At
<1>2. ASSUME NEW s \in Request, Arrive(s) PROVE Aim(r)'
  BY <1>1, <1>2, AimBegins, ReadBegins DEF Inv, OthersStay
<1>3. ASSUME NEW s \in Request, Step(s) \/ Abort(s) \/ SwallowError(s) PROVE Aim(r)'
  <2>1. OthersStay(s)
    BY <1>3, StatusStep, LedgerIsReliable, ReadGoesOn DEF Inv
  <2> QED
    BY <1>1, <1>3, <2>1, AimGoesOn DEF OthersStay, Inv
<1> QED
  BY <1>1, <1>2, <1>3 DEF Next, vars, CompleteLessons, RefundWindowCloses

\* A revocation keeps the source of every row, and the rows it does not name.
LEMMA RevokeEffect ==
  ASSUME TypeOK, NEW keys, NEW source, Revoke(keys, source),
         NEW u \in User, NEW i \in Item, <<u, i>> \notin keys
  PROVE  enrolled'[<<u, i>>] = enrolled[<<u, i>>]
BY DEF Revoke

\* A refunded order stays refunded, and so does what it reaches.
LEMMA ReachStays ==
  ASSUME Reliable, NEW u, NEW i, RefundReaches(u, i)
  PROVE  RefundReaches(u, i)'
BY DEF RefundReaches, Reliable, CoursesOf

\* The refund that a revocation belongs to is in the row of its order.
LEMMA RevokeIsRefund ==
  ASSUME Inv, NEW s \in Request, req[s].op = "refund",
         req[s].pc \in {"revoke", "revokeCourses"}
  PROVE  /\ req[s].order \in Order /\ status[req[s].order] = "refunded"
         /\ req[s].user = Buyer[req[s].order] /\ req[s].item = ItemOf[req[s].order]
BY DEF Inv, OwnOrders, OwnOrder, StaleReadsHold, ReadHolds

\* What a step can do to one row: nothing, open it, or revoke it for a refund.
LEMMA RowStep ==
  ASSUME Inv, Aims, [Next]_vars, NEW u \in User, NEW i \in Item
  PROVE  \/ enrolled'[<<u, i>>] = enrolled[<<u, i>>]
         \/ HasAccess(u, i)'
         \/ RefundReaches(u, i)'
<1>0. TypeOK /\ Reliable
  BY StatusStep, LedgerIsReliable DEF Inv
<1>1. ASSUME NEW s \in Request, UpsertWrite(s)
      PROVE  enrolled'[<<u, i>>] = enrolled[<<u, i>>] \/ HasAccess(u, i)'
  <2>1. CASE <<u, i>> = <<req[s].user, req[s].target>>
    <3>1. enrolled'[<<u, i>>] = [source |-> SourceOf(s), live |-> TRUE]
      BY <1>0, <1>1, <2>1 DEF UpsertWrite, TypeOK
    <3> QED
      BY <3>1 DEF HasAccess
  <2>2. CASE <<u, i>> # <<req[s].user, req[s].target>>
    BY <1>0, <1>1, <2>2 DEF UpsertWrite, TypeOK
  <2> QED
    BY <2>1, <2>2
<1>2. ASSUME NEW s \in Request, RefundRevoke(s)
      PROVE  enrolled'[<<u, i>>] = enrolled[<<u, i>>] \/ RefundReaches(u, i)'
  <2>1. CASE <<u, i>> \in {<<req[s].user, req[s].item>>}
    <3>1. RefundReaches(u, i)
      BY <1>2, <2>1, RevokeIsRefund DEF RefundRevoke, At, RefundReaches
    <3> QED
      BY <1>0, <3>1, ReachStays
  <2>2. CASE <<u, i>> \notin {<<req[s].user, req[s].item>>}
    BY <1>0, <1>2, <2>2, RevokeEffect DEF RefundRevoke
  <2> QED
    BY <2>1, <2>2
<1>3. ASSUME NEW s \in Request, RefundRevokeCourses(s)
      PROVE  enrolled'[<<u, i>>] = enrolled[<<u, i>>] \/ RefundReaches(u, i)'
  <2>1. CASE <<u, i>> \in {req[s].user} \X CoursesOf(req[s].item)
    <3>1. req[s].item \in Degree
      BY <1>3 DEF Aims, Aim, RefundRevokeCourses, At
    <3>2. RefundReaches(u, i)
      BY <1>3, <2>1, <3>1, RevokeIsRefund DEF RefundRevokeCourses, At, RefundReaches
    <3> QED
      BY <1>0, <3>2, ReachStays
  <2>2. CASE <<u, i>> \notin {req[s].user} \X CoursesOf(req[s].item)
    BY <1>0, <1>3, <2>2, RevokeEffect DEF RefundRevokeCourses
  <2> QED
    BY <2>1, <2>2
<1>4. ASSUME NEW s \in Request,
             \/ Arrive(s) \/ Abort(s) \/ SwallowError(s) \/ CreatePlace(s)
             \/ UpsertLookup(s) \/ UpsertConflict(s) \/ PayMark(s) \/ CancelMark(s)
             \/ RefundCheck(s) \/ RefundMark(s) \/ Finish(s)
      PROVE  enrolled' = enrolled
  BY <1>4 DEF Arrive, CreateBegin, Grant, EnrollFree, PayBegin, CancelBegin, RefundBegin,
              Abort, SwallowError, CreatePlace, UpsertLookup, UpsertConflict, PayMark,
              CancelMark, RefundCheck, RefundMark, Finish, FinishOrder, FinishFreeEnroll,
              FinishPay, FinishCancel, FinishRefund, FinishGrant
<1> QED
  BY <1>1, <1>2, <1>3, <1>4
     DEF Next, Step, Finish, vars, CompleteLessons, RefundWindowCloses

\* No step but a refund takes the access of a row away.
LEMMA RowsStep == Inv /\ Aims /\ RowsStay /\ [Next]_vars => RowsStay'
<1> SUFFICES ASSUME Inv, Aims, RowsStay, [Next]_vars, NEW u \in User, NEW i \in Item,
                    HasRow(u, i)'
             PROVE  HasAccess(u, i)' \/ RefundReaches(u, i)'
  BY DEF RowsStay
<1>1. Reliable
  BY StatusStep, LedgerIsReliable DEF Inv
<1>2. CASE enrolled'[<<u, i>>] = enrolled[<<u, i>>]
  <2>1. HasAccess(u, i) \/ RefundReaches(u, i)
    BY <1>2 DEF RowsStay, HasRow
  <2> QED
    BY <1>1, <1>2, <2>1, ReachStays DEF HasAccess
<1> QED
  BY <1>2, RowStep

\* An order that is opened stays opened, but for a refund.
LEMMA OpenedStays ==
  ASSUME Inv, Aims, [Next]_vars, NEW o \in Order, Opened(o)
  PROVE  Opened(o)'
<1>1. Reliable
  BY StatusStep, LedgerIsReliable DEF Inv
<1>2. Buyer[o] \in User /\ ItemOf[o] \in Item
  BY OrderAssumption
<1> QED
  BY <1>1, <1>2, RowStep, ReachStays DEF Opened, HasAccess

\* Without a fault the payment of an order goes on until the order is opened.
LEMMA OpeningStep ==
  ASSUME Inv, Aims, RowsStay, [Next]_vars, faults' = 0,
         NEW o \in Order, NEW r \in Request, Opening(r, o)
  PROVE  Opened(o)' \/ Opening(r, o)'
<1>0. TypeOK /\ Buyer[o] \in User /\ ItemOf[o] \in Item /\ req[r].user = Buyer[o]
  BY OrderAssumption DEF Inv, OwnOrders, OwnOrder, Opening
<1>1. CASE req'[r] = req[r]
  BY <1>1 DEF Opening
<1>2. ASSUME NEW s \in Request, Arrive(s) PROVE req'[r] = req[r]
  <2>1. req[s] = Idle
    BY <1>2 DEF Arrive, CreateBegin, Grant, EnrollFree, PayBegin, CancelBegin,
                RefundBegin, Start
  <2> QED
    BY <1>0, <1>2, <2>1, ReadBegins DEF OthersStay, Opening, Idle
<1>3. ASSUME NEW s \in Request, Step(s), r # s PROVE req'[r] = req[r]
  BY <1>3, StatusStep, LedgerIsReliable, ReadGoesOn DEF Inv, OthersStay
<1>4. CASE UpsertLookup(r)
  <2>1. /\ SameRequest(r) /\ req'[r].pc = "write" /\ req'[r].target = req[r].target
    BY <1>0, <1>4, LookupEffect
  <2> QED
    BY <2>1 DEF SameRequest, Opening
<1>5. CASE UpsertWrite(r)
  <2>1. enrolled'[<<Buyer[o], ItemOf[o]>>] = [source |-> SourceOf(r), live |-> TRUE]
    BY <1>0, <1>5 DEF UpsertWrite, TypeOK, Opening
  <2> QED
    BY <2>1 DEF Opened, HasAccess
<1>6. CASE UpsertConflict(r)
  <2>1. HasRow(Buyer[o], ItemOf[o])
    BY <1>0, <1>6 DEF UpsertConflict, Opening
  <2>2. Opened(o)
    BY <1>0, <2>1 DEF RowsStay, Opened
  <2> QED
    BY <2>2, OpenedStays
<1>7. ASSUME NEW s \in Request, Abort(s) \/ SwallowError(s) PROVE FALSE
  BY <1>0, <1>7 DEF Abort, SwallowError, TypeOK
<1>8. CASE Step(r)
  BY <1>4, <1>5, <1>6, <1>8
     DEF Step, Opening, CreatePlace, PayMark, CancelMark, RefundCheck, RefundMark,
         RefundRevoke, RefundRevokeCourses, FinishOrder, FinishFreeEnroll, FinishPay,
         FinishCancel, FinishRefund, FinishGrant, At
<1> QED
  BY <1>1, <1>2, <1>3, <1>7, <1>8 DEF Next, vars, CompleteLessons, RefundWindowCloses

\* Only MarkPaid makes an order paid, and its request then opens the access.
LEMMA PaidByMark ==
  ASSUME Inv, Aims, [Next]_vars, NEW o \in Order, status[o] # "paid", status'[o] = "paid"
  PROVE  \E r \in Request : Opening(r, o)'
<1>0. TypeOK
  BY DEF Inv
<1>1. ASSUME NEW s \in Request, PayMark(s) PROVE Opening(s, o)'
  <2>1. req[s].order = o /\ Goto(s, "lookup") /\ req[s].op = "pay" /\ req[s].pc = "mark"
    BY <1>0, <1>1 DEF PayMark, At, TypeOK
  <2>2. req[s].target = ItemOf[o]
    BY <2>1 DEF Aims, Aim, At, Inv, OwnOrders, OwnOrder
  <2>3. SameRequest(s) /\ req'[s].pc = "lookup" /\ req'[s].target = req[s].target
    BY <1>0, <2>1, GotoEffect
  <2> QED
    BY <2>1, <2>2, <2>3 DEF SameRequest, Opening
<1>2. ASSUME NEW s \in Request, CreatePlace(s) \/ CancelMark(s) \/ RefundMark(s)
      PROVE  FALSE
  BY <1>0, <1>2 DEF CreatePlace, CancelMark, RefundMark, TypeOK
<1>3. ASSUME NEW s \in Request,
             \/ Arrive(s) \/ Abort(s) \/ SwallowError(s)
             \/ UpsertLookup(s) \/ UpsertWrite(s) \/ UpsertConflict(s)
             \/ RefundCheck(s) \/ RefundRevoke(s) \/ RefundRevokeCourses(s)
             \/ Finish(s)
      PROVE  status' = status
  BY <1>3 DEF Arrive, CreateBegin, Grant, EnrollFree, PayBegin, CancelBegin, RefundBegin,
              Abort, SwallowError, UpsertLookup, UpsertWrite, UpsertConflict,
              RefundCheck, RefundRevoke, RefundRevokeCourses, Finish, FinishOrder,
              FinishFreeEnroll, FinishPay, FinishCancel, FinishRefund, FinishGrant
<1> QED
  BY <1>1, <1>2, <1>3
     DEF Next, Step, Finish, vars, CompleteLessons, RefundWindowCloses

\* Faults are never taken back.
LEMMA FaultsStay == ASSUME TypeOK, [Next]_vars, faults' = 0 PROVE faults = 0
<1>1. ASSUME NEW s \in Request, Step(s) \/ Arrive(s) PROVE faults' = faults
  BY <1>1 DEF Step, Arrive, CreateBegin, Grant, EnrollFree, PayBegin, CancelBegin,
              RefundBegin, CreatePlace, UpsertLookup, UpsertWrite, UpsertConflict,
              PayMark, CancelMark, RefundCheck, RefundMark, RefundRevoke,
              RefundRevokeCourses, FinishOrder, FinishFreeEnroll, FinishPay,
              FinishCancel, FinishRefund, FinishGrant
<1>2. faults \in Nat
  BY DEF TypeOK
<1>3. ASSUME NEW s \in Request, Abort(s) \/ SwallowError(s) PROVE faults' = faults + 1
  BY <1>3 DEF Abort, SwallowError
<1>4. faults' \in {faults, faults + 1}
  BY <1>1, <1>3 DEF Next, CompleteLessons, RefundWindowCloses, vars
<1> QED
  BY <1>2, <1>4

\* The second invariant is inductive.
LEMMA OpenStep == Inv /\ OpenInv /\ [Next]_vars => OpenInv'
<1> SUFFICES ASSUME Inv, OpenInv, [Next]_vars PROVE OpenInv'
  OBVIOUS
<1>0. Aims /\ RowsStay /\ PaidIsOpened
  BY DEF OpenInv
<1>1. Aims' /\ RowsStay'
  BY <1>0, AimStep, RowsStep
<1>2. ASSUME faults' = 0, NEW o \in Order, status'[o] = "paid"
      PROVE  Opened(o)' \/ \E r \in Request : Opening(r, o)'
  <2>1. CASE status[o] # "paid"
    BY <1>0, <1>2, <2>1, PaidByMark
  <2>2. CASE status[o] = "paid"
    <3>1. Opened(o) \/ \E r \in Request : Opening(r, o)
      BY <1>0, <1>2, <2>2, FaultsStay DEF Inv, PaidIsOpened
    <3> QED
      BY <1>0, <1>2, <3>1, OpenedStays, OpeningStep
  <2> QED
    BY <2>1, <2>2
<1>3. PaidIsOpened'
  BY <1>2 DEF PaidIsOpened
<1> QED
  BY <1>1, <1>3 DEF OpenInv

\* Without faults an order that is paid and not worked on any more has opened
\* its access, or a refund of a sibling order took it away again.
THEOREM PaidOpens == Spec => []PaidOrderHasAccess
<1>1. Init => OpenInv
  BY DEF Init, OpenInv, Aims, Aim, At, Idle, RowsStay, HasRow, PaidIsOpened
<1>2. OpenInv => PaidOrderHasAccess
  BY DEF OpenInv, PaidIsOpened, PaidOrderHasAccess, Opened, Opening, Busy
<1> QED
  BY <1>1, <1>2, OpenStep, InvAlways, PTL DEF Spec

=============================================================================
