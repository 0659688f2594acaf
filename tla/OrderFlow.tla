------------------------------ MODULE OrderFlow ------------------------------
(***************************************************************************)
(* The purchase flow of the Go API: internal/orders (create, mock payment, *)
(* cancellation, refund), the free enrollment of internal/enrollments and  *)
(* the administrator's grant of internal/users, which share the tables     *)
(* orders and enrollments and run as concurrent HTTP requests.             *)
(*                                                                         *)
(* None of these handlers opens a transaction.  Every SQL statement is     *)
(* atomic, everything between two statements is not, so a request is a     *)
(* small state machine with one step per statement that another request    *)
(* can come between; reads with no visible difference are merged with the  *)
(* step that follows them.                                                 *)
(***************************************************************************)
EXTENDS Naturals, Sequences

CONSTANTS
  User, Course, Degree,
  Curriculum,   \* degree_courses: the courses of a degree by order_index
  CostType,     \* courses.cost_type, nano_degrees.cost_type
  Order,        \* the ids (UUIDs) that orders.Create may draw
  Buyer,        \* the user_id an id is drawn for
  ItemOf,       \* the course_id or degree_id an id is drawn for
  Request,      \* slots of requests being served at the same time
  MaxFaults,    \* bound on failing statements and process crashes
  None

Item == Course \cup Degree

ASSUME CatalogAssumption ==
  /\ Course \cap Degree = {}
  /\ Curriculum \in [Degree -> Seq(Course)]
  /\ CostType \in [Item -> {"free", "charity", "paid"}]

ASSUME OrderAssumption ==
  /\ Buyer \in [Order -> User]
  /\ ItemOf \in [Order -> Item]

ASSUME BoundAssumption ==
  /\ MaxFaults \in Nat
  /\ None \notin User \cup Item \cup Order

VARIABLES
  status,     \* orders.status, "none" before the row exists
  enrolled,   \* the enrollments row of a (user, item): source, deleted_at IS NULL
  study,      \* how much of a course a user has completed
  late,       \* orders paid at least seven days ago
  audit,      \* audit_logs rows of this flow
  notices,    \* notifications sent, by order and kind
  certified,  \* certificates issued by the IssueCertificateOnPaid hook
  req,        \* the requests in flight
  faults      \* how many faults happened

vars == <<status, enrolled, study, late, audit, notices, certified, req, faults>>

Source == {"none", "direct", "degree", "order"}
Status == {"none", "pending", "paid", "expired", "refunded"}
Op     == {"none", "create", "pay", "cancel", "refund", "enroll", "grant"}
Pc     == {"idle", "place", "lookup", "write", "mark", "check", "revoke",
           "revokeCourses", "finish"}

Idle == [op |-> "none", pc |-> "idle", user |-> None, item |-> None,
         order |-> None, target |-> None, todo |-> <<>>, found |-> FALSE]

\* What a handler knows while it runs; target and todo are the upsert at hand
\* and the ones to come, found is the result of its SELECT.
Serving == [op : Op \ {"none"}, pc : Pc \ {"idle"}, user : User, item : Item,
            order : Order \cup {None}, target : Item, todo : Seq(Course),
            found : BOOLEAN]

Init ==
  /\ status = [o \in Order |-> "none"]
  /\ enrolled = [k \in User \X Item |-> [source |-> "none", live |-> FALSE]]
  /\ study = [k \in User \X Course |-> "none"]
  /\ late = {}
  /\ audit = {}
  /\ notices = [k \in Order \X {"created", "refunded"} |-> 0]
  /\ certified = {}
  /\ req = [r \in Request |-> Idle]
  /\ faults = 0

(***************************************************************************)
(* Moving a request on.                                                    *)
(***************************************************************************)
At(r, op, pc) == req[r].op = op /\ req[r].pc = pc
Goto(r, pc)   == req' = [req EXCEPT ![r].pc = pc]
End(r)        == req' = [req EXCEPT ![r] = Idle]

Start(r, op, pc, u, i, o, todo) ==
  /\ req[r] = Idle
  /\ req' = [req EXCEPT ![r] = [op |-> op, pc |-> pc, user |-> u, item |-> i,
                               order |-> o, target |-> i, todo |-> todo,
                               found |-> FALSE]]

HasRow(u, i)    == enrolled[<<u, i>>].source # "none"
HasAccess(u, i) == enrolled[<<u, i>>].live

\* The curriculum that paying for, or creating an order of, an item enrolls in.
CoursesToo(i) == IF i \in Degree THEN Curriculum[i] ELSE <<>>

(***************************************************************************)
(* createCourseOrder and createDegreeOrder.                                *)
(***************************************************************************)
\* Already enrolled: 409.  A free item is enrolled in, any other is ordered.
CreateBegin(r, u, i) ==
  /\ ~ HasAccess(u, i)
  /\ IF CostType[i] = "free"
     THEN Start(r, "create", "lookup", u, i, None, CoursesToo(i))
     ELSE Start(r, "create", "place", u, i, None, <<>>)
  /\ UNCHANGED <<status, enrolled, study, late, audit, notices, certified, faults>>

Fresh(u, i) == {o \in Order : status[o] = "none" /\ Buyer[o] = u /\ ItemOf[o] = i}

\* The last disjunct is the bound on orders: the model has no id left.
CreatePlace(r) ==
  /\ At(r, "create", "place")
  /\ \/ \E o \in Fresh(req[r].user, req[r].item) :
          /\ status' = [status EXCEPT ![o] = "pending"]
          /\ req' = [req EXCEPT ![r].order = o, ![r].pc = "finish"]
     \/ Fresh(req[r].user, req[r].item) = {} /\ status' = status /\ End(r)
  /\ UNCHANGED <<enrolled, study, late, audit, notices, certified, faults>>

(***************************************************************************)
(* enrollments.EnrollFreeCourse, users.GrantCourseAccess and               *)
(* GrantDegreeAccess: the same upsert, source 'direct', no order.          *)
(***************************************************************************)
EnrollFree(r, u, c) ==
  /\ CostType[c] \in {"free", "charity"}
  /\ Start(r, "enroll", "lookup", u, c, None, <<>>)
  /\ UNCHANGED <<status, enrolled, study, late, audit, notices, certified, faults>>

Grant(r, u, i) ==
  /\ Start(r, "grant", "lookup", u, i, None, <<>>)
  /\ UNCHANGED <<status, enrolled, study, late, audit, notices, certified, faults>>

(***************************************************************************)
(* UpsertEnrollment, one SELECT and then one UPDATE or INSERT.  Two        *)
(* requests can both find no row; the unique keys on (user_id, course_id)  *)
(* and (user_id, degree_id) then fail the second INSERT.                   *)
(***************************************************************************)
SourceOf_Op(r) == req[r].op  \* mutant: the operation instead of the enum value

SourceOf_AlwaysOrder(r) ==  \* mutant: every direct row attributed to an order
  IF req[r].target # req[r].item THEN "degree" ELSE "order"

SourceOf(r) == IF req[r].target # req[r].item THEN "degree"
               ELSE IF req[r].op = "pay" THEN "order" ELSE "direct"

UpsertLookup_Polls(r) ==  \* mutant: waits until there is a row
  /\ req[r].pc = "lookup"
  /\ req' = IF HasRow(req[r].user, req[r].target)
            THEN [req EXCEPT ![r].pc = "write", ![r].found = TRUE] ELSE req
  /\ UNCHANGED <<status, enrolled, study, late, audit, notices, certified, faults>>

UpsertLookup(r) ==
  /\ req[r].pc = "lookup"
  /\ req' = [req EXCEPT ![r].pc = "write",
                        ![r].found = HasRow(req[r].user, req[r].target)]
  /\ UNCHANGED <<status, enrolled, study, late, audit, notices, certified, faults>>

\* On to the next course of enrollAllDegreeCourses, or to the end.
NextTarget(r) ==
  IF req[r].todo = <<>> THEN Goto(r, "finish")
  ELSE req' = [req EXCEPT ![r].pc = "lookup", ![r].target = Head(req[r].todo),
                          ![r].todo = Tail(req[r].todo)]

UpsertWrite_KeepsDeleted(r) ==  \* mutant: the UPDATE forgets deleted_at = NULL
  LET k == <<req[r].user, req[r].target>> IN
  /\ req[r].pc = "write"
  /\ enrolled' = [enrolled EXCEPT ![k] =
                    [source |-> SourceOf(r),
                     live |-> IF req[r].found THEN @.live ELSE TRUE]]
  /\ NextTarget(r)
  /\ UNCHANGED <<status, study, late, audit, notices, certified, faults>>

UpsertWrite(r) ==
  LET k == <<req[r].user, req[r].target>> IN
  /\ req[r].pc = "write"
  /\ req[r].found \/ ~ HasRow(req[r].user, req[r].target)
  /\ enrolled' = [enrolled EXCEPT ![k] = [source |-> SourceOf(r), live |-> TRUE]]
  /\ NextTarget(r)
  /\ UNCHANGED <<status, study, late, audit, notices, certified, faults>>

\* The INSERT hits the unique key: the error ends the request, except inside
\* enrollAllDegreeCourses, whose error both callers discard.
UpsertConflict(r) ==
  /\ req[r].pc = "write" /\ ~ req[r].found
  /\ HasRow(req[r].user, req[r].target)
  /\ IF req[r].target = req[r].item THEN End(r) ELSE Goto(r, "finish")
  /\ UNCHANGED <<status, enrolled, study, late, audit, notices, certified, faults>>

(***************************************************************************)
(* MockPay.                                                                *)
(***************************************************************************)
PayBegin(r, u, o) ==
  /\ status[o] = "pending" /\ Buyer[o] = u
  /\ Start(r, "pay", "mark", u, ItemOf[o], o, CoursesToo(ItemOf[o]))
  /\ UNCHANGED <<status, enrolled, study, late, audit, notices, certified, faults>>

StillPending_Unchecked(o) == status[o] # "none"  \* mutant: UPDATE ... WHERE id = ?
\* The WHERE status = 'pending' of the two conditional updates.
StillPending(o) == status[o] = "pending"

PayMark_IgnoresCount(r) ==  \* mutant: rows affected is not looked at
  /\ At(r, "pay", "mark")
  /\ status' = IF StillPending(req[r].order)
               THEN [status EXCEPT ![req[r].order] = "paid"] ELSE status
  /\ Goto(r, "lookup")
  /\ UNCHANGED <<enrolled, study, late, audit, notices, certified, faults>>

PayMark(r) ==
  /\ At(r, "pay", "mark")
  /\ IF StillPending(req[r].order)
     THEN /\ status' = [status EXCEPT ![req[r].order] = "paid"]
          /\ Goto(r, "lookup")
     ELSE status' = status /\ End(r)
  /\ UNCHANGED <<enrolled, study, late, audit, notices, certified, faults>>

(***************************************************************************)
(* Cancel.                                                                 *)
(***************************************************************************)
CancelBegin(r, u, o) ==
  /\ status[o] = "pending" /\ Buyer[o] = u
  /\ Start(r, "cancel", "mark", u, ItemOf[o], o, <<>>)
  /\ UNCHANGED <<status, enrolled, study, late, audit, notices, certified, faults>>

CancelMark_IgnoresCount(r) ==  \* mutant: rows affected is not looked at
  /\ At(r, "cancel", "mark")
  /\ status' = IF StillPending(req[r].order)
               THEN [status EXCEPT ![req[r].order] = "expired"] ELSE status
  /\ Goto(r, "finish")
  /\ UNCHANGED <<enrolled, study, late, audit, notices, certified, faults>>

CancelMark(r) ==
  /\ At(r, "cancel", "mark")
  /\ IF StillPending(req[r].order)
     THEN /\ status' = [status EXCEPT ![req[r].order] = "expired"]
          /\ Goto(r, "finish")
     ELSE status' = status /\ End(r)
  /\ UNCHANGED <<enrolled, study, late, audit, notices, certified, faults>>

(***************************************************************************)
(* RefundOrder.  The UPDATE of MarkRefunded has no condition on status.    *)
(***************************************************************************)
RefundBegin_AnyStatus(r, u, o) ==  \* mutant: without the check for "paid"
  /\ status[o] # "none" /\ Buyer[o] = u
  /\ Start(r, "refund", "check", u, ItemOf[o], o, <<>>)
  /\ UNCHANGED <<status, enrolled, study, late, audit, notices, certified, faults>>

RefundBegin(r, u, o) ==
  /\ status[o] = "paid" /\ Buyer[o] = u
  /\ Start(r, "refund", "check", u, ItemOf[o], o, <<>>)
  /\ UNCHANGED <<status, enrolled, study, late, audit, notices, certified, faults>>

CoursesOf(d) == {Curriculum[d][n] : n \in 1 .. Len(Curriculum[d])}

\* checkRefund: the rules on progress and on the seven-day window.
Refundable(u, i, o) ==
  IF i \in Degree THEN \A c \in CoursesOf(i) : study[<<u, c>>] = "none"
  ELSE \/ study[<<u, i>>] = "none"
       \/ study[<<u, i>>] = "below20" /\ o \notin late

RefundCheck_NoReturn(r) ==  \* mutant: a refused refund still revokes
  /\ At(r, "refund", "check")
  /\ Goto(r, IF Refundable(req[r].user, req[r].item, req[r].order)
             THEN "mark" ELSE "revoke")
  /\ UNCHANGED <<status, enrolled, study, late, audit, notices, certified, faults>>

RefundCheck(r) ==
  /\ At(r, "refund", "check")
  /\ IF Refundable(req[r].user, req[r].item, req[r].order)
     THEN Goto(r, "mark") ELSE End(r)
  /\ UNCHANGED <<status, enrolled, study, late, audit, notices, certified, faults>>

RefundMark(r) ==
  /\ At(r, "refund", "mark")
  /\ status' = [status EXCEPT ![req[r].order] = "refunded"]
  /\ Goto(r, "revoke")
  /\ UNCHANGED <<enrolled, study, late, audit, notices, certified, faults>>

Revoke(keys, source) ==
  enrolled' = [k \in User \X Item |->
                 IF k \in keys /\ enrolled[k].source = source
                 THEN [enrolled[k] EXCEPT !.live = FALSE] ELSE enrolled[k]]

RefundRevoke(r) ==
  /\ At(r, "refund", "revoke")
  /\ Revoke({<<req[r].user, req[r].item>>}, "order")
  /\ Goto(r, IF req[r].item \in Degree THEN "revokeCourses" ELSE "finish")
  /\ UNCHANGED <<status, study, late, audit, notices, certified, faults>>

RefundRevokeCourses(r) ==
  /\ At(r, "refund", "revokeCourses")
  /\ Revoke({req[r].user} \X CoursesOf(req[r].item), "degree")
  /\ Goto(r, "finish")
  /\ UNCHANGED <<status, study, late, audit, notices, certified, faults>>

(***************************************************************************)
(* The tail of every handler: the audit row, then the hooks that main.go   *)
(* wires (NotifyOrderCreated, IssueCertificateOnPaid, refundNotifier).     *)
(***************************************************************************)
Audited(r) == [op |-> req[r].op, user |-> req[r].user, item |-> req[r].item,
               order |-> req[r].order]

Notify(o, kind) == notices' = [notices EXCEPT ![<<o, kind>>] = @ + 1]
Certify(u, i)   == certified' = certified \cup {<<u, i>>}

FinishOrder_Certifies(r) ==  \* mutant: the certificate hook on order creation
  /\ At(r, "create", "finish") /\ req[r].order # None
  /\ audit' = audit \cup {Audited(r)}
  /\ Notify(req[r].order, "created")
  /\ Certify(req[r].user, req[r].item)
  /\ End(r)
  /\ UNCHANGED <<status, enrolled, study, late, faults>>

FinishOrder(r) ==  \* createCourseOrder, createDegreeOrder, the paid path
  /\ At(r, "create", "finish") /\ req[r].order # None
  /\ audit' = audit \cup {Audited(r)}
  /\ Notify(req[r].order, "created")
  /\ End(r)
  /\ UNCHANGED <<status, enrolled, study, late, certified, faults>>

\* The free path reloads the enrollment first, and fails when it is gone.
FinishFreeEnroll(r) ==
  /\ At(r, "create", "finish") /\ req[r].order = None
  /\ IF HasAccess(req[r].user, req[r].item)
     THEN /\ audit' = audit \cup {Audited(r)}
          /\ Certify(req[r].user, req[r].item)
     ELSE UNCHANGED <<audit, certified>>
  /\ End(r)
  /\ UNCHANGED <<status, enrolled, study, late, notices, faults>>

FinishPay(r) ==
  /\ At(r, "pay", "finish")
  /\ audit' = audit \cup {Audited(r)}
  /\ IF req[r].item \in Degree THEN Certify(req[r].user, req[r].item)
     ELSE certified' = certified
  /\ End(r)
  /\ UNCHANGED <<status, enrolled, study, late, notices, faults>>

FinishCancel(r) ==
  /\ At(r, "cancel", "finish")
  /\ audit' = audit \cup {Audited(r)}
  /\ End(r)
  /\ UNCHANGED <<status, enrolled, study, late, notices, certified, faults>>

FinishRefund(r) ==
  /\ At(r, "refund", "finish")
  /\ audit' = audit \cup {Audited(r)}
  /\ Notify(req[r].order, "refunded")
  /\ End(r)
  /\ UNCHANGED <<status, enrolled, study, late, certified, faults>>

FinishGrant(r) ==  \* a grant is audited, a free enrollment is not
  /\ req[r].op \in {"grant", "enroll"} /\ req[r].pc = "finish"
  /\ audit' = IF req[r].op = "grant" THEN audit \cup {Audited(r)} ELSE audit
  /\ End(r)
  /\ UNCHANGED <<status, enrolled, study, late, notices, certified, faults>>

(***************************************************************************)
(* What goes on around the requests: learners complete lessons (the        *)
(* progress service asks for no enrollment), paid_at grows old, statements *)
(* fail and the process dies.                                              *)
(***************************************************************************)
CompleteLessons(u, c) ==
  /\ \/ study[<<u, c>>] = "none" /\ study' = [study EXCEPT ![<<u, c>>] = "below20"]
     \/ /\ study[<<u, c>>] # "atLeast20"
        /\ study' = [study EXCEPT ![<<u, c>>] = "atLeast20"]
  /\ UNCHANGED <<status, enrolled, late, audit, notices, certified, req, faults>>

RefundWindowCloses(o) ==
  /\ status[o] = "paid" /\ o \notin late
  /\ late' = late \cup {o}
  /\ UNCHANGED <<status, enrolled, study, audit, notices, certified, req, faults>>

\* A failing statement or a crash before the next one: the request is gone,
\* what it has written stays.
Abort(r) ==
  /\ req[r].pc # "idle" /\ faults < MaxFaults
  /\ faults' = faults + 1
  /\ End(r)
  /\ UNCHANGED <<status, enrolled, study, late, audit, notices, certified>>

\* The failures that are logged or discarded: the handler goes on.
SwallowError(r) ==
  /\ faults < MaxFaults /\ faults' = faults + 1
  /\ \/ /\ req[r].pc \in {"lookup", "write"} /\ req[r].target # req[r].item
        /\ Goto(r, "finish")
     \/ /\ req[r].pc = "revoke"
        /\ Goto(r, IF req[r].item \in Degree THEN "revokeCourses" ELSE "finish")
     \/ req[r].pc = "revokeCourses" /\ Goto(r, "finish")
  /\ UNCHANGED <<status, enrolled, study, late, audit, notices, certified>>

Arrive(r) ==
  \/ \E u \in User, i \in Item : CreateBegin(r, u, i) \/ Grant(r, u, i)
  \/ \E u \in User, c \in Course : EnrollFree(r, u, c)
  \/ \E u \in User, o \in Order :
       PayBegin(r, u, o) \/ CancelBegin(r, u, o) \/ RefundBegin(r, u, o)

Step(r) ==
  \/ CreatePlace(r)
  \/ UpsertLookup(r) \/ UpsertWrite(r) \/ UpsertConflict(r)
  \/ PayMark(r) \/ CancelMark(r)
  \/ RefundCheck(r) \/ RefundMark(r) \/ RefundRevoke(r) \/ RefundRevokeCourses(r)
  \/ FinishOrder(r) \/ FinishFreeEnroll(r) \/ FinishPay(r) \/ FinishCancel(r)
  \/ FinishRefund(r) \/ FinishGrant(r)

Next ==
  \/ \E r \in Request : Arrive(r) \/ Step(r) \/ Abort(r) \/ SwallowError(r)
  \/ \E u \in User, c \in Course : CompleteLessons(u, c)
  \/ \E o \in Order : RefundWindowCloses(o)

Spec == Init /\ [][Next]_vars

\* The Go runtime keeps running a handler that has begun; nothing makes a
\* client send a request, and nothing promises or excludes a fault.
FairSpec == Spec /\ \A r \in Request : WF_vars(Step(r))

-----------------------------------------------------------------------------
(* Properties *)

\* Every variable has its type: rows, audit entries and requests are well formed.
TypeOK ==
  /\ status \in [Order -> Status]
  /\ enrolled \in [User \X Item -> [source : Source, live : BOOLEAN]]
  /\ study \in [User \X Course -> {"none", "below20", "atLeast20"}]
  /\ late \subseteq Order
  /\ audit \subseteq [op : Op, user : User, item : Item, order : Order \cup {None}]
  /\ notices \in [Order \X {"created", "refunded"} -> Nat]
  /\ certified \subseteq User \X Item
  /\ req \in [Request -> {Idle} \cup Serving]
  /\ faults \in Nat

Ledger == INSTANCE OrderLedger WITH Order <- Order, status <- status

\* Whatever the interleaving of pay, cancel and refund requests and their
\* stale reads, the status of an order moves only as OrderLedger allows: the
\* conditional updates of MarkPaid and Cancel and the unconditional one of
\* MarkRefunded together never resurrect or skip a state.
LedgerSpec == Ledger!Spec

\* The row is past MarkPaid: this request will open the access it paid for.
PaidPhase(r) == req[r].op = "pay" /\ req[r].pc \in {"lookup", "write", "finish"}

\* What request r has read, or written itself, of the status of its order.
ReadHolds(r) == LET o == req[r].order IN
  /\ req[r].op \in {"pay", "cancel"} => status[o] # "none"
  /\ PaidPhase(r) => status[o] \in {"paid", "refunded"}
  /\ At(r, "cancel", "finish") => status[o] = "expired"
  /\ req[r].op = "refund" =>
       \/ status[o] = "refunded"
       \/ status[o] = "paid" /\ req[r].pc \in {"check", "mark"}

\* What a handler read of its order stays true until it acts on it, although
\* it holds no lock: a refund that saw "paid" can meet nothing but "paid" or
\* "refunded", so its unconditional UPDATE never overwrites another ending,
\* and behind its own UPDATE the row says what the handler goes on to do.
StaleReadsHold == \A r \in Request : ReadHolds(r)

\* At most one of the concurrent payments of an order wins (MarkPaid's
\* "another request beat us"), so no order is settled twice.
OnePaymentWins ==
  \A r1, r2 \in Request :
    r1 # r2 /\ PaidPhase(r1) /\ PaidPhase(r2) => req[r1].order # req[r2].order

\* The user has an order of the item on which money was taken at some time.
Settled(u, i) == \E o \in Order : /\ Buyer[o] = u /\ ItemOf[o] = i
                                  /\ status[o] \in {"paid", "refunded"}

\* Access that the tables attribute to an order, and a degree certificate of
\* a degree that is not free, go back to an order this very user paid: no
\* interleaving of pay, cancel, grant and upsert hands them out otherwise.
AccessIsPaidFor ==
  \A u \in User, i \in Item :
    /\ enrolled[<<u, i>>].source = "order" => Settled(u, i)
    /\ enrolled[<<u, i>>].source = "degree" =>
         \E d \in Degree : i \in CoursesOf(d) /\ (CostType[d] = "free" \/ Settled(u, d))
    /\ <<u, i>> \in certified => CostType[i] = "free" \/ Settled(u, i)

NoticesAgree ==
  \A o \in Order : notices[<<o, "refunded">>] # 0 => status[o] = "refunded"

\* The audit log never tells two endings of one order: a cancellation next to
\* a payment or a refund, or an ending that the order's row contradicts; and
\* no buyer is told of a refund that the row does not show.
AuditAgrees ==
  /\ \A e \in audit :
       /\ e.op = "cancel" => status[e.order] = "expired"
       /\ e.op = "pay"    => status[e.order] \in {"paid", "refunded"}
       /\ e.op = "refund" => status[e.order] = "refunded"
  /\ NoticesAgree

Busy(o) == \E r \in Request : req[r].order = o

\* A refund of an order of this item, or of a degree that contains it: both
\* revocations are by (user, item) and source and can hit a sibling order.
RefundReaches(u, i) ==
  \E o \in Order : /\ Buyer[o] = u /\ status[o] = "refunded"
                   /\ \/ ItemOf[o] = i
                      \/ ItemOf[o] \in Degree /\ i \in CoursesOf(ItemOf[o])

\* Without faults, an order that is paid and that no request works on any
\* more has opened its access, two concurrent first enrollments of the item
\* included; only a refund of a sibling order can have taken it away.
PaidOrderHasAccess ==
  \A o \in Order :
    faults = 0 /\ status[o] = "paid" /\ ~ Busy(o) =>
      HasAccess(Buyer[o], ItemOf[o]) \/ RefundReaches(Buyer[o], ItemOf[o])

\* Without faults a payment that won is followed by access to the item, or a
\* refund of it or of a sibling order: MarkPaid and UpsertEnrollment are two
\* statements, and the second one always comes.
PaymentOpensAccess ==
  \A o \in Order :
    status[o] = "paid" ~> \/ HasAccess(Buyer[o], ItemOf[o])
                          \/ RefundReaches(Buyer[o], ItemOf[o])
                          \/ faults > 0

\* The order waits for its payment and every other order of the same user for
\* the item has ended: no refund can come but the order's own.
LastPurchase(o) ==
  /\ status[o] = "pending"
  /\ \A p \in Order \ {o} :
       Buyer[p] = Buyer[o] /\ ItemOf[p] = ItemOf[o] =>
         status[p] \in {"expired", "refunded"} /\ ~ Busy(p)

\* Buying again after a refund works: the enrollment row that the refund
\* soft-deleted is brought back, whatever else runs, so that this payment
\* opens the access too.
RepurchaseOpensAccess ==
  \A o \in Order :
    [](LastPurchase(o) =>
         [](status[o] = "paid" => <>\/ HasAccess(Buyer[o], ItemOf[o])
                                     \/ status[o] = "refunded"
                                     \/ faults > 0))

-----------------------------------------------------------------------------
(* Statements of the sources that the code does not keep *)

\* refund.go:17 and :157: "Atomic: mark refunded + revoke enrollments".  With
\* nothing in flight, no fault and no other settled order of the item, a
\* refunded order leaves no order-sourced access behind.
RefundRevokesAccess ==
  \A o \in Order :
    /\ status[o] = "refunded" /\ faults = 0 /\ \A r \in Request : req[r] = Idle
    /\ \A p \in Order \ {o} : ~ (Buyer[p] = Buyer[o] /\ ItemOf[p] = ItemOf[o]
                                   /\ status[p] = "paid")
    => LET row == enrolled[<<Buyer[o], ItemOf[o]>>] IN
       ~ (row.live /\ row.source = "order")
=============================================================================
