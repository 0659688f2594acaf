----------------------------- MODULE OrderLedger -----------------------------
(***************************************************************************)
(* What the orders component promises about one order row, whatever the    *)
(* interleaving of the requests that touch it: an order is placed once, a  *)
(* pending order is either paid or cancelled but never both, a paid order  *)
(* can only be refunded, and cancelled and refunded orders never change    *)
(* again.  OrderFlow, the request-level model of the Go code, implements   *)
(* this specification with the identity refinement mapping on status.      *)
(***************************************************************************)
CONSTANT Order

VARIABLE status

(* The values of orders.status that the Go code writes ("failed" is in the *)
(* enum of the schema and is never written); "none": no such row yet.      *)
Status == {"none", "pending", "paid", "expired", "refunded"}

Init == status = [o \in Order |-> "none"]

Move(o, from, to) == status[o] = from /\ status' = [status EXCEPT ![o] = to]

Place(o)  == Move(o, "none", "pending")
Pay(o)    == Move(o, "pending", "paid")
Cancel(o) == Move(o, "pending", "expired")
Refund(o) == Move(o, "paid", "refunded")

Next == \E o \in Order : Place(o) \/ Pay(o) \/ Cancel(o) \/ Refund(o)

Spec == Init /\ [][Next]_status
=============================================================================
