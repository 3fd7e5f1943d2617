---------------------------- MODULE OrdersProofs ----------------------------
(* Proofs of the safety of Orders, for every value of its constants. *)
EXTENDS Orders, FiniteSetTheorems, TLAPS

USE OrdersAssumption DEF imports

OnOrder == {"CancelRead", "CancelUnpaid", "RefundBegin", "Describe", "ChangeStatus", "Notify",
            "Complete", "Rate"} \cup RefundPoints

\* Requests name orders that are in the table.
RequestsRefer == \A r \in Requests : req[r].at \in OnOrder => req[r].id \in Rows

Typed == TypeOK /\ RequestsRefer

(***************************************************************************)
(* The fields of a request at each point of its handler.                   *)
(***************************************************************************)
LEMMA RequestFields ==
    ASSUME NEW q \in Request
    PROVE  /\ q.at = "Create" =>
                q.user \in Users /\ q.items \in Basket /\ q.method \in PaymentMethod
                /\ q.voucher \in Vouchers \cup {NoVoucher}
           /\ q.at \in {"CancelRead", "CancelUnpaid", "RefundBegin", "Describe"} \cup RefundPoints =>
                q.id \in OrderIds /\ q.admin \in BOOLEAN /\ q.code \in PaymentCode
           /\ q.at \in {"ChangeStatus", "Notify"} => q.id \in OrderIds /\ q.to \in ChangedTo
           /\ q.at = "Complete" => q.id \in OrderIds
           /\ q.at = "Rate" => q.id \in OrderIds /\ q.product \in Products
           /\ q = Idle <=> q.at = "Idle"
  BY DEF Request, Idle, RefundPoints

(***************************************************************************)
(* The points a handler moves to are requests.                             *)
(***************************************************************************)
LEMMA RequestPoints ==
    /\ Idle \in Request
    /\ \A o \in OrderIds, b \in BOOLEAN, c \in PaymentCode,
          at \in {"CancelRead", "CancelUnpaid", "RefundBegin", "Describe"} \cup RefundPoints :
            CancelPoint(at, o, b, c) \in Request
    /\ \A o \in OrderIds, s \in ChangedTo, at \in {"ChangeStatus", "Notify"} :
            [at |-> at, id |-> o, to |-> s] \in Request
    /\ \A o \in OrderIds : [at |-> "Complete", id |-> o] \in Request
    /\ \A o \in OrderIds, p \in Products : [at |-> "Rate", id |-> o, product |-> p] \in Request
    /\ \A u \in Users, b \in Basket, m \in PaymentMethod, v \in Vouchers \cup {NoVoucher} :
            [at |-> "Create", user |-> u, items |-> b, voucher |-> v, method |-> m] \in Request
    /\ NullCode \in PaymentCode
<1>1. NullCode \in PaymentCode
  BY DEF NullCode, PaymentCode
<1>2. Idle \in Request
  BY DEF Request
<1>3. ASSUME NEW o \in OrderIds, NEW b \in BOOLEAN, NEW c \in PaymentCode,
             NEW at \in {"CancelRead", "CancelUnpaid", "RefundBegin", "Describe"} \cup RefundPoints
      PROVE  CancelPoint(at, o, b, c) \in Request
  BY <1>3 DEF Request, CancelPoint
<1>4. ASSUME NEW o \in OrderIds, NEW s \in ChangedTo, NEW at \in {"ChangeStatus", "Notify"}
      PROVE  [at |-> at, id |-> o, to |-> s] \in Request
  BY <1>4 DEF Request
<1>5. ASSUME NEW o \in OrderIds
      PROVE  [at |-> "Complete", id |-> o] \in Request
  BY <1>5 DEF Request
<1>6. ASSUME NEW o \in OrderIds, NEW p \in Products
      PROVE  [at |-> "Rate", id |-> o, product |-> p] \in Request
  BY <1>6 DEF Request
<1>7. ASSUME NEW u \in Users, NEW b \in Basket, NEW m \in PaymentMethod,
             NEW v \in Vouchers \cup {NoVoucher}
      PROVE  [at |-> "Create", user |-> u, items |-> b, voucher |-> v, method |-> m] \in Request
  BY <1>7 DEF Request
<1> QED
  BY <1>1, <1>2, <1>3, <1>4, <1>5, <1>6, <1>7

(***************************************************************************)
(* TypeOK and RequestsRefer by the parts an action can disturb.            *)
(***************************************************************************)
OrderTable == DOMAIN order \subseteq OrderIds /\ order \in [DOMAIN order -> OrderRow]

VoucherTables ==
    /\ voucher \in [Vouchers -> VoucherRow]
    /\ userVoucher \in [Vouchers -> [Users -> {"None", "NotUsed", "Used"}]]

Stocks ==
    /\ stock \in [Products -> Int]
    /\ received \in [Products -> Nat] /\ withdrawn \in [Products -> Nat]

Marks == rated \subseteq OrderIds \X Products /\ notice \subseteq OrderIds \X OrderStatus

Payments ==
    /\ issued \in [OrderIds -> 0..MaxAttempts]
    /\ captured \subseteq OrderIds \X (1..MaxAttempts)
    /\ refunded \subseteq captured

Served ==
    /\ req \in [Requests -> Request] /\ RequestsRefer
    /\ crossed \subseteq OrderIds /\ failures \in 0..MaxFailures

Parts == OrderTable /\ VoucherTables /\ Stocks /\ Marks /\ Payments /\ Served

LEMMA TypedParts == (Typed <=> Parts) /\ (Typed' <=> Parts')
  BY DEF Typed, TypeOK, Parts, OrderTable, VoucherTables, Stocks, Marks, Payments, Served

(***************************************************************************)
(* A request may move to any point whose order, if any, is in the table,   *)
(* and the table only grows.                                               *)
(***************************************************************************)
LEMMA Moved ==
    ASSUME Served, Rows \subseteq Rows', NEW r \in Requests, NEW q \in Request,
           q.at \in OnOrder => q.id \in Rows, Goto(r, q)
    PROVE  req' \in [Requests -> Request] /\ RequestsRefer' /\ crossed' \subseteq OrderIds
  BY DEF Served, Goto, RequestsRefer

LEMMA Replied ==
    ASSUME Served, Rows \subseteq Rows', NEW r \in Requests, Reply(r)
    PROVE  req' \in [Requests -> Request] /\ RequestsRefer' /\ crossed' \subseteq OrderIds
<1>1. Goto(r, Idle) /\ Idle \in Request /\ Idle.at \notin OnOrder
  BY RequestPoints DEF Reply, Goto, Idle, OnOrder, RefundPoints
<1> QED
  BY <1>1, Moved

LEMMA Stayed ==
    ASSUME Served, Rows \subseteq Rows', UNCHANGED <<req, failures>>,
           UNCHANGED crossed \/ \E o \in OrderIds : Cross(o)
    PROVE  Served'
<1>1. crossed' \subseteq OrderIds
  BY DEF Served, Cross
<1> QED
  BY <1>1 DEF Served, RequestsRefer

(***************************************************************************)
(* Writing one row leaves the ids alone.                                   *)
(***************************************************************************)
LEMMA RowWritten ==
    ASSUME OrderTable, NEW o \in Rows, NEW row \in OrderRow, Update(o, row)
    PROVE  OrderTable' /\ Rows' = Rows
  BY DEF OrderTable, Rows, Update

LEMMA RowOf ==
    ASSUME OrderTable, NEW o \in Rows
    PROVE  o \in OrderIds /\ order[o] \in OrderRow
  BY DEF OrderTable, Rows

(***************************************************************************)
(* A read, or an early return: only the request moves.                     *)
(***************************************************************************)
LEMMA ReadOnly ==
    ASSUME Parts, NEW r \in Requests, NEW q \in Request, q.at \in OnOrder => q.id \in Rows,
           Goto(r, q), UNCHANGED <<tables, gateway, failures>>
    PROVE  Parts'
<1>1. Rows \subseteq Rows' /\ Served
  BY DEF Parts, tables, Rows
<1>2. req' \in [Requests -> Request] /\ RequestsRefer' /\ crossed' \subseteq OrderIds
  BY <1>1, Moved
<1> QED
  BY <1>2 DEF Parts, tables, gateway, OrderTable, VoucherTables, Stocks, Marks, Payments, Served

LEMMA ReadAndReplied ==
    ASSUME Parts, NEW r \in Requests, Reply(r), UNCHANGED <<tables, gateway>>,
           failures' \in 0..MaxFailures
    PROVE  Parts'
<1>1. Rows \subseteq Rows' /\ Served
  BY DEF Parts, tables, Rows
<1>2. req' \in [Requests -> Request] /\ RequestsRefer' /\ crossed' \subseteq OrderIds
  BY <1>1, Replied
<1> QED
  BY <1>2 DEF Parts, tables, gateway, OrderTable, VoucherTables, Stocks, Marks, Payments, Served

(***************************************************************************)
(* Type correctness is inductive once requests are known to name existing  *)
(* orders: one step per action of Next.                                    *)
(***************************************************************************)
LEMMA TypedInit == Init => Typed
<1> SUFFICES ASSUME Init PROVE Typed
  OBVIOUS
<1>1. TypeOK
  BY RequestPoints DEF Init, TypeOK, VoucherRow, OrderRow
<1>2. RequestsRefer
  BY DEF Init, RequestsRefer, OnOrder, RefundPoints, Idle
<1> QED
  BY <1>1, <1>2 DEF Typed

LEMMA TypedStep == Typed /\ [Next]_vars => Typed'
<1> SUFFICES ASSUME Parts, [Next]_vars PROVE Parts'
  BY TypedParts
<1>0. /\ OrderTable /\ VoucherTables /\ Stocks /\ Marks /\ Payments /\ Served
      /\ \A r \in Requests : req[r] \in Request /\ (req[r].at \in OnOrder => req[r].id \in Rows)
      /\ failures \in 0..MaxFailures /\ Rows \subseteq OrderIds
  BY DEF Parts, Served, RequestsRefer, OrderTable, Rows
<1>1. ASSUME NEW r \in Requests, CreateOrderLookup(r) PROVE Parts'
  <2>1. PICK u \in Users, b \in Basket, m \in Methods, v \in Vouchers \cup {NoVoucher} :
               Goto(r, [at |-> "Create", user |-> u, items |-> b, voucher |-> v, method |-> m])
    BY <1>1 DEF CreateOrderLookup
  <2>2. m \in PaymentMethod
    BY DEF PaymentMethod
  <2> QED
    BY <1>1, <2>1, <2>2, ReadOnly, RequestPoints DEF CreateOrderLookup, OnOrder, RefundPoints
<1>2. ASSUME NEW r \in Requests, NEW o \in OrderIds, UserCancelCheck(r, o) PROVE Parts'
  <2> DEFINE q == CancelPoint("CancelRead", o, FALSE, NullCode)
  <2>1. q \in Request /\ q.id = o /\ o \in Rows
    BY <1>2, RequestPoints DEF UserCancelCheck, CancelPoint
  <2> QED
    BY <1>2, <2>1, ReadOnly DEF UserCancelCheck
<1>3. ASSUME NEW r \in Requests, NEW o \in OrderIds, AdminCancelOrder(r, o) PROVE Parts'
  <2> DEFINE q == CancelPoint("CancelRead", o, TRUE, NullCode)
  <2>1. q \in Request /\ q.id = o /\ o \in Rows
    BY <1>3, RequestPoints DEF AdminCancelOrder, CancelPoint
  <2> QED
    BY <1>3, <2>1, ReadOnly DEF AdminCancelOrder
<1>4. ASSUME NEW r \in Requests, CreateOrderReject(r) PROVE Parts'
  BY <1>4, <1>0, ReadAndReplied DEF CreateOrderReject
<1>5. ASSUME NEW r \in Requests, CancelOrderRead(r) PROVE Parts'
  <2> DEFINE o == req[r].id
             unpaid == CancelPoint("CancelUnpaid", o, req[r].admin, NullCode)
             refund == CancelPoint("RefundBegin", o, req[r].admin, order[o].code)
  <2>1. /\ o \in Rows /\ o \in OrderIds /\ req[r].admin \in BOOLEAN
        /\ order[o].code \in PaymentCode
    BY <1>5, <1>0, RequestFields, RowOf DEF CancelOrderRead, OnOrder, OrderRow
  <2>2. unpaid \in Request /\ refund \in Request /\ unpaid.id = o /\ refund.id = o
    BY <2>1, RequestPoints DEF CancelPoint
  <2>3. Goto(r, unpaid) \/ Goto(r, refund) \/ Reply(r)
    BY <1>5 DEF CancelOrderRead
  <2>4. UNCHANGED <<tables, gateway, failures>>
    BY <1>5 DEF CancelOrderRead
  <2>5. CASE Goto(r, unpaid)
    BY <2>1, <2>2, <2>4, <2>5, ReadOnly
  <2>6. CASE Goto(r, refund)
    BY <2>1, <2>2, <2>4, <2>6, ReadOnly
  <2>7. CASE Reply(r)
    BY <1>0, <2>4, <2>7, ReadAndReplied
  <2> QED
    BY <2>3, <2>5, <2>6, <2>7
<1>6. ASSUME NEW r \in Requests, BeginRefund(r) PROVE Parts'
  <2> DEFINE q == CancelPoint("RefundAsked", req[r].id, req[r].admin, req[r].code)
  <2>1. /\ req[r].id \in Rows /\ req[r].id \in OrderIds
        /\ req[r].admin \in BOOLEAN /\ req[r].code \in PaymentCode
    BY <1>6, <1>0, RequestFields DEF BeginRefund, OnOrder, RefundPoints
  <2>2. q \in Request /\ q.id = req[r].id /\ Goto(r, q)
    BY <1>6, <2>1, RequestPoints DEF BeginRefund, RefundAt, CancelPoint, RefundPoints
  <2> QED
    BY <1>6, <2>1, <2>2, ReadOnly DEF BeginRefund
<1>7. ASSUME NEW r \in Requests, GatewayRefundRefused(r) PROVE Parts'
  <2> DEFINE q == CancelPoint("RefundRefused", req[r].id, req[r].admin, req[r].code)
  <2>1. /\ req[r].id \in Rows /\ req[r].id \in OrderIds
        /\ req[r].admin \in BOOLEAN /\ req[r].code \in PaymentCode
    BY <1>7, <1>0, RequestFields DEF GatewayRefundRefused, OnOrder, RefundPoints
  <2>2. q \in Request /\ q.id = req[r].id /\ Goto(r, q)
    BY <1>7, <2>1, RequestPoints DEF GatewayRefundRefused, RefundAt, CancelPoint, RefundPoints
  <2> QED
    BY <1>7, <2>1, <2>2, ReadOnly DEF GatewayRefundRefused
<1>8. ASSUME NEW r \in Requests, GatewayRefundAccepted(r) PROVE Parts'
  <2> DEFINE q == CancelPoint("RefundAccepted", req[r].id, req[r].admin, req[r].code)
  <2>1. /\ req[r].id \in Rows /\ req[r].id \in OrderIds
        /\ req[r].admin \in BOOLEAN /\ req[r].code \in PaymentCode
    BY <1>8, <1>0, RequestFields DEF GatewayRefundAccepted, OnOrder, RefundPoints
  <2>2. q \in Request /\ q.id = req[r].id /\ Goto(r, q)
    BY <1>8, <2>1, RequestPoints DEF GatewayRefundAccepted, RefundAt, CancelPoint, RefundPoints
  <2>3. Rows \subseteq Rows'
    BY <1>8 DEF GatewayRefundAccepted, tables, Rows
  <2>4. Served'
    BY <1>8, <1>0, <2>1, <2>2, <2>3, Moved DEF GatewayRefundAccepted, Served
  <2>5. Payments'
    BY <1>8, <1>0 DEF GatewayRefundAccepted, Payments
  <2> QED
    BY <1>8, <1>0, <2>4, <2>5
    DEF GatewayRefundAccepted, Parts, tables, OrderTable, VoucherTables, Stocks, Marks
<1>9. ASSUME NEW r \in Requests, NEW o \in OrderIds, ConfirmOrder(r, o) PROVE Parts'
  <2> DEFINE q == [at |-> "ChangeStatus", id |-> o, to |-> "Confirmed"]
  <2>1. q \in Request /\ q.id = o /\ o \in Rows
    BY <1>9, RequestPoints DEF ConfirmOrder, ChangedTo
  <2> QED
    BY <1>9, <2>1, ReadOnly DEF ConfirmOrder, StatusCheckPassed
<1>10. ASSUME NEW r \in Requests, NEW o \in OrderIds, ShippingOrder(r, o) PROVE Parts'
  <2> DEFINE q == [at |-> "ChangeStatus", id |-> o, to |-> "Shipping"]
  <2>1. q \in Request /\ q.id = o /\ o \in Rows
    BY <1>10, RequestPoints DEF ShippingOrder, ChangedTo
  <2> QED
    BY <1>10, <2>1, ReadOnly DEF ShippingOrder, StatusCheckPassed
<1>11. ASSUME NEW r \in Requests, NEW o \in OrderIds, UnclaimOrder(r, o) PROVE Parts'
  <2> DEFINE q == [at |-> "ChangeStatus", id |-> o, to |-> "Unclaimed"]
  <2>1. q \in Request /\ q.id = o /\ o \in Rows
    BY <1>11, RequestPoints DEF UnclaimOrder, ChangedTo
  <2> QED
    BY <1>11, <2>1, ReadOnly DEF UnclaimOrder, StatusCheckPassed
<1>12. ASSUME NEW r \in Requests, NEW o \in OrderIds, CompleteOrder(r, o) PROVE Parts'
  <2>1. [at |-> "Complete", id |-> o] \in Request /\ o \in Rows
    BY <1>12, RequestPoints DEF CompleteOrder
  <2> QED
    BY <1>12, <2>1, ReadOnly DEF CompleteOrder
<1>13. ASSUME NEW r \in Requests, NEW o \in OrderIds, NEW p \in Products, RatePurchasedProduct(r, o, p) PROVE Parts'
  <2>1. [at |-> "Rate", id |-> o, product |-> p] \in Request /\ o \in Rows
    BY <1>13, RequestPoints DEF RatePurchasedProduct
  <2> QED
    BY <1>13, <2>1, ReadOnly DEF RatePurchasedProduct
<1>14. ASSUME NEW r \in Requests, Fail(r) PROVE Parts'
  BY <1>14, <1>0, ReadAndReplied DEF Fail
<1>15. ASSUME NEW r \in Requests, RatingCreate(r) PROVE Parts'
  <2>1. req[r].id \in OrderIds /\ req[r].product \in Products
    BY <1>15, <1>0, RequestFields DEF RatingCreate
  <2>2. Rows \subseteq Rows'
    BY <1>15 DEF RatingCreate, Rows
  <2>3. Served'
    BY <1>15, <1>0, <2>2, Replied DEF RatingCreate, Served
  <2> QED
    BY <1>15, <1>0, <2>1, <2>3
    DEF RatingCreate, Parts, gateway, OrderTable, VoucherTables, Stocks, Marks, Payments
<1>16. ASSUME NEW r \in Requests, CreateSpecificNotification(r) PROVE Parts'
  <2>1. req[r].id \in OrderIds /\ req[r].to \in OrderStatus
    BY <1>16, <1>0, RequestFields DEF CreateSpecificNotification, ChangedTo, OrderStatus
  <2>2. Rows \subseteq Rows'
    BY <1>16 DEF CreateSpecificNotification, Rows
  <2>3. Served'
    BY <1>16, <1>0, <2>2, Replied DEF CreateSpecificNotification, Served
  <2> QED
    BY <1>16, <1>0, <2>1, <2>3
    DEF CreateSpecificNotification, Parts, gateway, OrderTable, VoucherTables, Stocks, Marks, Payments
<1>17. ASSUME NEW o \in OrderIds, NEW a \in 1..MaxAttempts, NotificationVnpayPayment(o, a) PROVE Parts'
  <2>0. o \in Rows => PaymentSuccess(o, "TxnRef", a) \in OrderRow
    <3>1. [kind |-> "TxnRef", attempt |-> a] \in PaymentCode
      BY DEF PaymentCode
    <3>2. o \in Rows => order[o] \in OrderRow
      BY <1>0, RowOf
    <3> QED
      BY <3>1, <3>2 DEF PaymentSuccess, PaymentStatus, OrderRow
  <2>a. o \in Rows /\ Update(o, PaymentSuccess(o, "TxnRef", a))
    BY <1>17 DEF NotificationVnpayPayment
  <2>1. OrderTable' /\ Rows' = Rows
    BY <1>0, <2>0, <2>a, RowWritten
  <2>2. Served'
    BY <1>17, <1>0, <2>1, Stayed DEF NotificationVnpayPayment
  <2> QED
    BY <1>17, <1>0, <2>1, <2>2
    DEF NotificationVnpayPayment, Parts, gateway, VoucherTables, Stocks, Marks, Payments
<1>18. ASSUME NEW o \in OrderIds, NEW a \in 1..MaxAttempts, HandleVnpayPayment(o, a) PROVE Parts'
  <2>0. o \in Rows => PaymentSuccess(o, "TransactionNo", a) \in OrderRow
    <3>1. [kind |-> "TransactionNo", attempt |-> a] \in PaymentCode
      BY DEF PaymentCode
    <3>2. o \in Rows => order[o] \in OrderRow
      BY <1>0, RowOf
    <3> QED
      BY <3>1, <3>2 DEF PaymentSuccess, PaymentStatus, OrderRow
  <2>a. o \in Rows /\ Update(o, PaymentSuccess(o, "TransactionNo", a))
    BY <1>18 DEF HandleVnpayPayment
  <2>1. OrderTable' /\ Rows' = Rows
    BY <1>0, <2>0, <2>a, RowWritten
  <2>2. Served'
    BY <1>18, <1>0, <2>1, Stayed DEF HandleVnpayPayment
  <2> QED
    BY <1>18, <1>0, <2>1, <2>2
    DEF HandleVnpayPayment, Parts, gateway, VoucherTables, Stocks, Marks, Payments
<1>19. ASSUME NEW r \in Requests, CancelUnpaid(r) PROVE Parts'
  <2> DEFINE o == req[r].id
             row == [order[o] EXCEPT !.status = "Canceled",
                                  !.pay = IF order[o].method = "COD" THEN @ ELSE "Incomplete"]
  <2>1. o \in Rows /\ row \in OrderRow
    <3>1. o \in Rows
      BY <1>19, <1>0 DEF CancelUnpaid, OnOrder, RefundPoints
    <3>2. order[o] \in OrderRow
      BY <1>0, <3>1, RowOf
    <3>3. row \in OrderRow
      BY <3>2 DEF OrderStatus, PaymentStatus, OrderRow
    <3> QED
      BY <3>1, <3>3
  <2>2. Update(o, row)
    BY <1>19 DEF CancelUnpaid
  <2>3. OrderTable' /\ Rows' = Rows
    BY <1>0, <2>1, <2>2, RowWritten
  <2>4. req' \in [Requests -> Request] /\ RequestsRefer' /\ crossed' \subseteq OrderIds
    <3> DEFINE q == CancelPoint("Describe", o, TRUE, NullCode)
    <3>1. o \in OrderIds /\ q.id = o /\ q \in Request
      BY <1>0, <2>1, RequestPoints DEF CancelPoint
    <3>2. Goto(r, q) \/ Reply(r)
      BY <1>19 DEF CancelUnpaid, CancelDone
    <3> QED
      BY <1>0, <2>1, <2>3, <3>1, <3>2, Moved, Replied
  <2>5. Stocks'
    <3>1. order[o].items \in [Products -> Nat]
      BY <1>0, <2>1 DEF OrderTable, Rows, OrderRow, Basket
    <3>2. stock' = Restocked(order[o].items)
      BY <1>19 DEF CancelUnpaid
    <3> QED
      BY <1>19, <1>0, <3>1, <3>2 DEF CancelUnpaid, Stocks, Restocked
  <2> QED
    BY <1>19, <1>0, <2>3, <2>4, <2>5
    DEF CancelUnpaid, Parts, gateway, VoucherTables, Marks, Payments, Served
<1>20. ASSUME NEW r \in Requests, CancelPaidCommit(r) PROVE Parts'
  <2> DEFINE o == req[r].id
             row == [order[o] EXCEPT !.status = "Canceled", !.pay = PayAfterRefund(req[r])]
  <2>1. o \in Rows /\ row \in OrderRow
    <3>1. o \in Rows
      BY <1>20, <1>0 DEF CancelPaidCommit, OnOrder, RefundPoints
    <3>2. order[o] \in OrderRow
      BY <1>0, <3>1, RowOf
    <3>3. row \in OrderRow
      BY <3>2 DEF OrderStatus, PaymentStatus, PayAfterRefund, OrderRow
    <3> QED
      BY <3>1, <3>3
  <2>2. Update(o, row)
    BY <1>20 DEF CancelPaidCommit
  <2>3. OrderTable' /\ Rows' = Rows
    BY <1>0, <2>1, <2>2, RowWritten
  <2>4. req' \in [Requests -> Request] /\ RequestsRefer' /\ crossed' \subseteq OrderIds
    <3> DEFINE q == CancelPoint("Describe", o, TRUE, NullCode)
    <3>1. o \in OrderIds /\ q.id = o /\ q \in Request
      BY <1>0, <2>1, RequestPoints DEF CancelPoint
    <3>2. Goto(r, q) \/ Reply(r)
      BY <1>20 DEF CancelPaidCommit, CancelDone
    <3> QED
      BY <1>0, <2>1, <2>3, <3>1, <3>2, Moved, Replied
  <2>5. Stocks'
    <3>1. order[o].items \in [Products -> Nat]
      BY <1>0, <2>1 DEF OrderTable, Rows, OrderRow, Basket
    <3>2. stock' = Restocked(order[o].items)
      BY <1>20 DEF CancelPaidCommit
    <3> QED
      BY <1>20, <1>0, <3>1, <3>2 DEF CancelPaidCommit, Stocks, Restocked
  <2> QED
    BY <1>20, <1>0, <2>3, <2>4, <2>5
    DEF CancelPaidCommit, Parts, gateway, VoucherTables, Marks, Payments, Served
<1>21. ASSUME NEW r \in Requests, DescribeCancel(r) PROVE Parts'
  <2> DEFINE o == req[r].id
             row == [order[o] EXCEPT !.described = TRUE]
  <2>1. o \in Rows /\ row \in OrderRow
    <3>1. o \in Rows
      BY <1>21, <1>0 DEF DescribeCancel, OnOrder, RefundPoints
    <3>2. order[o] \in OrderRow
      BY <1>0, <3>1, RowOf
    <3>3. row \in OrderRow
      BY <3>2 DEF OrderRow
    <3> QED
      BY <3>1, <3>3
  <2>2. Update(o, row)
    BY <1>21 DEF DescribeCancel
  <2>3. OrderTable' /\ Rows' = Rows
    BY <1>0, <2>1, <2>2, RowWritten
  <2>4. req' \in [Requests -> Request] /\ RequestsRefer' /\ crossed' \subseteq OrderIds
    BY <1>21, <1>0, <2>3, Replied DEF DescribeCancel
  <2> QED
    BY <1>21, <1>0, <2>3, <2>4
    DEF DescribeCancel, Parts, gateway, VoucherTables, Stocks, Marks, Payments, Served
<1>22. ASSUME NEW r \in Requests, CompleteOrderWrite(r) PROVE Parts'
  <2> DEFINE o == req[r].id
             row == [order[o] EXCEPT !.status = "Completed", !.pay = "Completed"]
  <2>1. o \in Rows /\ row \in OrderRow
    <3>1. o \in Rows
      BY <1>22, <1>0 DEF CompleteOrderWrite, OnOrder, RefundPoints
    <3>2. order[o] \in OrderRow
      BY <1>0, <3>1, RowOf
    <3>3. row \in OrderRow
      BY <3>2 DEF OrderStatus, PaymentStatus, OrderRow
    <3> QED
      BY <3>1, <3>3
  <2>2. Update(o, row)
    BY <1>22 DEF CompleteOrderWrite
  <2>3. OrderTable' /\ Rows' = Rows
    BY <1>0, <2>1, <2>2, RowWritten
  <2>4. req' \in [Requests -> Request] /\ RequestsRefer' /\ crossed' \subseteq OrderIds
    BY <1>22, <1>0, <2>3, Replied DEF CompleteOrderWrite
  <2> QED
    BY <1>22, <1>0, <2>3, <2>4
    DEF CompleteOrderWrite, Parts, gateway, VoucherTables, Stocks, Marks, Payments, Served
<1>23. ASSUME NEW r \in Requests, ChangeOrderStatus(r) PROVE Parts'
  <2> DEFINE o == req[r].id
             row == [order[o] EXCEPT !.status = req[r].to]
  <2>1. o \in Rows /\ row \in OrderRow
    <3>1. o \in Rows
      BY <1>23, <1>0 DEF ChangeOrderStatus, OnOrder, RefundPoints
    <3>2. order[o] \in OrderRow
      BY <1>0, <3>1, RowOf
    <3>3. row \in OrderRow
      BY <1>23, <1>0, <3>2, RequestFields DEF ChangeOrderStatus, OrderRow, ChangedTo, OrderStatus
    <3> QED
      BY <3>1, <3>3
  <2>2. Update(o, row)
    BY <1>23 DEF ChangeOrderStatus
  <2>3. OrderTable' /\ Rows' = Rows
    BY <1>0, <2>1, <2>2, RowWritten
  <2>4. req' \in [Requests -> Request] /\ RequestsRefer' /\ crossed' \subseteq OrderIds
    <3> DEFINE q == [at |-> "Notify", id |-> o, to |-> req[r].to]
    <3>1. q.id = o /\ q \in Request
      BY <1>23, <1>0, <2>1, RequestFields, RequestPoints DEF ChangeOrderStatus
    <3>2. Goto(r, q)
      BY <1>23 DEF ChangeOrderStatus
    <3> QED
      BY <1>0, <2>1, <2>3, <3>1, <3>2, Moved
  <2> QED
    BY <1>23, <1>0, <2>3, <2>4
    DEF ChangeOrderStatus, Parts, gateway, VoucherTables, Stocks, Marks, Payments, Served
<1>24. ASSUME NEW r \in Requests, CreateOrderCommit(r) PROVE Parts'
  <2> DEFINE q == req[r]
  <2>1. q.user \in Users /\ q.items \in Basket /\ q.method \in PaymentMethod
        /\ q.voucher \in Vouchers \cup {NoVoucher}
    BY <1>24, <1>0, RequestFields DEF CreateOrderCommit
  <2>2. OrderTable' /\ Rows \subseteq Rows'
    <3>1. PICK new \in OrderIds \ Rows :
             order' = [o \in Rows \cup {new} |-> IF o = new THEN NewRow(q) ELSE order[o]]
      BY <1>24 DEF CreateOrderCommit
    <3>2. NewRow(q) \in OrderRow
      BY <2>1, RequestPoints DEF NewRow, OrderRow, OrderStatus, PaymentStatus
    <3> QED
      BY <1>0, <3>1, <3>2 DEF OrderTable, Rows
  <2>3. Served'
    BY <1>24, <1>0, <2>2, Replied DEF CreateOrderCommit, Served
  <2>4. Stocks'
    BY <1>24, <1>0, <2>1 DEF CreateOrderCommit, Stocks, Basket
  <2>5. VoucherTables'
    <3>1. CASE q.voucher = NoVoucher
      BY <1>24, <1>0, <3>1 DEF CreateOrderCommit, VoucherTables
    <3>2. CASE q.voucher # NoVoucher
      <4>1. q.voucher \in Vouchers /\ UseVoucher(q.voucher, q.user)
        BY <1>24, <2>1, <3>2 DEF CreateOrderCommit
      <4>2. voucher' \in [Vouchers -> VoucherRow]
        <5>1. voucher[q.voucher] \in VoucherRow /\ voucher \in [Vouchers -> VoucherRow]
          BY <1>0, <4>1 DEF VoucherTables
        <5>2. [voucher[q.voucher] EXCEPT !.remain = @ - 1] \in VoucherRow
          BY <5>1 DEF VoucherRow
        <5>3. voucher' = [voucher EXCEPT ![q.voucher] = [voucher[q.voucher] EXCEPT !.remain = @ - 1]]
          BY <4>1 DEF UseVoucher, Charged
        <5> QED
          BY <4>1, <5>1, <5>2, <5>3
      <4>3. userVoucher' \in [Vouchers -> [Users -> {"None", "NotUsed", "Used"}]]
        BY <1>0, <2>1, <4>1 DEF UseVoucher, VoucherTables
      <4> QED
        BY <4>2, <4>3 DEF VoucherTables
    <3> QED
      BY <3>1, <3>2
  <2> QED
    BY <1>24, <1>0, <2>2, <2>3, <2>4, <2>5 DEF CreateOrderCommit, Parts, gateway, Marks, Payments
<1>25. ASSUME NEW o \in OrderIds, PayOnlineOrder(o) PROVE Parts'
  <2>3. Payments'
    BY <1>25, <1>0 DEF PayOnlineOrder, Payments
  <2>4. Served'
    BY <1>25, <1>0, Stayed DEF PayOnlineOrder, tables, Rows
  <2> QED
    BY <1>25, <1>0, <2>3, <2>4
    DEF PayOnlineOrder, tables, Parts, OrderTable, VoucherTables, Stocks, Marks
<1>26. ASSUME NEW o \in OrderIds, NEW a \in 1..MaxAttempts, GatewayCapture(o, a) PROVE Parts'
  <2>3. Payments'
    BY <1>26, <1>0 DEF GatewayCapture, Payments
  <2>4. Served'
    BY <1>26, <1>0, Stayed DEF GatewayCapture, tables, Rows
  <2> QED
    BY <1>26, <1>0, <2>3, <2>4
    DEF GatewayCapture, tables, Parts, OrderTable, VoucherTables, Stocks, Marks
<1>27. ASSUME NEW p \in Products, ImportProduct(p) PROVE Parts'
  <2>3. Stocks'
    BY <1>27, <1>0 DEF ImportProduct, Stocks
  <2>4. Served'
    BY <1>27, <1>0, Stayed DEF ImportProduct, gateway, Rows
  <2> QED
    BY <1>27, <1>0, <2>3, <2>4
    DEF ImportProduct, gateway, Parts, OrderTable, VoucherTables, Marks, Payments
<1>28. ASSUME NEW v \in Vouchers, CreateGeneralVoucher(v) PROVE Parts'
  <2>3. VoucherTables'
    BY <1>28, <1>0 DEF CreateGeneralVoucher, VoucherTables, VoucherRow, VoucherExists
  <2>4. Served'
    BY <1>28, <1>0, Stayed DEF CreateGeneralVoucher, gateway, Rows
  <2> QED
    BY <1>28, <1>0, <2>3, <2>4
    DEF CreateGeneralVoucher, gateway, Parts, OrderTable, Stocks, Marks, Payments
<1>29. ASSUME NEW v \in Vouchers, CreatePersonalVoucher(v) PROVE Parts'
  <2>1. PICK us \in (SUBSET Users) \ {{}} :
          /\ voucher' = [voucher EXCEPT ![v] = [type |-> "Personal", remain |-> Cardinality(us),
                                                quantity |-> Cardinality(us)]]
          /\ userVoucher' = [userVoucher EXCEPT
                               ![v] = [u \in Users |-> IF u \in us THEN "NotUsed" ELSE "None"]]
    BY <1>29 DEF CreatePersonalVoucher
  <2>2. Cardinality(us) \in Nat
    BY FS_Subset, FS_CardinalityType
  <2>3. VoucherTables'
    BY <1>0, <2>1, <2>2 DEF VoucherTables, VoucherRow
  <2>4. Served'
    BY <1>29, <1>0, Stayed DEF CreatePersonalVoucher, gateway, Rows
  <2> QED
    BY <1>29, <1>0, <2>3, <2>4
    DEF CreatePersonalVoucher, gateway, Parts, OrderTable, Stocks, Marks, Payments
<1>30. ASSUME NEW v \in Vouchers, DeleteVoucher(v) PROVE Parts'
  <2>3. VoucherTables'
    BY <1>30, <1>0 DEF DeleteVoucher, VoucherTables, VoucherRow, VoucherExists
  <2>4. Served'
    BY <1>30, <1>0, Stayed DEF DeleteVoucher, gateway, Rows
  <2> QED
    BY <1>30, <1>0, <2>3, <2>4
    DEF DeleteVoucher, gateway, Parts, OrderTable, Stocks, Marks, Payments
<1>31. CASE UNCHANGED vars
  BY <1>0, <1>31 DEF vars, tables, gateway, Parts, OrderTable, VoucherTables, Stocks, Marks,
     Payments, Served, RequestsRefer, Rows
<1> QED
  BY <1>1, <1>2, <1>3, <1>4, <1>5, <1>6, <1>7, <1>8, <1>9, <1>10, <1>11, <1>12, <1>13, <1>14, <1>15, <1>16, <1>17, <1>18, <1>19, <1>20, <1>21, <1>22, <1>23, <1>24, <1>25, <1>26, <1>27, <1>28, <1>29, <1>30, <1>31 DEF Next, Start, Step

(***************************************************************************)
(* The tables keep their types: every value ever written by a handler is   *)
(* one its column admits, and a request never names a missing order.       *)
(***************************************************************************)
THEOREM TypeCorrect == Spec => []TypeOK
<1>1. Spec => []Typed
  BY TypedInit, TypedStep, PTL DEF Spec
<1>2. Typed => TypeOK
  BY DEF Typed
<1> QED
  BY <1>1, <1>2, PTL

LEMMA TypedAlways == Spec => []Typed
  BY TypedInit, TypedStep, PTL DEF Spec

(***************************************************************************)
(* createOrder never commits units the shop does not have: what the stock  *)
(* lacks was taken out by negative imports.                                *)
(***************************************************************************)
LEMMA StockStep == Typed /\ NeverOversold /\ [Next]_vars => NeverOversold'
<1> SUFFICES ASSUME Parts, NeverOversold, [Next]_vars PROVE NeverOversold'
  BY TypedParts
<1>0. /\ OrderTable /\ Stocks /\ Served
      /\ \A r \in Requests : req[r] \in Request /\ (req[r].at \in OnOrder => req[r].id \in Rows)
  BY DEF Parts, Served, RequestsRefer
<1>1. ASSUME NEW r \in Requests, CreateOrderCommit(r) PROVE NeverOversold'
  <2>1. req[r].items \in [Products -> Nat]
    BY <1>0, <1>1, RequestFields DEF CreateOrderCommit, Basket
  <2>2. ASSUME NEW p \in Products PROVE stock'[p] >= -withdrawn'[p]
    <3>1. PICK n \in Nat : n = req[r].items[p]
      BY <2>1
    <3>2. /\ n > 0 => stock[p] >= n
          /\ stock'[p] = stock[p] - n /\ withdrawn'[p] = withdrawn[p]
      BY <1>1, <3>1 DEF CreateOrderCommit, EnoughInStock
    <3>3. stock[p] \in Int /\ withdrawn[p] \in Nat /\ stock[p] >= -withdrawn[p]
      BY <1>0 DEF Stocks, NeverOversold
    <3> QED
      BY <3>1, <3>2, <3>3
  <2> QED
    BY <2>2 DEF NeverOversold
<1>2. ASSUME NEW r \in Requests, CancelUnpaid(r) \/ CancelPaidCommit(r) PROVE NeverOversold'
  <2>1. order[req[r].id].items \in [Products -> Nat]
    <3>1. req[r].id \in Rows
      BY <1>0, <1>2 DEF CancelUnpaid, CancelPaidCommit, OnOrder, RefundPoints
    <3> QED
      BY <1>0, <3>1, RowOf DEF OrderRow, Basket
  <2>2. stock' = Restocked(order[req[r].id].items) /\ withdrawn' = withdrawn
    BY <1>2 DEF CancelUnpaid, CancelPaidCommit
  <2> QED
    BY <1>0, <2>1, <2>2 DEF NeverOversold, Stocks, Restocked
<1>3. ASSUME NEW p \in Products, ImportProduct(p) PROVE NeverOversold'
  <2>1. PICK q \in (-MaxImport)..MaxImport :
          /\ stock' = [stock EXCEPT ![p] = @ + q]
          /\ withdrawn' = [withdrawn EXCEPT ![p] = IF q < 0 THEN @ - q ELSE @]
    BY <1>3 DEF ImportProduct
  <2>2. ASSUME NEW x \in Products PROVE stock'[x] >= -withdrawn'[x]
    <3>1. stock[x] \in Int /\ withdrawn[x] \in Nat /\ stock[x] >= -withdrawn[x]
      BY <1>0 DEF Stocks, NeverOversold
    <3>2. CASE x = p
      BY <1>0, <2>1, <3>1, <3>2 DEF Stocks
    <3>3. CASE x # p
      BY <1>0, <2>1, <3>1, <3>3 DEF Stocks
    <3> QED
      BY <3>2, <3>3
  <2> QED
    BY <2>2 DEF NeverOversold
<1>4. CASE UNCHANGED <<stock, withdrawn>>
  BY <1>4 DEF NeverOversold
<1>5. \/ UNCHANGED <<stock, withdrawn>>
      \/ \E r \in Requests : CreateOrderCommit(r) \/ CancelUnpaid(r) \/ CancelPaidCommit(r)
      \/ \E p \in Products : ImportProduct(p)
  <2>1. ASSUME NEW r \in Requests, Start(r) PROVE UNCHANGED <<stock, withdrawn>>
    BY <2>1 DEF Start, tables, CreateOrderLookup, UserCancelCheck, AdminCancelOrder, ConfirmOrder,
                ShippingOrder, UnclaimOrder, StatusCheckPassed, CompleteOrder, RatePurchasedProduct
  <2>2. ASSUME NEW r \in Requests, Step(r)
        PROVE  UNCHANGED <<stock, withdrawn>> \/ CreateOrderCommit(r) \/ CancelUnpaid(r) \/ CancelPaidCommit(r)
    <3>1. CreateOrderReject(r) \/ CancelOrderRead(r) \/ BeginRefund(r) => UNCHANGED <<stock, withdrawn>>
      BY DEF tables, CreateOrderReject, CancelOrderRead, BeginRefund
    <3>2. GatewayRefundAccepted(r) \/ GatewayRefundRefused(r) => UNCHANGED <<stock, withdrawn>>
      BY DEF tables, GatewayRefundAccepted, GatewayRefundRefused
    <3>3. \/ DescribeCancel(r) \/ ChangeOrderStatus(r) \/ CreateSpecificNotification(r)
          \/ CompleteOrderWrite(r) \/ RatingCreate(r)
          => UNCHANGED <<stock, withdrawn>>
      BY DEF DescribeCancel, ChangeOrderStatus, CreateSpecificNotification, CompleteOrderWrite,
             RatingCreate
    <3> QED
      BY <2>2, <3>1, <3>2, <3>3 DEF Step
  <2>3. ASSUME NEW r \in Requests, Fail(r) PROVE UNCHANGED <<stock, withdrawn>>
    BY <2>3 DEF Fail, tables
  <2>4. ASSUME NEW o \in OrderIds, NEW a \in 1..MaxAttempts,
               \/ GatewayCapture(o, a)
               \/ NotificationVnpayPayment(o, a) \/ HandleVnpayPayment(o, a)
        PROVE  UNCHANGED <<stock, withdrawn>>
    BY <2>4 DEF tables, GatewayCapture, NotificationVnpayPayment, HandleVnpayPayment
  <2>5. ASSUME NEW o \in OrderIds, PayOnlineOrder(o) PROVE UNCHANGED <<stock, withdrawn>>
    BY <2>5 DEF tables, PayOnlineOrder
  <2>6. ASSUME NEW v \in Vouchers, CreateGeneralVoucher(v) \/ CreatePersonalVoucher(v) \/ DeleteVoucher(v)
        PROVE  UNCHANGED <<stock, withdrawn>>
    BY <2>6 DEF CreateGeneralVoucher, CreatePersonalVoucher, DeleteVoucher
  <2>7. CASE UNCHANGED vars
    BY <2>7 DEF vars, tables
  <2> QED
    BY <2>1, <2>2, <2>3, <2>4, <2>5, <2>6, <2>7 DEF Next
<1> QED
  BY <1>1, <1>2, <1>3, <1>4, <1>5

\* Whatever requests are interleaved and wherever they die, createOrder's check
\* sees its own decrement: the stock of a product is below zero only by what
\* negative imports took out.
THEOREM StockSafe == Spec => []NeverOversold
<1>1. Init => NeverOversold
  BY DEF Init, NeverOversold
<1> QED
  BY <1>1, TypedAlways, StockStep, PTL DEF Spec
-----------------------------------------------------------------------------
(***************************************************************************)
(* The money side.  Settled is what confirmOrder checks, made stable: no   *)
(* later step takes the capture or the payment code away, whereas the      *)
(* payment status it reads may well be overwritten.                        *)
(***************************************************************************)
Settled(o)  == Paid(o) /\ order[o].code # NullCode
Returned(o) == \E a \in 1..MaxAttempts : <<o, a>> \in refunded
Online(o)   == order[o].method = "Online"

Booked(row) == row.status \in Handed \/ row.pay \in {"Completed", "Refunded"}

\* Points a handler reaches only after it has read a paid order.
PaidPoints == {"RefundBegin", "ChangeStatus", "Notify", "Complete"} \cup RefundPoints

OrdersPaid   == \A o \in Rows : Online(o) /\ Booked(order[o]) => Settled(o)
RequestsPaid == \A r \in Requests :
                   req[r].at \in PaidPoints /\ Online(req[r].id) => Settled(req[r].id)
NoticesPaid  == \A n \in notice : n[1] \in Rows /\ (Online(n[1]) => Settled(n[1]))
AcceptedReal == \A r \in Requests : req[r].at = "RefundAccepted" => Returned(req[r].id)

PaymentInv ==
    OrdersPaid /\ RequestsPaid /\ NoticesPaid /\ RefundedPaymentIsReal /\ AcceptedReal

\* What no step undoes.
Kept ==
    /\ Rows \subseteq Rows'
    /\ \A o \in Rows : /\ order'[o].method = order[o].method
                       /\ order[o].code # NullCode => order'[o].code # NullCode
    /\ captured \subseteq captured'
    /\ refunded \subseteq refunded'

LEMMA KeptSettled ==
    ASSUME Kept, NEW o \in Rows
    PROVE  /\ o \in Rows'
           /\ Online(o)' = Online(o)
           /\ Settled(o) => Settled(o)'
           /\ Returned(o) => Returned(o)'
  BY DEF Kept, Online, Settled, Paid, Returned, Rows

LEMMA UnchangedKept ==
    ASSUME UNCHANGED order, captured \subseteq captured', refunded \subseteq refunded'
    PROVE  Kept
  BY DEF Kept, Rows

LEMMA UpdateKept ==
    ASSUME OrderTable, NEW o \in Rows, NEW row, Update(o, row), UNCHANGED <<captured, refunded>>,
           row.method = order[o].method, row.code = order[o].code \/ row.code # NullCode
    PROVE  Kept /\ Rows' = Rows
  BY DEF Kept, Rows, Update, OrderTable

(***************************************************************************)
(* One lemma per part of the invariant: what a step must show of the row,  *)
(* the request or the notice it writes.                                    *)
(***************************************************************************)
LEMMA OrdersPaidKept ==
    ASSUME OrderTable, OrdersPaid, NEW o \in Rows, NEW row, Update(o, row), Kept,
           row.method = order[o].method, Online(o) /\ Booked(row) => Settled(o)'
    PROVE  OrdersPaid'
<1> SUFFICES ASSUME NEW x \in Rows', Online(x)', Booked(order[x])' PROVE Settled(x)'
  BY DEF OrdersPaid
<1>1. x \in Rows /\ order'[x] = IF x = o THEN row ELSE order[x]
  BY DEF Update, Rows, OrderTable
<1>2. CASE x = o
  BY <1>1, <1>2, KeptSettled DEF Online, Booked
<1>3. CASE x # o
  <2>1. Online(x) /\ Booked(order[x])
    BY <1>1, <1>3 DEF Online, Booked
  <2> QED
    BY <1>1, <2>1, KeptSettled DEF OrdersPaid
<1> QED
  BY <1>2, <1>3

LEMMA OrdersPaidSame ==
    ASSUME OrdersPaid, Kept, UNCHANGED order
    PROVE  OrdersPaid'
  BY KeptSettled DEF OrdersPaid, Rows, Online, Booked

LEMMA RequestsPaidKept ==
    ASSUME Typed, RequestsPaid, Kept, NEW r \in Requests, NEW q, Goto(r, q),
           q.at \in PaidPoints => q.id \in Rows /\ (Online(q.id) => Settled(q.id)')
    PROVE  RequestsPaid'
<1> SUFFICES ASSUME NEW x \in Requests, (req[x].at \in PaidPoints)', Online(req[x].id)'
             PROVE  Settled(req[x].id)'
  BY DEF RequestsPaid
<1>1. req'[x] = IF x = r THEN q ELSE req[x]
  BY DEF Goto, Typed, TypeOK
<1>2. CASE x = r
  <2>1. req'[x] = q /\ q.at \in PaidPoints
    BY <1>1, <1>2 DEF PaidPoints, RefundPoints
  <2>2. Online(q.id)' = Online(q.id)
    BY <2>1, KeptSettled
  <2>3. Online(q.id)'
    BY <2>1 DEF Online
  <2>4. Settled(q.id)'
    BY <2>1, <2>2, <2>3
  <2> QED
    BY <2>1, <2>4 DEF Settled, Paid
<1>3. CASE x # r
  <2>1. req'[x] = req[x] /\ req[x].at \in PaidPoints
    BY <1>1, <1>3 DEF PaidPoints, RefundPoints
  <2>2. req[x].id \in Rows
    BY <2>1 DEF Typed, RequestsRefer, OnOrder, PaidPoints, RefundPoints
  <2> QED
    BY <2>1, <2>2, KeptSettled DEF RequestsPaid, Online, Settled, Paid
<1> QED
  BY <1>2, <1>3

LEMMA NoticesPaidKept ==
    ASSUME NoticesPaid, Kept, UNCHANGED notice
    PROVE  NoticesPaid'
<1> SUFFICES ASSUME NEW n \in notice PROVE n[1] \in Rows' /\ (Online(n[1])' => Settled(n[1])')
  BY DEF NoticesPaid
<1>1. n[1] \in Rows /\ (Online(n[1]) => Settled(n[1]))
  BY DEF NoticesPaid
<1> QED
  BY <1>1, KeptSettled

LEMMA RefundRowsKept ==
    ASSUME OrderTable, RefundedPaymentIsReal, NEW o \in Rows, NEW row, Update(o, row), Kept,
           row.pay = "Refunded" => Returned(o)'
    PROVE  RefundedPaymentIsReal'
<1> SUFFICES ASSUME NEW x \in Rows', order'[x].pay = "Refunded" PROVE Returned(x)'
  BY DEF RefundedPaymentIsReal, Returned
<1>1. x \in Rows /\ order'[x] = IF x = o THEN row ELSE order[x]
  BY DEF Update, Rows, OrderTable
<1>2. CASE x = o
  BY <1>1, <1>2
<1>3. CASE x # o
  BY <1>1, <1>3, KeptSettled DEF RefundedPaymentIsReal, Returned
<1> QED
  BY <1>2, <1>3

LEMMA RefundRowsSame ==
    ASSUME RefundedPaymentIsReal, Kept, UNCHANGED order
    PROVE  RefundedPaymentIsReal'
  BY DEF RefundedPaymentIsReal, Kept, Rows

LEMMA AcceptedKept ==
    ASSUME Typed, AcceptedReal, Kept, NEW r \in Requests, NEW q, Goto(r, q),
           q.at = "RefundAccepted" => Returned(q.id)'
    PROVE  AcceptedReal'
<1> SUFFICES ASSUME NEW x \in Requests, req'[x].at = "RefundAccepted" PROVE Returned(req[x].id)'
  BY DEF AcceptedReal
<1>1. req'[x] = IF x = r THEN q ELSE req[x]
  BY DEF Goto, Typed, TypeOK
<1>2. CASE x = r
  BY <1>1, <1>2 DEF Returned
<1>3. CASE x # r
  BY <1>1, <1>3 DEF AcceptedReal, Returned, Kept
<1> QED
  BY <1>2, <1>3

LEMMA RequestsSame ==
    ASSUME Typed, RequestsPaid, AcceptedReal, Kept, UNCHANGED req
    PROVE  RequestsPaid' /\ AcceptedReal'
<1>1. AcceptedReal'
  BY DEF AcceptedReal, Returned, Kept
<1>2. RequestsPaid'
  <2> SUFFICES ASSUME NEW x \in Requests, req[x].at \in PaidPoints, Online(req[x].id)'
               PROVE  Settled(req[x].id)'
    BY DEF RequestsPaid, PaidPoints, RefundPoints
  <2>1. req[x].id \in Rows
    BY DEF Typed, RequestsRefer, OnOrder, PaidPoints, RefundPoints
  <2> QED
    BY <2>1, KeptSettled DEF RequestsPaid, Online, Settled, Paid
<1> QED
  BY <1>1, <1>2

\* A reply leaves a point that needs nothing.
LEMMA RepliedPaid ==
    ASSUME Typed, RequestsPaid, AcceptedReal, Kept, NEW r \in Requests, Reply(r)
    PROVE  RequestsPaid' /\ AcceptedReal'
<1>1. Goto(r, Idle) /\ Idle.at = "Idle"
  BY DEF Reply, Goto, Idle
<1>2. Idle.at \notin PaidPoints
  BY <1>1 DEF PaidPoints, RefundPoints
<1> QED
  BY <1>1, <1>2, RequestsPaidKept, AcceptedKept

\* A read moves the request alone.
LEMMA ReadPaid ==
    ASSUME Typed, PaymentInv, UNCHANGED <<tables, gateway>>, NEW r \in Requests, NEW q, Goto(r, q),
           q.at # "RefundAccepted",
           q.at \in PaidPoints => q.id \in Rows /\ (Online(q.id) => Settled(q.id))
    PROVE  PaymentInv'
<1>1. Kept
  BY UnchangedKept DEF tables, gateway
<1>2. q.at \in PaidPoints => q.id \in Rows /\ (Online(q.id) => Settled(q.id)')
  BY <1>1, KeptSettled
<1>3. RequestsPaid'
  BY <1>1, <1>2, RequestsPaidKept DEF PaymentInv
<1>4. AcceptedReal'
  BY <1>1, AcceptedKept DEF PaymentInv
<1> QED
  BY <1>1, <1>3, <1>4, OrdersPaidSame, NoticesPaidKept, RefundRowsSame DEF PaymentInv, tables

\* A write of one order row that ends in a reply or in adminCancelOrder's last step.
LEMMA WritePaid ==
    ASSUME Typed, PaymentInv, UNCHANGED notice, UNCHANGED <<captured, refunded>>,
           NEW o \in Rows, NEW row, Update(o, row),
           row.method = order[o].method, row.code = order[o].code \/ row.code # NullCode,
           Online(o) /\ Booked(row) => Settled(o)',
           row.pay = "Refunded" => Returned(o)
    PROVE  Kept /\ OrdersPaid' /\ NoticesPaid' /\ RefundedPaymentIsReal'
<1>1. OrderTable
  BY TypedParts DEF Parts
<1>2. Kept
  BY <1>1, UpdateKept
<1>3. row.pay = "Refunded" => Returned(o)'
  BY <1>2, KeptSettled
<1> QED
  BY <1>1, <1>2, <1>3, OrdersPaidKept, NoticesPaidKept, RefundRowsKept DEF PaymentInv

(***************************************************************************)
(* Every action preserves the payment invariant.                           *)
(***************************************************************************)
LEMMA PaymentStep == Typed /\ PaymentInv /\ [Next]_vars => PaymentInv'
<1> SUFFICES ASSUME Typed, PaymentInv, [Next]_vars PROVE PaymentInv'
  OBVIOUS
<1>0. /\ Parts /\ OrderTable /\ Payments /\ Served
      /\ \A r \in Requests : req[r] \in Request /\ (req[r].at \in OnOrder => req[r].id \in Rows)
      /\ OrdersPaid /\ RequestsPaid /\ NoticesPaid /\ RefundedPaymentIsReal /\ AcceptedReal
  BY TypedParts DEF Parts, Served, RequestsRefer, PaymentInv
<1>1. ASSUME NEW r \in Requests, CreateOrderLookup(r) PROVE PaymentInv'
  <2>1. PICK u \in Users, b \in Basket, m \in Methods, v \in Vouchers \cup {NoVoucher} :
             Goto(r, [at |-> "Create", user |-> u, items |-> b, voucher |-> v, method |-> m])
    BY <1>1 DEF CreateOrderLookup
  <2> QED
    BY <1>1, <2>1, ReadPaid DEF CreateOrderLookup, PaidPoints, RefundPoints
<1>2. ASSUME NEW r \in Requests, NEW o \in OrderIds, UserCancelCheck(r, o) \/ AdminCancelOrder(r, o)
      PROVE  PaymentInv'
  <2>1. PICK b \in BOOLEAN : Goto(r, CancelPoint("CancelRead", o, b, NullCode))
    BY <1>2 DEF UserCancelCheck, AdminCancelOrder
  <2> QED
    BY <1>2, <2>1, ReadPaid
    DEF UserCancelCheck, AdminCancelOrder, CancelPoint, PaidPoints, RefundPoints
<1>3. ASSUME NEW r \in Requests, NEW q, Goto(r, q), q.at \notin PaidPoints, UNCHANGED <<tables, gateway>>
      PROVE  PaymentInv'
  BY <1>3, ReadPaid DEF PaidPoints, RefundPoints
<1>4. ASSUME NEW r \in Requests, Reply(r), UNCHANGED <<tables, gateway>> PROVE PaymentInv'
  <2>1. Goto(r, Idle) /\ Idle.at \notin PaidPoints
    BY <1>4 DEF Reply, Goto, Idle, PaidPoints, RefundPoints
  <2> QED
    BY <1>3, <1>4, <2>1
<1>5. ASSUME NEW r \in Requests, CreateOrderReject(r) \/ Fail(r) PROVE PaymentInv'
  BY <1>4, <1>5 DEF CreateOrderReject, Fail
<1>6. ASSUME NEW r \in Requests, CreateOrderCommit(r) PROVE PaymentInv'
  <2>1. PICK new \in OrderIds \ Rows :
           order' = [o \in Rows \cup {new} |-> IF o = new THEN NewRow(req[r]) ELSE order[o]]
    BY <1>6 DEF CreateOrderCommit
  <2>2. Rows' = Rows \cup {new}
    BY <2>1 DEF Rows
  <2>3. Kept
    BY <1>6, <2>1, <2>2 DEF Kept, CreateOrderCommit, gateway
  <2>4. RequestsPaid' /\ AcceptedReal'
    BY <1>0, <1>6, <2>3, RepliedPaid DEF CreateOrderCommit
  <2>5. NoticesPaid'
    BY <1>0, <1>6, <2>3, NoticesPaidKept DEF CreateOrderCommit
  <2>6. /\ order'[new] = NewRow(req[r])
        /\ NewRow(req[r]).status = "Waiting" /\ NewRow(req[r]).pay \in {"Waiting", "Incomplete"}
    BY <2>1 DEF NewRow
  <2>7. OrdersPaid'
    <3> SUFFICES ASSUME NEW x \in Rows', Online(x)', Booked(order[x])' PROVE Settled(x)'
      BY DEF OrdersPaid
    <3>1. x # new
      BY <2>6 DEF Booked, Handed
    <3>2. x \in Rows /\ order'[x] = order[x]
      BY <2>1, <2>2, <3>1
    <3> QED
      BY <1>0, <2>3, <3>2, KeptSettled DEF OrdersPaid, Online, Booked
  <2>8. RefundedPaymentIsReal'
    <3> SUFFICES ASSUME NEW x \in Rows', order'[x].pay = "Refunded" PROVE Returned(x)'
      BY DEF RefundedPaymentIsReal, Returned
    <3>1. x \in Rows /\ order'[x] = order[x]
      BY <2>1, <2>2, <2>6
    <3> QED
      BY <1>0, <2>3, <3>1, KeptSettled DEF RefundedPaymentIsReal, Returned
  <2> QED
    BY <2>4, <2>5, <2>7, <2>8 DEF PaymentInv
<1>7. ASSUME NEW r \in Requests, CancelOrderRead(r) PROVE PaymentInv'
  <2> DEFINE o == req[r].id
             unpaid == CancelPoint("CancelUnpaid", o, req[r].admin, NullCode)
             refund == CancelPoint("RefundBegin", o, req[r].admin, order[o].code)
  <2>1. UNCHANGED <<tables, gateway>> /\ o \in Rows
    BY <1>0, <1>7 DEF CancelOrderRead, OnOrder
  <2>2. \/ Goto(r, unpaid) \/ Reply(r)
        \/ Goto(r, refund) /\ order[o].pay = "Completed"
    BY <1>7 DEF CancelOrderRead
  <2>3. CASE Goto(r, unpaid)
    <3>1. unpaid.at \notin PaidPoints
      BY DEF CancelPoint, PaidPoints, RefundPoints
    <3> QED
      BY <1>3, <2>1, <2>3, <3>1
  <2>4. CASE Goto(r, refund) /\ order[o].pay = "Completed"
    <3>1. Online(o) => Settled(o)
      BY <1>0, <2>1, <2>4 DEF OrdersPaid, Booked
    <3>2. refund.id = o /\ refund.at # "RefundAccepted"
      BY DEF CancelPoint
    <3> QED
      BY <2>1, <2>4, <3>1, <3>2, ReadPaid
  <2> QED
    BY <1>4, <2>1, <2>2, <2>3, <2>4
<1>8. ASSUME NEW r \in Requests, BeginRefund(r) \/ GatewayRefundRefused(r) PROVE PaymentInv'
  <2>1. PICK at \in {"RefundAsked", "RefundRefused"} :
             Goto(r, CancelPoint(at, req[r].id, req[r].admin, req[r].code))
    BY <1>8 DEF BeginRefund, GatewayRefundRefused, RefundAt
  <2>2. req[r].id \in Rows /\ (Online(req[r].id) => Settled(req[r].id))
    BY <1>0, <1>8
    DEF BeginRefund, GatewayRefundRefused, OnOrder, RefundPoints, RequestsPaid, PaidPoints
  <2> QED
    BY <1>8, <2>1, <2>2, ReadPaid DEF BeginRefund, GatewayRefundRefused, CancelPoint
<1>9. ASSUME NEW r \in Requests, GatewayRefundAccepted(r) PROVE PaymentInv'
  <2>0. PICK o, attempt : o = req[r].id /\ attempt = req[r].code.attempt
    OBVIOUS
  <2> DEFINE q == CancelPoint("RefundAccepted", o, req[r].admin, req[r].code)
  <2>1. /\ o \in Rows /\ (Online(o) => Settled(o))
        /\ Goto(r, q) /\ q.id = o
    BY <1>0, <2>0, <1>9
    DEF GatewayRefundAccepted, OnOrder, RefundPoints, RequestsPaid, PaidPoints, RefundAt, CancelPoint
  <2>2. PICK txn \in RefundReference(req[r]) \cap (captured \ refunded) :
             refunded' = refunded \cup {txn}
    BY <1>9 DEF GatewayRefundAccepted
  <2>3. Kept
    BY <1>9, <2>2, UnchangedKept DEF GatewayRefundAccepted, tables
  <2>4. Returned(o)'
    <3>1. txn = <<o, attempt>>
      BY <2>0, <2>2 DEF RefundReference
    <3>2. attempt \in 1..MaxAttempts
      BY <1>0, <2>2, <3>1 DEF Payments
    <3> QED
      BY <2>2, <3>1, <3>2 DEF Returned
  <2>5. AcceptedReal'
    <3>1. q.id = o
      BY <2>1
    <3> QED
      BY <1>0, <2>1, <2>3, <2>4, <3>1, AcceptedKept
  <2>6. RequestsPaid'
    BY <1>0, <2>1, <2>3, KeptSettled, RequestsPaidKept
  <2> QED
    BY <1>0, <1>9, <2>3, <2>5, <2>6, OrdersPaidSame, NoticesPaidKept, RefundRowsSame
    DEF PaymentInv, GatewayRefundAccepted, tables
<1>10. ASSUME NEW r \in Requests, NEW o \in OrderIds,
              ConfirmOrder(r, o) \/ ShippingOrder(r, o) \/ UnclaimOrder(r, o) \/ CompleteOrder(r, o)
       PROVE  PaymentInv'
  <2>1. /\ o \in Rows
        /\ \/ order[o].status \in {"Confirmed", "Shipping", "Unclaimed"}
           \/ Online(o) => order[o].pay = "Completed"
    BY <1>10 DEF ConfirmOrder, ShippingOrder, UnclaimOrder, CompleteOrder, Confirmable, Completable, Online
  <2>2. Online(o) => Settled(o)
    BY <1>0, <2>1 DEF OrdersPaid, Booked, Handed
  <2>3. PICK q : Goto(r, q) /\ q.at # "RefundAccepted" /\ q.id = o
    <3>1. CASE CompleteOrder(r, o)
      BY <3>1 DEF CompleteOrder
    <3>2. CASE ConfirmOrder(r, o) \/ ShippingOrder(r, o) \/ UnclaimOrder(r, o)
      <4>1. PICK to : StatusCheckPassed(r, o, to)
        BY <3>2 DEF ConfirmOrder, ShippingOrder, UnclaimOrder
      <4> QED
        BY <4>1 DEF StatusCheckPassed
    <3> QED
      BY <1>10, <3>1, <3>2
  <2>4. UNCHANGED <<tables, gateway>>
    BY <1>10 DEF ConfirmOrder, ShippingOrder, UnclaimOrder, CompleteOrder, StatusCheckPassed
  <2> QED
    BY <2>1, <2>2, <2>3, <2>4, ReadPaid
<1>11. ASSUME NEW r \in Requests, NEW o \in OrderIds, NEW p \in Products, RatePurchasedProduct(r, o, p)
       PROVE  PaymentInv'
  <2>1. [at |-> "Rate", id |-> o, product |-> p].at \notin PaidPoints
    BY DEF PaidPoints, RefundPoints
  <2> QED
    BY <1>3, <1>11, <2>1 DEF RatePurchasedProduct
<1>12. ASSUME NEW r \in Requests, CancelUnpaid(r) \/ CancelPaidCommit(r) PROVE PaymentInv'
  <2>0. PICK o : o = req[r].id
    OBVIOUS
  <2> DEFINE unpaid == [order[o] EXCEPT !.status = "Canceled",
                                        !.pay = IF order[o].method = "COD" THEN @ ELSE "Incomplete"]
             paid == [order[o] EXCEPT !.status = "Canceled", !.pay = PayAfterRefund(req[r])]
  <2>1. o \in Rows /\ order[o] \in OrderRow
    BY <1>0, <2>0, <1>12, RowOf DEF CancelUnpaid, CancelPaidCommit, OnOrder, RefundPoints
  <2>2. /\ UNCHANGED notice /\ UNCHANGED <<captured, refunded>> /\ CancelDone(r)
        /\ \/ CancelUnpaid(r) /\ Update(o, unpaid)
           \/ CancelPaidCommit(r) /\ Update(o, paid)
    BY <2>0, <1>12 DEF CancelUnpaid, CancelPaidCommit, gateway
  <2>3. Kept /\ OrdersPaid' /\ NoticesPaid' /\ RefundedPaymentIsReal'
    <3>1. CASE CancelUnpaid(r) /\ Update(o, unpaid)
      <4>1. /\ unpaid.method = order[o].method /\ unpaid.code = order[o].code
            /\ unpaid.status = "Canceled"
            /\ order[o].method # "COD" => unpaid.pay = "Incomplete"
            /\ order[o].method = "COD" => unpaid.pay = order[o].pay
        BY <2>1 DEF OrderRow
      <4>2. ~(Online(o) /\ Booked(unpaid))
        BY <4>1 DEF Online, Booked, Handed
      <4>3. unpaid.pay = "Refunded" => Returned(o)
        BY <1>0, <2>1, <4>1 DEF RefundedPaymentIsReal, Returned
      <4> QED
        BY <2>1, <2>2, <3>1, <4>1, <4>2, <4>3, WritePaid
    <3>2. CASE CancelPaidCommit(r) /\ Update(o, paid)
      <4>1. /\ paid.method = order[o].method /\ paid.code = order[o].code
            /\ paid.status = "Canceled" /\ paid.pay = PayAfterRefund(req[r])
        BY <2>1 DEF OrderRow
      <4>2. Kept
        BY <1>0, <2>1, <2>2, <3>2, <4>1, UpdateKept
      <4>3. Online(o) => Settled(o)'
        BY <1>0, <2>0, <2>1, <3>2, <4>2, KeptSettled DEF CancelPaidCommit, RequestsPaid, PaidPoints, RefundPoints
      <4>4. paid.pay = "Refunded" => Returned(o)
        BY <1>0, <2>0, <2>1, <3>2, <4>1 DEF CancelPaidCommit, PayAfterRefund, AcceptedReal, RefundedPaymentIsReal, Returned
      <4> QED
        BY <2>1, <2>2, <3>2, <4>1, <4>3, <4>4, WritePaid
    <3> QED
      BY <2>2, <3>1, <3>2
  <2>4. RequestsPaid' /\ AcceptedReal'
    <3> DEFINE q == CancelPoint("Describe", o, TRUE, NullCode)
    <3>1. Goto(r, q) \/ Reply(r)
      BY <2>0, <2>2 DEF CancelDone
    <3>2. q.at \notin PaidPoints /\ q.at # "RefundAccepted"
      BY DEF CancelPoint, PaidPoints, RefundPoints
    <3>3. CASE Goto(r, q)
      BY <1>0, <2>3, <3>2, <3>3, RequestsPaidKept, AcceptedKept
    <3>4. CASE Reply(r)
      BY <1>0, <2>3, <3>4, RepliedPaid
    <3> QED
      BY <3>1, <3>3, <3>4
  <2> QED
    BY <2>3, <2>4 DEF PaymentInv
<1>13. ASSUME NEW r \in Requests, DescribeCancel(r) PROVE PaymentInv'
  <2>0. PICK o : o = req[r].id
    OBVIOUS
  <2> DEFINE row == [order[o] EXCEPT !.described = TRUE]
  <2>1. o \in Rows /\ order[o] \in OrderRow
    BY <1>0, <2>0, <1>13, RowOf DEF DescribeCancel, OnOrder
  <2>2. /\ row.method = order[o].method /\ row.code = order[o].code
        /\ row.status = order[o].status /\ row.pay = order[o].pay
    BY <2>1 DEF OrderRow
  <2>3. Update(o, row) /\ UNCHANGED notice /\ UNCHANGED <<captured, refunded>> /\ Reply(r)
    BY <2>0, <1>13 DEF DescribeCancel, gateway
  <2>4. Kept
    BY <1>0, <2>1, <2>2, <2>3, UpdateKept
  <2>5. Online(o) /\ Booked(row) => Settled(o)'
    BY <1>0, <2>1, <2>2, <2>4, KeptSettled DEF OrdersPaid, Booked
  <2>6. row.pay = "Refunded" => Returned(o)
    BY <1>0, <2>1, <2>2 DEF RefundedPaymentIsReal, Returned
  <2>7. OrdersPaid' /\ NoticesPaid' /\ RefundedPaymentIsReal'
    BY <2>1, <2>2, <2>3, <2>5, <2>6, WritePaid
  <2> QED
    BY <1>0, <2>3, <2>4, <2>7, RepliedPaid DEF PaymentInv
<1>14. ASSUME NEW r \in Requests, ChangeOrderStatus(r) \/ CompleteOrderWrite(r) PROVE PaymentInv'
  <2>0. PICK o : o = req[r].id
    OBVIOUS
  <2> DEFINE moved == [order[o] EXCEPT !.status = req[r].to]
             done == [order[o] EXCEPT !.status = "Completed", !.pay = "Completed"]
  <2>1. o \in Rows /\ order[o] \in OrderRow
    BY <1>0, <2>0, <1>14, RowOf DEF ChangeOrderStatus, CompleteOrderWrite, OnOrder
  <2>2. PICK row \in {moved, done} : Update(o, row)
    BY <2>0, <1>14 DEF ChangeOrderStatus, CompleteOrderWrite
  <2>3. /\ row.method = order[o].method /\ row.code = order[o].code
        /\ row.pay # "Refunded" \/ row.pay = order[o].pay
    BY <2>1 DEF OrderRow
  <2>4. UNCHANGED notice /\ UNCHANGED <<captured, refunded>>
    BY <2>0, <1>14 DEF ChangeOrderStatus, CompleteOrderWrite, gateway
  <2>5. Kept
    BY <1>0, <2>1, <2>2, <2>3, <2>4, UpdateKept
  <2>6. Online(o) => Settled(o)
    BY <1>0, <2>0, <1>14 DEF ChangeOrderStatus, CompleteOrderWrite, RequestsPaid, PaidPoints
  <2>7. OrdersPaid' /\ NoticesPaid' /\ RefundedPaymentIsReal'
    <3>1. Online(o) => Settled(o)'
      BY <2>1, <2>5, <2>6, KeptSettled
    <3>2. row.pay = "Refunded" => Returned(o)
      BY <1>0, <2>1, <2>3 DEF RefundedPaymentIsReal, Returned
    <3> QED
      BY <2>1, <2>2, <2>3, <2>4, <3>1, <3>2, WritePaid
  <2>8. RequestsPaid' /\ AcceptedReal'
    <3>1. CASE CompleteOrderWrite(r)
      BY <1>0, <2>5, <3>1, RepliedPaid DEF CompleteOrderWrite
    <3>2. CASE ChangeOrderStatus(r)
      <4> DEFINE q == [at |-> "Notify", id |-> o, to |-> req[r].to]
      <4>1. Goto(r, q) /\ q.id = o /\ q.at # "RefundAccepted"
        BY <2>0, <3>2 DEF ChangeOrderStatus
      <4>2. Online(q.id) => Settled(q.id)'
        BY <2>1, <2>5, <2>6, <4>1, KeptSettled
      <4> QED
        BY <1>0, <2>1, <2>5, <4>1, <4>2, RequestsPaidKept, AcceptedKept
    <3> QED
      BY <1>14, <3>1, <3>2
  <2> QED
    BY <2>7, <2>8 DEF PaymentInv
<1>15. ASSUME NEW o \in OrderIds, NEW a \in 1..MaxAttempts,
              NotificationVnpayPayment(o, a) \/ HandleVnpayPayment(o, a)
       PROVE  PaymentInv'
  <2>1. PICK kind \in {"TxnRef", "TransactionNo"} : Update(o, PaymentSuccess(o, kind, a))
    BY <1>15 DEF NotificationVnpayPayment, HandleVnpayPayment
  <2> DEFINE row == PaymentSuccess(o, kind, a)
  <2>2. o \in Rows /\ order[o] \in OrderRow /\ <<o, a>> \in captured
    BY <1>0, <1>15, RowOf DEF NotificationVnpayPayment, HandleVnpayPayment
  <2>3. row.method = order[o].method /\ row.code # NullCode /\ row.pay = "Completed"
    BY <2>2 DEF PaymentSuccess, OrderRow, NullCode
  <2>4. UNCHANGED notice /\ UNCHANGED <<captured, refunded>> /\ UNCHANGED req
    BY <1>15 DEF NotificationVnpayPayment, HandleVnpayPayment, gateway
  <2>5. Settled(o)'
    <3>1. order'[o] = row
      BY <1>0, <2>1, <2>2 DEF Update, OrderTable, Rows
    <3> QED
      BY <2>2, <2>3, <2>4, <3>1 DEF Settled, Paid
  <2>6. Kept /\ OrdersPaid' /\ NoticesPaid' /\ RefundedPaymentIsReal'
    BY <2>1, <2>2, <2>3, <2>4, <2>5, WritePaid
  <2> QED
    BY <1>0, <2>4, <2>6, RequestsSame DEF PaymentInv
<1>16. ASSUME NEW r \in Requests, CreateSpecificNotification(r) PROVE PaymentInv'
  <2> DEFINE o == req[r].id
  <2>1. o \in Rows /\ (Online(o) => Settled(o))
    BY <1>0, <1>16 DEF CreateSpecificNotification, OnOrder, RequestsPaid, PaidPoints
  <2>2. Kept /\ UNCHANGED order
    BY <1>16, UnchangedKept DEF CreateSpecificNotification, gateway
  <2>3. NoticesPaid'
    <3> SUFFICES ASSUME NEW n \in notice' PROVE n[1] \in Rows' /\ (Online(n[1])' => Settled(n[1])')
      BY DEF NoticesPaid
    <3>1. n \in notice \/ n = <<o, req[r].to>>
      BY <1>16 DEF CreateSpecificNotification
    <3>2. n[1] \in Rows /\ (Online(n[1]) => Settled(n[1]))
      BY <1>0, <2>1, <3>1 DEF NoticesPaid
    <3> QED
      BY <2>2, <3>2, KeptSettled
  <2> QED
    BY <1>0, <1>16, <2>2, <2>3, OrdersPaidSame, RefundRowsSame, RepliedPaid
    DEF PaymentInv, CreateSpecificNotification
<1>17. ASSUME NEW r \in Requests, RatingCreate(r) PROVE PaymentInv'
  <2>1. Kept /\ UNCHANGED order /\ UNCHANGED notice
    BY <1>17, UnchangedKept DEF RatingCreate, gateway
  <2> QED
    BY <1>0, <1>17, <2>1, OrdersPaidSame, NoticesPaidKept, RefundRowsSame, RepliedPaid
    DEF PaymentInv, RatingCreate
<1>18. ASSUME UNCHANGED <<order, notice, req>>, captured \subseteq captured', UNCHANGED refunded
       PROVE  PaymentInv'
  <2>1. Kept
    BY <1>18, UnchangedKept
  <2> QED
    BY <1>0, <1>18, <2>1, OrdersPaidSame, NoticesPaidKept, RefundRowsSame, RequestsSame DEF PaymentInv
<1>19. ASSUME NEW o \in OrderIds, NEW a \in 1..MaxAttempts, GatewayCapture(o, a) PROVE PaymentInv'
  BY <1>18, <1>19 DEF GatewayCapture, tables
<1>20. ASSUME NEW o \in OrderIds, PayOnlineOrder(o) PROVE PaymentInv'
  BY <1>18, <1>20 DEF PayOnlineOrder, tables
<1>21. ASSUME NEW p \in Products, ImportProduct(p) PROVE PaymentInv'
  BY <1>18, <1>21 DEF ImportProduct, gateway
<1>22. ASSUME NEW v \in Vouchers, CreateGeneralVoucher(v) \/ CreatePersonalVoucher(v) \/ DeleteVoucher(v)
       PROVE  PaymentInv'
  BY <1>18, <1>22 DEF CreateGeneralVoucher, CreatePersonalVoucher, DeleteVoucher, gateway
<1>23. CASE UNCHANGED vars
  BY <1>18, <1>23 DEF vars, tables, gateway
<1> QED
  BY <1>1, <1>2, <1>5, <1>6, <1>7, <1>8, <1>9, <1>10, <1>11, <1>12, <1>13, <1>14, <1>15, <1>16,
     <1>17, <1>19, <1>20, <1>21, <1>22, <1>23
  DEF Next, Start, Step

LEMMA PaymentInit == Init => PaymentInv
  BY DEF Init, PaymentInv, OrdersPaid, RequestsPaid, NoticesPaid, RefundedPaymentIsReal, AcceptedReal,
         Rows, PaidPoints, RefundPoints, Idle

LEMMA PaymentAlways == Spec => []PaymentInv
  BY PaymentInit, TypedAlways, PaymentStep, PTL DEF Spec

\* No race of callbacks, cancellations and status changes, and no lost request,
\* hands an online order on before the gateway has taken the money.
THEOREM PaymentSafe == Spec => []PaidBeforeConfirmed
<1>1. PaymentInv => PaidBeforeConfirmed
  BY DEF PaymentInv, OrdersPaid, NoticesPaid, PaidBeforeConfirmed, Booked, Online, Settled
<1> QED
  BY <1>1, PaymentAlways, PTL

\* cancelOrder always finds a payment code to split in a completed online payment.
THEOREM PaymentCodeSafe == Spec => []CompletedPaymentHasCode
<1>1. PaymentInv => CompletedPaymentHasCode
  BY DEF PaymentInv, OrdersPaid, CompletedPaymentHasCode, Booked, Online, Settled
<1> QED
  BY <1>1, PaymentAlways, PTL

\* A payment booked as Refunded was given back by VNPay.
THEOREM RefundSafe == Spec => []RefundedPaymentIsReal
<1>1. PaymentInv => RefundedPaymentIsReal
  BY DEF PaymentInv
<1> QED
  BY <1>1, PaymentAlways, PTL
-----------------------------------------------------------------------------
(***************************************************************************)
(* Vouchers: what an order says of its customer and its voucher is never   *)
(* rewritten, and only createOrder adds an order.                          *)
(***************************************************************************)
Steady ==
    /\ Rows' = Rows
    /\ \A o \in Rows : /\ order'[o].user = order[o].user
                       /\ order'[o].voucher = order[o].voucher
                       /\ order'[o].method = order[o].method

LEMMA UpdateSteady ==
    ASSUME OrderTable, NEW o \in Rows, NEW row, Update(o, row),
           row.user = order[o].user, row.voucher = order[o].voucher, row.method = order[o].method
    PROVE  Steady
  BY DEF Steady, Rows, Update, OrderTable

\* Which action writes what of the order table.
LEMMA SteadyStep ==
    ASSUME Parts, [Next]_vars
    PROVE  Steady \/ \E r \in Requests : CreateOrderCommit(r)
<1>0. /\ OrderTable /\ Served
      /\ \A r \in Requests : req[r] \in Request /\ (req[r].at \in OnOrder => req[r].id \in Rows)
  BY DEF Parts, Served, RequestsRefer
<1>1. UNCHANGED order => Steady
  BY DEF Steady, Rows
<1>2. ASSUME NEW r \in Requests, Start(r) PROVE UNCHANGED order
  BY <1>2 DEF Start, tables, CreateOrderLookup, UserCancelCheck, AdminCancelOrder, ConfirmOrder,
              ShippingOrder, UnclaimOrder, StatusCheckPassed, CompleteOrder, RatePurchasedProduct
<1>3. ASSUME NEW r \in Requests, Step(r) PROVE Steady \/ CreateOrderCommit(r)
  <2>1. CreateOrderReject(r) \/ CancelOrderRead(r) \/ BeginRefund(r) => UNCHANGED order
    BY DEF tables, CreateOrderReject, CancelOrderRead, BeginRefund
  <2>2. GatewayRefundAccepted(r) \/ GatewayRefundRefused(r) => UNCHANGED order
    BY DEF tables, GatewayRefundAccepted, GatewayRefundRefused
  <2>3. CreateSpecificNotification(r) \/ RatingCreate(r) => UNCHANGED order
    BY DEF CreateSpecificNotification, RatingCreate
  <2>4. ASSUME NEW o, o = req[r].id,
               \/ CancelUnpaid(r) \/ CancelPaidCommit(r) \/ DescribeCancel(r)
               \/ ChangeOrderStatus(r) \/ CompleteOrderWrite(r)
        PROVE  Steady
    <3>1. o \in Rows /\ order[o] \in OrderRow
      BY <1>0, <2>4, RowOf
      DEF CancelUnpaid, CancelPaidCommit, DescribeCancel, ChangeOrderStatus, CompleteOrderWrite,
          OnOrder, RefundPoints
    <3>2. CASE CancelUnpaid(r)
      <4> DEFINE row == [order[o] EXCEPT !.status = "Canceled",
                                !.pay = IF order[o].method = "COD" THEN @ ELSE "Incomplete"]
      <4>1. Update(o, row)
        BY <2>4, <3>2 DEF CancelUnpaid
      <4>2. row.user = order[o].user /\ row.voucher = order[o].voucher /\ row.method = order[o].method
        BY <3>1 DEF OrderRow
      <4> HIDE DEF row
      <4> QED
        BY <1>0, <3>1, <4>1, <4>2, UpdateSteady
    <3>3. CASE CancelPaidCommit(r)
      <4> DEFINE row == [order[o] EXCEPT !.status = "Canceled", !.pay = PayAfterRefund(req[r])]
      <4>1. Update(o, row)
        BY <2>4, <3>3 DEF CancelPaidCommit
      <4>2. row.user = order[o].user /\ row.voucher = order[o].voucher /\ row.method = order[o].method
        BY <3>1 DEF OrderRow
      <4> HIDE DEF row
      <4> QED
        BY <1>0, <3>1, <4>1, <4>2, UpdateSteady
    <3>4. CASE DescribeCancel(r)
      <4> DEFINE row == [order[o] EXCEPT !.described = TRUE]
      <4>1. Update(o, row)
        BY <2>4, <3>4 DEF DescribeCancel
      <4>2. row.user = order[o].user /\ row.voucher = order[o].voucher /\ row.method = order[o].method
        BY <3>1 DEF OrderRow
      <4> HIDE DEF row
      <4> QED
        BY <1>0, <3>1, <4>1, <4>2, UpdateSteady
    <3>5. CASE ChangeOrderStatus(r)
      <4> DEFINE row == [order[o] EXCEPT !.status = req[r].to]
      <4>1. Update(o, row)
        BY <2>4, <3>5 DEF ChangeOrderStatus
      <4>2. row.user = order[o].user /\ row.voucher = order[o].voucher /\ row.method = order[o].method
        BY <3>1 DEF OrderRow
      <4> HIDE DEF row
      <4> QED
        BY <1>0, <3>1, <4>1, <4>2, UpdateSteady
    <3>6. CASE CompleteOrderWrite(r)
      <4> DEFINE row == [order[o] EXCEPT !.status = "Completed", !.pay = "Completed"]
      <4>1. Update(o, row)
        BY <2>4, <3>6 DEF CompleteOrderWrite
      <4>2. row.user = order[o].user /\ row.voucher = order[o].voucher /\ row.method = order[o].method
        BY <3>1 DEF OrderRow
      <4> HIDE DEF row
      <4> QED
        BY <1>0, <3>1, <4>1, <4>2, UpdateSteady
    <3> QED
      BY <2>4, <3>2, <3>3, <3>4, <3>5, <3>6
  <2> QED
    BY <1>1, <1>3, <2>1, <2>2, <2>3, <2>4 DEF Step
<1>4. ASSUME NEW r \in Requests, Fail(r) PROVE UNCHANGED order
  BY <1>4 DEF Fail, tables
<1>5. ASSUME NEW o \in OrderIds, NEW a \in 1..MaxAttempts, NEW kind, o \in Rows,
             Update(o, PaymentSuccess(o, kind, a))
      PROVE  Steady
  <2> DEFINE row == PaymentSuccess(o, kind, a)
  <2>1. row.user = order[o].user /\ row.voucher = order[o].voucher /\ row.method = order[o].method
    BY <1>0, <1>5, RowOf DEF PaymentSuccess, OrderRow
  <2> HIDE DEF row
  <2> QED
    BY <1>0, <1>5, <2>1, UpdateSteady DEF row
<1>6. ASSUME NEW o \in OrderIds, NEW a \in 1..MaxAttempts,
             GatewayCapture(o, a) \/ NotificationVnpayPayment(o, a) \/ HandleVnpayPayment(o, a)
      PROVE  Steady
  BY <1>1, <1>5, <1>6 DEF tables, GatewayCapture, NotificationVnpayPayment, HandleVnpayPayment
<1>7. ASSUME NEW o \in OrderIds, PayOnlineOrder(o) PROVE UNCHANGED order
  BY <1>7 DEF PayOnlineOrder, tables
<1>8. ASSUME NEW p \in Products, ImportProduct(p) PROVE UNCHANGED order
  BY <1>8 DEF ImportProduct
<1>9. ASSUME NEW v \in Vouchers, CreateGeneralVoucher(v) \/ CreatePersonalVoucher(v) \/ DeleteVoucher(v)
      PROVE  UNCHANGED order
  BY <1>9 DEF CreateGeneralVoucher, CreatePersonalVoucher, DeleteVoucher
<1>10. CASE UNCHANGED vars
  BY <1>1, <1>10 DEF vars, tables
<1> QED
  BY <1>1, <1>2, <1>3, <1>4, <1>6, <1>7, <1>8, <1>9, <1>10 DEF Next

\* The actions that write the voucher tables.
LEMMA VoucherWrites ==
    ASSUME [Next]_vars
    PROVE  \/ UNCHANGED <<voucher, userVoucher>>
           \/ \E r \in Requests : CreateOrderCommit(r)
           \/ \E v \in Vouchers : CreateGeneralVoucher(v) \/ CreatePersonalVoucher(v) \/ DeleteVoucher(v)
<1>1. ASSUME NEW r \in Requests, Start(r) PROVE UNCHANGED <<voucher, userVoucher>>
  BY <1>1 DEF Start, tables, CreateOrderLookup, UserCancelCheck, AdminCancelOrder, ConfirmOrder,
              ShippingOrder, UnclaimOrder, StatusCheckPassed, CompleteOrder, RatePurchasedProduct
<1>2. ASSUME NEW r \in Requests, Step(r) PROVE UNCHANGED <<voucher, userVoucher>> \/ CreateOrderCommit(r)
  <2>1. \/ CreateOrderReject(r) \/ CancelOrderRead(r) \/ BeginRefund(r)
        \/ GatewayRefundAccepted(r) \/ GatewayRefundRefused(r)
        => UNCHANGED <<voucher, userVoucher>>
    BY DEF tables, CreateOrderReject, CancelOrderRead, BeginRefund, GatewayRefundAccepted,
           GatewayRefundRefused
  <2>2. \/ CancelUnpaid(r) \/ CancelPaidCommit(r) \/ DescribeCancel(r)
        \/ ChangeOrderStatus(r) \/ CreateSpecificNotification(r)
        \/ CompleteOrderWrite(r) \/ RatingCreate(r)
        => UNCHANGED <<voucher, userVoucher>>
    BY DEF CancelUnpaid, CancelPaidCommit, DescribeCancel, ChangeOrderStatus,
           CreateSpecificNotification, CompleteOrderWrite, RatingCreate
  <2> QED
    BY <1>2, <2>1, <2>2 DEF Step
<1>3. ASSUME NEW r \in Requests, Fail(r) PROVE UNCHANGED <<voucher, userVoucher>>
  BY <1>3 DEF Fail, tables
<1>4. ASSUME NEW o \in OrderIds, NEW a \in 1..MaxAttempts,
             GatewayCapture(o, a) \/ NotificationVnpayPayment(o, a) \/ HandleVnpayPayment(o, a)
      PROVE  UNCHANGED <<voucher, userVoucher>>
  BY <1>4 DEF tables, GatewayCapture, NotificationVnpayPayment, HandleVnpayPayment
<1>5. ASSUME NEW o \in OrderIds, PayOnlineOrder(o) PROVE UNCHANGED <<voucher, userVoucher>>
  BY <1>5 DEF PayOnlineOrder, tables
<1>6. ASSUME NEW p \in Products, ImportProduct(p) PROVE UNCHANGED <<voucher, userVoucher>>
  BY <1>6 DEF ImportProduct
<1>7. CASE UNCHANGED vars
  BY <1>7 DEF vars, tables
<1> QED
  BY <1>1, <1>2, <1>3, <1>4, <1>5, <1>6, <1>7 DEF Next

(***************************************************************************)
(* The ledger of every voucher, and the vouchers not made yet.             *)
(***************************************************************************)
UsedBy(v, u) == \E o \in OrdersWith(v) : order[o].user = u

Balanced(v) ==
    /\ voucher[v].remain + Cardinality(OrdersWith(v)) = voucher[v].quantity
    /\ \A u \in Users : userVoucher[v][u] = "Used" <=> UsedBy(v, u)

Unmade(v) == OrdersWith(v) = {} /\ \A u \in Users : userVoucher[v][u] = "None"

VoucherInv ==
    /\ IsFiniteSet(Rows)
    /\ \A v \in Vouchers : /\ voucher[v].type = "None" => Unmade(v)
                           /\ VoucherExists(v) => Balanced(v)

LEMMA OrdersFinite ==
    ASSUME IsFiniteSet(Rows), NEW v
    PROVE  IsFiniteSet(OrdersWith(v)) /\ Cardinality(OrdersWith(v)) \in Nat
<1>1. OrdersWith(v) \subseteq Rows
  BY DEF OrdersWith
<1> QED
  BY <1>1, FS_Subset, FS_CardinalityType

LEMMA SteadyOrders ==
    ASSUME Steady, NEW v, NEW u
    PROVE  OrdersWith(v)' = OrdersWith(v) /\ (UsedBy(v, u)' <=> UsedBy(v, u))
  BY DEF Steady, OrdersWith, UsedBy, Rows

\* Neither the voucher's row nor its orders change.
LEMMA VoucherSame ==
    ASSUME Steady, NEW v \in Vouchers, voucher'[v] = voucher[v], userVoucher'[v] = userVoucher[v],
           voucher[v].type = "None" => Unmade(v), VoucherExists(v) => Balanced(v)
    PROVE  (voucher'[v].type = "None" => Unmade(v)') /\ (VoucherExists(v)' => Balanced(v)')
<1>1. OrdersWith(v)' = OrdersWith(v) /\ \A u : UsedBy(v, u)' <=> UsedBy(v, u)
  BY SteadyOrders
<1>2. Unmade(v) => Unmade(v)'
  BY <1>1 DEF Unmade
<1>3. Balanced(v) => Balanced(v)'
  BY <1>1 DEF Balanced
<1>4. VoucherExists(v)' <=> VoucherExists(v)
  BY DEF VoucherExists
<1> QED
  BY <1>2, <1>3, <1>4

\* A new order with voucher v, or with another.
LEMMA NewOrder ==
    ASSUME IsFiniteSet(Rows), NEW new \in OrderIds \ Rows, NEW q,
           order' = [o \in Rows \cup {new} |-> IF o = new THEN NewRow(q) ELSE order[o]], NEW v
    PROVE  /\ IsFiniteSet(Rows)'
           /\ q.voucher = v => /\ OrdersWith(v)' = OrdersWith(v) \cup {new}
                               /\ Cardinality(OrdersWith(v)') = Cardinality(OrdersWith(v)) + 1
                               /\ \A u : UsedBy(v, u)' <=> UsedBy(v, u) \/ u = q.user
           /\ q.voucher # v => /\ OrdersWith(v)' = OrdersWith(v)
                               /\ \A u : UsedBy(v, u)' <=> UsedBy(v, u)
<1>1. Rows' = Rows \cup {new}
  BY DEF Rows
<1>2. IsFiniteSet(Rows)'
  BY <1>1, FS_AddElement
<1>3. NewRow(q).voucher = q.voucher /\ NewRow(q).user = q.user
  BY DEF NewRow
<1>4. order'[new] = NewRow(q) /\ \A o \in Rows : order'[o] = order[o]
  OBVIOUS
<1>5. ASSUME q.voucher = v PROVE OrdersWith(v)' = OrdersWith(v) \cup {new}
  BY <1>1, <1>3, <1>4, <1>5 DEF OrdersWith
<1>6. ASSUME q.voucher # v PROVE OrdersWith(v)' = OrdersWith(v)
  BY <1>1, <1>3, <1>4, <1>6 DEF OrdersWith
<1>7. new \notin OrdersWith(v) /\ OrdersWith(v) \subseteq Rows
  BY DEF OrdersWith
<1>8. ASSUME q.voucher = v PROVE Cardinality(OrdersWith(v)') = Cardinality(OrdersWith(v)) + 1
  BY <1>5, <1>7, <1>8, OrdersFinite, FS_AddElement
<1>9. ASSUME q.voucher = v, NEW u PROVE UsedBy(v, u)' <=> UsedBy(v, u) \/ u = q.user
  BY <1>3, <1>4, <1>5, <1>7, <1>9 DEF UsedBy
<1>10. ASSUME q.voucher # v, NEW u PROVE UsedBy(v, u)' <=> UsedBy(v, u)
  BY <1>4, <1>6, <1>7, <1>10 DEF UsedBy
<1> QED
  BY <1>2, <1>5, <1>6, <1>8, <1>9, <1>10

LEMMA VoucherInit == Init => VoucherInv
<1> SUFFICES ASSUME Init PROVE VoucherInv
  OBVIOUS
<1>1. Rows = {}
  BY DEF Init, Rows
<1>2. IsFiniteSet(Rows)
  BY <1>1, FS_EmptySet
<1>3. \A v \in Vouchers : voucher[v].type = "None" /\ Unmade(v)
  BY <1>1 DEF Init, Unmade, OrdersWith
<1> QED
  BY <1>2, <1>3 DEF VoucherInv, VoucherExists

LEMMA VoucherStep == Typed /\ VoucherInv /\ [Next]_vars => VoucherInv'
<1> SUFFICES ASSUME Parts, VoucherInv, [Next]_vars PROVE VoucherInv'
  BY TypedParts
<1>0. VoucherTables /\ Served /\ IsFiniteSet(Rows)
  BY DEF Parts, VoucherInv
<1>1. ASSUME NEW r \in Requests, CreateOrderCommit(r) PROVE VoucherInv'
  <2>1. PICK q : q = req[r]
    OBVIOUS
  <2>2. PICK new \in OrderIds \ Rows :
           order' = [o \in Rows \cup {new} |-> IF o = new THEN NewRow(q) ELSE order[o]]
    BY <1>1, <2>1 DEF CreateOrderCommit
  <2>3. q.voucher \in Vouchers \cup {NoVoucher} /\ q.user \in Users
    BY <1>0, <1>1, <2>1, RequestFields DEF Served, CreateOrderCommit
  <2>4. IF q.voucher = NoVoucher THEN UNCHANGED <<voucher, userVoucher>>
                                 ELSE VoucherExists(q.voucher) /\ UseVoucher(q.voucher, q.user)
    BY <1>1, <2>1 DEF CreateOrderCommit
  <2>5. IsFiniteSet(Rows)'
    BY <1>0, <2>2, NewOrder
  <2>6. ASSUME NEW v \in Vouchers
        PROVE  (voucher'[v].type = "None" => Unmade(v)') /\ (VoucherExists(v)' => Balanced(v)')
    <3>1. CASE v = q.voucher
      <4>1. VoucherExists(v) /\ UseVoucher(v, q.user) /\ Balanced(v)
        BY <2>4, <3>1 DEF VoucherInv
      <4>2. voucher[v] \in VoucherRow /\ userVoucher[v] \in [Users -> {"None", "NotUsed", "Used"}]
        BY <1>0 DEF VoucherTables
      <4>3. /\ voucher'[v] = [voucher[v] EXCEPT !.remain = @ - 1]
            /\ userVoucher'[v] = [userVoucher[v] EXCEPT ![q.user] = "Used"]
        BY <1>0, <4>1 DEF UseVoucher, Charged, VoucherTables
      <4>4. /\ voucher'[v].type = voucher[v].type /\ voucher'[v].quantity = voucher[v].quantity
            /\ voucher'[v].remain = voucher[v].remain - 1
            /\ voucher[v].remain \in Int /\ voucher[v].quantity \in Int
        BY <4>2, <4>3 DEF VoucherRow
      <4>5. /\ Cardinality(OrdersWith(v)') = Cardinality(OrdersWith(v)) + 1
            /\ Cardinality(OrdersWith(v)) \in Nat
            /\ \A u : UsedBy(v, u)' <=> UsedBy(v, u) \/ u = q.user
        BY <1>0, <2>2, <3>1, NewOrder, OrdersFinite
      <4>6. voucher'[v].remain + Cardinality(OrdersWith(v)') = voucher'[v].quantity
        BY <4>1, <4>4, <4>5 DEF Balanced
      <4>7. \A u \in Users : userVoucher'[v][u] = "Used" <=> UsedBy(v, u)'
        BY <2>3, <4>1, <4>2, <4>3, <4>5 DEF Balanced
      <4>8. Balanced(v)'
        BY <4>6, <4>7 DEF Balanced
      <4> QED
        BY <4>1, <4>4, <4>8 DEF VoucherExists
    <3>2. CASE v # q.voucher
      <4>1. voucher'[v] = voucher[v] /\ userVoucher'[v] = userVoucher[v]
        BY <1>0, <2>4, <3>2 DEF UseVoucher, Charged, VoucherTables
      <4>2. OrdersWith(v)' = OrdersWith(v) /\ \A u : UsedBy(v, u)' <=> UsedBy(v, u)
        BY <1>0, <2>2, <3>2, NewOrder
      <4>3. Unmade(v) => Unmade(v)'
        BY <4>1, <4>2 DEF Unmade
      <4>4. Balanced(v) => Balanced(v)'
        BY <4>1, <4>2 DEF Balanced
      <4> QED
        BY <4>1, <4>3, <4>4 DEF VoucherInv, VoucherExists
    <3> QED
      BY <3>1, <3>2
  <2> QED
    BY <2>5, <2>6 DEF VoucherInv
<1>2. ASSUME NEW v \in Vouchers, CreateGeneralVoucher(v) \/ CreatePersonalVoucher(v) \/ DeleteVoucher(v)
      PROVE  VoucherInv'
  <2>1. Steady
    BY <1>2 DEF CreateGeneralVoucher, CreatePersonalVoucher, DeleteVoucher, Steady, Rows
  <2>2. \A w \in Vouchers \ {v} : voucher'[w] = voucher[w] /\ userVoucher'[w] = userVoucher[w]
    BY <1>0, <1>2 DEF CreateGeneralVoucher, CreatePersonalVoucher, DeleteVoucher, VoucherTables
  <2>3. OrdersWith(v)' = OrdersWith(v) /\ \A u : UsedBy(v, u)' <=> UsedBy(v, u)
    BY <2>1, SteadyOrders
  <2>4. (voucher'[v].type = "None" => Unmade(v)') /\ (VoucherExists(v)' => Balanced(v)')
    <3>1. CASE DeleteVoucher(v)
      <4>1. voucher[v] \in VoucherRow /\ voucher'[v] = [voucher[v] EXCEPT !.type = "Deleted"]
        BY <1>0, <3>1 DEF DeleteVoucher, VoucherTables
      <4>2. voucher'[v].type = "Deleted"
        BY <4>1 DEF VoucherRow
      <4> QED
        BY <4>2 DEF VoucherExists
    <3>2. CASE CreateGeneralVoucher(v) \/ CreatePersonalVoucher(v)
      <4>1. Unmade(v)
        BY <3>2 DEF CreateGeneralVoucher, CreatePersonalVoucher, VoucherInv
      <4>2. Cardinality(OrdersWith(v)') = 0 /\ \A u : ~UsedBy(v, u)'
        BY <2>3, <4>1, FS_EmptySet DEF Unmade, UsedBy
      <4>3. /\ voucher'[v].type \in {"General", "Personal"}
            /\ voucher'[v].remain = voucher'[v].quantity /\ voucher'[v].quantity \in Int
        <5>1. CASE CreateGeneralVoucher(v)
          BY <1>0, <5>1 DEF CreateGeneralVoucher, VoucherTables
        <5>2. CASE CreatePersonalVoucher(v)
          <6>1. PICK us \in SUBSET Users :
                   voucher' = [voucher EXCEPT ![v] = [type |-> "Personal", remain |-> Cardinality(us),
                                                      quantity |-> Cardinality(us)]]
            BY <5>2 DEF CreatePersonalVoucher
          <6>2. Cardinality(us) \in Nat
            BY FS_Subset, FS_CardinalityType
          <6> QED
            BY <1>0, <6>1, <6>2 DEF VoucherTables
        <5> QED
          BY <3>2, <5>1, <5>2
      <4>4. \A u \in Users : userVoucher'[v][u] # "Used"
        <5>1. CASE CreateGeneralVoucher(v)
          BY <4>1, <5>1 DEF CreateGeneralVoucher, Unmade
        <5>2. CASE CreatePersonalVoucher(v)
          BY <1>0, <5>2 DEF CreatePersonalVoucher, VoucherTables
        <5> QED
          BY <3>2, <5>1, <5>2
      <4>5. Balanced(v)'
        BY <4>2, <4>3, <4>4 DEF Balanced
      <4> QED
        BY <4>3, <4>5
    <3> QED
      BY <1>2, <3>1, <3>2
  <2>5. ASSUME NEW w \in Vouchers
        PROVE  (voucher'[w].type = "None" => Unmade(w)') /\ (VoucherExists(w)' => Balanced(w)')
    BY <2>1, <2>2, <2>4, VoucherSame DEF VoucherInv
  <2>6. IsFiniteSet(Rows)'
    BY <1>0, <2>1 DEF Steady
  <2> QED
    BY <2>5, <2>6 DEF VoucherInv
<1>3. CASE UNCHANGED <<voucher, userVoucher>> /\ Steady
  <2>1. IsFiniteSet(Rows)'
    BY <1>0, <1>3 DEF Steady
  <2>2. ASSUME NEW v \in Vouchers
        PROVE  (voucher'[v].type = "None" => Unmade(v)') /\ (VoucherExists(v)' => Balanced(v)')
    BY <1>3, VoucherSame DEF VoucherInv
  <2> QED
    BY <2>1, <2>2 DEF VoucherInv
<1> QED
  BY <1>1, <1>2, <1>3, SteadyStep, VoucherWrites

LEMMA VoucherAlways == Spec => []VoucherInv
  BY VoucherInit, TypedAlways, VoucherStep, PTL DEF Spec

\* However requests are interleaved, a voucher's remaining quantity and the
\* orders placed with it add up, and exactly those orders' customers used it.
THEOREM LedgerSafe == Spec => []VoucherLedger
<1>1. VoucherInv => VoucherLedger
  BY DEF VoucherInv, Balanced, UsedBy, VoucherLedger
<1> QED
  BY <1>1, VoucherAlways, PTL
-----------------------------------------------------------------------------
(***************************************************************************)
(* One request at a time for each order: what its handler has checked is   *)
(* still true when it writes, whatever requests about other orders,        *)
(* callbacks, payments and imports come in between.                        *)
(***************************************************************************)
LEMMA OrderlyAlways == OrderlySpec => Spec /\ []Orderly
<1>1. Init => Orderly
  BY DEF Init, Orderly, Shared, Decides, Spends, Idle, DecidingPoints, RefundPoints
<1>2. Orderly /\ [Next /\ Orderly']_vars => Orderly'
  BY DEF vars, Orderly, Shared, Decides, Spends
<1>3. [Next /\ Orderly']_vars => [Next]_vars
  OBVIOUS
<1> QED
  BY <1>1, <1>2, <1>3, PTL DEF OrderlySpec, Spec

CancelPoints == {"CancelRead", "CancelUnpaid", "RefundBegin"} \cup RefundPoints

Status(o) == order[o].status

Ready(q) ==
    /\ q.at \in CancelPoints /\ ~q.admin => Status(q.id) = "Waiting"
    /\ q.at \in CancelPoints \ {"CancelRead"} => Status(q.id) \notin {"Canceled", "Completed"}
    /\ q.at = "ChangeStatus" =>
          \/ q.to = "Confirmed" /\ Status(q.id) = "Waiting"
          \/ q.to = "Shipping"  /\ Status(q.id) = "Confirmed"
          \/ q.to = "Unclaimed" /\ Status(q.id) = "Shipping"
    /\ q.at = "Complete" => Status(q.id) \in {"Shipping", "Unclaimed"}
    /\ q.at = "Rate" => Status(q.id) = "Completed" /\ <<q.id, q.product>> \notin rated

RequestsReady == \A r \in Requests : Ready(req[r])

\* Points that have nothing left to rely on.
FreePoints == {"Idle", "Create", "Describe", "Notify"}

LEMMA FreeReady ==
    ASSUME NEW q, q.at \in FreePoints
    PROVE  Ready(q) /\ Ready(q)'
  BY DEF Ready, FreePoints, CancelPoints, RefundPoints

StatusSame == Steady /\ \A o \in Rows : Status(o)' = Status(o)

LEMMA OrderSame ==
    ASSUME UNCHANGED order
    PROVE  StatusSame
  BY DEF StatusSame, Steady, Rows, Status

LEMMA ReadyKept ==
    ASSUME StatusSame, UNCHANGED rated, NEW q, q.at \in OnOrder => q.id \in Rows, Ready(q)
    PROVE  Ready(q)'
<1>1. q.at \in OnOrder => Status(q.id)' = Status(q.id)
  BY DEF StatusSame
<1>2. q.at \in CancelPoints \cup {"ChangeStatus", "Complete", "Rate"} => q.at \in OnOrder
  BY DEF CancelPoints, OnOrder, RefundPoints
<1>3. q.at \in CancelPoints \/ q.at = "ChangeStatus" \/ q.at = "Complete" \/ q.at = "Rate"
      => Status(q.id)' = Status(q.id)
  BY <1>1, <1>2
<1> QED
  BY <1>3 DEF Ready

\* A request leaves alone what the lifecycle sees of the orders it does not decide about.
WritesOwn(r) ==
    /\ Rows \subseteq Rows'
    /\ \A o \in Rows : ~Decides(r, o) =>
          /\ Status(o)' = Status(o)
          /\ \A p : <<o, p>> \in rated' <=> <<o, p>> \in rated

LEMMA ReadsOnly ==
    ASSUME UNCHANGED <<order, rated>>, NEW r
    PROVE  WritesOwn(r)
  BY DEF WritesOwn, Rows, Status

LEMMA WritesOwnRow ==
    ASSUME OrderTable, NEW r, NEW o \in Rows, NEW row, Update(o, row), UNCHANGED rated,
           Decides(r, o) \/ row.status = order[o].status
    PROVE  WritesOwn(r)
<1>1. Rows' = Rows /\ \A x \in Rows : order'[x] = IF x = o THEN row ELSE order[x]
  BY DEF Update, OrderTable, Rows
<1> QED
  BY <1>1 DEF WritesOwn, Status

\* Every point is free of the orders' state, or decides about one.
LEMMA PointKinds ==
    ASSUME Served, OrderTable, NEW r \in Requests, req[r].at \notin FreePoints
    PROVE  req[r].id \in Rows /\ req[r].id \in OrderIds /\ Decides(r, req[r].id)
<1>1. req[r] \in Request
  BY DEF Served
<1>2. req[r].at \in DecidingPoints
  BY <1>1 DEF Request, Idle, DecidingPoints, FreePoints, RefundPoints
<1>3. req[r].at \in OnOrder
  BY <1>2 DEF DecidingPoints, OnOrder, RefundPoints
<1> QED
  BY <1>2, <1>3 DEF Decides, Served, RequestsRefer, OrderTable, Rows

\* What another request has checked is not touched.
LEMMA OthersReady ==
    ASSUME Orderly, Served, OrderTable, RequestsReady, NEW r \in Requests, WritesOwn(r),
           NEW x \in Requests, x # r, req'[x] = req[x]
    PROVE  Ready(req[x])'
<1>1. PICK q : q = req[x]
  OBVIOUS
<1>2. CASE q.at \in FreePoints
  BY <1>1, <1>2, FreeReady DEF Ready, Status
<1>3. CASE q.at \notin FreePoints
  <2>1. q.id \in Rows /\ ~Decides(r, q.id)
    BY <1>1, <1>3, PointKinds DEF Orderly, Shared
  <2>2. Status(q.id)' = Status(q.id) /\ \A p : <<q.id, p>> \in rated' <=> <<q.id, p>> \in rated
    BY <2>1 DEF WritesOwn
  <2>3. Ready(q)
    BY <1>1 DEF RequestsReady
  <2>4. Ready(q)'
    BY <2>2, <2>3 DEF Ready
  <2> QED
    BY <1>1, <2>4 DEF Ready, Status
<1> QED
  BY <1>2, <1>3

LEMMA GotoReady ==
    ASSUME Orderly, Served, OrderTable, RequestsReady, NEW r \in Requests, WritesOwn(r),
           NEW q, Goto(r, q), Ready(q)'
    PROVE  RequestsReady'
<1> SUFFICES ASSUME NEW x \in Requests PROVE Ready(req[x])'
  BY DEF RequestsReady
<1>1. req'[x] = IF x = r THEN q ELSE req[x]
  BY DEF Goto, Served
<1>2. CASE x = r
  BY <1>1, <1>2 DEF Ready, Status
<1>3. CASE x # r
  BY <1>1, <1>3, OthersReady
<1> QED
  BY <1>2, <1>3

LEMMA ReplyReady ==
    ASSUME Orderly, Served, OrderTable, RequestsReady, NEW r \in Requests, WritesOwn(r), Reply(r)
    PROVE  RequestsReady'
<1>1. Goto(r, Idle) /\ Idle.at \in FreePoints
  BY DEF Reply, Goto, Idle, FreePoints
<1>2. PICK q : q = Idle
  OBVIOUS
<1> QED
  BY <1>1, <1>2, FreeReady, GotoReady

\* A read that moves the request on.
LEMMA ReadReady ==
    ASSUME Orderly, Served, OrderTable, RequestsReady, NEW r \in Requests,
           NEW q, Goto(r, q), UNCHANGED <<order, rated>>,
           q.at \in OnOrder => q.id \in Rows, Ready(q)
    PROVE  RequestsReady'
  BY ReadsOnly, OrderSame, ReadyKept, GotoReady

LEMMA SameReady ==
    ASSUME Served, RequestsReady, StatusSame, UNCHANGED <<rated, req>>
    PROVE  RequestsReady'
<1> SUFFICES ASSUME NEW r \in Requests PROVE Ready(req[r])'
  BY DEF RequestsReady
<1>1. PICK q : q = req[r]
  OBVIOUS
<1>2. Ready(q)'
  BY <1>1, ReadyKept DEF RequestsReady, Served, RequestsRefer
<1> QED
  BY <1>1, <1>2 DEF Ready, Status

LEMMA CallbackSame ==
    ASSUME OrderTable, NEW o \in OrderIds, NEW a,
           NotificationVnpayPayment(o, a) \/ HandleVnpayPayment(o, a)
    PROVE  StatusSame
<1>1. PICK kind : Update(o, PaymentSuccess(o, kind, a)) /\ o \in Rows
  BY DEF NotificationVnpayPayment, HandleVnpayPayment
<1>2. PICK row : row = PaymentSuccess(o, kind, a)
  OBVIOUS
<1>3. /\ row.user = order[o].user /\ row.voucher = order[o].voucher /\ row.method = order[o].method
      /\ row.status = order[o].status
  BY <1>1, <1>2, RowOf DEF PaymentSuccess, OrderRow
<1>4. Steady
  BY <1>1, <1>2, <1>3, UpdateSteady
<1>5. \A x \in Rows : order'[x] = IF x = o THEN row ELSE order[x]
  BY <1>1, <1>2 DEF Update, OrderTable, Rows
<1> QED
  BY <1>3, <1>4, <1>5 DEF StatusSame, Status

LEMMA ReadyStep ==
    ASSUME Orderly, Parts, RequestsReady, [Next]_vars
    PROVE  RequestsReady'
<1>0. /\ OrderTable /\ Served
      /\ \A r \in Requests : /\ req[r] \in Request
                             /\ req[r].at \in OnOrder => req[r].id \in Rows
                             /\ Ready(req[r])
  BY DEF Parts, Served, RequestsRefer, RequestsReady
<1>1. ASSUME NEW r \in Requests, CreateOrderLookup(r) PROVE RequestsReady'
  <2>1. PICK q : Goto(r, q) /\ q.at = "Create"
    BY <1>1 DEF CreateOrderLookup
  <2>2. UNCHANGED <<order, rated>>
    BY <1>1 DEF CreateOrderLookup, tables
  <2> QED
    BY <1>0, <2>1, <2>2, ReadsOnly, FreeReady, GotoReady DEF FreePoints
<1>2. ASSUME NEW r \in Requests, NEW o \in OrderIds, UserCancelCheck(r, o) \/ AdminCancelOrder(r, o)
      PROVE  RequestsReady'
  <2>1. PICK b \in BOOLEAN : /\ Goto(r, CancelPoint("CancelRead", o, b, NullCode))
                             /\ ~b => Status(o) = "Waiting"
                             /\ o \in Rows
    BY <1>2 DEF UserCancelCheck, AdminCancelOrder, UserMayCancel, Status
  <2>2. PICK q : q = CancelPoint("CancelRead", o, b, NullCode)
    OBVIOUS
  <2>3. q.at = "CancelRead" /\ q.id = o /\ q.admin = b
    BY <2>2 DEF CancelPoint
  <2>4. Ready(q)
    BY <2>1, <2>3 DEF Ready, CancelPoints, RefundPoints
  <2>5. UNCHANGED <<order, rated>>
    BY <1>2 DEF UserCancelCheck, AdminCancelOrder, tables
  <2> QED
    BY <1>0, <2>1, <2>2, <2>3, <2>4, <2>5, ReadReady
<1>3. ASSUME NEW r \in Requests, NEW o \in OrderIds,
             ConfirmOrder(r, o) \/ ShippingOrder(r, o) \/ UnclaimOrder(r, o)
      PROVE  RequestsReady'
  <2>1. PICK to : /\ StatusCheckPassed(r, o, to) /\ o \in Rows
                  /\ \/ to = "Confirmed" /\ Status(o) = "Waiting"
                     \/ to = "Shipping"  /\ Status(o) = "Confirmed"
                     \/ to = "Unclaimed" /\ Status(o) = "Shipping"
    BY <1>3 DEF ConfirmOrder, ShippingOrder, UnclaimOrder, Confirmable, Status
  <2>2. PICK q : q = [at |-> "ChangeStatus", id |-> o, to |-> to]
    OBVIOUS
  <2>3. q.at = "ChangeStatus" /\ q.id = o /\ q.to = to
    BY <2>2
  <2>4. Ready(q)
    BY <2>1, <2>3 DEF Ready, CancelPoints, RefundPoints
  <2>5. UNCHANGED <<order, rated>> /\ Goto(r, q)
    BY <2>1, <2>2 DEF StatusCheckPassed, tables
  <2> QED
    BY <1>0, <2>1, <2>3, <2>4, <2>5, ReadReady
<1>4. ASSUME NEW r \in Requests, NEW o \in OrderIds, CompleteOrder(r, o) PROVE RequestsReady'
  <2>1. PICK q : q = [at |-> "Complete", id |-> o]
    OBVIOUS
  <2>2. q.at = "Complete" /\ q.id = o /\ o \in Rows /\ Status(o) \in {"Shipping", "Unclaimed"}
    BY <1>4, <2>1 DEF CompleteOrder, Completable, Status
  <2>3. Ready(q)
    BY <2>2 DEF Ready, CancelPoints, RefundPoints
  <2>4. UNCHANGED <<order, rated>> /\ Goto(r, q)
    BY <1>4, <2>1 DEF CompleteOrder, tables
  <2> QED
    BY <1>0, <2>2, <2>3, <2>4, ReadReady
<1>5. ASSUME NEW r \in Requests, NEW o \in OrderIds, NEW p \in Products, RatePurchasedProduct(r, o, p)
      PROVE  RequestsReady'
  <2>1. PICK q : q = [at |-> "Rate", id |-> o, product |-> p]
    OBVIOUS
  <2>2. /\ q.at = "Rate" /\ q.id = o /\ q.product = p /\ o \in Rows
        /\ Status(o) = "Completed" /\ <<o, p>> \notin rated
    BY <1>5, <2>1 DEF RatePurchasedProduct, Rateable, Status
  <2>3. Ready(q)
    BY <2>2 DEF Ready, CancelPoints, RefundPoints
  <2>4. UNCHANGED <<order, rated>> /\ Goto(r, q)
    BY <1>5, <2>1 DEF RatePurchasedProduct, tables
  <2> QED
    BY <1>0, <2>2, <2>3, <2>4, ReadReady
<1>6. ASSUME NEW r \in Requests, CancelOrderRead(r) PROVE RequestsReady'
  <2>1. PICK o : o = req[r].id
    OBVIOUS
  <2>2. /\ req[r].at = "CancelRead" /\ o \in Rows /\ UNCHANGED <<order, rated>>
        /\ ~req[r].admin => Status(o) = "Waiting"
    BY <1>0, <1>6, <2>1 DEF CancelOrderRead, OnOrder, tables, Ready, CancelPoints
  <2>3. \/ Reply(r)
        \/ /\ Status(o) \notin {"Canceled", "Completed"}
           /\ \E at \in {"CancelUnpaid", "RefundBegin"} : \E code :
                 Goto(r, CancelPoint(at, o, req[r].admin, code))
    BY <1>6, <2>1 DEF CancelOrderRead, Cancellable, Status
  <2>4. CASE Reply(r)
    BY <1>0, <2>2, <2>4, ReadsOnly, ReplyReady
  <2>5. ASSUME Status(o) \notin {"Canceled", "Completed"}, NEW at \in {"CancelUnpaid", "RefundBegin"},
               NEW code, Goto(r, CancelPoint(at, o, req[r].admin, code))
        PROVE  RequestsReady'
    <3>1. PICK q : q = CancelPoint(at, o, req[r].admin, code)
      OBVIOUS
    <3>2. q.at = at /\ q.id = o /\ q.admin = req[r].admin
      BY <3>1 DEF CancelPoint
    <3>3. Ready(q)
      BY <2>2, <2>5, <3>2 DEF Ready
    <3> QED
      BY <1>0, <2>2, <2>5, <3>1, <3>2, <3>3, ReadReady
  <2> QED
    BY <2>3, <2>4, <2>5
<1>7. ASSUME NEW r \in Requests,
             BeginRefund(r) \/ GatewayRefundAccepted(r) \/ GatewayRefundRefused(r)
      PROVE  RequestsReady'
  <2>1. PICK at \in RefundPoints : RefundAt(r, at)
    BY <1>7 DEF BeginRefund, GatewayRefundAccepted, GatewayRefundRefused, RefundPoints
  <2>2. PICK q : q = CancelPoint(at, req[r].id, req[r].admin, req[r].code)
    OBVIOUS
  <2>3. q.at = at /\ q.id = req[r].id /\ q.admin = req[r].admin /\ Goto(r, q)
    BY <2>1, <2>2 DEF CancelPoint, RefundAt
  <2>4. req[r].at \in CancelPoints \ {"CancelRead"} /\ req[r].id \in Rows
    BY <1>0, <1>7
    DEF BeginRefund, GatewayRefundAccepted, GatewayRefundRefused, CancelPoints, RefundPoints, OnOrder
  <2>5. at \in CancelPoints \ {"CancelRead"}
        /\ at \notin {"ChangeStatus", "Complete", "Rate"}
    BY DEF CancelPoints, RefundPoints
  <2>6. Ready(q)
    BY <1>0, <2>3, <2>4, <2>5 DEF Ready
  <2>7. UNCHANGED <<order, rated>>
    BY <1>7 DEF BeginRefund, GatewayRefundAccepted, GatewayRefundRefused, tables
  <2> QED
    BY <1>0, <2>3, <2>4, <2>6, <2>7, ReadReady
<1>8. ASSUME NEW r \in Requests, CancelUnpaid(r) \/ CancelPaidCommit(r) PROVE RequestsReady'
  <2>1. CancelDone(r)
    BY <1>8 DEF CancelUnpaid, CancelPaidCommit
  <2>2. PICK q : q = CancelPoint("Describe", req[r].id, TRUE, NullCode)
    OBVIOUS
  <2>3. q.at \in FreePoints
    BY <2>2 DEF CancelPoint, FreePoints
  <2>4. Goto(r, q) \/ Reply(r)
    BY <2>1, <2>2 DEF CancelDone
  <2>5. Decides(r, req[r].id) /\ req[r].id \in Rows
    BY <1>0, <1>8, PointKinds DEF CancelUnpaid, CancelPaidCommit, FreePoints
  <2>6. UNCHANGED rated /\ \E row : Update(req[r].id, row)
    BY <1>8 DEF CancelUnpaid, CancelPaidCommit
  <2>7. WritesOwn(r)
    BY <1>0, <2>5, <2>6, WritesOwnRow
  <2> QED
    BY <1>0, <2>3, <2>4, <2>7, FreeReady, GotoReady, ReplyReady
<1>9. ASSUME NEW r \in Requests, ChangeOrderStatus(r) PROVE RequestsReady'
  <2>1. PICK q : q = [at |-> "Notify", id |-> req[r].id, to |-> req[r].to]
    OBVIOUS
  <2>2. q.at \in FreePoints /\ Goto(r, q)
    BY <1>9, <2>1 DEF ChangeOrderStatus, FreePoints
  <2>3. Decides(r, req[r].id) /\ req[r].id \in Rows
    BY <1>0, <1>9, PointKinds DEF ChangeOrderStatus, FreePoints
  <2>4. UNCHANGED rated /\ \E row : Update(req[r].id, row)
    BY <1>9 DEF ChangeOrderStatus
  <2>5. WritesOwn(r)
    BY <1>0, <2>3, <2>4, WritesOwnRow
  <2> QED
    BY <1>0, <2>2, <2>5, FreeReady, GotoReady
<1>10. ASSUME NEW r \in Requests,
              \/ CreateOrderCommit(r) \/ CreateOrderReject(r) \/ DescribeCancel(r)
              \/ CreateSpecificNotification(r) \/ CompleteOrderWrite(r) \/ RatingCreate(r) \/ Fail(r)
       PROVE  RequestsReady'
  <2>1. Reply(r)
    BY <1>10 DEF CreateOrderCommit, CreateOrderReject, DescribeCancel, CreateSpecificNotification,
                 CompleteOrderWrite, RatingCreate, Fail
  <2>2. CreateOrderReject(r) \/ CreateSpecificNotification(r) \/ Fail(r) => WritesOwn(r)
    <3>1. CreateOrderReject(r) \/ CreateSpecificNotification(r) \/ Fail(r) => UNCHANGED <<order, rated>>
      BY DEF CreateOrderReject, CreateSpecificNotification, Fail, tables
    <3> QED
      BY <3>1, ReadsOnly
  <2>3. CreateOrderCommit(r) => WritesOwn(r)
    <3>1. SUFFICES ASSUME CreateOrderCommit(r) PROVE WritesOwn(r)
      OBVIOUS
    <3>2. UNCHANGED rated /\ \E new \in OrderIds \ Rows :
             order' = [o \in Rows \cup {new} |-> IF o = new THEN NewRow(req[r]) ELSE order[o]]
      BY <3>1 DEF CreateOrderCommit
    <3> QED
      BY <3>2 DEF WritesOwn, Rows, Status
  <2>4. DescribeCancel(r) => WritesOwn(r)
    <3>1. SUFFICES ASSUME DescribeCancel(r) PROVE WritesOwn(r)
      OBVIOUS
    <3>2. PICK o : o = req[r].id
      OBVIOUS
    <3>3. PICK row : row = [order[o] EXCEPT !.described = TRUE]
      OBVIOUS
    <3>4. o \in Rows /\ Update(o, row) /\ UNCHANGED rated
      BY <1>0, <3>1, <3>2, <3>3 DEF DescribeCancel, OnOrder
    <3>5. row.status = order[o].status
      BY <1>0, <3>3, <3>4, RowOf DEF OrderRow
    <3> QED
      BY <1>0, <3>4, <3>5, WritesOwnRow
  <2>5. CompleteOrderWrite(r) => WritesOwn(r)
    <3>1. SUFFICES ASSUME CompleteOrderWrite(r) PROVE WritesOwn(r)
      OBVIOUS
    <3>2. Decides(r, req[r].id) /\ req[r].id \in Rows
      BY <1>0, <3>1, PointKinds DEF CompleteOrderWrite, FreePoints
    <3>3. UNCHANGED rated /\ \E row : Update(req[r].id, row)
      BY <3>1 DEF CompleteOrderWrite
    <3> QED
      BY <1>0, <3>2, <3>3, WritesOwnRow
  <2>6. RatingCreate(r) => WritesOwn(r)
    <3>1. SUFFICES ASSUME RatingCreate(r) PROVE WritesOwn(r)
      OBVIOUS
    <3>2. Decides(r, req[r].id)
      BY <1>0, <3>1, PointKinds DEF RatingCreate, FreePoints
    <3>3. UNCHANGED order /\ rated' = rated \cup {<<req[r].id, req[r].product>>}
      BY <3>1 DEF RatingCreate
    <3> QED
      BY <3>2, <3>3 DEF WritesOwn, Rows, Status
  <2> QED
    BY <1>0, <1>10, <2>1, <2>2, <2>3, <2>4, <2>5, <2>6, ReplyReady
<1>11. ASSUME StatusSame, UNCHANGED <<rated, req>> PROVE RequestsReady'
  BY <1>0, <1>11, SameReady
<1>12. ASSUME NEW o \in OrderIds, NEW a \in 1..MaxAttempts,
              NotificationVnpayPayment(o, a) \/ HandleVnpayPayment(o, a)
       PROVE  RequestsReady'
  BY <1>0, <1>11, <1>12, CallbackSame DEF NotificationVnpayPayment, HandleVnpayPayment
<1>13. ASSUME UNCHANGED <<order, rated, req>> PROVE RequestsReady'
  BY <1>11, <1>13, OrderSame
<1>14. ASSUME NEW o \in OrderIds, NEW a \in 1..MaxAttempts, GatewayCapture(o, a) PROVE RequestsReady'
  BY <1>13, <1>14 DEF GatewayCapture, tables
<1>15. ASSUME NEW o \in OrderIds, PayOnlineOrder(o) PROVE RequestsReady'
  BY <1>13, <1>15 DEF PayOnlineOrder, tables
<1>16. ASSUME NEW p \in Products, ImportProduct(p) PROVE RequestsReady'
  BY <1>13, <1>16 DEF ImportProduct
<1>17. ASSUME NEW v \in Vouchers, CreateGeneralVoucher(v) \/ CreatePersonalVoucher(v) \/ DeleteVoucher(v)
       PROVE  RequestsReady'
  BY <1>13, <1>17 DEF CreateGeneralVoucher, CreatePersonalVoucher, DeleteVoucher
<1>18. CASE UNCHANGED vars
  BY <1>13, <1>18 DEF vars, tables
<1> QED
  BY <1>1, <1>2, <1>3, <1>4, <1>5, <1>6, <1>7, <1>8, <1>9, <1>10, <1>12, <1>14, <1>15, <1>16,
     <1>17, <1>18
  DEF Next, Start, Step

LEMMA ReadyAlways == OrderlySpec => []RequestsReady
<1>1. Init => RequestsReady
  <2> SUFFICES ASSUME Init, NEW r \in Requests PROVE Ready(req[r])
    BY DEF RequestsReady
  <2>1. req[r].at = "Idle"
    BY DEF Init, Idle
  <2> QED
    BY <2>1, FreeReady DEF FreePoints
<1>2. Typed /\ Orderly /\ RequestsReady /\ [Next]_vars => RequestsReady'
  BY TypedParts, ReadyStep
<1> QED
  BY <1>1, <1>2, TypedAlways, OrderlyAlways, PTL DEF Spec

\* A customer's own cancellation takes effect on a waiting order, as its check
\* promised, if no other request about that order comes in between.
THEOREM UserCancelSafe == OrderlySpec => UserCancelsUnconfirmed
<1>1. RequestsReady => \A r \in Requests :
          (CancelUnpaid(r) \/ CancelPaidCommit(r)) /\ ~req[r].admin => order[req[r].id].status = "Waiting"
  BY DEF RequestsReady, Ready, Status, CancelUnpaid, CancelPaidCommit, CancelPoints, RefundPoints
<1>2. RequestsReady /\ [Next]_vars =>
          [\A r \in Requests : (CancelUnpaid(r) \/ CancelPaidCommit(r)) /\ ~req[r].admin
                                   => order[req[r].id].status = "Waiting"]_vars
  BY <1>1
<1> QED
  BY <1>2, ReadyAlways, OrderlyAlways, PTL DEF Spec, UserCancelsUnconfirmed
-----------------------------------------------------------------------------
(***************************************************************************)
(* The desk implements the lifecycle: how each step looks from there.      *)
(***************************************************************************)
LegalMove(o, to) ==
    \/ to = "Confirmed" /\ Status(o) = "Waiting" /\ (Online(o) => Paid(o))
    \/ to = "Shipping"  /\ Status(o) = "Confirmed"
    \/ to = "Unclaimed" /\ Status(o) = "Shipping"
    \/ to = "Completed" /\ Status(o) \in {"Shipping", "Unclaimed"}
    \/ to = "Canceled"  /\ Status(o) \in {"Waiting", "Confirmed", "Shipping", "Unclaimed"}

\* One order moves on, nothing else the lifecycle sees does.
OrderMoves ==
    /\ Steady /\ UNCHANGED <<rated, captured>>
    /\ \E o \in Rows, to \in OrderStatus :
          /\ LegalMove(o, to)
          /\ \A x \in Rows : Status(x)' = IF x = o THEN to ELSE Status(x)

OrderPlaced ==
    /\ UNCHANGED <<rated, captured>>
    /\ \E new \in OrderIds \ Rows : \E row :
          /\ row.status = "Waiting"
          /\ order' = [o \in Rows \cup {new} |-> IF o = new THEN row ELSE order[o]]

OrderCaptured ==
    /\ UNCHANGED <<order, rated>>
    /\ \E o \in OrderIds : \E a \in 1..issued[o] : captured' = captured \cup {<<o, a>>}

OrderRated ==
    /\ UNCHANGED <<order, captured>>
    /\ \E o \in Rows, p \in Products :
          Status(o) = "Completed" /\ <<o, p>> \notin rated /\ rated' = rated \cup {<<o, p>>}

LifeUnseen == StatusSame /\ UNCHANGED <<rated, captured>>

LEMMA WrittenMoves ==
    ASSUME OrderTable, NEW o \in Rows, NEW row, Update(o, row), row.user = order[o].user,
           row.voucher = order[o].voucher, row.method = order[o].method,
           row.status \in OrderStatus, LegalMove(o, row.status), UNCHANGED <<rated, captured>>
    PROVE  OrderMoves
<1>1. Steady
  BY UpdateSteady
<1>2. \A x \in Rows : Status(x)' = IF x = o THEN row.status ELSE Status(x)
  BY DEF Update, OrderTable, Rows, Status
<1> QED
  BY <1>1, <1>2 DEF OrderMoves

LEMMA LifeStep ==
    ASSUME Parts, PaymentInv, RequestsReady, [Next]_vars
    PROVE  LifeUnseen \/ OrderMoves \/ OrderPlaced \/ OrderCaptured \/ OrderRated
<1>0. /\ OrderTable /\ Served
      /\ \A r \in Requests : /\ req[r] \in Request
                             /\ req[r].at \in OnOrder => req[r].id \in Rows
                             /\ Ready(req[r])
      /\ RequestsPaid
  BY DEF Parts, Served, RequestsRefer, RequestsReady, PaymentInv
<1>1. ASSUME UNCHANGED <<order, rated, captured>> PROVE LifeUnseen
  BY <1>1, OrderSame DEF LifeUnseen
<1>2. ASSUME NEW r \in Requests, Start(r) PROVE LifeUnseen
  <2>1. UNCHANGED <<tables, gateway>>
    BY <1>2 DEF Start, CreateOrderLookup, UserCancelCheck, AdminCancelOrder, ConfirmOrder,
              ShippingOrder, UnclaimOrder, StatusCheckPassed, CompleteOrder, RatePurchasedProduct
  <2> QED
    BY <1>1, <2>1 DEF tables, gateway
<1>3. ASSUME NEW r \in Requests,
             \/ CreateOrderReject(r) \/ CancelOrderRead(r) \/ BeginRefund(r)
             \/ GatewayRefundAccepted(r) \/ GatewayRefundRefused(r) \/ Fail(r)
      PROVE  LifeUnseen
  <2>1. UNCHANGED <<tables, captured>>
    BY <1>3 DEF CreateOrderReject, CancelOrderRead, BeginRefund, GatewayRefundAccepted,
                GatewayRefundRefused, Fail, gateway
  <2> QED
    BY <1>1, <2>1 DEF tables
<1>4. ASSUME NEW r \in Requests, CreateSpecificNotification(r) PROVE LifeUnseen
  BY <1>1, <1>4 DEF CreateSpecificNotification, gateway
<1>5. ASSUME NEW r \in Requests, CreateOrderCommit(r) PROVE OrderPlaced
  <2>1. PICK new \in OrderIds \ Rows :
           order' = [o \in Rows \cup {new} |-> IF o = new THEN NewRow(req[r]) ELSE order[o]]
    BY <1>5 DEF CreateOrderCommit
  <2>2. NewRow(req[r]).status = "Waiting"
    BY DEF NewRow
  <2> QED
    BY <1>5, <2>1, <2>2 DEF OrderPlaced, CreateOrderCommit, gateway
<1>6. ASSUME NEW r \in Requests, RatingCreate(r) PROVE OrderRated
  <2>1. /\ req[r].id \in Rows /\ req[r].product \in Products
        /\ Status(req[r].id) = "Completed" /\ <<req[r].id, req[r].product>> \notin rated
    BY <1>0, <1>6, RequestFields DEF RatingCreate, OnOrder, Ready
  <2> QED
    BY <1>6, <2>1 DEF OrderRated, RatingCreate, gateway
<1>7. ASSUME NEW r \in Requests, NEW o, o = req[r].id,
             CancelUnpaid(r) \/ CancelPaidCommit(r) \/ ChangeOrderStatus(r) \/ CompleteOrderWrite(r)
      PROVE  OrderMoves
  <2>1. o \in Rows /\ order[o] \in OrderRow /\ UNCHANGED <<rated, captured>>
    BY <1>0, <1>7, RowOf
    DEF CancelUnpaid, CancelPaidCommit, ChangeOrderStatus, CompleteOrderWrite, OnOrder, RefundPoints,
        gateway
  <2>2. Status(o) \in OrderStatus
    BY <2>1 DEF Status, OrderRow
  <2>3. CASE CancelUnpaid(r)
    <3> DEFINE row == [order[o] EXCEPT !.status = "Canceled",
                              !.pay = IF order[o].method = "COD" THEN @ ELSE "Incomplete"]
    <3>1. Update(o, row)
      BY <1>7, <2>3 DEF CancelUnpaid
    <3>2. /\ row.user = order[o].user /\ row.voucher = order[o].voucher
          /\ row.method = order[o].method /\ row.status = "Canceled"
      BY <2>1 DEF OrderRow
    <3>3. Status(o) \notin {"Canceled", "Completed"}
      BY <1>0, <1>7, <2>3 DEF CancelUnpaid, Ready, CancelPoints
    <3>4. LegalMove(o, "Canceled") /\ "Canceled" \in OrderStatus
      BY <2>2, <3>3 DEF LegalMove, OrderStatus
    <3> HIDE DEF row
    <3> QED
      BY <1>0, <2>1, <3>1, <3>2, <3>4, WrittenMoves
  <2>4. CASE CancelPaidCommit(r)
    <3> DEFINE row == [order[o] EXCEPT !.status = "Canceled", !.pay = PayAfterRefund(req[r])]
    <3>1. Update(o, row)
      BY <1>7, <2>4 DEF CancelPaidCommit
    <3>2. /\ row.user = order[o].user /\ row.voucher = order[o].voucher
          /\ row.method = order[o].method /\ row.status = "Canceled"
      BY <2>1 DEF OrderRow
    <3>3. Status(o) \notin {"Canceled", "Completed"}
      BY <1>0, <1>7, <2>4 DEF CancelPaidCommit, Ready, CancelPoints, RefundPoints
    <3>4. LegalMove(o, "Canceled") /\ "Canceled" \in OrderStatus
      BY <2>2, <3>3 DEF LegalMove, OrderStatus
    <3> HIDE DEF row
    <3> QED
      BY <1>0, <2>1, <3>1, <3>2, <3>4, WrittenMoves
  <2>5. CASE ChangeOrderStatus(r)
    <3> DEFINE row == [order[o] EXCEPT !.status = req[r].to]
    <3>1. Update(o, row)
      BY <1>7, <2>5 DEF ChangeOrderStatus
    <3>2. /\ row.user = order[o].user /\ row.voucher = order[o].voucher
          /\ row.method = order[o].method /\ row.status = req[r].to
      BY <2>1 DEF OrderRow
    <3>3. /\ \/ req[r].to = "Confirmed" /\ Status(o) = "Waiting"
             \/ req[r].to = "Shipping"  /\ Status(o) = "Confirmed"
             \/ req[r].to = "Unclaimed" /\ Status(o) = "Shipping"
          /\ Online(o) => Settled(o)
      BY <1>0, <1>7, <2>5 DEF ChangeOrderStatus, Ready, RequestsPaid, PaidPoints
    <3>4. LegalMove(o, req[r].to) /\ req[r].to \in OrderStatus
      BY <3>3 DEF LegalMove, OrderStatus, Settled
    <3> HIDE DEF row
    <3> QED
      BY <1>0, <2>1, <3>1, <3>2, <3>4, WrittenMoves
  <2>6. CASE CompleteOrderWrite(r)
    <3> DEFINE row == [order[o] EXCEPT !.status = "Completed", !.pay = "Completed"]
    <3>1. Update(o, row)
      BY <1>7, <2>6 DEF CompleteOrderWrite
    <3>2. /\ row.user = order[o].user /\ row.voucher = order[o].voucher
          /\ row.method = order[o].method /\ row.status = "Completed"
      BY <2>1 DEF OrderRow
    <3>3. Status(o) \in {"Shipping", "Unclaimed"}
      BY <1>0, <1>7, <2>6 DEF CompleteOrderWrite, Ready
    <3>4. LegalMove(o, "Completed") /\ "Completed" \in OrderStatus
      BY <3>3 DEF LegalMove, OrderStatus
    <3> HIDE DEF row
    <3> QED
      BY <1>0, <2>1, <3>1, <3>2, <3>4, WrittenMoves
  <2> QED
    BY <1>7, <2>3, <2>4, <2>5, <2>6
<1>8. ASSUME NEW r \in Requests, NEW o, o = req[r].id, DescribeCancel(r) PROVE LifeUnseen
  <2> DEFINE row == [order[o] EXCEPT !.described = TRUE]
  <2>1. o \in Rows /\ order[o] \in OrderRow /\ UNCHANGED <<rated, captured>>
    BY <1>0, <1>8, RowOf DEF DescribeCancel, OnOrder, gateway
  <2>2. Update(o, row)
    BY <1>8 DEF DescribeCancel
  <2>3. /\ row.user = order[o].user /\ row.voucher = order[o].voucher
        /\ row.method = order[o].method /\ row.status = order[o].status
    BY <2>1 DEF OrderRow
  <2> HIDE DEF row
  <2>4. Steady
    BY <1>0, <2>1, <2>2, <2>3, UpdateSteady
  <2>5. \A x \in Rows : Status(x)' = Status(x)
    BY <1>0, <2>2, <2>3 DEF Update, OrderTable, Rows, Status
  <2> QED
    BY <2>1, <2>4, <2>5 DEF LifeUnseen, StatusSame
<1>9. ASSUME NEW o \in OrderIds, NEW a \in 1..MaxAttempts,
             NotificationVnpayPayment(o, a) \/ HandleVnpayPayment(o, a)
      PROVE  LifeUnseen
  BY <1>0, <1>9, CallbackSame DEF NotificationVnpayPayment, HandleVnpayPayment, gateway, LifeUnseen
<1>10. ASSUME NEW o \in OrderIds, NEW a \in 1..MaxAttempts, GatewayCapture(o, a) PROVE OrderCaptured
  BY <1>10 DEF GatewayCapture, OrderCaptured, tables
<1>11. ASSUME NEW o \in OrderIds, PayOnlineOrder(o) PROVE LifeUnseen
  BY <1>1, <1>11 DEF PayOnlineOrder, tables
<1>12. ASSUME NEW p \in Products, ImportProduct(p) PROVE LifeUnseen
  BY <1>1, <1>12 DEF ImportProduct, gateway
<1>13. ASSUME NEW v \in Vouchers, CreateGeneralVoucher(v) \/ CreatePersonalVoucher(v) \/ DeleteVoucher(v)
       PROVE  LifeUnseen
  BY <1>1, <1>13 DEF CreateGeneralVoucher, CreatePersonalVoucher, DeleteVoucher, gateway
<1>14. CASE UNCHANGED vars
  BY <1>1, <1>14 DEF vars, tables, gateway
<1> QED
  BY <1>2, <1>3, <1>4, <1>5, <1>6, <1>7, <1>8, <1>9, <1>10, <1>11, <1>12, <1>13, <1>14
  DEF Next, Step

(***************************************************************************)
(* Only placed online orders are billed, so a payment is never one of an   *)
(* order placed later.                                                     *)
(***************************************************************************)
Billed ==
    /\ \A o \in OrderIds : issued[o] > 0 => o \in Rows /\ Online(o)
    /\ \A c \in captured : c[1] \in Rows /\ Online(c[1])

LEMMA BilledStep ==
    ASSUME Parts, Billed, [Next]_vars
    PROVE  Billed'
<1>0. OrderTable /\ Payments /\ Rows \subseteq OrderIds
  BY DEF Parts, OrderTable, Rows
<1>1. Rows \subseteq Rows' /\ \A o \in Rows : Online(o)' <=> Online(o)
  <2>1. CASE Steady
    BY <2>1 DEF Steady, Online
  <2>2. ASSUME NEW r \in Requests, CreateOrderCommit(r)
        PROVE  Rows \subseteq Rows' /\ \A o \in Rows : Online(o)' <=> Online(o)
    <3>1. PICK new \in OrderIds \ Rows :
             order' = [o \in Rows \cup {new} |-> IF o = new THEN NewRow(req[r]) ELSE order[o]]
      BY <2>2 DEF CreateOrderCommit
    <3> QED
      BY <3>1 DEF Rows, Online
  <2> QED
    BY <2>1, <2>2, SteadyStep
<1>2. CASE UNCHANGED <<issued, captured>>
  BY <1>1, <1>2 DEF Billed
<1>3. ASSUME NEW o \in OrderIds, PayOnlineOrder(o) PROVE Billed'
  <2>1. /\ o \in Rows /\ Online(o) /\ captured' = captured
        /\ \A x \in OrderIds : x # o => issued'[x] = issued[x]
    BY <1>0, <1>3 DEF PayOnlineOrder, Online, Payments
  <2> QED
    BY <1>1, <2>1 DEF Billed
<1>4. ASSUME NEW o \in OrderIds, NEW a \in 1..MaxAttempts, GatewayCapture(o, a) PROVE Billed'
  <2>1. issued[o] > 0 /\ issued' = issued /\ captured' = captured \cup {<<o, a>>}
    BY <1>0, <1>4 DEF GatewayCapture, Payments
  <2> QED
    BY <1>1, <2>1 DEF Billed
<1>5. \/ UNCHANGED <<issued, captured>>
      \/ \E o \in OrderIds : PayOnlineOrder(o) \/ \E a \in 1..MaxAttempts : GatewayCapture(o, a)
  <2>1. ASSUME NEW r \in Requests, Start(r) PROVE UNCHANGED gateway
    BY <2>1 DEF Start, CreateOrderLookup, UserCancelCheck, AdminCancelOrder, ConfirmOrder,
                ShippingOrder, UnclaimOrder, StatusCheckPassed, CompleteOrder, RatePurchasedProduct
  <2>2. ASSUME NEW r \in Requests, Step(r) PROVE UNCHANGED <<issued, captured>>
    <3>1. \/ CreateOrderCommit(r) \/ CreateOrderReject(r) \/ CancelOrderRead(r) \/ BeginRefund(r)
          \/ GatewayRefundAccepted(r) \/ GatewayRefundRefused(r)
          => UNCHANGED <<issued, captured>>
      BY DEF gateway, CreateOrderCommit, CreateOrderReject, CancelOrderRead, BeginRefund,
             GatewayRefundAccepted, GatewayRefundRefused
    <3>2. \/ CancelUnpaid(r) \/ CancelPaidCommit(r) \/ DescribeCancel(r) \/ ChangeOrderStatus(r)
          \/ CreateSpecificNotification(r) \/ CompleteOrderWrite(r) \/ RatingCreate(r)
          => UNCHANGED <<issued, captured>>
      BY DEF gateway, CancelUnpaid, CancelPaidCommit, DescribeCancel, ChangeOrderStatus,
             CreateSpecificNotification, CompleteOrderWrite, RatingCreate
    <3> QED
      BY <2>2, <3>1, <3>2 DEF Step
  <2>3. ASSUME NEW r \in Requests, Fail(r) PROVE UNCHANGED gateway
    BY <2>3 DEF Fail
  <2>4. ASSUME NEW o \in OrderIds, NEW a \in 1..MaxAttempts,
               NotificationVnpayPayment(o, a) \/ HandleVnpayPayment(o, a)
        PROVE  UNCHANGED gateway
    BY <2>4 DEF NotificationVnpayPayment, HandleVnpayPayment
  <2>5. ASSUME NEW p \in Products, ImportProduct(p) PROVE UNCHANGED gateway
    BY <2>5 DEF ImportProduct
  <2>6. ASSUME NEW v \in Vouchers, CreateGeneralVoucher(v) \/ CreatePersonalVoucher(v) \/ DeleteVoucher(v)
        PROVE  UNCHANGED gateway
    BY <2>6 DEF CreateGeneralVoucher, CreatePersonalVoucher, DeleteVoucher
  <2>7. CASE UNCHANGED vars
    BY <2>7 DEF vars, gateway
  <2> QED
    BY <2>1, <2>2, <2>3, <2>4, <2>5, <2>6, <2>7 DEF Next, gateway
<1> QED
  BY <1>2, <1>3, <1>4, <1>5

LEMMA BilledAlways == Spec => []Billed
<1>1. Init => Billed
  BY DEF Init, Billed, Rows
<1>2. Typed /\ Billed /\ [Next]_vars => Billed'
  BY TypedParts, BilledStep
<1> QED
  BY <1>1, <1>2, TypedAlways, PTL DEF Spec

(***************************************************************************)
(* What the lifecycle sees of the tables, and its steps.                   *)
(***************************************************************************)
SeenPhase   == [o \in OrderIds |-> IF o \in Rows THEN order[o].status ELSE "Unplaced"]
SeenPrepaid == {o \in Rows : order[o].method = "Online"}
SeenPaid    == {o \in Rows : Paid(o)}

LEMMA LifecycleInit == Init => Lifecycle!Init
  BY DEF Init, Lifecycle!Init, Rows

LEMMA LifecycleStep ==
    ASSUME Parts, PaymentInv, RequestsReady, Billed, [Next]_vars
    PROVE  [Lifecycle!Next]_Lifecycle!vars
<1>0. OrderTable /\ Payments /\ Rows \subseteq OrderIds
  BY DEF Parts, OrderTable, Rows
<1>1. Steady => SeenPrepaid' = SeenPrepaid
  BY DEF Steady, SeenPrepaid, Rows
<1>2. Steady /\ UNCHANGED captured => SeenPaid' = SeenPaid
  BY DEF Steady, SeenPaid, Paid
<1>3. CASE LifeUnseen
  <2>1. SeenPhase' = SeenPhase
    BY <1>3 DEF LifeUnseen, StatusSame, Steady, Status, SeenPhase
  <2> QED
    BY <1>1, <1>2, <1>3, <2>1
    DEF LifeUnseen, StatusSame, SeenPhase, SeenPrepaid, SeenPaid, Lifecycle!vars
<1>4. CASE OrderMoves
  <2>1. PICK o \in Rows, to \in OrderStatus :
              /\ LegalMove(o, to)
              /\ \A x \in Rows : Status(x)' = IF x = o THEN to ELSE Status(x)
    BY <1>4 DEF OrderMoves
  <2>2. SeenPhase[o] = Status(o) /\ SeenPhase' = [SeenPhase EXCEPT ![o] = to]
    BY <1>0, <1>4, <2>1 DEF OrderMoves, Steady, Status, SeenPhase
  <2>3. UNCHANGED <<SeenPrepaid, SeenPaid, rated>>
    BY <1>1, <1>2, <1>4 DEF OrderMoves
  <2>4. Online(o) => o \in SeenPrepaid
    BY DEF Online, SeenPrepaid
  <2>5. Paid(o) => o \in SeenPaid
    BY DEF SeenPaid
  <2>6. ASSUME NEW from, Status(o) \in from PROVE Lifecycle!Move(o, from, to)
    BY <2>2, <2>3, <2>6 DEF SeenPhase, SeenPrepaid, SeenPaid, Lifecycle!Move
  <2>7. o \in SeenPrepaid <=> Online(o)
    BY DEF Online, SeenPrepaid
  <2>8. \/ Lifecycle!Confirm(o) \/ Lifecycle!Ship(o) \/ Lifecycle!Unclaim(o)
        \/ Lifecycle!Complete(o) \/ Lifecycle!Cancel(o)
    <3>1. CASE to = "Confirmed" /\ Status(o) = "Waiting" /\ (Online(o) => Paid(o))
      <4>1. Lifecycle!Move(o, {"Waiting"}, "Confirmed")
        BY <2>6, <3>1
      <4>2. o \in SeenPrepaid => o \in SeenPaid
        BY <2>5, <2>7, <3>1
      <4> QED
        BY <4>1, <4>2 DEF Lifecycle!Confirm, SeenPrepaid, SeenPaid
    <3>2. CASE to = "Shipping" /\ Status(o) = "Confirmed"
      BY <2>6, <3>2 DEF Lifecycle!Ship
    <3>3. CASE to = "Unclaimed" /\ Status(o) = "Shipping"
      BY <2>6, <3>3 DEF Lifecycle!Unclaim
    <3>4. CASE to = "Completed" /\ Status(o) \in {"Shipping", "Unclaimed"}
      BY <2>6, <3>4 DEF Lifecycle!Complete
    <3>5. CASE to = "Canceled" /\ Status(o) \in {"Waiting", "Confirmed", "Shipping", "Unclaimed"}
      BY <2>6, <3>5 DEF Lifecycle!Cancel
    <3> QED
      BY <2>1, <3>1, <3>2, <3>3, <3>4, <3>5 DEF LegalMove
  <2> QED
    BY <1>0, <2>8 DEF Lifecycle!Next
<1>5. CASE OrderPlaced
  <2>0. PICK new \in OrderIds \ Rows : \E row :
              /\ row.status = "Waiting"
              /\ order' = [o \in Rows \cup {new} |-> IF o = new THEN row ELSE order[o]]
    BY <1>5 DEF OrderPlaced
  <2>1. PICK row :
              /\ row.status = "Waiting"
              /\ order' = [o \in Rows \cup {new} |-> IF o = new THEN row ELSE order[o]]
    BY <2>0
  <2>2. Rows' = Rows \cup {new} /\ order'[new] = row /\ \A o \in Rows : order'[o] = order[o]
    BY <2>1 DEF Rows
  <2>3. SeenPhase[new] = "Unplaced" /\ SeenPhase' = [SeenPhase EXCEPT ![new] = "Waiting"]
    BY <2>1, <2>2 DEF SeenPhase
  <2>4. SeenPrepaid' \in {SeenPrepaid, SeenPrepaid \cup {new}}
    <3>1. CASE row.method = "Online"
      BY <2>2, <3>1 DEF SeenPrepaid
    <3>2. CASE row.method # "Online"
      BY <2>1, <2>2, <3>2 DEF SeenPrepaid
    <3> QED
      BY <3>1, <3>2
  <2>5. SeenPaid' = SeenPaid
    <3>1. captured' = captured /\ ~Paid(new)
      BY <1>5, <2>1 DEF OrderPlaced, Billed, Paid
    <3> QED
      BY <2>2, <3>1 DEF SeenPaid, Paid
  <2>6. Lifecycle!Place(new)
    BY <1>5, <2>3, <2>4, <2>5 DEF OrderPlaced, SeenPhase, SeenPrepaid, SeenPaid, Lifecycle!Place
  <2> QED
    BY <2>6 DEF Lifecycle!Next
<1>6. CASE OrderCaptured
  <2>0. PICK o \in OrderIds : \E a \in 1..issued[o] : captured' = captured \cup {<<o, a>>}
    BY <1>6 DEF OrderCaptured
  <2>1. PICK a \in 1..issued[o] : captured' = captured \cup {<<o, a>>}
    BY <2>0
  <2>2. UNCHANGED <<order, rated>>
    BY <1>6 DEF OrderCaptured
  <2>3. issued[o] \in 0..MaxAttempts
    BY <1>0 DEF Payments
  <2>4. a \in 1..MaxAttempts /\ issued[o] > 0
    BY <2>1, <2>3
  <2>5. o \in Rows /\ o \in SeenPrepaid
    BY <2>4 DEF Billed, Online, SeenPrepaid
  <2>6. SeenPaid' = SeenPaid \cup {o}
    <3>1. \A x \in Rows : Paid(x)' <=> Paid(x) \/ x = o
      BY <2>1, <2>4 DEF Paid
    <3>2. Rows' = Rows
      BY <2>2 DEF Rows
    <3> QED
      BY <2>5, <3>1, <3>2 DEF SeenPaid
  <2>7. UNCHANGED <<SeenPhase, SeenPrepaid>>
    BY <2>2 DEF SeenPhase, SeenPrepaid, Rows
  <2>8. Lifecycle!Pay(o)
    BY <2>2, <2>5, <2>6, <2>7 DEF SeenPhase, SeenPrepaid, SeenPaid, Lifecycle!Pay
  <2> QED
    BY <2>8 DEF Lifecycle!Next
<1>7. CASE OrderRated
  <2>1. PICK o \in Rows, p \in Products :
              Status(o) = "Completed" /\ <<o, p>> \notin rated /\ rated' = rated \cup {<<o, p>>}
    BY <1>7 DEF OrderRated
  <2>2. UNCHANGED <<SeenPhase, SeenPrepaid, SeenPaid>> /\ SeenPhase[o] = Status(o)
    BY <1>0, <1>7 DEF OrderRated, SeenPhase, SeenPrepaid, SeenPaid, Rows, Paid, Status
  <2>3. Lifecycle!Review(o, p)
    BY <2>1, <2>2 DEF SeenPhase, SeenPrepaid, SeenPaid, Lifecycle!Review
  <2> QED
    BY <1>0, <2>3 DEF Lifecycle!Next
<1> QED
  BY <1>3, <1>4, <1>5, <1>6, <1>7, LifeStep

\* With one request at a time for each order, the desk implements the lifecycle
\* of its orders: for every number of orders, customers, requests under way,
\* payments, late callbacks and failures.
THEOREM LifecycleImplemented == OrderlySpec => LifecycleSpec
<1>1. Typed /\ PaymentInv /\ RequestsReady /\ Billed /\ [Next]_vars => [Lifecycle!Next]_Lifecycle!vars
  BY TypedParts, LifecycleStep
<1> QED
  BY <1>1, LifecycleInit, TypedAlways, PaymentAlways, ReadyAlways, BilledAlways, OrderlyAlways, PTL
  DEF Spec, LifecycleSpec, Lifecycle!Spec

(***************************************************************************)
(* What follows from the lifecycle holds of the desk.                      *)
(***************************************************************************)
Phased == SeenPhase \in [OrderIds -> Lifecycle!Phase]

LEMMA PhasedType == Parts => Phased
<1> SUFFICES ASSUME Parts PROVE Phased
  OBVIOUS
<1>1. \A o \in Rows : order[o].status \in OrderStatus
  BY DEF Parts, OrderTable, OrderRow, Rows
<1>2. OrderStatus \subseteq Lifecycle!Phase /\ "Unplaced" \in Lifecycle!Phase
  BY DEF OrderStatus, Lifecycle!Phase
<1> QED
  BY <1>1, <1>2 DEF Phased, SeenPhase

Higher(from, to) == Lifecycle!Rank[to] > Lifecycle!Rank[from]
ForwardStep == \A x \in OrderIds : SeenPhase'[x] = SeenPhase[x] \/ Higher(SeenPhase[x], SeenPhase'[x])

LEMMA MoveForward ==
    ASSUME Phased, NEW o \in OrderIds, NEW to, SeenPhase' = [SeenPhase EXCEPT ![o] = to],
           Higher(SeenPhase[o], to)
    PROVE  ForwardStep
  BY DEF Phased, ForwardStep

LEMMA LifecycleForward ==
    ASSUME Phased, [Lifecycle!Next]_Lifecycle!vars
    PROVE  ForwardStep
<1>0. /\ \A from \in Lifecycle!Phase \ {"Completed", "Canceled"}, to \in {"Completed", "Canceled"} :
            Higher(from, to)
      /\ Higher("Unplaced", "Waiting") /\ Higher("Waiting", "Confirmed")
      /\ Higher("Confirmed", "Shipping") /\ Higher("Shipping", "Unclaimed")
  BY DEF Higher, Lifecycle!Rank, Lifecycle!Phase
<1>1. CASE UNCHANGED Lifecycle!vars
  BY <1>1 DEF Lifecycle!vars, SeenPhase, ForwardStep
<1>2. CASE Lifecycle!Next
  <2>1. PICK o \in OrderIds :
          \/ Lifecycle!Place(o) \/ Lifecycle!Pay(o)
          \/ Lifecycle!Confirm(o) \/ Lifecycle!Ship(o) \/ Lifecycle!Unclaim(o)
          \/ Lifecycle!Complete(o) \/ Lifecycle!Cancel(o)
          \/ \E p \in Products : Lifecycle!Review(o, p)
    BY <1>2 DEF Lifecycle!Next
  <2>2. CASE Lifecycle!Place(o)
    BY <1>0, <2>2, MoveForward DEF Lifecycle!Place, SeenPhase
  <2>3. CASE Lifecycle!Pay(o) \/ \E p \in Products : Lifecycle!Review(o, p)
    BY <2>3 DEF Lifecycle!Pay, Lifecycle!Review, SeenPhase, ForwardStep
  <2>4. CASE Lifecycle!Confirm(o)
    BY <1>0, <2>4, MoveForward DEF Lifecycle!Confirm, Lifecycle!Move, SeenPhase
  <2>5. CASE Lifecycle!Ship(o)
    BY <1>0, <2>5, MoveForward DEF Lifecycle!Ship, Lifecycle!Move, SeenPhase
  <2>6. CASE Lifecycle!Unclaim(o)
    BY <1>0, <2>6, MoveForward DEF Lifecycle!Unclaim, Lifecycle!Move, SeenPhase
  <2>7. CASE Lifecycle!Complete(o)
    BY <1>0, <2>7, MoveForward DEF Lifecycle!Complete, Lifecycle!Move, SeenPhase, Lifecycle!Phase
  <2>8. CASE Lifecycle!Cancel(o)
    BY <1>0, <2>8, MoveForward DEF Lifecycle!Cancel, Lifecycle!Move, SeenPhase, Lifecycle!Phase
  <2> QED
    BY <2>1, <2>2, <2>3, <2>4, <2>5, <2>6, <2>7, <2>8
<1> QED
  BY <1>1, <1>2

LEMMA LifecycleReviews ==
    ASSUME Phased, rated \subseteq OrderIds \X Products, Lifecycle!ReviewedIsCompleted,
           Phased', [Lifecycle!Next]_Lifecycle!vars
    PROVE  Lifecycle!ReviewedIsCompleted'
<1>1. ForwardStep
  BY LifecycleForward
<1>2. \A x \in OrderIds : SeenPhase[x] = "Completed" => SeenPhase'[x] = "Completed"
  <2> SUFFICES ASSUME NEW x \in OrderIds, SeenPhase[x] = "Completed", SeenPhase'[x] # "Completed"
               PROVE  FALSE
    OBVIOUS
  <2>1. SeenPhase'[x] \in Lifecycle!Phase
    BY DEF Phased
  <2>2. Higher("Completed", SeenPhase'[x])
    BY <1>1 DEF ForwardStep
  <2> QED
    BY <2>1, <2>2 DEF Higher, Lifecycle!Rank, Lifecycle!Phase
<1>3. rated' = rated \/ \E o \in OrderIds, p \in Products :
                            SeenPhase[o] = "Completed" /\ rated' = rated \cup {<<o, p>>}
  BY DEF Lifecycle!Next, Lifecycle!vars, Lifecycle!Review, Lifecycle!Place, Lifecycle!Pay,
         Lifecycle!Confirm, Lifecycle!Ship, Lifecycle!Unclaim, Lifecycle!Complete, Lifecycle!Cancel,
         Lifecycle!Move, SeenPhase
<1> QED
  <2>1. (Lifecycle!ReviewedIsCompleted <=> \A t \in rated : SeenPhase[t[1]] = "Completed")
    BY DEF Lifecycle!ReviewedIsCompleted, SeenPhase
  <2>2. (Lifecycle!ReviewedIsCompleted' <=> \A t \in rated' : SeenPhase'[t[1]] = "Completed")
    BY DEF Lifecycle!ReviewedIsCompleted, SeenPhase
  <2>3. \A t \in rated : t[1] \in OrderIds
    OBVIOUS
  <2>4. \A t \in rated : SeenPhase'[t[1]] = "Completed"
    BY <1>2, <2>1, <2>3
  <2>5. CASE rated' = rated
    BY <2>2, <2>4, <2>5
  <2>6. ASSUME NEW o \in OrderIds, NEW p \in Products, SeenPhase[o] = "Completed",
               rated' = rated \cup {<<o, p>>}
        PROVE  \A t \in rated' : SeenPhase'[t[1]] = "Completed"
    BY <1>2, <2>4, <2>6
  <2> QED
    BY <1>3, <2>2, <2>5, <2>6

\* With one request at a time for each order, what the lifecycle entails holds
\* of the desk: a review is always of a Completed order, and no request,
\* however late, puts an order back into a state it has left or touches a
\* finished one.
THEOREM OrdersOnlyForward ==
    OrderlySpec => []Lifecycle!ReviewedIsCompleted /\ Lifecycle!OnlyForward
<1>1. Init => Lifecycle!ReviewedIsCompleted
  BY DEF Init, Lifecycle!ReviewedIsCompleted
<1>2. Parts => Phased /\ rated \subseteq OrderIds \X Products
  BY PhasedType DEF Parts, Marks
<1>3. Parts' => Phased'
  BY PhasedType, PTL
<1>4. Parts /\ Parts' /\ Lifecycle!ReviewedIsCompleted /\ [Lifecycle!Next]_Lifecycle!vars
      => Lifecycle!ReviewedIsCompleted'
  BY <1>2, <1>3, LifecycleReviews
<1>5. Parts /\ [Lifecycle!Next]_Lifecycle!vars => [Lifecycle!Forward]_Lifecycle!vars
  BY <1>2, LifecycleForward DEF ForwardStep, Higher, SeenPhase, Lifecycle!Forward
<1>6. OrderlySpec => []Parts
  BY TypedAlways, TypedParts, OrderlyAlways, PTL
<1> QED
  BY <1>1, <1>4, <1>5, <1>6, LifecycleImplemented, OrderlyAlways, PTL
  DEF Spec, LifecycleSpec, Lifecycle!Spec, Lifecycle!OnlyForward
-----------------------------------------------------------------------------
(***************************************************************************)
(* One request at a time for each order: money that went back belongs to a *)
(* canceled order.                                                         *)
(***************************************************************************)

\* No step takes an order out of Canceled.
LEMMA CanceledStays ==
    ASSUME Parts, PaymentInv, RequestsReady, [Next]_vars
    PROVE  Rows \subseteq Rows' /\ \A o \in Rows : Status(o) = "Canceled" => Status(o)' = "Canceled"
<1>1. CASE LifeUnseen
  BY <1>1 DEF LifeUnseen, StatusSame, Steady
<1>2. CASE OrderMoves
  <2>1. PICK o \in Rows, to \in OrderStatus :
              /\ LegalMove(o, to)
              /\ \A x \in Rows : Status(x)' = IF x = o THEN to ELSE Status(x)
    BY <1>2 DEF OrderMoves
  <2>2. Status(o) # "Canceled"
    BY <2>1 DEF LegalMove
  <2> QED
    BY <1>2, <2>1, <2>2 DEF OrderMoves, Steady
<1>3. CASE OrderPlaced
  BY <1>3 DEF OrderPlaced, Rows, Status
<1>4. CASE OrderCaptured \/ OrderRated
  BY <1>4 DEF OrderCaptured, OrderRated, Rows, Status
<1> QED
  BY <1>1, <1>2, <1>3, <1>4, LifeStep

\* Where the first call of a request, and each later one, takes it.
LEMMA StartMoves ==
    ASSUME NEW r \in Requests, Start(r)
    PROVE  /\ req[r] = Idle /\ UNCHANGED <<tables, gateway, failures>>
           /\ CreateOrderLookup(r) \/ \E q : Goto(r, q) /\ q.at # "Create"
<1>1. ASSUME NEW o \in OrderIds, UserCancelCheck(r, o) \/ AdminCancelOrder(r, o)
      PROVE  /\ req[r] = Idle /\ UNCHANGED <<tables, gateway, failures>>
             /\ \E q : Goto(r, q) /\ q.at # "Create"
  BY <1>1 DEF UserCancelCheck, AdminCancelOrder, CancelPoint
<1>2. ASSUME NEW o \in OrderIds, NEW to, StatusCheckPassed(r, o, to)
      PROVE  /\ req[r] = Idle /\ UNCHANGED <<tables, gateway, failures>>
             /\ \E q : Goto(r, q) /\ q.at # "Create"
  BY <1>2 DEF StatusCheckPassed
<1>3. ASSUME NEW o \in OrderIds, CompleteOrder(r, o)
      PROVE  /\ req[r] = Idle /\ UNCHANGED <<tables, gateway, failures>>
             /\ \E q : Goto(r, q) /\ q.at # "Create"
  BY <1>3 DEF CompleteOrder
<1>4. ASSUME NEW o \in OrderIds, NEW p \in Products, RatePurchasedProduct(r, o, p)
      PROVE  /\ req[r] = Idle /\ UNCHANGED <<tables, gateway, failures>>
             /\ \E q : Goto(r, q) /\ q.at # "Create"
  BY <1>4 DEF RatePurchasedProduct
<1>5. CreateOrderLookup(r) => req[r] = Idle /\ UNCHANGED <<tables, gateway, failures>>
  BY DEF CreateOrderLookup
<1> QED
  BY <1>1, <1>2, <1>3, <1>4, <1>5 DEF Start, ConfirmOrder, ShippingOrder, UnclaimOrder

LEMMA StepMoves ==
    ASSUME NEW r \in Requests, Step(r) \/ Fail(r)
    PROVE  \E q : Goto(r, q) /\ q.at # "Create"
<1>1. CreateOrderCommit(r) \/ CreateOrderReject(r) \/ DescribeCancel(r) \/ CompleteOrderWrite(r)
      \/ CreateSpecificNotification(r) \/ RatingCreate(r) \/ Fail(r) => Reply(r)
  BY DEF CreateOrderCommit, CreateOrderReject, DescribeCancel, CompleteOrderWrite,
         CreateSpecificNotification, RatingCreate, Fail
<1>2. CancelOrderRead(r) => Reply(r) \/ \E q : Goto(r, q) /\ q.at # "Create"
  BY DEF CancelOrderRead, CancelPoint
<1>3. CancelUnpaid(r) \/ CancelPaidCommit(r) => Reply(r) \/ \E q : Goto(r, q) /\ q.at # "Create"
  BY DEF CancelUnpaid, CancelPaidCommit, CancelDone, CancelPoint
<1>4. BeginRefund(r) \/ GatewayRefundAccepted(r) \/ GatewayRefundRefused(r)
      => \E q : Goto(r, q) /\ q.at # "Create"
  BY DEF BeginRefund, GatewayRefundAccepted, GatewayRefundRefused, RefundAt, CancelPoint
<1>5. ChangeOrderStatus(r) => \E q : Goto(r, q) /\ q.at # "Create"
  BY DEF ChangeOrderStatus
<1>6. Reply(r) => \E q : Goto(r, q) /\ q.at # "Create"
  <2>1. Idle.at # "Create" /\ (Reply(r) => Goto(r, Idle))
    BY DEF Idle, Reply, Goto
  <2> QED
    BY <2>1
<1> QED
  BY <1>1, <1>2, <1>3, <1>4, <1>5, <1>6 DEF Step

\* The other steps are not a request's.
LEMMA NoRequestMoves ==
    ASSUME [Next]_vars
    PROVE  req' = req \/ \E r \in Requests : Start(r) \/ Step(r) \/ Fail(r)
<1>1. ASSUME NEW o \in OrderIds, NEW a \in 1..MaxAttempts,
             GatewayCapture(o, a) \/ NotificationVnpayPayment(o, a) \/ HandleVnpayPayment(o, a)
      PROVE  req' = req
  BY <1>1 DEF GatewayCapture, NotificationVnpayPayment, HandleVnpayPayment
<1>2. ASSUME NEW o \in OrderIds, PayOnlineOrder(o) PROVE req' = req
  BY <1>2 DEF PayOnlineOrder
<1>3. ASSUME NEW p \in Products, ImportProduct(p) PROVE req' = req
  BY <1>3 DEF ImportProduct
<1>4. ASSUME NEW v \in Vouchers, CreateGeneralVoucher(v) \/ CreatePersonalVoucher(v) \/ DeleteVoucher(v)
      PROVE  req' = req
  BY <1>4 DEF CreateGeneralVoucher, CreatePersonalVoucher, DeleteVoucher
<1>5. CASE UNCHANGED vars
  BY <1>5 DEF vars
<1> QED
  BY <1>1, <1>2, <1>3, <1>4, <1>5 DEF Next

\* Only the gateway gives money back, and a request whose refund was accepted
\* goes on to commit it or dies.
LEMMA RefundPath ==
    ASSUME Served, [Next]_vars
    PROVE  \/ \E r \in Requests : GatewayRefundAccepted(r) \/ CancelPaidCommit(r) \/ Fail(r)
           \/ /\ UNCHANGED <<refunded, failures>>
              /\ \A x \in Requests : req[x].at = "RefundAccepted" => req'[x] = req[x]
<1>1. ASSUME NEW r \in Requests, NEW q, Goto(r, q), req[r].at # "RefundAccepted"
      PROVE  \A x \in Requests : req[x].at = "RefundAccepted" => req'[x] = req[x]
  BY <1>1 DEF Goto, Served
<1>2. ASSUME NEW r \in Requests, Start(r)
      PROVE  UNCHANGED <<refunded, failures>> /\ req[r].at # "RefundAccepted" /\ \E q : Goto(r, q)
  <2>1. CreateOrderLookup(r) => \E q : Goto(r, q)
    BY DEF CreateOrderLookup
  <2> QED
    BY <1>2, <2>1, StartMoves DEF gateway, Idle
<1>3. ASSUME NEW r \in Requests, Step(r)
      PROVE  \/ GatewayRefundAccepted(r) \/ CancelPaidCommit(r)
             \/ /\ UNCHANGED <<refunded, failures>>
                /\ req[r].at # "RefundAccepted"
                /\ \E q : Goto(r, q)
  <2>1. \/ CreateOrderCommit(r) \/ CreateOrderReject(r) \/ CancelOrderRead(r) \/ BeginRefund(r)
        \/ GatewayRefundRefused(r)
        => UNCHANGED <<refunded, failures>> /\ req[r].at # "RefundAccepted"
    BY DEF gateway, CreateOrderCommit, CreateOrderReject, CancelOrderRead, BeginRefund,
           GatewayRefundRefused
  <2>2. \/ CancelUnpaid(r) \/ DescribeCancel(r) \/ ChangeOrderStatus(r)
        \/ CreateSpecificNotification(r) \/ CompleteOrderWrite(r) \/ RatingCreate(r)
        => UNCHANGED <<refunded, failures>> /\ req[r].at # "RefundAccepted"
    BY DEF gateway, CancelUnpaid, DescribeCancel, ChangeOrderStatus,
           CreateSpecificNotification, CompleteOrderWrite, RatingCreate
  <2> QED
    BY <1>3, <2>1, <2>2, StepMoves DEF Step
<1>4. ASSUME NEW o \in OrderIds, NEW a \in 1..MaxAttempts,
             GatewayCapture(o, a) \/ NotificationVnpayPayment(o, a) \/ HandleVnpayPayment(o, a)
      PROVE  UNCHANGED <<refunded, failures, req>>
  BY <1>4 DEF GatewayCapture, NotificationVnpayPayment, HandleVnpayPayment, gateway
<1>5. ASSUME NEW o \in OrderIds, PayOnlineOrder(o) PROVE UNCHANGED <<refunded, failures, req>>
  BY <1>5 DEF PayOnlineOrder
<1>6. ASSUME NEW p \in Products, ImportProduct(p) PROVE UNCHANGED <<refunded, failures, req>>
  BY <1>6 DEF ImportProduct, gateway
<1>7. ASSUME NEW v \in Vouchers, CreateGeneralVoucher(v) \/ CreatePersonalVoucher(v) \/ DeleteVoucher(v)
      PROVE  UNCHANGED <<refunded, failures, req>>
  BY <1>7 DEF CreateGeneralVoucher, CreatePersonalVoucher, DeleteVoucher, gateway
<1>8. CASE UNCHANGED vars
  BY <1>8 DEF vars, gateway
<1> QED
  BY <1>1, <1>2, <1>3, <1>4, <1>5, <1>6, <1>7, <1>8 DEF Next

LEMMA RefundStep ==
    ASSUME Parts, PaymentInv, RequestsReady, Billed, RefundedOrderIsCanceled, [Next]_vars
    PROVE  RefundedOrderIsCanceled'
<1>0. Payments /\ Served /\ OrderTable
  BY DEF Parts
<1>1. \A txn \in refunded : txn[1] \in Rows
  BY <1>0 DEF Payments, Billed
<1>2. ASSUME NEW txn \in refunded, order[txn[1]].status = "Canceled"
      PROVE  order'[txn[1]].status = "Canceled"
  BY <1>1, <1>2, CanceledStays DEF Status
<1>3. ASSUME NEW r \in Requests, GatewayRefundAccepted(r) PROVE RefundedOrderIsCanceled'
  <2>1. PICK txn \in RefundReference(req[r]) : refunded' = refunded \cup {txn}
    BY <1>3 DEF GatewayRefundAccepted
  <2>2. txn[1] = req[r].id
    BY <2>1 DEF RefundReference
  <2>3. req'[r].at = "RefundAccepted" /\ req'[r].id = req[r].id /\ failures' = failures
    BY <1>0, <1>3 DEF GatewayRefundAccepted, RefundAt, Goto, CancelPoint, Served
  <2>4. \A x \in Requests : req[x].at = "RefundAccepted" => req'[x] = req[x]
    BY <1>0, <1>3 DEF GatewayRefundAccepted, RefundAt, Goto, Served
  <2> QED
    BY <1>2, <2>1, <2>2, <2>3, <2>4 DEF RefundedOrderIsCanceled
<1>4. ASSUME NEW r \in Requests, CancelPaidCommit(r) PROVE RefundedOrderIsCanceled'
  <2>1. PICK o : o = req[r].id
    OBVIOUS
  <2>2. /\ o \in Rows /\ UNCHANGED <<refunded, failures>>
        /\ Update(o, [order[o] EXCEPT !.status = "Canceled", !.pay = PayAfterRefund(req[r])])
    BY <1>0, <1>4, <2>1
    DEF CancelPaidCommit, gateway, Served, RequestsRefer, OnOrder, RefundPoints
  <2>3. order'[o].status = "Canceled"
    <3>1. order[o] \in OrderRow
      BY <1>0, <2>2, RowOf
    <3>2. order'[o] = [order[o] EXCEPT !.status = "Canceled", !.pay = PayAfterRefund(req[r])]
      BY <1>0, <2>2 DEF Update, OrderTable, Rows
    <3> QED
      BY <3>1, <3>2 DEF OrderRow
  <2>4. \A x \in Requests \ {r} : req'[x] = req[x]
    BY <1>0, <1>4 DEF CancelPaidCommit, CancelDone, Goto, Reply, Served
  <2> QED
    BY <1>2, <2>1, <2>2, <2>3, <2>4 DEF RefundedOrderIsCanceled
<1>5. ASSUME NEW r \in Requests, Fail(r) PROVE RefundedOrderIsCanceled'
  <2>1. failures' # 0
    BY <1>0, <1>5 DEF Fail, Served
  <2> QED
    BY <2>1 DEF RefundedOrderIsCanceled
<1>6. CASE /\ UNCHANGED <<refunded, failures>>
           /\ \A x \in Requests : req[x].at = "RefundAccepted" => req'[x] = req[x]
  BY <1>2, <1>6 DEF RefundedOrderIsCanceled
<1> QED
  BY <1>0, <1>3, <1>4, <1>5, <1>6, RefundPath

\* With one request at a time for each order and none dying, an order whose
\* money went back is canceled or its refunding transaction is about to commit.
THEOREM RefundCancels == OrderlySpec => []RefundedOrderIsCanceled
<1>1. Init => RefundedOrderIsCanceled
  BY DEF Init, RefundedOrderIsCanceled
<1>2. /\ Typed /\ PaymentInv /\ RequestsReady /\ Billed /\ RefundedOrderIsCanceled /\ [Next]_vars
      => RefundedOrderIsCanceled'
  BY TypedParts, RefundStep
<1> QED
  BY <1>1, <1>2, TypedAlways, PaymentAlways, ReadyAlways, BilledAlways, OrderlyAlways, PTL DEF Spec
-----------------------------------------------------------------------------
(***************************************************************************)
(* One request at a time spending a voucher: what the lookup of            *)
(* createOrder found of it is true when the transaction spends it, if it   *)
(* is still there.                                                         *)
(***************************************************************************)
Spendable(q) ==
    q.at = "Create" /\ q.voucher # NoVoucher =>
        /\ voucher[q.voucher].type # "None"
        /\ VoucherExists(q.voucher) => UsableVoucher(q.voucher, q.user)

RequestsSpendable == \A r \in Requests : Spendable(req[r])

LEMMA SpendableSame ==
    ASSUME NEW q, Spendable(q),
           q.at = "Create" /\ q.voucher # NoVoucher =>
               voucher'[q.voucher] = voucher[q.voucher] /\ userVoucher'[q.voucher] = userVoucher[q.voucher]
    PROVE  Spendable(q)'
  BY DEF Spendable, VoucherExists, UsableVoucher

\* While the voucher tables stay the same, only a lookup spends on.
LEMMA SpendableKept ==
    ASSUME Served, RequestsSpendable, UNCHANGED <<voucher, userVoucher>>, [Next]_vars
    PROVE  RequestsSpendable'
<1>1. ASSUME NEW q, Spendable(q) PROVE Spendable(q)'
  BY <1>1, SpendableSame
<1>2. ASSUME NEW r \in Requests, NEW q, Goto(r, q), Spendable(q)' PROVE RequestsSpendable'
  <2> SUFFICES ASSUME NEW x \in Requests PROVE Spendable(req[x])'
    BY DEF RequestsSpendable
  <2>1. PICK old : old = req[x]
    OBVIOUS
  <2>2. req'[x] = IF x = r THEN q ELSE old
    BY <1>2, <2>1 DEF Goto, Served
  <2>3. Spendable(old)'
    BY <1>1, <2>1 DEF RequestsSpendable
  <2> QED
    BY <1>2, <2>2, <2>3 DEF Spendable, VoucherExists, UsableVoucher
<1>3. CASE req' = req
  <2> SUFFICES ASSUME NEW x \in Requests PROVE Spendable(req[x])'
    BY DEF RequestsSpendable
  <2>1. PICK old : old = req[x]
    OBVIOUS
  <2>2. Spendable(old)'
    BY <1>1, <2>1 DEF RequestsSpendable
  <2> QED
    BY <1>3, <2>1, <2>2 DEF Spendable, VoucherExists, UsableVoucher
<1>4. ASSUME NEW r \in Requests, NEW q, Goto(r, q), q.at # "Create" PROVE RequestsSpendable'
  BY <1>2, <1>4 DEF Spendable
<1>5. ASSUME NEW r \in Requests, CreateOrderLookup(r) PROVE RequestsSpendable'
  <2>1. PICK u \in Users, b \in Basket, m \in Methods, v \in Vouchers \cup {NoVoucher} :
             /\ v # NoVoucher => UsableVoucher(v, u)
             /\ Goto(r, [at |-> "Create", user |-> u, items |-> b, voucher |-> v, method |-> m])
    BY <1>5 DEF CreateOrderLookup
  <2>2. PICK q : q = [at |-> "Create", user |-> u, items |-> b, voucher |-> v, method |-> m]
    OBVIOUS
  <2>3. v # NoVoucher => voucher[v].type # "None"
    BY <2>1 DEF UsableVoucher
  <2>4. Spendable(q)
    BY <2>1, <2>2, <2>3 DEF Spendable
  <2> QED
    BY <1>1, <1>2, <2>1, <2>2, <2>4
<1> QED
  BY <1>3, <1>4, <1>5, NoRequestMoves, StartMoves, StepMoves

LEMMA SpendableStep ==
    ASSUME Orderly, Parts, RequestsSpendable, [Next]_vars
    PROVE  RequestsSpendable'
<1>0. Served /\ VoucherTables
  BY DEF Parts
<1>1. ASSUME NEW r \in Requests, CreateOrderCommit(r) PROVE RequestsSpendable'
  <2> SUFFICES ASSUME NEW x \in Requests PROVE Spendable(req[x])'
    BY DEF RequestsSpendable
  <2>1. CASE x = r
    <3>1. req'[x].at = "Idle"
      BY <1>0, <1>1, <2>1 DEF CreateOrderCommit, Reply, Goto, Idle, Served
    <3> QED
      BY <3>1 DEF Spendable
  <2>2. CASE x # r
    <3>1. PICK q : q = req[x]
      OBVIOUS
    <3>2. req'[x] = q
      BY <1>0, <1>1, <2>2, <3>1 DEF CreateOrderCommit, Reply, Goto, Served
    <3>3. q.at = "Create" /\ q.voucher # NoVoucher => q.voucher \in Vouchers
      BY <1>0, <3>1, RequestFields DEF Served
    <3>4. req[r].at = "Create"
      BY <1>1 DEF CreateOrderCommit
    <3>5. q.at = "Create" /\ q.voucher # NoVoucher => q.voucher # req[r].voucher
      BY <2>2, <3>1, <3>3, <3>4 DEF Orderly, Spends
    <3>6. \/ UNCHANGED <<voucher, userVoucher>>
          \/ UseVoucher(req[r].voucher, req[r].user)
      BY <1>1 DEF CreateOrderCommit
    <3>7. q.at = "Create" /\ q.voucher # NoVoucher =>
              voucher'[q.voucher] = voucher[q.voucher] /\ userVoucher'[q.voucher] = userVoucher[q.voucher]
      BY <1>0, <3>3, <3>5, <3>6 DEF UseVoucher, Charged, VoucherTables
    <3>8. Spendable(q)
      BY <3>1 DEF RequestsSpendable
    <3>9. Spendable(q)'
      BY <3>7, <3>8, SpendableSame
    <3> QED
      BY <3>2, <3>9 DEF Spendable, VoucherExists, UsableVoucher
  <2> QED
    BY <2>1, <2>2
<1>2. ASSUME NEW v \in Vouchers,
             CreateGeneralVoucher(v) \/ CreatePersonalVoucher(v) \/ DeleteVoucher(v)
      PROVE  RequestsSpendable'
  <2>0. req' = req
    BY <1>2 DEF CreateGeneralVoucher, CreatePersonalVoucher, DeleteVoucher
  <2> SUFFICES ASSUME NEW r \in Requests, req[r].at = "Create", req[r].voucher # NoVoucher
               PROVE  /\ voucher'[req[r].voucher].type # "None"
                      /\ VoucherExists(req[r].voucher)' => UsableVoucher(req[r].voucher, req[r].user)'
    BY <2>0 DEF RequestsSpendable, Spendable, VoucherExists, UsableVoucher
  <2>1. PICK w \in Vouchers : w = req[r].voucher
    BY <1>0, RequestFields DEF Served
  <2>2. /\ voucher[w].type # "None"
        /\ VoucherExists(w) => UsableVoucher(w, req[r].user)
    BY <2>1 DEF RequestsSpendable, Spendable
  <2>3. CASE w # v
    <3>1. voucher'[w] = voucher[w] /\ userVoucher'[w] = userVoucher[w]
      BY <1>0, <1>2, <2>3
      DEF CreateGeneralVoucher, CreatePersonalVoucher, DeleteVoucher, VoucherTables
    <3> QED
      BY <2>0, <2>1, <2>2, <3>1 DEF VoucherExists, UsableVoucher
  <2>4. CASE w = v
    <3>1. DeleteVoucher(v)
      BY <1>2, <2>2, <2>4 DEF CreateGeneralVoucher, CreatePersonalVoucher
    <3>2. voucher[v] \in VoucherRow /\ voucher'[v] = [voucher[v] EXCEPT !.type = "Deleted"]
      BY <1>0, <3>1 DEF DeleteVoucher, VoucherTables
    <3>3. voucher'[v].type = "Deleted"
      BY <3>2 DEF VoucherRow
    <3> QED
      BY <2>0, <2>1, <2>4, <3>3 DEF VoucherExists
  <2> QED
    BY <2>3, <2>4
<1>3. CASE UNCHANGED <<voucher, userVoucher>>
  BY <1>0, <1>3, SpendableKept
<1> QED
  BY <1>1, <1>2, <1>3, VoucherWrites

LEMMA SpendableAlways == OrderlySpec => []RequestsSpendable
<1>1. Init => RequestsSpendable
  BY DEF Init, RequestsSpendable, Spendable, Idle
<1>2. Typed /\ Orderly /\ RequestsSpendable /\ [Next]_vars => RequestsSpendable'
  BY TypedParts, SpendableStep
<1> QED
  BY <1>1, <1>2, TypedAlways, OrderlyAlways, PTL DEF Spec

Holders(v) == {u \in Users : userVoucher[v][u] = "NotUsed"}

Once(v) ==
    /\ voucher[v].remain >= 0 \/ OrdersWith(v) = {}
    /\ \A o1, o2 \in OrdersWith(v) : order[o1].user = order[o2].user => o1 = o2
    /\ voucher[v].type = "Personal" => voucher[v].remain = Cardinality(Holders(v))

LEMMA HoldersFinite ==
    ASSUME NEW v
    PROVE  IsFiniteSet(Holders(v)) /\ Cardinality(Holders(v)) \in Nat
<1>1. Holders(v) \subseteq Users
  BY DEF Holders
<1> QED
  BY <1>1, FS_Subset, FS_CardinalityType

LEMMA OnceKept ==
    ASSUME Steady, NEW v, voucher'[v] = voucher[v], userVoucher'[v] = userVoucher[v], Once(v)
    PROVE  Once(v)'
<1>1. OrdersWith(v)' = OrdersWith(v) /\ \A o \in OrdersWith(v) : order'[o].user = order[o].user
  BY SteadyOrders DEF Steady, OrdersWith
<1>2. Holders(v)' = Holders(v)
  BY DEF Holders
<1> QED
  BY <1>1, <1>2 DEF Once

LEMMA OnceStep ==
    ASSUME Parts, VoucherInv, RequestsSpendable, VoucherOncePerUser, [Next]_vars
    PROVE  VoucherOncePerUser'
<1>0. /\ Served /\ VoucherTables /\ IsFiniteSet(Rows)
      /\ \A v \in Vouchers : VoucherExists(v) => Once(v) /\ Balanced(v)
  BY DEF Parts, VoucherInv, VoucherOncePerUser, Once, Holders
<1> SUFFICES ASSUME NEW v \in Vouchers, VoucherExists(v)' PROVE Once(v)'
  BY DEF VoucherOncePerUser, Once, Holders
<1>1. ASSUME NEW r \in Requests, CreateOrderCommit(r) PROVE Once(v)'
  <2>1. PICK q : q = req[r]
    OBVIOUS
  <2>2. PICK new \in OrderIds \ Rows :
           order' = [o \in Rows \cup {new} |-> IF o = new THEN NewRow(q) ELSE order[o]]
    BY <1>1, <2>1 DEF CreateOrderCommit
  <2>3. q.voucher \in Vouchers \cup {NoVoucher} /\ q.user \in Users
    BY <1>0, <1>1, <2>1, RequestFields DEF Served, CreateOrderCommit
  <2>4. IF q.voucher = NoVoucher THEN UNCHANGED <<voucher, userVoucher>>
                                 ELSE VoucherExists(q.voucher) /\ UseVoucher(q.voucher, q.user)
    BY <1>1, <2>1 DEF CreateOrderCommit
  <2>5. order'[new].user = q.user /\ \A o \in OrdersWith(v) : o # new /\ order'[o] = order[o]
    BY <2>2 DEF NewRow, OrdersWith
  <2>6. CASE v = q.voucher
    <3>1. VoucherExists(v) /\ UseVoucher(v, q.user) /\ Balanced(v) /\ Once(v)
      BY <1>0, <2>4, <2>6
    <3>2. UsableVoucher(v, q.user)
      BY <1>1, <2>1, <2>6, <3>1 DEF RequestsSpendable, Spendable, CreateOrderCommit
    <3>3. voucher[v] \in VoucherRow /\ userVoucher[v] \in [Users -> {"None", "NotUsed", "Used"}]
      BY <1>0 DEF VoucherTables
    <3>4. /\ voucher'[v] = [voucher[v] EXCEPT !.remain = @ - 1]
          /\ userVoucher'[v] = [userVoucher[v] EXCEPT ![q.user] = "Used"]
      BY <1>0, <3>1 DEF UseVoucher, Charged, VoucherTables
    <3>5. /\ voucher'[v].type = voucher[v].type
          /\ voucher'[v].remain = voucher[v].remain - 1 /\ voucher[v].remain \in Int
      BY <3>3, <3>4 DEF VoucherRow
    <3>6. voucher'[v].remain >= 0
      BY <3>2, <3>5 DEF UsableVoucher
    <3>7. ~UsedBy(v, q.user)
      BY <2>3, <3>1, <3>2 DEF UsableVoucher, Balanced
    <3>8. OrdersWith(v)' = OrdersWith(v) \cup {new}
      BY <1>0, <2>2, <2>6, NewOrder
    <3>9. \A o1, o2 \in OrdersWith(v)' : order'[o1].user = order'[o2].user => o1 = o2
      <4>1. \A o \in OrdersWith(v) : order'[o].user # q.user
        BY <2>5, <3>7 DEF UsedBy
      <4>2. \A o1, o2 \in OrdersWith(v) : order'[o1].user = order'[o2].user => o1 = o2
        BY <2>5, <3>1 DEF Once
      <4> QED
        BY <2>5, <3>8, <4>1, <4>2
    <3>10. ASSUME voucher[v].type = "Personal" PROVE voucher'[v].remain = Cardinality(Holders(v)')
      <4>1. q.user \in Holders(v)
        BY <2>3, <3>2, <3>10 DEF UsableVoucher, Holders
      <4>2. Holders(v)' = Holders(v) \ {q.user}
        BY <3>3, <3>4 DEF Holders
      <4>3. Cardinality(Holders(v) \ {q.user}) = Cardinality(Holders(v)) - 1
        <5>1. IsFiniteSet(Holders(v))
          BY HoldersFinite
        <5> QED
          BY <4>1, <5>1, FS_RemoveElement
      <4> QED
        BY <3>1, <3>5, <3>10, <4>2, <4>3 DEF Once
    <3> QED
      BY <3>5, <3>6, <3>9, <3>10 DEF Once
  <2>7. CASE v # q.voucher
    <3>1. voucher'[v] = voucher[v] /\ userVoucher'[v] = userVoucher[v]
      BY <1>0, <2>4, <2>7 DEF UseVoucher, Charged, VoucherTables
    <3>2. OrdersWith(v)' = OrdersWith(v) /\ Holders(v)' = Holders(v)
      BY <1>0, <2>2, <2>7, <3>1, NewOrder DEF Holders
    <3>3. Once(v)
      BY <1>0, <3>1 DEF VoucherExists
    <3> QED
      BY <2>5, <3>1, <3>2, <3>3 DEF Once
  <2> QED
    BY <2>6, <2>7
<1>2. ASSUME NEW w \in Vouchers, CreateGeneralVoucher(w) \/ CreatePersonalVoucher(w) \/ DeleteVoucher(w)
      PROVE  Once(v)'
  <2>1. Steady
    BY <1>2 DEF CreateGeneralVoucher, CreatePersonalVoucher, DeleteVoucher, Steady, Rows
  <2>2. CASE w # v
    <3>1. voucher'[v] = voucher[v] /\ userVoucher'[v] = userVoucher[v]
      BY <1>0, <1>2, <2>2
      DEF CreateGeneralVoucher, CreatePersonalVoucher, DeleteVoucher, VoucherTables
    <3> QED
      BY <1>0, <2>1, <3>1, OnceKept DEF VoucherExists
  <2>3. CASE w = v
    <3>1. ~DeleteVoucher(v)
      <4>1. SUFFICES ASSUME DeleteVoucher(v) PROVE FALSE
        OBVIOUS
      <4>2. voucher[v] \in VoucherRow /\ voucher'[v] = [voucher[v] EXCEPT !.type = "Deleted"]
        BY <1>0, <4>1 DEF DeleteVoucher, VoucherTables
      <4>3. voucher'[v].type = "Deleted"
        BY <4>2 DEF VoucherRow
      <4> QED
        BY <4>3 DEF VoucherExists
    <3>2. voucher[v].type = "None"
      BY <1>2, <2>3, <3>1 DEF CreateGeneralVoucher, CreatePersonalVoucher
    <3>3. OrdersWith(v)' = {}
      BY <2>1, <3>2, SteadyOrders DEF VoucherInv, Unmade
    <3>4. CASE CreateGeneralVoucher(v)
      <4>1. voucher'[v].type = "General"
        BY <1>0, <3>4 DEF CreateGeneralVoucher, VoucherTables
      <4> QED
        BY <3>3, <4>1 DEF Once
    <3>5. CASE CreatePersonalVoucher(v)
      <4>1. PICK us \in SUBSET Users :
               /\ voucher' = [voucher EXCEPT ![v] = [type |-> "Personal", remain |-> Cardinality(us),
                                                     quantity |-> Cardinality(us)]]
               /\ userVoucher' = [userVoucher EXCEPT
                                    ![v] = [u \in Users |-> IF u \in us THEN "NotUsed" ELSE "None"]]
        BY <3>5 DEF CreatePersonalVoucher
      <4>2. voucher'[v].remain = Cardinality(us) /\ Holders(v)' = us
        BY <1>0, <4>1 DEF VoucherTables, Holders
      <4>3. Cardinality(us) \in Nat
        BY FS_Subset, FS_CardinalityType
      <4> QED
        BY <3>3, <4>2, <4>3 DEF Once
    <3> QED
      BY <1>2, <2>3, <3>1, <3>4, <3>5
  <2> QED
    BY <2>2, <2>3
<1>3. CASE UNCHANGED <<voucher, userVoucher>> /\ Steady
  BY <1>0, <1>3, OnceKept DEF VoucherExists
<1> QED
  BY <1>1, <1>2, <1>3, SteadyStep, VoucherWrites

\* With one request at a time spending a voucher, nobody uses it twice, it is not
\* used more often than it was issued, and every holder of a personal one may
\* still use it.
THEOREM VoucherSafe == OrderlySpec => []VoucherOncePerUser
<1>1. Init => VoucherOncePerUser
  BY DEF Init, VoucherOncePerUser, VoucherExists
<1>2. Typed /\ VoucherInv /\ RequestsSpendable /\ VoucherOncePerUser /\ [Next]_vars => VoucherOncePerUser'
  BY TypedParts, OnceStep
<1> QED
  BY <1>1, <1>2, TypedAlways, VoucherAlways, SpendableAlways, OrderlyAlways, PTL DEF Spec
-----------------------------------------------------------------------------
(***************************************************************************)
(* The units of a product: how a step moves them between the stock, the    *)
(* orders that are not canceled, and the imports.                          *)
(***************************************************************************)
SameItems == Rows' = Rows /\ \A o \in Rows : order'[o].items = order[o].items

\* No order is canceled by the step; one may be brought back.
UnitsStay ==
    /\ SameItems /\ UNCHANGED <<stock, imports>>
    /\ \A o \in Rows : Active(o) => Active(o)'

UnitsTaken ==
    /\ UNCHANGED imports
    /\ \E new \in OrderIds \ Rows : \E row :
          /\ row.items \in Basket /\ row.status = "Waiting"
          /\ order' = [o \in Rows \cup {new} |-> IF o = new THEN row ELSE order[o]]
          /\ stock' = [p \in Products |-> stock[p] - row.items[p]]

UnitsReturned(o) ==
    /\ o \in Rows /\ SameItems /\ UNCHANGED imports
    /\ stock' = Restocked(order[o].items)
    /\ ~Active(o)'
    /\ \A x \in Rows \ {o} : Active(x)' <=> Active(x)

\* An import adds units, or takes some out.
UnitsArrive ==
    /\ UNCHANGED order
    /\ \E p \in Products, q \in Int :
          /\ stock' = [stock EXCEPT ![p] = @ + q]
          /\ received' = [received EXCEPT ![p] = IF q > 0 THEN @ + q ELSE @]
          /\ withdrawn' = [withdrawn EXCEPT ![p] = IF q < 0 THEN @ - q ELSE @]

LEMMA RowKeepsItems ==
    ASSUME OrderTable, NEW o \in Rows, NEW row, Update(o, row), row.items = order[o].items
    PROVE  /\ SameItems
           /\ \A x \in Rows : Active(x)' <=> IF x = o THEN row.status # "Canceled" ELSE Active(x)
<1>1. Rows' = Rows /\ \A x \in Rows : order'[x] = IF x = o THEN row ELSE order[x]
  BY DEF Update, OrderTable, Rows
<1> QED
  BY <1>1 DEF SameItems, Active

LEMMA OrdersStay ==
    ASSUME UNCHANGED <<order, stock, imports>>
    PROVE  UnitsStay
  BY DEF UnitsStay, SameItems, Rows, Active

LEMMA UnitsMove ==
    ASSUME Parts, [Next]_vars
    PROVE  \/ UnitsStay \/ UnitsTaken \/ UnitsArrive
           \/ \E r \in Requests : /\ CancelUnpaid(r) \/ CancelPaidCommit(r)
                                  /\ UnitsReturned(req[r].id)
<1>0. /\ OrderTable /\ Served
      /\ \A r \in Requests : req[r] \in Request /\ (req[r].at \in OnOrder => req[r].id \in Rows)
  BY DEF Parts, Served, RequestsRefer
<1>1. ASSUME NEW r \in Requests, Start(r) PROVE UnitsStay
  BY <1>1, StartMoves, OrdersStay DEF tables
<1>2. ASSUME NEW r \in Requests, NEW o, o = req[r].id, NEW row, Update(o, row), o \in Rows,
             row.items = order[o].items, row.status # "Canceled" \/ row.status = order[o].status,
             UNCHANGED <<stock, imports>>
      PROVE  UnitsStay
  BY <1>0, <1>2, RowKeepsItems DEF UnitsStay, Active
<1>3. ASSUME NEW r \in Requests, Step(r)
      PROVE  \/ UnitsStay \/ UnitsTaken
             \/ (CancelUnpaid(r) \/ CancelPaidCommit(r)) /\ UnitsReturned(req[r].id)
  <2>0. PICK o : o = req[r].id
    OBVIOUS
  <2>1. CASE \/ CreateOrderReject(r) \/ CancelOrderRead(r) \/ BeginRefund(r)
             \/ GatewayRefundAccepted(r) \/ GatewayRefundRefused(r)
    BY <2>1, OrdersStay
    DEF tables, CreateOrderReject, CancelOrderRead, BeginRefund, GatewayRefundAccepted,
        GatewayRefundRefused
  <2>2. CASE CreateSpecificNotification(r) \/ RatingCreate(r)
    BY <2>2, OrdersStay DEF CreateSpecificNotification, RatingCreate
  <2>3. CASE CreateOrderCommit(r)
    <3>1. PICK new \in OrderIds \ Rows :
             order' = [x \in Rows \cup {new} |-> IF x = new THEN NewRow(req[r]) ELSE order[x]]
      BY <2>3 DEF CreateOrderCommit
    <3>2. /\ NewRow(req[r]).items = req[r].items /\ NewRow(req[r]).status = "Waiting"
          /\ req[r].items \in Basket
      BY <1>0, <2>3, RequestFields DEF NewRow, CreateOrderCommit
    <3>3. UNCHANGED imports /\ stock' = [p \in Products |-> stock[p] - req[r].items[p]]
      BY <2>3 DEF CreateOrderCommit
    <3> QED
      BY <3>1, <3>2, <3>3 DEF UnitsTaken
  <2>4. CASE CancelUnpaid(r)
    <3>1. PICK row : row = [order[o] EXCEPT !.status = "Canceled",
                                  !.pay = IF order[o].method = "COD" THEN @ ELSE "Incomplete"]
      OBVIOUS
    <3>2. o \in Rows /\ Update(o, row) /\ stock' = Restocked(order[o].items) /\ UNCHANGED imports
      BY <1>0, <2>0, <2>4, <3>1 DEF CancelUnpaid, OnOrder
    <3>3. row.items = order[o].items /\ row.status = "Canceled"
      BY <1>0, <3>1, <3>2, RowOf DEF OrderRow
    <3>4. UnitsReturned(o)
      BY <1>0, <3>2, <3>3, RowKeepsItems DEF UnitsReturned
    <3> QED
      BY <2>0, <2>4, <3>4
  <2>5. CASE CancelPaidCommit(r)
    <3>1. PICK row : row = [order[o] EXCEPT !.status = "Canceled", !.pay = PayAfterRefund(req[r])]
      OBVIOUS
    <3>2. o \in Rows /\ Update(o, row) /\ stock' = Restocked(order[o].items) /\ UNCHANGED imports
      BY <1>0, <2>0, <2>5, <3>1 DEF CancelPaidCommit, OnOrder, RefundPoints
    <3>3. row.items = order[o].items /\ row.status = "Canceled"
      BY <1>0, <3>1, <3>2, RowOf DEF OrderRow
    <3>4. UnitsReturned(o)
      BY <1>0, <3>2, <3>3, RowKeepsItems DEF UnitsReturned
    <3> QED
      BY <2>0, <2>5, <3>4
  <2>6. CASE DescribeCancel(r)
    <3>1. PICK row : row = [order[o] EXCEPT !.described = TRUE]
      OBVIOUS
    <3>2. o \in Rows /\ Update(o, row) /\ UNCHANGED <<stock, imports>>
      BY <1>0, <2>0, <2>6, <3>1 DEF DescribeCancel, OnOrder
    <3>3. row.items = order[o].items /\ row.status = order[o].status
      BY <1>0, <3>1, <3>2, RowOf DEF OrderRow
    <3> QED
      BY <1>2, <2>0, <3>2, <3>3
  <2>7. CASE ChangeOrderStatus(r)
    <3>1. PICK row : row = [order[o] EXCEPT !.status = req[r].to]
      OBVIOUS
    <3>2. o \in Rows /\ Update(o, row) /\ UNCHANGED <<stock, imports>>
      BY <1>0, <2>0, <2>7, <3>1 DEF ChangeOrderStatus, OnOrder
    <3>3. row.items = order[o].items /\ row.status = req[r].to
      BY <1>0, <3>1, <3>2, RowOf DEF OrderRow
    <3>4. req[r].to # "Canceled"
      BY <1>0, <2>7, RequestFields DEF ChangeOrderStatus, ChangedTo
    <3> QED
      BY <1>2, <2>0, <3>2, <3>3, <3>4
  <2>8. CASE CompleteOrderWrite(r)
    <3>1. PICK row : row = [order[o] EXCEPT !.status = "Completed", !.pay = "Completed"]
      OBVIOUS
    <3>2. o \in Rows /\ Update(o, row) /\ UNCHANGED <<stock, imports>>
      BY <1>0, <2>0, <2>8, <3>1 DEF CompleteOrderWrite, OnOrder
    <3>3. row.items = order[o].items /\ row.status = "Completed"
      BY <1>0, <3>1, <3>2, RowOf DEF OrderRow
    <3> QED
      BY <1>2, <2>0, <3>2, <3>3
  <2> QED
    BY <1>3, <2>1, <2>2, <2>3, <2>4, <2>5, <2>6, <2>7, <2>8 DEF Step
<1>4. ASSUME NEW r \in Requests, Fail(r) PROVE UnitsStay
  BY <1>4, OrdersStay DEF Fail, tables
<1>5. ASSUME NEW o \in OrderIds, NEW a \in 1..MaxAttempts, NEW kind, o \in Rows,
             Update(o, PaymentSuccess(o, kind, a)), UNCHANGED <<stock, imports>>
      PROVE  UnitsStay
  <2>1. PICK row : row = PaymentSuccess(o, kind, a)
    OBVIOUS
  <2>2. row.items = order[o].items /\ row.status = order[o].status
    BY <1>0, <1>5, <2>1, RowOf DEF PaymentSuccess, OrderRow
  <2> QED
    BY <1>0, <1>5, <2>1, <2>2, RowKeepsItems DEF UnitsStay, Active
<1>6. ASSUME NEW o \in OrderIds, NEW a \in 1..MaxAttempts,
             GatewayCapture(o, a) \/ NotificationVnpayPayment(o, a) \/ HandleVnpayPayment(o, a)
      PROVE  UnitsStay
  <2>1. GatewayCapture(o, a) => UnitsStay
    BY OrdersStay DEF tables, GatewayCapture
  <2> QED
    BY <1>5, <1>6, <2>1 DEF NotificationVnpayPayment, HandleVnpayPayment
<1>7. ASSUME NEW o \in OrderIds, PayOnlineOrder(o) PROVE UnitsStay
  BY <1>7, OrdersStay DEF PayOnlineOrder, tables
<1>8. ASSUME NEW p \in Products, ImportProduct(p) PROVE UnitsArrive
  <2>1. PICK q \in (-MaxImport)..MaxImport :
          /\ stock' = [stock EXCEPT ![p] = @ + q]
          /\ received' = [received EXCEPT ![p] = IF q > 0 THEN @ + q ELSE @]
          /\ withdrawn' = [withdrawn EXCEPT ![p] = IF q < 0 THEN @ - q ELSE @]
    BY <1>8 DEF ImportProduct
  <2>2. q \in Int /\ UNCHANGED order
    BY <1>8 DEF ImportProduct
  <2> QED
    BY <2>1, <2>2 DEF UnitsArrive
<1>9. ASSUME NEW v \in Vouchers, CreateGeneralVoucher(v) \/ CreatePersonalVoucher(v) \/ DeleteVoucher(v)
      PROVE  UnitsStay
  BY <1>9, OrdersStay DEF CreateGeneralVoucher, CreatePersonalVoucher, DeleteVoucher
<1>10. CASE UNCHANGED vars
  BY <1>10, OrdersStay DEF vars, tables
<1> QED
  BY <1>1, <1>3, <1>4, <1>6, <1>7, <1>8, <1>9, <1>10 DEF Next

(***************************************************************************)
(* Counting them.                                                          *)
(***************************************************************************)
LEMMA QuantitiesFinite == IsFiniteSet(1..MaxQty)
<1>1. 1 \in Int /\ MaxQty \in Int
  OBVIOUS
<1> QED
  BY <1>1, FS_Interval, Zenon

LEMMA UnitsFinite ==
    ASSUME IsFiniteSet(Rows), NEW p
    PROVE  IsFiniteSet(UnitsOrdered(p)) /\ Cardinality(UnitsOrdered(p)) \in Nat
<1>1. IsFiniteSet(Rows \X (1..MaxQty))
  BY QuantitiesFinite, FS_Product
<1>2. UnitsOrdered(p) \in SUBSET (Rows \X (1..MaxQty))
  BY DEF UnitsOrdered
<1> QED
  BY <1>1, <1>2, FS_Subset, FS_CardinalityType

\* The units of p in an order of n of them.
UnitsOf(o, n) == {o} \X (1..n)

LEMMA UnitsOfOne ==
    ASSUME NEW o, NEW n \in Nat
    PROVE  IsFiniteSet(UnitsOf(o, n)) /\ Cardinality(UnitsOf(o, n)) = n
<1>1. IsFiniteSet({o}) /\ Cardinality({o}) = 1
  BY FS_Singleton
<1>2. IsFiniteSet(1..n) /\ Cardinality(1..n) = n
  <2>1. 1 \in Int /\ n \in Int
    OBVIOUS
  <2>2. IsFiniteSet(1..n) /\ Cardinality(1..n) = IF 1 > n THEN 0 ELSE n - 1 + 1
    BY <2>1, FS_Interval, Zenon
  <2> QED
    BY <2>2
<1>3. /\ IsFiniteSet({o} \X (1..n))
      /\ Cardinality({o} \X (1..n)) = Cardinality({o}) * Cardinality(1..n)
  BY <1>1, <1>2, FS_Product
<1> QED
  BY <1>1, <1>2, <1>3 DEF UnitsOf

\* An order that is canceled gives its units back, if it had any.
LEMMA UnitsRemoved ==
    ASSUME OrderTable, IsFiniteSet(Rows), NEW o, UnitsReturned(o), NEW p \in Products,
           NEW n \in Nat, n = order[o].items[p]
    PROVE  /\ Cardinality(UnitsOrdered(p)') \in Int
           /\ Cardinality(UnitsOrdered(p)') >= Cardinality(UnitsOrdered(p)) - n
           /\ Active(o) => Cardinality(UnitsOrdered(p)') = Cardinality(UnitsOrdered(p)) - n
<1>0. o \in Rows /\ n \in 0..MaxQty
  <2>1. o \in Rows
    BY DEF UnitsReturned
  <2> QED
    BY <2>1, RowOf DEF OrderRow, Basket
<1>1. PICK U : U = UnitsOrdered(p)
  OBVIOUS
<1>2. IsFiniteSet(U) /\ Cardinality(U) \in Nat
  BY <1>1, UnitsFinite
<1>3. UnitsOrdered(p)' = U \ UnitsOf(o, n)
  <2>1. Rows' = Rows /\ \A x \in Rows : order'[x].items[p] = order[x].items[p]
    BY DEF UnitsReturned, SameItems
  <2>2. ASSUME NEW x \in Rows, NEW k \in 1..MaxQty
        PROVE  /\ <<x, k>> \in UnitsOrdered(p)' <=> Active(x)' /\ k <= order'[x].items[p]
               /\ <<x, k>> \in U <=> Active(x) /\ k <= order[x].items[p]
    BY <1>1, <2>1 DEF UnitsOrdered
  <2>3. ASSUME NEW x \in Rows, NEW k \in 1..MaxQty
        PROVE  <<x, k>> \in UnitsOrdered(p)' <=> <<x, k>> \in U /\ <<x, k>> \notin UnitsOf(o, n)
    <3>1. CASE x = o
      <4>1. ~(<<x, k>> \in UnitsOrdered(p)')
        BY <2>2, <3>1 DEF UnitsReturned
      <4>2. <<x, k>> \in U => k \in 1..n
        BY <1>0, <2>2, <3>1
      <4>3. <<x, k>> \in U => <<x, k>> \in UnitsOf(o, n)
        BY <3>1, <4>2 DEF UnitsOf
      <4> QED
        BY <4>1, <4>3
    <3>2. CASE x # o
      <4>1. <<x, k>> \notin UnitsOf(o, n)
        BY <3>2 DEF UnitsOf
      <4>2. Active(x)' <=> Active(x)
        BY <3>2 DEF UnitsReturned
      <4> QED
        BY <2>1, <2>2, <4>1, <4>2
    <3> QED
      BY <3>1, <3>2
  <2>4. UnitsOrdered(p)' \subseteq Rows \X (1..MaxQty) /\ U \subseteq Rows \X (1..MaxQty)
    BY <1>1, <2>1 DEF UnitsOrdered
  <2> QED
    BY <2>3, <2>4
<1>4. IsFiniteSet(UnitsOf(o, n)) /\ Cardinality(UnitsOf(o, n)) = n
  BY UnitsOfOne
<1>5. Cardinality(U \ UnitsOf(o, n)) = Cardinality(U) - Cardinality(U \cap UnitsOf(o, n))
  BY <1>2, FS_Difference
<1>6. Cardinality(U \cap UnitsOf(o, n)) \in Nat /\ Cardinality(U \cap UnitsOf(o, n)) <= n
  <2>1. U \cap UnitsOf(o, n) \in SUBSET UnitsOf(o, n)
    OBVIOUS
  <2> QED
    BY <1>4, <2>1, FS_Subset, FS_CardinalityType
<1>7. Active(o) => U \cap UnitsOf(o, n) = UnitsOf(o, n)
  <2>1. SUFFICES ASSUME Active(o), NEW k \in 1..n PROVE <<o, k>> \in U
    BY DEF UnitsOf
  <2>2. k \in 1..MaxQty /\ k <= order[o].items[p]
    BY <1>0
  <2> QED
    BY <1>0, <1>1, <2>1, <2>2 DEF UnitsOrdered
<1> QED
  BY <1>1, <1>2, <1>3, <1>4, <1>5, <1>6, <1>7

\* An order that is placed takes its units.
LEMMA UnitsAdded ==
    ASSUME OrderTable, IsFiniteSet(Rows), NEW new \in OrderIds \ Rows, NEW row,
           row.items \in Basket, row.status = "Waiting",
           order' = [o \in Rows \cup {new} |-> IF o = new THEN row ELSE order[o]],
           NEW p \in Products
    PROVE  /\ row.items[p] \in Nat
           /\ Cardinality(UnitsOrdered(p)') = Cardinality(UnitsOrdered(p)) + row.items[p]
<1>0. PICK n \in 0..MaxQty : n = row.items[p]
  BY DEF Basket
<1>1. Rows' = Rows \cup {new} /\ order'[new] = row /\ \A x \in Rows : order'[x] = order[x]
  BY DEF Rows
<1>2. PICK U : U = UnitsOrdered(p)
  OBVIOUS
<1>3. IsFiniteSet(U) /\ Cardinality(U) \in Nat
  BY <1>2, UnitsFinite
<1>4. IsFiniteSet(UnitsOf(new, n)) /\ Cardinality(UnitsOf(new, n)) = n
  BY <1>0, UnitsOfOne
<1>5. UnitsOrdered(p)' = U \cup UnitsOf(new, n)
  <2>1. ASSUME NEW x \in Rows, NEW k \in 1..MaxQty
        PROVE  /\ <<x, k>> \in UnitsOrdered(p)' <=> <<x, k>> \in U
               /\ <<x, k>> \notin UnitsOf(new, n)
    BY <1>1, <1>2 DEF UnitsOrdered, UnitsOf, Active
  <2>2. ASSUME NEW k \in 1..MaxQty
        PROVE  <<new, k>> \in UnitsOrdered(p)' <=> k <= n
    BY <1>0, <1>1 DEF UnitsOrdered, Active
  <2>3. ASSUME NEW k \in 1..MaxQty
        PROVE  <<new, k>> \in UnitsOf(new, n) <=> k <= n
    BY <1>0 DEF UnitsOf
  <2>4. UnitsOf(new, n) \subseteq Rows' \X (1..MaxQty)
    <3>1. 1..n \subseteq 1..MaxQty
      BY <1>0
    <3> QED
      BY <1>1, <3>1 DEF UnitsOf
  <2>5. UnitsOrdered(p)' \subseteq Rows' \X (1..MaxQty) /\ U \subseteq Rows \X (1..MaxQty)
    BY <1>2 DEF UnitsOrdered
  <2>6. ASSUME NEW x \in Rows', NEW k \in 1..MaxQty
        PROVE  <<x, k>> \in UnitsOrdered(p)' <=> <<x, k>> \in U \/ <<x, k>> \in UnitsOf(new, n)
    <3>1. CASE x = new
      <4>1. <<new, k>> \notin U
        BY <2>5
      <4> QED
        BY <2>2, <2>3, <3>1, <4>1
    <3>2. CASE x \in Rows
      BY <2>1, <3>2
    <3> QED
      BY <1>1, <3>1, <3>2
  <2>7. U \subseteq Rows' \X (1..MaxQty)
    BY <1>1, <2>5
  <2> QED
    BY <2>4, <2>5, <2>6, <2>7
<1>6. U \cap UnitsOf(new, n) = {}
  BY <1>2 DEF UnitsOrdered, UnitsOf
<1>7. Cardinality(U \cup UnitsOf(new, n)) =
          Cardinality(U) + Cardinality(UnitsOf(new, n)) - Cardinality(U \cap UnitsOf(new, n))
  BY <1>3, <1>4, FS_Union
<1>8. Cardinality(U \cap UnitsOf(new, n)) = 0
  BY <1>6, FS_EmptySet
<1> QED
  BY <1>0, <1>2, <1>3, <1>4, <1>5, <1>7, <1>8

\* Orders that stay keep their units.
LEMMA UnitsKept ==
    ASSUME IsFiniteSet(Rows), UnitsStay, NEW p
    PROVE  /\ Cardinality(UnitsOrdered(p)') \in Int
           /\ Cardinality(UnitsOrdered(p)') >= Cardinality(UnitsOrdered(p))
           /\ (\A o \in Rows : Active(o)' => Active(o)) => UnitsOrdered(p)' = UnitsOrdered(p)
<1>1. Rows' = Rows /\ \A o \in Rows : order'[o].items = order[o].items /\ (Active(o) => Active(o)')
  BY DEF UnitsStay, SameItems
<1>2. PICK U : U = UnitsOrdered(p)
  OBVIOUS
<1>3. PICK V : V = UnitsOrdered(p)'
  OBVIOUS
<1>4. V \subseteq Rows \X (1..MaxQty) /\ U \subseteq Rows \X (1..MaxQty)
  BY <1>1, <1>2, <1>3 DEF UnitsOrdered
<1>5. ASSUME NEW x \in Rows, NEW k \in 1..MaxQty
      PROVE  /\ <<x, k>> \in V <=> Active(x)' /\ k <= order[x].items[p]
             /\ <<x, k>> \in U <=> Active(x) /\ k <= order[x].items[p]
  BY <1>1, <1>2, <1>3 DEF UnitsOrdered
<1>6. U \subseteq V
  BY <1>1, <1>4, <1>5
<1>7. (\A o \in Rows : Active(o)' => Active(o)) => V = U
  BY <1>1, <1>4, <1>5
<1>8. IsFiniteSet(V) /\ Cardinality(V) \in Nat
  <2>1. IsFiniteSet(Rows \X (1..MaxQty))
    BY QuantitiesFinite, FS_Product
  <2> QED
    BY <1>4, <2>1, FS_Subset, FS_CardinalityType
<1>9. Cardinality(U) <= Cardinality(V)
  BY <1>6, <1>8, FS_Subset
<1>10. Cardinality(U) \in Nat
  BY <1>2, UnitsFinite
<1> QED
  BY <1>2, <1>3, <1>7, <1>8, <1>9, <1>10

(***************************************************************************)
(* What a step does to the units in stock and in orders together.          *)
(***************************************************************************)
LEMMA HeldStep ==
    ASSUME Parts, IsFiniteSet(Rows), [Next]_vars, NEW p \in Products
    PROVE  /\ Held(p) \in Int /\ Held(p)' \in Int /\ Supplied(p) \in Int /\ Supplied(p)' \in Int
           /\ Held(p)' - Supplied(p)' >= Held(p) - Supplied(p)
           /\ PaymentInv /\ RequestsReady => Held(p)' - Supplied(p)' = Held(p) - Supplied(p)
<1>0. OrderTable /\ Stocks /\ Stocks'
  BY TypedParts, TypedStep DEF Parts
<1>1. /\ stock[p] \in Int /\ stock'[p] \in Int
      /\ received[p] \in Int /\ received'[p] \in Int
      /\ withdrawn[p] \in Int /\ withdrawn'[p] \in Int /\ InitialStock \in Int
  BY <1>0 DEF Stocks
<1>2. PICK c \in Int : c = Cardinality(UnitsOrdered(p))
  BY UnitsFinite
<1>3. Held(p) = stock[p] + c /\ Supplied(p) = InitialStock + received[p] - withdrawn[p]
  BY <1>2 DEF Held, Supplied
<1>4. Supplied(p)' = InitialStock + received'[p] - withdrawn'[p]
  BY DEF Supplied
<1>5. ASSUME NEW d \in Int, d = Cardinality(UnitsOrdered(p)') PROVE Held(p)' = stock'[p] + d
  BY <1>5 DEF Held
<1>6. CASE UnitsStay
  <2>1. PICK d \in Int : d = Cardinality(UnitsOrdered(p)')
    BY <1>6, UnitsKept
  <2>2. d >= c
    BY <1>2, <1>6, <2>1, UnitsKept
  <2>3. stock'[p] = stock[p] /\ received'[p] = received[p] /\ withdrawn'[p] = withdrawn[p]
    BY <1>6 DEF UnitsStay
  <2>4. ASSUME PaymentInv, RequestsReady PROVE d = c
    <3>1. \A o \in Rows : Active(o)' => Active(o)
      BY <2>4, CanceledStays DEF Active, Status
    <3> QED
      BY <1>2, <1>6, <2>1, <3>1, UnitsKept
  <2> QED
    BY <1>1, <1>3, <1>4, <1>5, <2>1, <2>2, <2>3, <2>4
<1>7. CASE UnitsTaken
  <2>1. PICK new \in OrderIds \ Rows : \E row :
          /\ row.items \in Basket /\ row.status = "Waiting"
          /\ order' = [o \in Rows \cup {new} |-> IF o = new THEN row ELSE order[o]]
          /\ stock' = [x \in Products |-> stock[x] - row.items[x]]
    BY <1>7 DEF UnitsTaken
  <2>2. PICK row :
          /\ row.items \in Basket /\ row.status = "Waiting"
          /\ order' = [o \in Rows \cup {new} |-> IF o = new THEN row ELSE order[o]]
          /\ stock' = [x \in Products |-> stock[x] - row.items[x]]
    BY <2>1
  <2>3. /\ row.items[p] \in Nat
        /\ Cardinality(UnitsOrdered(p)') = Cardinality(UnitsOrdered(p)) + row.items[p]
    BY <1>0, <2>2, UnitsAdded
  <2>4. PICK n \in Nat : n = row.items[p]
    BY <2>3
  <2>5. stock'[p] = stock[p] - n /\ received'[p] = received[p] /\ withdrawn'[p] = withdrawn[p]
    BY <1>7, <2>2, <2>4 DEF UnitsTaken
  <2>6. Cardinality(UnitsOrdered(p)') = c + n
    BY <1>2, <2>3, <2>4
  <2>7. Held(p)' = stock'[p] + (c + n)
    BY <1>5, <2>6
  <2> QED
    BY <1>1, <1>3, <1>4, <2>5, <2>7
<1>8. ASSUME NEW r \in Requests, CancelUnpaid(r) \/ CancelPaidCommit(r), NEW o, o = req[r].id,
             UnitsReturned(o)
      PROVE  /\ Held(p)' \in Int
             /\ Held(p)' - Supplied(p)' >= Held(p) - Supplied(p)
             /\ PaymentInv /\ RequestsReady => Held(p)' - Supplied(p)' = Held(p) - Supplied(p)
  <2>1. o \in Rows
    BY <1>8 DEF UnitsReturned
  <2>2. PICK n \in Nat : n = order[o].items[p]
    BY <1>0, <2>1, RowOf DEF OrderRow, Basket
  <2>3. PICK d \in Int : d = Cardinality(UnitsOrdered(p)')
    BY <1>0, <1>8, <2>2, UnitsRemoved
  <2>4. d >= c - n
    BY <1>0, <1>2, <1>8, <2>2, <2>3, UnitsRemoved
  <2>5. stock'[p] = stock[p] + n /\ received'[p] = received[p] /\ withdrawn'[p] = withdrawn[p]
    BY <1>8, <2>2 DEF UnitsReturned, Restocked
  <2>6. ASSUME RequestsReady PROVE d = c - n
    <3>1. Active(o)
      BY <1>8, <2>6
      DEF RequestsReady, Ready, CancelUnpaid, CancelPaidCommit, CancelPoints, RefundPoints, Active,
          Status
    <3> QED
      BY <1>0, <1>2, <1>8, <2>2, <2>3, <3>1, UnitsRemoved
  <2> QED
    BY <1>1, <1>3, <1>4, <1>5, <2>3, <2>4, <2>5, <2>6
<1>9. CASE UnitsArrive
  <2>1. UnitsOrdered(p)' = UnitsOrdered(p)
    BY <1>9 DEF UnitsArrive, UnitsOrdered, Rows, Active
  <2>2. Held(p)' = stock'[p] + c
    BY <1>2, <1>5, <2>1
  <2>3. PICK x \in Products, q \in Int :
          /\ stock' = [stock EXCEPT ![x] = @ + q]
          /\ received' = [received EXCEPT ![x] = IF q > 0 THEN @ + q ELSE @]
          /\ withdrawn' = [withdrawn EXCEPT ![x] = IF q < 0 THEN @ - q ELSE @]
    BY <1>9 DEF UnitsArrive
  <2>4. stock'[p] - received'[p] + withdrawn'[p] = stock[p] - received[p] + withdrawn[p]
    <3>1. CASE x = p
      BY <1>0, <1>1, <2>3, <3>1 DEF Stocks
    <3>2. CASE x # p
      BY <1>0, <2>3, <3>2 DEF Stocks
    <3> QED
      BY <3>1, <3>2
  <2> QED
    BY <1>1, <1>3, <1>4, <2>2, <2>4
<1>10. Held(p) \in Int /\ Supplied(p) \in Int /\ Supplied(p)' \in Int
  BY <1>1, <1>3, <1>4
<1> QED
  BY <1>6, <1>7, <1>8, <1>9, <1>10, UnitsMove

LEMMA HeldInit ==
    ASSUME Init, NEW p \in Products
    PROVE  Held(p) = InitialStock /\ Supplied(p) = InitialStock
<1>1. Rows = {}
  BY DEF Init, Rows
<1>2. UnitsOrdered(p) = {}
  BY <1>1 DEF UnitsOrdered
<1>3. stock[p] = InitialStock /\ received[p] = 0 /\ withdrawn[p] = 0
  BY DEF Init
<1> QED
  BY <1>2, <1>3, FS_EmptySet DEF Held, Supplied

\* However requests are interleaved, die or are rolled back, every unit supplied
\* is in stock or in an order that is not canceled.
THEOREM UnitsSafe == Spec => []NoUnitLost
<1>1. Init => NoUnitLost
  <2> SUFFICES ASSUME Init, NEW p \in Products PROVE Held(p) >= Supplied(p)
    BY DEF NoUnitLost
  <2> QED
    BY HeldInit
<1>2. Typed /\ VoucherInv /\ NoUnitLost /\ [Next]_vars => NoUnitLost'
  <2> SUFFICES ASSUME Parts, VoucherInv, NoUnitLost, [Next]_vars, NEW p \in Products
               PROVE  Held(p)' >= Supplied(p)'
    BY TypedParts DEF NoUnitLost
  <2>1. IsFiniteSet(Rows) /\ Held(p) >= Supplied(p)
    BY DEF VoucherInv, NoUnitLost
  <2> QED
    BY <2>1, HeldStep
<1> QED
  BY <1>1, <1>2, TypedAlways, VoucherAlways, PTL DEF Spec

\* With one request at a time for each order, none is made up either: a
\* cancellation restocks the units of an order once.
THEOREM UnitsExact == OrderlySpec => []StockConserved
<1>1. Init => StockConserved
  <2> SUFFICES ASSUME Init, NEW p \in Products PROVE Held(p) = Supplied(p)
    BY DEF StockConserved
  <2> QED
    BY HeldInit
<1>2. /\ Typed /\ VoucherInv /\ PaymentInv /\ RequestsReady /\ StockConserved /\ [Next]_vars
      => StockConserved'
  <2> SUFFICES ASSUME Parts, VoucherInv, PaymentInv, RequestsReady, StockConserved, [Next]_vars,
                      NEW p \in Products
               PROVE  Held(p)' = Supplied(p)'
    BY TypedParts DEF StockConserved
  <2>1. IsFiniteSet(Rows) /\ Held(p) = Supplied(p)
    BY DEF VoucherInv, StockConserved
  <2> QED
    BY <2>1, HeldStep
<1> QED
  BY <1>1, <1>2, TypedAlways, VoucherAlways, PaymentAlways, ReadyAlways, OrderlyAlways, PTL DEF Spec
-----------------------------------------------------------------------------
(***************************************************************************)
(* What cancelOrder read of the payment is still so when it acts on it,    *)
(* unless another actor came near its order meanwhile.                     *)
(***************************************************************************)
\* Who meets a cancellation on its order is remembered while it has the payment.
MeetingsSeen ==
    \A o \in OrderIds : \A r1, r2 \in Requests :
        HasPayment(r1, o) /\ Decides(r2, o) => r1 = r2 \/ o \in crossed

StillCrossed == \A o \in OrderIds : o \in crossed /\ PaymentRead(o)' => o \in crossed'

LEMMA CrossedMoves ==
    ASSUME [Next]_vars
    PROVE  \/ UNCHANGED <<req, crossed>>
           \/ \E r \in Requests : \E q : Goto(r, q)
           \/ UNCHANGED req /\ \E o \in OrderIds : Cross(o)
<1>1. ASSUME NEW r \in Requests, Start(r) PROVE \E q : Goto(r, q)
  <2>1. CreateOrderLookup(r) => \E q : Goto(r, q)
    BY DEF CreateOrderLookup
  <2> QED
    BY <1>1, <2>1, StartMoves
<1>2. ASSUME NEW r \in Requests, Step(r) \/ Fail(r) PROVE \E q : Goto(r, q)
  BY <1>2, StepMoves
<1>3. ASSUME NEW o \in OrderIds, NEW a \in 1..MaxAttempts,
             NotificationVnpayPayment(o, a) \/ HandleVnpayPayment(o, a)
      PROVE  UNCHANGED req /\ Cross(o)
  BY <1>3 DEF NotificationVnpayPayment, HandleVnpayPayment
<1>4. ASSUME NEW o \in OrderIds, PayOnlineOrder(o) \/ \E a \in 1..MaxAttempts : GatewayCapture(o, a)
      PROVE  UNCHANGED <<req, crossed>>
  BY <1>4 DEF PayOnlineOrder, GatewayCapture
<1>5. ASSUME NEW p \in Products, ImportProduct(p) PROVE UNCHANGED <<req, crossed>>
  BY <1>5 DEF ImportProduct
<1>6. ASSUME NEW v \in Vouchers, CreateGeneralVoucher(v) \/ CreatePersonalVoucher(v) \/ DeleteVoucher(v)
      PROVE  UNCHANGED <<req, crossed>>
  BY <1>6 DEF CreateGeneralVoucher, CreatePersonalVoucher, DeleteVoucher
<1>7. CASE UNCHANGED vars
  BY <1>7 DEF vars
<1> QED
  BY <1>1, <1>2, <1>3, <1>4, <1>5, <1>6, <1>7 DEF Next

LEMMA MeetingsStep ==
    ASSUME MeetingsSeen, [Next]_vars
    PROVE  MeetingsSeen' /\ StillCrossed
<1>1. CASE UNCHANGED <<req, crossed>>
  BY <1>1 DEF MeetingsSeen, StillCrossed, HasPayment, Decides
<1>2. ASSUME NEW r \in Requests, NEW q, Goto(r, q) PROVE MeetingsSeen' /\ StillCrossed
  <2>1. \A o \in OrderIds : PaymentRead(o)' /\ (o \in crossed \/ Shared(o)') => o \in crossed'
    BY <1>2 DEF Goto
  <2>2. \A x \in Requests, o \in OrderIds : HasPayment(x, o)' => PaymentRead(o)' /\ Decides(x, o)'
    BY DEF HasPayment, PaymentRead, Decides, PaymentPoints, DecidingPoints, RefundPoints
  <2> QED
    BY <2>1, <2>2 DEF MeetingsSeen, StillCrossed, Shared
<1>3. ASSUME UNCHANGED req, NEW o \in OrderIds, Cross(o) PROVE MeetingsSeen' /\ StillCrossed
  <2>1. crossed \subseteq crossed'
    BY <1>3 DEF Cross
  <2> QED
    BY <1>3, <2>1 DEF MeetingsSeen, StillCrossed, HasPayment, Decides
<1> QED
  BY <1>1, <1>2, <1>3, CrossedMoves

\* The payment of q's order is as q has read it.
AsRead(q) ==
    /\ q.at = "CancelUnpaid" => Unpaid(q.id)
    /\ q.at \in {"RefundBegin", "RefundAsked"} =>
          order[q.id].pay = "Completed" /\ order[q.id].code = q.code

PaymentsAsRead == \A r \in Requests : req[r].id \notin crossed => AsRead(req[r])

SamePayment(o) ==
    order'[o].method = order[o].method /\ order'[o].pay = order[o].pay /\ order'[o].code = order[o].code

\* A request leaves alone the payments of the orders it does not decide about.
PaysOwn(r) == Rows \subseteq Rows' /\ \A o \in Rows : Decides(r, o) \/ SamePayment(o)

LEMMA PaymentPointKinds ==
    ASSUME Served, OrderTable, NEW r \in Requests, req[r].at \in PaymentPoints
    PROVE  req[r].id \in Rows /\ req[r].id \in OrderIds /\ HasPayment(r, req[r].id)
<1>1. req[r].at \notin FreePoints
  BY DEF PaymentPoints, RefundPoints, FreePoints
<1> QED
  BY <1>1, PointKinds DEF HasPayment

LEMMA AsReadKept ==
    ASSUME NEW q, AsRead(q), q.at \in PaymentPoints => SamePayment(q.id)
    PROVE  AsRead(q)'
  BY DEF AsRead, Unpaid, SamePayment, PaymentPoints

LEMMA GotoAsRead ==
    ASSUME MeetingsSeen, StillCrossed, Served, OrderTable, PaymentsAsRead, NEW r \in Requests,
           PaysOwn(r), NEW q, Goto(r, q),
           q.at \notin PaymentPoints \/ (q.id \notin crossed' => AsRead(q)')
    PROVE  PaymentsAsRead'
<1> SUFFICES ASSUME NEW x \in Requests, req'[x].id \notin crossed' PROVE AsRead(req[x])'
  BY DEF PaymentsAsRead
<1>1. req'[x] = IF x = r THEN q ELSE req[x]
  BY DEF Goto, Served
<1>2. CASE x = r
  BY <1>1, <1>2 DEF AsRead, Unpaid, PaymentPoints
<1>3. CASE x # r
  <2>1. PICK t : t = req[x]
    OBVIOUS
  <2>2. ASSUME t.at \in PaymentPoints PROVE AsRead(t) /\ SamePayment(t.id)
    <3>1. t.id \in Rows /\ t.id \in OrderIds /\ HasPayment(x, t.id)
      BY <2>1, <2>2, PaymentPointKinds
    <3>2. PaymentRead(t.id)'
      BY <1>1, <1>3, <2>1, <3>1 DEF HasPayment, PaymentRead
    <3>3. t.id \notin crossed
      BY <1>1, <1>3, <2>1, <3>1, <3>2 DEF StillCrossed
    <3>4. ~Decides(r, t.id)
      BY <1>3, <3>1, <3>3 DEF MeetingsSeen
    <3> QED
      BY <2>1, <3>1, <3>3, <3>4 DEF PaymentsAsRead, PaysOwn
  <2>3. AsRead(t)'
    BY <2>2, AsReadKept DEF AsRead, PaymentPoints
  <2> QED
    BY <1>1, <1>3, <2>1, <2>3 DEF AsRead, Unpaid
<1> QED
  BY <1>2, <1>3

LEMMA ReplyAsRead ==
    ASSUME MeetingsSeen, StillCrossed, Served, OrderTable, PaymentsAsRead, NEW r \in Requests, 
           PaysOwn(r), Reply(r)
    PROVE  PaymentsAsRead'
<1>1. PICK q : q = Idle
  OBVIOUS
<1>2. Goto(r, q) /\ q.at \notin PaymentPoints
  BY <1>1 DEF Reply, Idle, PaymentPoints
<1> QED
  BY <1>2, GotoAsRead

LEMMA PaysNothing ==
    ASSUME UNCHANGED order, NEW r
    PROVE  PaysOwn(r)
  BY DEF PaysOwn, SamePayment, Rows

LEMMA PaysOwnRow ==
    ASSUME OrderTable, NEW r, NEW o \in Rows, NEW row, Update(o, row),
           \/ Decides(r, o)
           \/ row.method = order[o].method /\ row.pay = order[o].pay /\ row.code = order[o].code
    PROVE  PaysOwn(r)
<1>1. Rows' = Rows /\ \A x \in Rows : order'[x] = IF x = o THEN row ELSE order[x]
  BY DEF Update, OrderTable, Rows
<1> QED
  BY <1>1 DEF PaysOwn, SamePayment

LEMMA SameAsRead ==
    ASSUME Served, OrderTable, PaymentsAsRead, UNCHANGED req, crossed \subseteq crossed',
           \A r \in Requests, o \in Rows : HasPayment(r, o) => SamePayment(o) \/ o \in crossed'
    PROVE  PaymentsAsRead'
<1> SUFFICES ASSUME NEW x \in Requests, req[x].id \notin crossed' PROVE AsRead(req[x])'
  BY DEF PaymentsAsRead
<1>1. PICK q : q = req[x]
  OBVIOUS
<1>2. q.at \in PaymentPoints => SamePayment(q.id)
  BY <1>1, PaymentPointKinds
<1>3. AsRead(q)'
  BY <1>1, <1>2, AsReadKept DEF PaymentsAsRead
<1> QED
  BY <1>1, <1>3 DEF AsRead, Unpaid

LEMMA AsReadStep ==
    ASSUME MeetingsSeen, StillCrossed, Parts, PaymentsAsRead, [Next]_vars
    PROVE  PaymentsAsRead'
<1>0. /\ OrderTable /\ Served
      /\ \A r \in Requests : req[r].at \in OnOrder => req[r].id \in Rows
  BY DEF Parts, Served, RequestsRefer
<1>1. ASSUME UNCHANGED <<order, req, crossed>> PROVE PaymentsAsRead'
  BY <1>0, <1>1, SameAsRead DEF SamePayment
<1>2. ASSUME NEW r \in Requests, Start(r) PROVE PaymentsAsRead'
  <2>1. UNCHANGED order
    BY <1>2, StartMoves DEF tables
  <2>2. \E q : Goto(r, q) /\ q.at \notin PaymentPoints
    <3>1. ASSUME NEW o \in OrderIds, UserCancelCheck(r, o) \/ AdminCancelOrder(r, o)
          PROVE  \E q : Goto(r, q) /\ q.at \notin PaymentPoints
      BY <3>1 DEF UserCancelCheck, AdminCancelOrder, CancelPoint, PaymentPoints
    <3>2. ASSUME NEW o \in OrderIds, NEW to, StatusCheckPassed(r, o, to)
          PROVE  \E q : Goto(r, q) /\ q.at \notin PaymentPoints
      BY <3>2 DEF StatusCheckPassed, PaymentPoints
    <3>3. ASSUME NEW o \in OrderIds, CompleteOrder(r, o)
          PROVE  \E q : Goto(r, q) /\ q.at \notin PaymentPoints
      BY <3>3 DEF CompleteOrder, PaymentPoints
    <3>4. ASSUME NEW o \in OrderIds, NEW p \in Products, RatePurchasedProduct(r, o, p)
          PROVE  \E q : Goto(r, q) /\ q.at \notin PaymentPoints
      BY <3>4 DEF RatePurchasedProduct, PaymentPoints
    <3>5. CreateOrderLookup(r) => \E q : Goto(r, q) /\ q.at \notin PaymentPoints
      BY DEF CreateOrderLookup, PaymentPoints
    <3> QED
      BY <1>2, <3>1, <3>2, <3>3, <3>4, <3>5 DEF Start, ConfirmOrder, ShippingOrder, UnclaimOrder
  <2> QED
    BY <1>0, <2>1, <2>2, PaysNothing, GotoAsRead
<1>3. ASSUME NEW r \in Requests, CancelOrderRead(r) PROVE PaymentsAsRead'
  <2>1. PICK o : o = req[r].id
    OBVIOUS
  <2>2. UNCHANGED order /\ PaysOwn(r)
    BY <1>3, PaysNothing DEF CancelOrderRead, tables
  <2>3. \/ Reply(r)
        \/ Unpaid(o) /\ Goto(r, CancelPoint("CancelUnpaid", o, req[r].admin, NullCode))
        \/ /\ order[o].pay = "Completed"
           /\ Goto(r, CancelPoint("RefundBegin", o, req[r].admin, order[o].code))
    BY <1>3, <2>1 DEF CancelOrderRead
  <2>4. CASE Reply(r)
    BY <1>0, <2>2, <2>4, ReplyAsRead
  <2>5. CASE Unpaid(o) /\ Goto(r, CancelPoint("CancelUnpaid", o, req[r].admin, NullCode))
    <3>1. PICK q : q = CancelPoint("CancelUnpaid", o, req[r].admin, NullCode)
      OBVIOUS
    <3>2. q.at = "CancelUnpaid" /\ q.id = o
      BY <3>1 DEF CancelPoint
    <3>3. AsRead(q)'
      BY <2>2, <2>5, <3>2 DEF AsRead, Unpaid
    <3> QED
      BY <1>0, <2>2, <2>5, <3>1, <3>3, GotoAsRead
  <2>6. CASE /\ order[o].pay = "Completed"
             /\ Goto(r, CancelPoint("RefundBegin", o, req[r].admin, order[o].code))
    <3>1. PICK q : q = CancelPoint("RefundBegin", o, req[r].admin, order[o].code)
      OBVIOUS
    <3>2. q.at = "RefundBegin" /\ q.id = o /\ q.code = order[o].code
      BY <3>1 DEF CancelPoint
    <3>3. AsRead(q)'
      BY <2>2, <2>6, <3>2 DEF AsRead
    <3> QED
      BY <1>0, <2>2, <2>6, <3>1, <3>3, GotoAsRead
  <2> QED
    BY <2>3, <2>4, <2>5, <2>6
<1>4. ASSUME NEW r \in Requests, BeginRefund(r) PROVE PaymentsAsRead'
  <2>1. PICK q : q = CancelPoint("RefundAsked", req[r].id, req[r].admin, req[r].code)
    OBVIOUS
  <2>2. q.at = "RefundAsked" /\ q.id = req[r].id /\ q.code = req[r].code /\ Goto(r, q)
    BY <1>4, <2>1 DEF CancelPoint, BeginRefund, RefundAt
  <2>3. UNCHANGED order /\ req[r].at = "RefundBegin"
    BY <1>4 DEF BeginRefund, tables
  <2>4. q.id \notin crossed' => q.id \notin crossed
    <3>1. q.id \in OrderIds
      BY <1>0, <2>2, <2>3, PaymentPointKinds DEF PaymentPoints
    <3>2. PaymentRead(q.id)'
      BY <1>0, <2>2 DEF Goto, Served, PaymentRead, HasPayment, PaymentPoints
    <3> QED
      BY <3>1, <3>2 DEF StillCrossed
  <2>5. q.id \notin crossed' => AsRead(q)'
    BY <2>2, <2>3, <2>4 DEF PaymentsAsRead, AsRead
  <2> QED
    BY <1>0, <2>2, <2>3, <2>5, PaysNothing, GotoAsRead
<1>a. ASSUME NEW r \in Requests, GatewayRefundAccepted(r) \/ GatewayRefundRefused(r)
      PROVE  PaymentsAsRead'
  <2>1. PICK at \in RefundPoints \ {"RefundAsked"} : RefundAt(r, at)
    BY <1>a DEF GatewayRefundAccepted, GatewayRefundRefused, RefundPoints
  <2>2. PICK q : q = CancelPoint(at, req[r].id, req[r].admin, req[r].code)
    OBVIOUS
  <2>3. Goto(r, q) /\ q.at \notin PaymentPoints
    BY <2>1, <2>2 DEF CancelPoint, RefundAt, RefundPoints, PaymentPoints
  <2>4. UNCHANGED order
    BY <1>a DEF GatewayRefundAccepted, GatewayRefundRefused, tables
  <2> QED
    BY <1>0, <2>3, <2>4, PaysNothing, GotoAsRead
<1>5. ASSUME NEW r \in Requests, CancelUnpaid(r) \/ CancelPaidCommit(r) \/ ChangeOrderStatus(r)
      PROVE  PaymentsAsRead'
  <2>1. PICK q : q = CancelPoint("Describe", req[r].id, TRUE, NullCode)
    OBVIOUS
  <2>2. PICK t : t = [at |-> "Notify", id |-> req[r].id, to |-> req[r].to]
    OBVIOUS
  <2>3. q.at \notin PaymentPoints /\ t.at \notin PaymentPoints
    BY <2>1, <2>2 DEF CancelPoint, PaymentPoints
  <2>4. Goto(r, q) \/ Goto(r, t) \/ Reply(r)
    BY <1>5, <2>1, <2>2 DEF CancelUnpaid, CancelPaidCommit, ChangeOrderStatus, CancelDone
  <2>5. Decides(r, req[r].id) /\ req[r].id \in Rows
    BY <1>0, <1>5, PointKinds DEF CancelUnpaid, CancelPaidCommit, ChangeOrderStatus, FreePoints
  <2>6. \E row : Update(req[r].id, row)
    BY <1>5 DEF CancelUnpaid, CancelPaidCommit, ChangeOrderStatus
  <2>7. PaysOwn(r)
    BY <1>0, <2>5, <2>6, PaysOwnRow
  <2> QED
    BY <1>0, <2>3, <2>4, <2>7, GotoAsRead, ReplyAsRead
<1>6. ASSUME NEW r \in Requests,
             \/ CreateOrderCommit(r) \/ CreateOrderReject(r) \/ DescribeCancel(r)
             \/ CreateSpecificNotification(r) \/ CompleteOrderWrite(r) \/ RatingCreate(r) \/ Fail(r)
      PROVE  PaymentsAsRead'
  <2>1. Reply(r)
    BY <1>6 DEF CreateOrderCommit, CreateOrderReject, DescribeCancel, CreateSpecificNotification,
                CompleteOrderWrite, RatingCreate, Fail
  <2>2. CreateOrderReject(r) \/ CreateSpecificNotification(r) \/ RatingCreate(r) \/ Fail(r)
        => UNCHANGED order
    BY DEF CreateOrderReject, CreateSpecificNotification, RatingCreate, Fail, tables
  <2>3. CreateOrderCommit(r) => PaysOwn(r)
    <3>1. SUFFICES ASSUME CreateOrderCommit(r) PROVE PaysOwn(r)
      OBVIOUS
    <3>2. PICK new \in OrderIds \ Rows :
             order' = [o \in Rows \cup {new} |-> IF o = new THEN NewRow(req[r]) ELSE order[o]]
      BY <3>1 DEF CreateOrderCommit
    <3> QED
      BY <3>2 DEF PaysOwn, SamePayment, Rows
  <2>4. DescribeCancel(r) => PaysOwn(r)
    <3>1. SUFFICES ASSUME DescribeCancel(r) PROVE PaysOwn(r)
      OBVIOUS
    <3>2. PICK o : o = req[r].id
      OBVIOUS
    <3>3. PICK row : row = [order[o] EXCEPT !.described = TRUE]
      OBVIOUS
    <3>4. o \in Rows /\ Update(o, row)
      BY <1>0, <3>1, <3>2, <3>3 DEF DescribeCancel, OnOrder
    <3>5. row.method = order[o].method /\ row.pay = order[o].pay /\ row.code = order[o].code
      BY <1>0, <3>3, <3>4, RowOf DEF OrderRow
    <3> QED
      BY <1>0, <3>4, <3>5, PaysOwnRow
  <2>5. CompleteOrderWrite(r) => PaysOwn(r)
    <3>1. SUFFICES ASSUME CompleteOrderWrite(r) PROVE PaysOwn(r)
      OBVIOUS
    <3>2. Decides(r, req[r].id) /\ req[r].id \in Rows
      BY <1>0, <3>1, PointKinds DEF CompleteOrderWrite, FreePoints
    <3>3. \E row : Update(req[r].id, row)
      BY <3>1 DEF CompleteOrderWrite
    <3> QED
      BY <1>0, <3>2, <3>3, PaysOwnRow
  <2> QED
    BY <1>0, <1>6, <2>1, <2>2, <2>3, <2>4, <2>5, PaysNothing, ReplyAsRead
<1>7. ASSUME NEW o \in OrderIds, NEW a \in 1..MaxAttempts,
             NotificationVnpayPayment(o, a) \/ HandleVnpayPayment(o, a)
      PROVE  PaymentsAsRead'
  <2>1. o \in Rows /\ UNCHANGED req /\ Cross(o) /\ \E row : Update(o, row)
    BY <1>7 DEF NotificationVnpayPayment, HandleVnpayPayment
  <2>2. \A r \in Requests : HasPayment(r, o) => o \in crossed'
    BY <2>1 DEF Cross, PaymentRead
  <2>3. \A x \in Rows \ {o} : SamePayment(x)
    BY <1>0, <2>1 DEF Update, OrderTable, Rows, SamePayment
  <2>4. crossed \subseteq crossed'
    BY <2>1 DEF Cross
  <2> QED
    BY <1>0, <2>1, <2>2, <2>3, <2>4, SameAsRead
<1>8. ASSUME NEW o \in OrderIds, NEW a \in 1..MaxAttempts, GatewayCapture(o, a) PROVE PaymentsAsRead'
  BY <1>1, <1>8 DEF GatewayCapture, tables
<1>9. ASSUME NEW o \in OrderIds, PayOnlineOrder(o) PROVE PaymentsAsRead'
  BY <1>1, <1>9 DEF PayOnlineOrder, tables
<1>10. ASSUME NEW p \in Products, ImportProduct(p) PROVE PaymentsAsRead'
  BY <1>1, <1>10 DEF ImportProduct
<1>11. ASSUME NEW v \in Vouchers, CreateGeneralVoucher(v) \/ CreatePersonalVoucher(v) \/ DeleteVoucher(v)
       PROVE  PaymentsAsRead'
  BY <1>1, <1>11 DEF CreateGeneralVoucher, CreatePersonalVoucher, DeleteVoucher
<1>12. CASE UNCHANGED vars
  BY <1>1, <1>12 DEF vars, tables
<1> QED
  BY <1>2, <1>3, <1>4, <1>a, <1>5, <1>6, <1>7, <1>8, <1>9, <1>10, <1>11, <1>12 DEF Next, Step

\* Whatever interleaves, cancelOrder acts on the payment of its order as it is
\* unless another actor came near that order: no order whose money is booked is
\* canceled as unpaid, and the payment given back is the booked one.
THEOREM CancelSeesPayment == Spec => CancelFitsPayment
<1>1. Init => MeetingsSeen /\ PaymentsAsRead
  BY DEF Init, MeetingsSeen, HasPayment, PaymentsAsRead, AsRead, Idle, PaymentPoints
<1>2. Typed /\ MeetingsSeen /\ PaymentsAsRead /\ [Next]_vars => MeetingsSeen' /\ PaymentsAsRead'
  BY TypedParts, MeetingsStep, AsReadStep
<1>3. Spec => []PaymentsAsRead
  BY <1>1, <1>2, TypedAlways, PTL DEF Spec
<1>4. ASSUME PaymentsAsRead, NEW r \in Requests, NEW o, o = req[r].id, o \notin crossed
      PROVE  /\ CancelUnpaid(r) /\ order[o].method = "Online" =>
                   order[o].pay \notin {"Completed", "Refunded"}
             /\ GatewayRefundAccepted(r) =>
                   order[o].pay = "Completed" /\ order[o].code = req[r].code
  BY <1>4 DEF PaymentsAsRead, AsRead, Unpaid, CancelUnpaid, GatewayRefundAccepted
<1>5. PaymentsAsRead =>
          [\A r \in Requests :
              LET o == req[r].id IN
              /\ CancelUnpaid(r) /\ o \notin crossed /\ order[o].method = "Online" =>
                    order[o].pay \notin {"Completed", "Refunded"}
              /\ GatewayRefundAccepted(r) /\ o \notin crossed =>
                    order[o].pay = "Completed" /\ order[o].code = req[r].code]_vars
  BY <1>4
<1> QED
  BY <1>3, <1>5, PTL DEF CancelFitsPayment
=============================================================================
