------------------------------- MODULE Orders -------------------------------
(***************************************************************************)
(* The order desk of the shop: placing an order, paying it through the     *)
(* VNPay gateway, cancelling it with or without a refund, and walking it   *)
(* through Confirmed, Shipping, Unclaimed and Completed.                   *)
(*                                                                         *)
(* A handler of orders.service.ts is an async function: between two of its *)
(* awaits any other request runs.  A request occupies a slot of Requests   *)
(* and each of its database calls is one action.  A Prisma $transaction is *)
(* one action, but for the one that awaits the gateway while it is open:   *)
(* its order row and product rows stay locked until it commits.            *)
(***************************************************************************)
EXTENDS Integers, FiniteSets

CONSTANTS
    Users, Products, OrderIds, Vouchers,
    NoVoucher,      \* dto.voucherCode left out
    Methods,        \* payment methods customers choose
    Requests,       \* how many requests the server interleaves
    InitialStock,   \* quantityInStock of every product at first
    MaxQty,         \* largest quantity of a product in one order
    MaxAttempts,    \* payment URLs a customer asks for, per order
    MaxImport,      \* units moved by imports, per product
    VoucherQuantities,  \* quantities of general vouchers: the DTO has no minimum
    MaxFailures     \* requests that die at an await

ASSUME OrdersAssumption ==
    /\ {InitialStock, MaxQty, MaxAttempts, MaxImport, MaxFailures} \subseteq Nat
    /\ VoucherQuantities \subseteq Int
    /\ IsFiniteSet(Users)
    /\ NoVoucher \notin Vouchers
    /\ Methods \subseteq {"COD", "Online"}

VARIABLES
    stock,        \* Product.quantityInStock
    received,     \* table product_imports: sum of the product's positive quantities,
    withdrawn,    \* and of what its negative ones took
    order,        \* tables orders, order_details, order_payments: id -> row
    voucher,      \* table vouchers
    userVoucher,  \* table user_vouchers: status of the row, "None" when there is none
    rated,        \* table ratings: <<order, product>>
    notice,       \* status notifications sent: <<order, status>>
    issued,       \* payment URLs handed out, per order
    captured,     \* VNPay: payments <<order, attempt>> taken from the customer
    refunded,     \* VNPay: payments given back
    req,          \* the requests being served
    crossed,      \* orders being canceled that another actor came near meanwhile
    failures      \* requests that died so far

imports == <<received, withdrawn>>
tables  == <<order, stock, voucher, userVoucher, rated, notice, imports>>
gateway == <<issued, captured, refunded>>
vars    == <<tables, gateway, req, crossed, failures>>

OrderStatus   == {"Waiting", "Confirmed", "Shipping", "Completed", "Canceled", "Unclaimed"}
PaymentMethod == {"COD", "Online"}
PaymentStatus == {"Waiting", "Incomplete", "Completed", "Refunded"}

(* paymentCode: null, the vnp_TxnRef "<code>-<date>" of an attempt (which is *)
(* written together with its transactionNo), or its vnp_TransactionNo.       *)
PaymentCode == [kind : {"Null", "TxnRef", "TransactionNo"}, attempt : 0..MaxAttempts]
NullCode    == [kind |-> "Null", attempt |-> 0]

Basket   == {b \in [Products -> 0..MaxQty] : \E p \in Products : b[p] > 0}
OrderRow == [user : Users, items : Basket, voucher : Vouchers \cup {NoVoucher},
             method : PaymentMethod, status : OrderStatus, pay : PaymentStatus,
             code : PaymentCode, described : BOOLEAN]

VoucherRow == [type : {"None", "General", "Personal", "Deleted"}, remain : Int, quantity : Int]

ChangedTo == {"Confirmed", "Shipping", "Unclaimed"}   \* what changeOrderStatus is called with

Idle == [at |-> "Idle"]
RefundPoints == {"RefundAsked", "RefundAccepted", "RefundRefused"}
Request ==
    {Idle}
    \cup [at : {"Create"}, user : Users, items : Basket,
          voucher : Vouchers \cup {NoVoucher}, method : PaymentMethod]
    \cup [at : {"CancelRead", "CancelUnpaid", "RefundBegin", "Describe"} \cup RefundPoints,
          id : OrderIds, admin : BOOLEAN, code : PaymentCode]
    \cup [at : {"ChangeStatus", "Notify"}, id : OrderIds, to : ChangedTo]
    \cup [at : {"Complete"}, id : OrderIds]
    \cup [at : {"Rate"}, id : OrderIds, product : Products]

TypeOK ==
    /\ stock \in [Products -> Int]
    /\ received \in [Products -> Nat] /\ withdrawn \in [Products -> Nat]
    /\ DOMAIN order \subseteq OrderIds
    /\ order \in [DOMAIN order -> OrderRow]
    /\ voucher \in [Vouchers -> VoucherRow]
    /\ userVoucher \in [Vouchers -> [Users -> {"None", "NotUsed", "Used"}]]
    /\ rated \subseteq OrderIds \X Products
    /\ notice \subseteq OrderIds \X OrderStatus
    /\ issued \in [OrderIds -> 0..MaxAttempts]
    /\ captured \subseteq OrderIds \X (1..MaxAttempts)
    /\ refunded \subseteq captured
    /\ req \in [Requests -> Request]
    /\ crossed \subseteq OrderIds
    /\ failures \in 0..MaxFailures

Init ==
    /\ stock = [p \in Products |-> InitialStock]
    /\ received = [p \in Products |-> 0]
    /\ withdrawn = [p \in Products |-> 0]
    /\ order = [o \in {} |-> {}]
    /\ voucher = [v \in Vouchers |-> [type |-> "None", remain |-> 0, quantity |-> 0]]
    /\ userVoucher = [v \in Vouchers |-> [u \in Users |-> "None"]]
    /\ rated = {}
    /\ notice = {}
    /\ issued = [o \in OrderIds |-> 0]
    /\ captured = {}
    /\ refunded = {}
    /\ req = [r \in Requests |-> Idle]
    /\ crossed = {}
    /\ failures = 0

-----------------------------------------------------------------------------
(* Rows and locks *)

Rows == DOMAIN order
Active(o) == order[o].status # "Canceled"

\* The rows a refunding transaction has written and not committed yet.
InRefundOrDescribe(r) == req[r].at \in RefundPoints \cup {"Describe"}
InRefund(r)      == req[r].at \in RefundPoints
Locked(o)        == \E r \in Requests : InRefund(r) /\ req[r].id = o
ProductLocked(p) == \E r \in Requests : InRefund(r) /\ order[req[r].id].items[p] > 0
BasketFree(items) == \A p \in Products : items[p] > 0 => ~ProductLocked(p)

\* order.update: the row of o becomes the one given.
Update(o, row) == order' = [order EXCEPT ![o] = row]

\* From the first read that decides to the write, a request has its order in
\* hand; a cancellation, from its read to the answer of VNPay, the payment too.
DecidingPoints == {"CancelRead", "CancelUnpaid", "RefundBegin", "ChangeStatus", "Complete", "Rate"}
                      \cup RefundPoints
PaymentPoints  == {"CancelUnpaid", "RefundBegin", "RefundAsked"}
Decides(r, o)    == req[r].at \in DecidingPoints /\ req[r].id = o
HasPayment(r, o) == req[r].at \in PaymentPoints /\ req[r].id = o
Shared(o)        == \E r1, r2 \in Requests : r1 # r2 /\ Decides(r1, o) /\ Decides(r2, o)
PaymentRead(o)   == \E r \in Requests : HasPayment(r, o)

\* The history variable crossed remembers, while a cancellation has the payment,
\* whether another request had the order in hand, or a callback came.
Goto(r, point) ==
    /\ req' = [req EXCEPT ![r] = point]
    /\ crossed' = {o \in OrderIds : PaymentRead(o)' /\ (o \in crossed \/ Shared(o)')}
Reply(r) == Goto(r, Idle)
Cross(o) == crossed' = IF PaymentRead(o) THEN crossed \cup {o} ELSE crossed

-----------------------------------------------------------------------------
(* createOrder *)

UsableVoucherForgetful(v, u) ==
    /\ voucher[v].type \in {"General", "Personal"}
    /\ voucher[v].remain > 0

\* The where clause of the voucher lookup; the dates are left to chance.
UsableVoucher(v, u) ==
    /\ voucher[v].remain > 0
    /\ \/ voucher[v].type = "Personal" /\ userVoucher[v][u] = "NotUsed"
       \/ voucher[v].type = "General" /\ userVoucher[v][u] # "Used"

CreateOrderLookup(r) ==
    /\ req[r] = Idle
    /\ \E u \in Users, b \in Basket, m \in Methods, v \in Vouchers \cup {NoVoucher} :
          /\ v # NoVoucher => UsableVoucher(v, u)
          /\ Goto(r, [at |-> "Create", user |-> u, items |-> b, voucher |-> v, method |-> m])
    /\ OrderIds # Rows                     \* bound: number of orders
    /\ UNCHANGED <<tables, gateway, failures>>

EnoughBefore(items)  == \A p \in Products : items[p] > 0 => stock[p] >= 0
EnoughInStock(items) == \A p \in Products : items[p] > 0 => stock[p] >= items[p]

ChargedNothing(v) == voucher
Charged(v) == [voucher EXCEPT ![v].remain = @ - 1]

\* The voucher row may have been deleted since the lookup (P2025).
VoucherExists(v) == voucher[v].type \in {"General", "Personal"}

UseVoucher(v, u) ==
    /\ voucher' = Charged(v)
    /\ userVoucher' = [userVoucher EXCEPT ![v][u] = "Used"]

NewRow(q) ==
    [user |-> q.user, items |-> q.items, voucher |-> q.voucher, method |-> q.method,
     status |-> "Waiting", code |-> NullCode, described |-> FALSE,
     pay |-> IF q.method = "COD" THEN "Incomplete" ELSE "Waiting"]

CreateOrderCommit(r) ==
    LET q == req[r] IN
    /\ q.at = "Create"
    /\ BasketFree(q.items)
    /\ EnoughInStock(q.items)
    /\ stock' = [p \in Products |-> stock[p] - q.items[p]]
    /\ IF q.voucher = NoVoucher
       THEN UNCHANGED <<voucher, userVoucher>>
       ELSE VoucherExists(q.voucher) /\ UseVoucher(q.voucher, q.user)
    /\ \E new \in OrderIds \ Rows :
          order' = [o \in Rows \cup {new} |-> IF o = new THEN NewRow(q) ELSE order[o]]
    /\ Reply(r)
    /\ UNCHANGED <<rated, notice, imports, gateway, failures>>

\* Conflict or P2025: the transaction is rolled back.  A voucher's minimum
\* order price may also turn the order down.
CreateOrderReject(r) ==
    LET q == req[r] IN
    /\ q.at = "Create"
    /\ BasketFree(q.items)
    /\ \/ ~EnoughInStock(q.items)
       \/ q.voucher # NoVoucher
       \/ OrderIds = Rows                  \* bound: number of orders
    /\ Reply(r)
    /\ UNCHANGED <<tables, gateway, failures>>

-----------------------------------------------------------------------------
(* Paying online: payOnlineOrder, the gateway, and its two callbacks *)

\* One read, then a URL with a vnp_TxnRef of its own.
PayOnlineOrder(o) ==
    /\ o \in Rows
    /\ order[o].status = "Waiting"
    /\ order[o].method = "Online"
    /\ order[o].pay \notin {"Completed", "Refunded"}
    /\ issued[o] < MaxAttempts             \* bound: payment URLs per order
    /\ issued' = [issued EXCEPT ![o] = @ + 1]
    /\ UNCHANGED <<tables, captured, refunded, req, crossed, failures>>

\* The customer pays at VNPay, at any time after the URL was made.
GatewayCapture(o, a) ==
    /\ a \in 1..issued[o]
    /\ <<o, a>> \notin captured
    /\ captured' = captured \cup {<<o, a>>}
    /\ UNCHANGED <<tables, issued, refunded, req, crossed, failures>>

PaymentSuccessNoCode(o, kind, a) == [order[o] EXCEPT !.pay = "Completed"]

\* handlePaymentOrderSuccess: whatever the order and its payment are by now.
PaymentSuccess(o, kind, a) ==
    [order[o] EXCEPT !.pay = "Completed", !.code = [kind |-> kind, attempt |-> a]]

\* The customer's browser returns with vnp_TxnRef: late, repeatedly or never.
NotificationVnpayPayment(o, a) ==
    /\ o \in Rows /\ <<o, a>> \in captured
    /\ Update(o, PaymentSuccess(o, "TxnRef", a))
    /\ Cross(o)
    /\ UNCHANGED <<stock, voucher, userVoucher, rated, notice, imports, gateway, req, failures>>

\* VNPay's server calls: late, repeatedly or never, and in any order with the other.
HandleVnpayPayment(o, a) ==
    /\ o \in Rows /\ <<o, a>> \in captured
    /\ Update(o, PaymentSuccess(o, "TransactionNo", a))
    /\ Cross(o)
    /\ UNCHANGED <<stock, voucher, userVoucher, rated, notice, imports, gateway, req, failures>>

-----------------------------------------------------------------------------
(* userCancelOrder, adminCancelOrder and the cancelOrder they share *)

CancelPoint(at, o, admin, code) == [at |-> at, id |-> o, admin |-> admin, code |-> code]

UserMayCancelUnshipped(o) == order[o].status \in {"Waiting", "Confirmed"}
UserMayCancel(o) == order[o].status = "Waiting"

UserCancelCheck(r, o) ==
    /\ req[r] = Idle
    /\ o \in Rows
    /\ UserMayCancel(o)
    /\ Goto(r, CancelPoint("CancelRead", o, FALSE, NullCode))
    /\ UNCHANGED <<tables, gateway, failures>>

AdminCancelOrder(r, o) ==
    /\ req[r] = Idle
    /\ o \in Rows
    /\ Goto(r, CancelPoint("CancelRead", o, TRUE, NullCode))
    /\ UNCHANGED <<tables, gateway, failures>>

CancellableAgain(o) == order[o].status # "Completed"
Cancellable(o) == order[o].status \notin {"Canceled", "Completed"}
UnpaidOrBooked(o) == order[o].method = "COD" \/ order[o].pay # "Refunded"
Unpaid(o) == order[o].method = "COD" \/ order[o].pay \in {"Waiting", "Incomplete"}

\* The read of cancelOrder decides the branch; nothing is read again later.
CancelOrderRead(r) ==
    LET q == req[r]  o == req[r].id IN
    /\ q.at = "CancelRead"
    /\ CASE Cancellable(o) /\ Unpaid(o) ->
              Goto(r, CancelPoint("CancelUnpaid", o, q.admin, NullCode))
         [] Cancellable(o) /\ ~Unpaid(o) /\ order[o].pay = "Completed" ->
              Goto(r, CancelPoint("RefundBegin", o, q.admin, order[o].code))
         [] OTHER -> Reply(r)
    /\ UNCHANGED <<tables, gateway, failures>>

RestockedNothing(items) == stock
Restocked(items) == [p \in Products |-> stock[p] + items[p]]

\* adminCancelOrder goes on to store the cause, userCancelOrder answers.
CancelDone(r) ==
    IF req[r].admin
    THEN Goto(r, CancelPoint("Describe", req[r].id, TRUE, NullCode))
    ELSE Reply(r)

CancelUnpaid(r) ==
    LET o == req[r].id IN
    /\ req[r].at = "CancelUnpaid"
    /\ ~Locked(o)
    /\ BasketFree(order[o].items)
    /\ Update(o, [order[o] EXCEPT !.status = "Canceled",
                                  !.pay = IF order[o].method = "COD" THEN @ ELSE "Incomplete"])
    /\ stock' = Restocked(order[o].items)
    /\ CancelDone(r)
    /\ UNCHANGED <<voucher, userVoucher, rated, notice, imports, gateway, failures>>

RefundAt(r, at) == Goto(r, CancelPoint(at, req[r].id, req[r].admin, req[r].code))

\* The interactive transaction writes the order and the products, then waits
\* for the gateway with the rows locked.
BeginRefund(r) ==
    LET o == req[r].id IN
    /\ req[r].at = "RefundBegin"
    /\ ~Locked(o)
    /\ BasketFree(order[o].items)
    /\ RefundAt(r, "RefundAsked")
    /\ UNCHANGED <<tables, gateway, failures>>

\* Only a TxnRef code gives the transactionDate and transactionNo of a payment.
RefundReference(q) == IF q.code.kind = "TxnRef" THEN {<<q.id, q.code.attempt>>} ELSE {}

GatewayRefundAccepted(r) ==
    /\ req[r].at = "RefundAsked"
    /\ \E txn \in RefundReference(req[r]) \cap (captured \ refunded) :
          refunded' = refunded \cup {txn}
    /\ RefundAt(r, "RefundAccepted")
    /\ UNCHANGED <<tables, issued, captured, failures>>

GatewayRefundRefused(r) ==
    /\ req[r].at = "RefundAsked"
    /\ RefundAt(r, "RefundRefused")
    /\ UNCHANGED <<tables, gateway, failures>>

PayAfterRefundOptimistic(q) == "Refunded"
PayAfterRefund(q) == IF q.at = "RefundAccepted" THEN "Refunded" ELSE order[q.id].pay

\* A refused refund still commits the cancellation.
CancelPaidCommit(r) ==
    LET o == req[r].id IN
    /\ req[r].at \in {"RefundAccepted", "RefundRefused"}
    /\ Update(o, [order[o] EXCEPT !.status = "Canceled", !.pay = PayAfterRefund(req[r])])
    /\ stock' = Restocked(order[o].items)
    /\ CancelDone(r)
    /\ UNCHANGED <<voucher, userVoucher, rated, notice, imports, gateway, failures>>

DescribeCancel(r) ==
    /\ req[r].at = "Describe"
    /\ ~Locked(req[r].id)
    /\ Update(req[r].id, [order[req[r].id] EXCEPT !.described = TRUE])
    /\ Reply(r)
    /\ UNCHANGED <<stock, voucher, userVoucher, rated, notice, imports, gateway, failures>>

-----------------------------------------------------------------------------
(* confirmOrder, shippingOrder, unclaimOrder, completeOrder: check, then act *)

ConfirmableUnpaid(o) == order[o].status = "Waiting"
ConfirmableRefunded(o) ==
    /\ order[o].status = "Waiting" \/ order[o].pay = "Refunded"
    /\ order[o].method = "Online" => order[o].pay \in {"Completed", "Refunded"}
Confirmable(o) ==
    /\ order[o].status = "Waiting"
    /\ order[o].method = "Online" => order[o].pay = "Completed"

StatusCheckPassed(r, o, to) ==
    /\ req[r] = Idle
    /\ Goto(r, [at |-> "ChangeStatus", id |-> o, to |-> to])
    /\ UNCHANGED <<tables, gateway, failures>>

ConfirmOrder(r, o) ==
    o \in Rows /\ Confirmable(o) /\ StatusCheckPassed(r, o, "Confirmed")

ShippingOrder(r, o) ==
    o \in Rows /\ order[o].status = "Confirmed" /\ StatusCheckPassed(r, o, "Shipping")

UnclaimOrder(r, o) ==
    o \in Rows /\ order[o].status = "Shipping" /\ StatusCheckPassed(r, o, "Unclaimed")

\* changeOrderStatus updates by id alone, then tells the customer.
ChangeOrderStatus(r) ==
    LET q == req[r] IN
    /\ q.at = "ChangeStatus"
    /\ ~Locked(q.id)
    /\ Update(q.id, [order[q.id] EXCEPT !.status = q.to])
    /\ Goto(r, [at |-> "Notify", id |-> q.id, to |-> q.to])
    /\ UNCHANGED <<stock, voucher, userVoucher, rated, notice, imports, gateway, failures>>

CreateSpecificNotification(r) ==
    /\ req[r].at = "Notify"
    /\ notice' = notice \cup {<<req[r].id, req[r].to>>}
    /\ Reply(r)
    /\ UNCHANGED <<order, stock, voucher, userVoucher, rated, imports, gateway, failures>>

CompletableEarly(o) == order[o].status \in {"Confirmed", "Shipping", "Unclaimed"}
Completable(o) == order[o].status \in {"Shipping", "Unclaimed"}

CompleteOrder(r, o) ==
    /\ req[r] = Idle
    /\ o \in Rows /\ Completable(o)
    /\ Goto(r, [at |-> "Complete", id |-> o])
    /\ UNCHANGED <<tables, gateway, failures>>

CompleteOrderWrite(r) ==
    LET o == req[r].id IN
    /\ req[r].at = "Complete"
    /\ ~Locked(o)
    /\ Update(o, [order[o] EXCEPT !.status = "Completed", !.pay = "Completed"])
    /\ Reply(r)
    /\ UNCHANGED <<stock, voucher, userVoucher, rated, notice, imports, gateway, failures>>

-----------------------------------------------------------------------------
(* ratingPurchasedProduct *)

Rateable(o, p) == order[o].status = "Completed" /\ order[o].items[p] > 0 /\ <<o, p>> \notin rated

RatePurchasedProduct(r, o, p) ==
    /\ req[r] = Idle
    /\ o \in Rows /\ Rateable(o, p)
    /\ Goto(r, [at |-> "Rate", id |-> o, product |-> p])
    /\ UNCHANGED <<tables, gateway, failures>>

\* rating.create: orderDetailId is unique, the second of two ratings fails.
RatingCreate(r) ==
    /\ req[r].at = "Rate"
    /\ rated' = rated \cup {<<req[r].id, req[r].product>>}
    /\ Reply(r)
    /\ UNCHANGED <<order, stock, voucher, userVoucher, notice, imports, gateway, failures>>

-----------------------------------------------------------------------------
(* Stock imports and vouchers: one database call each *)

\* Whatever number is sent: neither the DTO nor a row of a form has a minimum,
\* and a negative import is booked and takes units out.
ImportProduct(p) ==
    /\ ~ProductLocked(p)
    /\ \E q \in (-MaxImport)..MaxImport :
          /\ stock' = [stock EXCEPT ![p] = @ + q]
          /\ received' = [received EXCEPT ![p] = IF q > 0 THEN @ + q ELSE @]
          /\ withdrawn' = [withdrawn EXCEPT ![p] = IF q < 0 THEN @ - q ELSE @]
    /\ (received[p] + withdrawn[p])' <= MaxImport      \* bound: units moved by imports
    /\ UNCHANGED <<order, voucher, userVoucher, rated, notice, gateway, req, crossed, failures>>

CreateGeneralVoucher(v) ==
    /\ voucher[v].type = "None"
    /\ \E n \in VoucherQuantities :
          voucher' = [voucher EXCEPT ![v] = [type |-> "General", remain |-> n, quantity |-> n]]
    /\ UNCHANGED <<order, stock, userVoucher, rated, notice, imports, gateway, req, crossed, failures>>

CreatePersonalVoucher(v) ==
    /\ voucher[v].type = "None"
    /\ \E us \in (SUBSET Users) \ {{}} :
          /\ voucher' = [voucher EXCEPT ![v] = [type |-> "Personal", remain |-> Cardinality(us),
                                                quantity |-> Cardinality(us)]]
          /\ userVoucher' = [userVoucher EXCEPT
                               ![v] = [u \in Users |-> IF u \in us THEN "NotUsed" ELSE "None"]]
    /\ UNCHANGED <<order, stock, rated, notice, imports, gateway, req, crossed, failures>>

DeleteVoucher(v) ==
    /\ VoucherExists(v)
    /\ voucher' = [voucher EXCEPT ![v].type = "Deleted"]
    /\ userVoucher' = [userVoucher EXCEPT ![v] = [u \in Users |-> "None"]]
    /\ UNCHANGED <<order, stock, rated, notice, imports, gateway, req, crossed, failures>>

-----------------------------------------------------------------------------
(* A request dies at an await: a database error, the transaction's time-out, *)
(* the gateway unreachable, the server restarted.  An open transaction rolls *)
(* back; what VNPay did stays done.                                          *)
Fail(r) ==
    /\ req[r] # Idle
    /\ failures < MaxFailures              \* bound: requests that die
    /\ failures' = failures + 1
    /\ Reply(r)
    /\ UNCHANGED <<tables, gateway>>

\* The next database call, or gateway answer, of a request under way.
Step(r) ==
    \/ CreateOrderCommit(r) \/ CreateOrderReject(r)
    \/ CancelOrderRead(r) \/ CancelUnpaid(r) \/ BeginRefund(r)
    \/ GatewayRefundAccepted(r) \/ GatewayRefundRefused(r) \/ CancelPaidCommit(r)
    \/ DescribeCancel(r)
    \/ ChangeOrderStatus(r) \/ CreateSpecificNotification(r)
    \/ CompleteOrderWrite(r) \/ RatingCreate(r)

Start(r) ==
    \/ CreateOrderLookup(r)
    \/ \E o \in OrderIds :
          \/ UserCancelCheck(r, o) \/ AdminCancelOrder(r, o)
          \/ ConfirmOrder(r, o) \/ ShippingOrder(r, o) \/ UnclaimOrder(r, o)
          \/ CompleteOrder(r, o)
          \/ \E p \in Products : RatePurchasedProduct(r, o, p)

Next ==
    \/ \E r \in Requests : Start(r) \/ Step(r) \/ Fail(r)
    \/ \E o \in OrderIds : PayOnlineOrder(o)
    \/ \E o \in OrderIds, a \in 1..MaxAttempts :
          GatewayCapture(o, a) \/ NotificationVnpayPayment(o, a) \/ HandleVnpayPayment(o, a)
    \/ \E p \in Products : ImportProduct(p)
    \/ \E v \in Vouchers : CreateGeneralVoucher(v) \/ CreatePersonalVoucher(v) \/ DeleteVoucher(v)

Spec == Init /\ [][Next]_vars

(***************************************************************************)
(* The desk with one request at a time for each order, and for each        *)
(* voucher being spent: from the first read that decides to the write.     *)
(* The code has no such locks; OrderlySpec says what they would be good    *)
(* for.  Requests about different orders still interleave freely, and so   *)
(* do VNPay's callbacks with all of them.                                  *)
(***************************************************************************)
Spends(r, v)  == req[r].at = "Create" /\ req[r].voucher = v

Orderly ==
    /\ \A o \in OrderIds : ~Shared(o)
    /\ \A v \in Vouchers : \A r1, r2 \in Requests : Spends(r1, v) /\ Spends(r2, v) => r1 = r2

OrderlySpec == Init /\ [][Next /\ Orderly']_vars

\* A waiting writer gets its row lock (InnoDB queues them first come, first
\* served), so a request's next call is strongly fair.  Nobody has to send one.
FairSpec == Spec /\ \A r \in Requests : SF_vars(Step(r))
-----------------------------------------------------------------------------
(* What must hold *)

\* The units of p in orders that are not canceled, each the n-th of its order.
UnitsOrdered(p) == {u \in Rows \X (1..MaxQty) : Active(u[1]) /\ u[2] <= order[u[1]].items[p]}

Held(p) == stock[p] + Cardinality(UnitsOrdered(p))
Supplied(p) == InitialStock + received[p] - withdrawn[p]

\* createOrder decrements first and checks after, inside its transaction: no
\* interleaving of orders, cancellations and imports sells units the shop does
\* not have.  Below zero the stock goes only as far as negative imports took it.
NeverOversold == \A p \in Products : stock[p] >= -withdrawn[p]

\* Units are in stock or in an order that is not canceled; whatever is
\* interleaved, dies or is rolled back, createOrder and cancelOrder lose none.
NoUnitLost == \A p \in Products : Held(p) >= Supplied(p)

\* With one request at a time per order, none is made up either: cancelling
\* restocks once.
StockConserved == \A p \in Products : Held(p) = Supplied(p)

Paid(o) == \E a \in 1..MaxAttempts : <<o, a>> \in captured
Handed == {"Confirmed", "Shipping", "Unclaimed", "Completed"}

\* confirmOrder's promise survives every race of callbacks, cancellations and
\* status changes: an online order is handed on, and its customer is told so,
\* only when the gateway has taken the money.
PaidBeforeConfirmed ==
    \A o \in Rows : order[o].method = "Online" =>
        /\ order[o].status \in Handed => Paid(o)
        /\ \A s \in Handed : <<o, s>> \in notice => Paid(o)

\* cancelOrder splits the paymentCode of a Completed online payment: no path,
\* completeOrder's included, leaves such a payment without one.
CompletedPaymentHasCode ==
    \A o \in Rows :
        order[o].method = "Online" /\ order[o].pay = "Completed" => order[o].code # NullCode

\* A payment is booked as Refunded only if VNPay gave money of that order back.
RefundedPaymentIsReal ==
    \A o \in Rows : order[o].pay = "Refunded" => \E a \in 1..MaxAttempts : <<o, a>> \in refunded

\* With one request at a time per order, and none dying so far: an order whose
\* money went back is canceled, or its refunding transaction is about to
\* commit.  No later callback, retry or status change gives its goods away.
RefundedOrderIsCanceled ==
    failures = 0 => \A txn \in refunded :
        \/ order[txn[1]].status = "Canceled"
        \/ \E r \in Requests : req[r].at = "RefundAccepted" /\ req[r].id = txn[1]

OrdersWith(v) == {o \in Rows : order[o].voucher = v}

\* createOrder charges a voucher in the transaction that creates the order: its
\* remaining quantity and the orders placed with it always add up, and each of
\* those orders' customers has it marked Used.
VoucherLedger ==
    \A v \in Vouchers : VoucherExists(v) =>
        /\ voucher[v].remain + Cardinality(OrdersWith(v)) = voucher[v].quantity
        /\ \A u \in Users :
              userVoucher[v][u] = "Used" <=> \E o \in OrdersWith(v) : order[o].user = u

\* With one request at a time spending a voucher, a customer uses it once, it
\* is not used more often than it was issued (a general one issued for less
\* than nothing is not used at all), and a personal one has a use left
\* for everyone who still holds it.
VoucherOncePerUser ==
    \A v \in Vouchers : VoucherExists(v) =>
        /\ voucher[v].remain >= 0 \/ OrdersWith(v) = {}
        /\ \A o1, o2 \in OrdersWith(v) : order[o1].user = order[o2].user => o1 = o2
        /\ voucher[v].type = "Personal" =>
              voucher[v].remain = Cardinality({u \in Users : userVoucher[v][u] = "NotUsed"})

\* "You cannot cancel a confirmed order": when a customer's own cancellation
\* takes effect, the order is still waiting.
UserCancelsUnconfirmed ==
    [][\A r \in Requests :
          (CancelUnpaid(r) \/ CancelPaidCommit(r)) /\ ~req[r].admin
              => order[req[r].id].status = "Waiting"]_vars

\* cancelOrder acts on the payment of its order as it is, if nobody else came
\* near that order since it was read: no order whose money has been booked is
\* canceled as unpaid, and the payment given back is the booked one.
CancelFitsPayment ==
    [][\A r \in Requests :
          LET o == req[r].id IN
          /\ CancelUnpaid(r) /\ o \notin crossed /\ order[o].method = "Online" =>
                order[o].pay \notin {"Completed", "Refunded"}
          /\ GatewayRefundAccepted(r) /\ o \notin crossed =>
                order[o].pay = "Completed" /\ order[o].code = req[r].code]_vars

\* The payment recorded by the callback "used in prod" can be given back by
\* cancelOrder: its paymentCode yields the transaction's reference.
CompletedPaymentRefundable ==
    \A r \in Requests : req[r].at = "RefundAsked" => RefundReference(req[r]) # {}

\* With one request at a time per order, the desk implements the lifecycle it
\* promises.
Lifecycle == INSTANCE OrderLifecycle WITH
    phase    <- [o \in OrderIds |-> IF o \in Rows THEN order[o].status ELSE "Unplaced"],
    prepaid  <- {o \in Rows : order[o].method = "Online"},
    paid     <- {o \in Rows : Paid(o)},
    reviewed <- rated
LifecycleSpec == Lifecycle!Spec

\* Every request is answered or dies: row locks held across the call to VNPay
\* and waits for them never leave requests waiting for each other for ever.
RequestsAnswered == \A r \in Requests : req[r] # Idle ~> req[r] = Idle
=============================================================================
