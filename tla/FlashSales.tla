----------------------------- MODULE FlashSales -----------------------------
(***************************************************************************)
(* Flash sales of one product: flash-sales.service.ts.                     *)
(*                                                                         *)
(* Creating a flash sale stores a row and leaves two one-shot cron jobs in *)
(* the memory of the server.  The enabling job moves the product to the    *)
(* flash price and sets aside the units that are not on sale; the          *)
(* disabling job moves it back and deletes the row.  None of the handlers  *)
(* uses a transaction: each database call is an action, and a handler keeps *)
(* what it read in its worker.  An error in a job is an unhandled          *)
(* rejection: Node 16 ends the process and docker starts another.          *)
(***************************************************************************)
EXTENDS Integers, FiniteSets, FiniteSetsExt

CONSTANTS
    Sales,         \* ids of flash sales
    None,          \* no flash sale
    Workers,       \* how many handlers and jobs run at a time
    BasePrice,     \* salePrice of the product at first
    Prices,        \* flash prices an administrator asks for
    NewPrices,     \* sale prices an administrator sets by updateProduct
    Quantities,    \* flash quantities an administrator asks for
    InitialStock,  \* quantityInStock at first
    MaxImport,     \* units moved by imports
    MaxOrdered,    \* units in orders that are not canceled
    MaxTime,       \* last instant of the clock
    MinLength,     \* shortest flash sale an administrator asks for
    MaxRestarts,   \* restarts of the server
    Interleaved    \* orders and time go on while a handler or job is at work

ASSUME FlashSalesAssumption ==
    /\ None \notin Sales
    /\ BasePrice \in Int /\ Prices \subseteq Int /\ NewPrices \subseteq Int
    /\ Quantities \subseteq Int           \* the DTO has no minimum
    /\ {InitialStock, MaxImport, MaxOrdered, MaxTime, MinLength, MaxRestarts} \subseteq Nat
    /\ Interleaved \in BOOLEAN

VARIABLES
    stock,     \* Product.quantityInStock
    price,     \* Product.salePrice
    current,   \* Product.currentFlashSale
    sale,      \* table flash_sales: id -> row
    made,      \* ids given out; the database does not reuse them
    jobs,      \* cron jobs in memory: <<"Enable" or "Disable", sale>>
    work,      \* what each worker has read and does next
    clock,
    units,     \* units the shop has not promised to a customer
    received, withdrawn,   \* units that imports brought, and that negative ones took
    lowest,    \* history: the lowest quantity of a flash sale so far, or 0
    restarts

imports == <<received, withdrawn>>
vars == <<stock, price, current, sale, made, jobs, work, clock, units, imports, lowest, restarts>>

Time == 0..MaxTime
Row  == [start : Time, due : Time, price : Int, qty : Int, prevPrice : Int, prevQty : Int]

\* A worker's copy of a row, and the sale it works for.
Points == {"Create", "EnableRow", "EnableProduct", "DisableProduct", "DisableDelete",
           "DeleteProduct", "DeleteRow"}
Idle == [at |-> "Idle"]
Task == {Idle} \cup [at : Points, id : Sales \cup {None}, row : Row]

TypeOK ==
    /\ stock \in Int /\ price \in Int /\ units \in Int
    /\ received \in Nat /\ withdrawn \in Nat /\ lowest \in Int
    /\ DOMAIN sale \subseteq made /\ made \subseteq Sales
    /\ sale \in [DOMAIN sale -> Row]
    /\ current \in DOMAIN sale \cup {None}
    /\ jobs \subseteq {"Enable", "Disable"} \X Sales
    /\ work \in [Workers -> Task]
    /\ clock \in Time
    /\ restarts \in 0..MaxRestarts

Init ==
    /\ stock = InitialStock /\ price = BasePrice /\ units = InitialStock
    /\ received = 0 /\ withdrawn = 0 /\ lowest = 0
    /\ current = None
    /\ sale = [s \in {} |-> {}]
    /\ made = {} /\ jobs = {}
    /\ work = [w \in Workers |-> Idle]
    /\ clock = 0
    /\ restarts = 0

Rows  == DOMAIN sale
Quiet == \A w \in Workers : work[w] = Idle
product == <<stock, price, current, units, imports>>

Least(a, b) == IF a > b THEN b ELSE a

Finish(w) == work' = [work EXCEPT ![w] = Idle]
Goto(w, at, s, row) == work' = [work EXCEPT ![w] = [at |-> at, id |-> s, row |-> row]]

\* The process ends: the jobs in memory and whatever was running are gone.
Crash == jobs' = {} /\ work' = [w \in Workers |-> Idle]

DeleteSale(s) ==
    /\ sale' = [x \in Rows \ {s} |-> sale[x]]
    /\ current' = IF current = s THEN None ELSE current     \* ON DELETE SET NULL

-----------------------------------------------------------------------------
(* createFlashSale *)

DisjointTouching(a, b) == a.due <= b.start \/ a.start >= b.due
Disjoint(a, b) == a.due < b.start \/ a.start > b.due

PriceValid(row) == row.price <= price

CreateFlashSaleRead(w) ==
    /\ work[w] = Idle
    /\ made # Sales                        \* bound: number of flash sales
    /\ \E start, due \in Time, p \in Prices, q \in Quantities :
          LET row == [start |-> start, due |-> due, price |-> p, qty |-> q,
                      prevPrice |-> price, prevQty |-> stock]
          IN  /\ clock <= start /\ start + MinLength <= due
              /\ \A s \in Rows : Disjoint(row, sale[s])
              /\ PriceValid(row)
              /\ q <= stock
              /\ Goto(w, "Create", None, row)
    /\ UNCHANGED <<product, sale, jobs, made, clock, lowest, restarts>>

JobsOfEnableOnly(s, row) == {<<"Enable", s>>}

\* A cron job whose time has passed is refused by the library.
JobsOf(s, row) ==
    {<<"Enable", s>> : x \in {t \in {row.start} : t >= clock}}
        \cup {<<"Disable", s>> : x \in {t \in {row.due} : t >= clock}}

CreateFlashSaleCommit(w) ==
    /\ work[w].at = "Create"
    /\ \E s \in Sales \ made :
          /\ made' = made \cup {s}
          /\ sale' = [x \in Rows \cup {s} |-> IF x = s THEN work[w].row ELSE sale[x]]
          /\ jobs' = jobs \cup JobsOf(s, work[w].row)
    /\ lowest' = Least(work[w].row.qty, lowest)
    /\ Finish(w)
    /\ UNCHANGED <<product, clock, restarts>>

-----------------------------------------------------------------------------
(* enableFlashSale: the job at startAt *)

FireEnable(w, s) ==
    /\ work[w] = Idle
    /\ <<"Enable", s>> \in jobs /\ s \in Rows
    /\ clock >= sale[s].start
    /\ jobs' = jobs \ {<<"Enable", s>>}
    /\ Goto(w, "EnableRow", s, [sale[s] EXCEPT !.prevPrice = price, !.prevQty = stock])
    /\ UNCHANGED <<product, sale, made, clock, lowest, restarts>>

\* The job of a deleted flash sale finds no product and returns.
FireVainly(k, s) ==
    /\ <<k, s>> \in jobs
    /\ s \notin Rows \/ (s \in Rows /\ k = "Disable" /\ current # s /\ clock >= sale[s].due)
    /\ k = "Disable" => <<"Enable", s>> \notin jobs
    /\ jobs' = jobs \ {<<k, s>>}
    /\ UNCHANGED <<product, sale, work, made, clock, lowest, restarts>>

UnclampedPrice(row) == [row EXCEPT !.qty = Least(row.qty, row.prevQty)]
UnclampedQty(row)   == [row EXCEPT !.price = Least(row.price, row.prevPrice)]
Clamped(row) ==
    [row EXCEPT !.price = Least(row.price, row.prevPrice), !.qty = Least(row.qty, row.prevQty)]

\* The row takes the price and stock the worker read when it fired.
RefreshedKeepingPrice(s, row) == [Clamped(row) EXCEPT !.prevPrice = sale[s].prevPrice]
Refreshed(s, row) == Clamped(row)

EnableRow(w) ==
    LET s == work[w].id  row == Refreshed(s, work[w].row) IN
    /\ work[w].at = "EnableRow"
    /\ IF s \in Rows
       THEN /\ sale' = [sale EXCEPT ![s] = row]
            /\ Goto(w, "EnableProduct", s, row)
            /\ UNCHANGED jobs
       ELSE Crash /\ UNCHANGED sale
    /\ UNCHANGED <<product, made, clock, lowest, restarts>>

\* quantityInStock is set, not changed by a difference.
EnableProduct(w) ==
    LET s == work[w].id  row == work[w].row IN
    /\ work[w].at = "EnableProduct"
    /\ IF s \in Rows
       THEN /\ price' = row.price /\ stock' = row.qty /\ current' = s
            /\ Finish(w)
            /\ UNCHANGED jobs
       ELSE Crash /\ UNCHANGED <<price, stock, current>>
    /\ UNCHANGED <<sale, units, imports, made, clock, lowest, restarts>>

-----------------------------------------------------------------------------
(* disableFlashSale, the job at dueAt, and deleteFlashSale *)

Released(row) == row.prevQty - row.qty

\* product.update of both: price back, units set aside back, no current sale.
RestoreProduct(row) ==
    /\ price' = row.prevPrice
    /\ stock' = stock + Released(row)
    /\ current' = None

\* The enabling job of a sale was started before it, for an earlier time.
FireDisable(w, s) ==
    /\ work[w] = Idle
    /\ <<"Disable", s>> \in jobs /\ <<"Enable", s>> \notin jobs
    /\ s \in Rows /\ current = s
    /\ clock >= sale[s].due
    /\ jobs' = jobs \ {<<"Disable", s>>}
    /\ Goto(w, "DisableProduct", s, sale[s])
    /\ UNCHANGED <<product, sale, made, clock, lowest, restarts>>

DisableProduct(w) ==
    /\ work[w].at = "DisableProduct"
    /\ RestoreProduct(work[w].row)
    /\ Goto(w, "DisableDelete", work[w].id, work[w].row)
    /\ UNCHANGED <<sale, jobs, units, imports, made, clock, lowest, restarts>>

DisableDelete(w) ==
    /\ work[w].at = "DisableDelete"
    /\ IF work[w].id \in Rows
       THEN DeleteSale(work[w].id) /\ Finish(w) /\ UNCHANGED jobs
       ELSE Crash /\ UNCHANGED <<sale, current>>
    /\ UNCHANGED <<stock, price, units, imports, made, clock, lowest, restarts>>

DeleteFlashSaleRead(w, s) ==
    /\ work[w] = Idle
    /\ s \in Rows
    /\ Goto(w, IF current = s THEN "DeleteProduct" ELSE "DeleteRow", s, sale[s])
    /\ UNCHANGED <<product, sale, jobs, made, clock, lowest, restarts>>

DeleteProduct(w) ==
    /\ work[w].at = "DeleteProduct"
    /\ RestoreProduct(work[w].row)
    /\ Goto(w, "DeleteRow", work[w].id, work[w].row)
    /\ UNCHANGED <<sale, jobs, units, imports, made, clock, lowest, restarts>>

\* The error of a row already gone is answered, not fatal.
DeleteRow(w) ==
    /\ work[w].at = "DeleteRow"
    /\ IF work[w].id \in Rows THEN DeleteSale(work[w].id) ELSE UNCHANGED <<sale, current>>
    /\ Finish(w)
    /\ UNCHANGED <<stock, price, units, imports, jobs, made, clock, lowest, restarts>>

-----------------------------------------------------------------------------
(* The rest of the shop: createOrder, cancelOrder, updateProduct; time and crashes *)

MayInterleave == Interleaved \/ Quiet

\* An import adds units or, of a negative quantity, takes some out.
ImportProduct ==
    /\ MayInterleave
    /\ \E q \in (-MaxImport)..MaxImport :
          /\ stock' = stock + q /\ units' = units + q
          /\ received'  = IF q > 0 THEN received + q ELSE received
          /\ withdrawn' = IF q < 0 THEN withdrawn - q ELSE withdrawn
    /\ received' + withdrawn' <= MaxImport       \* bound: units moved by imports
    /\ UNCHANGED <<price, current, sale, made, jobs, work, clock, lowest, restarts>>

Ordered == InitialStock + received - withdrawn - units

OrderOne ==
    /\ MayInterleave /\ stock >= 1
    /\ Ordered < MaxOrdered                      \* bound: units ordered
    /\ stock' = stock - 1 /\ units' = units - 1
    /\ UNCHANGED <<price, current, sale, made, jobs, work, clock, imports, lowest, restarts>>

CancelOne ==
    /\ MayInterleave /\ Ordered > 0              \* only what was ordered comes back
    /\ stock' = stock + 1 /\ units' = units + 1
    /\ UNCHANGED <<price, current, sale, made, jobs, work, clock, imports, lowest, restarts>>

UpdateSalePrice ==
    /\ MayInterleave
    /\ price' \in NewPrices
    /\ UNCHANGED <<stock, current, sale, made, jobs, work, clock, units, imports, lowest, restarts>>

Instant(j) == IF j[1] = "Enable" THEN sale[j[2]].start ELSE sale[j[2]].due
Due(j) == j[2] \in Rows => clock >= Instant(j)

\* Without interleaving, a job runs in the instant it is due.
Tick ==
    /\ clock < MaxTime                           \* bound: length of the run
    /\ Interleaved \/ (Quiet /\ \A j \in jobs : ~Due(j))
    /\ clock' = clock + 1
    /\ UNCHANGED <<product, sale, made, jobs, work, lowest, restarts>>

Restart ==
    /\ restarts < MaxRestarts                    \* bound: restarts of the server
    /\ restarts' = restarts + 1
    /\ Crash
    /\ UNCHANGED <<product, sale, made, clock, lowest>>

Step(w) ==
    \/ CreateFlashSaleCommit(w)
    \/ EnableRow(w) \/ EnableProduct(w)
    \/ DisableProduct(w) \/ DisableDelete(w)
    \/ DeleteProduct(w) \/ DeleteRow(w)

Fire(w) == \E s \in Sales : FireEnable(w, s) \/ FireDisable(w, s)

Next ==
    \/ \E w \in Workers :
          \/ CreateFlashSaleRead(w)
          \/ \E s \in Sales : DeleteFlashSaleRead(w, s)
          \/ Fire(w)
          \/ Step(w)
    \/ \E k \in {"Enable", "Disable"}, s \in Sales : FireVainly(k, s)
    \/ ImportProduct \/ OrderOne \/ CancelOne \/ UpdateSalePrice \/ Tick \/ Restart

Spec == Init /\ [][Next]_vars

\* Time passes, timers fire and the database answers, however often sales are
\* created and deleted meanwhile; nobody has to order or to create one.
FairSpec ==
    /\ Spec
    /\ SF_vars(Tick)
    /\ WF_vars(\E k \in {"Enable", "Disable"}, s \in Sales : FireVainly(k, s))
    /\ \A w \in Workers : WF_vars(Step(w)) /\ SF_vars(Fire(w))

-----------------------------------------------------------------------------
(* What must hold *)

\* The clamping of the enabling job: whatever orders, jobs, deletions and crashes
\* come between its calls, the stock goes below zero only as far as negative
\* imports took it and, when an administrator put less than nothing on sale, from
\* that quantity on.
NeverOversold == stock >= lowest - withdrawn

\* createFlashSale's check and the clamping of the enabling job: no flash sale
\* is dearer than the price it replaced and gives back, and without updateProduct
\* the product never costs more than at first, whichever job, deletion or crash
\* comes between their calls.
NeverDearer ==
    /\ price <= BasePrice
    /\ \A s \in Rows : sale[s].price <= sale[s].prevPrice

\* One handler at a time: the units on sale and the units the current flash
\* sale sets aside are exactly those not promised to a customer.
StockBooks == stock + (IF current = None THEN 0 ELSE Released(sale[current])) = units

\* One handler at a time: outside a flash sale the product costs what it did.
PriceRestored == current = None => price = BasePrice

\* Without restarts every flash sale ends: its jobs take it away.
FlashSaleEnds == \A s \in Sales : s \in Rows ~> s \notin Rows
=============================================================================
