-------------------------- MODULE FlashSalesProofs --------------------------
(* Proofs of the safety of FlashSales, for every value of its constants. *)
EXTENDS FlashSales, TLAPS

USE FlashSalesAssumption DEF imports

\* A row that sets aside what there is and does not make the product dearer.
Fair(row) == row.qty <= row.prevQty /\ row.price <= row.prevPrice

\* How low negative imports and negative flash quantities can have put the stock.
\* It never rises.
Level == lowest - withdrawn

\* Every row is fair, and so is every copy a worker will write, but for the
\* one the enabling job is about to clamp.  What an enabling job may set the
\* stock to is not below the level.
RowsFair == \A s \in Rows : Fair(sale[s]) /\ sale[s].qty >= Level
WorkFair ==
    \A w \in Workers :
        /\ work[w].at \in Points \ {"EnableRow"} => Fair(work[w].row)
        /\ work[w].at \in {"EnableRow", "EnableProduct"} =>
              work[w].row.qty >= Level /\ work[w].row.prevQty >= Level

Sound == TypeOK /\ NeverOversold /\ RowsFair /\ WorkFair /\ lowest <= 0

LEMMA TaskFields ==
    ASSUME NEW t \in Task
    PROVE  /\ t.at \in Points => t.row \in Row /\ t.id \in Sales \cup {None}
           /\ t.at \in Points \/ t = Idle
           /\ t = Idle => t.at \notin Points
  BY DEF Task, Idle, Points

LEMMA TaskMade ==
    ASSUME NEW at \in Points, NEW s \in Sales \cup {None}, NEW row \in Row
    PROVE  [at |-> at, id |-> s, row |-> row] \in Task
  BY DEF Task

LEMMA RowRefreshed ==
    ASSUME NEW row \in Row, NEW p \in Int, NEW q \in Int
    PROVE  [row EXCEPT !.prevPrice = p, !.prevQty = q] \in Row
  BY DEF Row

(***************************************************************************)
(* The clamping of the enabling job makes any row fair, at its own         *)
(* quantity or at the one the stock had.                                   *)
(***************************************************************************)
LEMMA ClampedFair ==
    ASSUME NEW row \in Row
    PROVE  /\ Clamped(row) \in Row /\ Fair(Clamped(row))
           /\ Clamped(row).prevQty = row.prevQty
           /\ Clamped(row).qty \in {row.qty, row.prevQty}
<1>1. row.price \in Int /\ row.prevPrice \in Int /\ row.qty \in Int /\ row.prevQty \in Int
  BY DEF Row
<1>2. Clamped(row) \in Row
  BY <1>1 DEF Clamped, Least, Row
<1>3. /\ Clamped(row).price = Least(row.price, row.prevPrice)
      /\ Clamped(row).qty = Least(row.qty, row.prevQty)
      /\ Clamped(row).prevPrice = row.prevPrice
      /\ Clamped(row).prevQty = row.prevQty
  BY DEF Clamped, Row
<1> QED
  BY <1>1, <1>2, <1>3 DEF Fair, Least

LEMMA ReleasedPositive ==
    ASSUME NEW row \in Row, Fair(row)
    PROVE  Released(row) \in Nat /\ row.prevPrice \in Int
  BY DEF Released, Fair, Row

LEMMA SoundInit == Init => Sound
  BY DEF Init, Sound, TypeOK, NeverOversold, RowsFair, WorkFair, Rows, Idle, Task, Points, Time

(***************************************************************************)
(* What goes on in the workers: one worker starts, goes on or ends, or all *)
(* are gone.                                                               *)
(***************************************************************************)
LEMMA GotoSound ==
    ASSUME Sound, NEW w \in Workers, NEW at \in Points, NEW s \in Sales \cup {None}, NEW row \in Row,
           UNCHANGED <<lowest, imports>>, at # "EnableRow" => Fair(row),
           at \in {"EnableRow", "EnableProduct"} => row.qty >= Level /\ row.prevQty >= Level,
           Goto(w, at, s, row)
    PROVE  work' \in [Workers -> Task] /\ WorkFair'
<1>1. work' = [work EXCEPT ![w] = [at |-> at, id |-> s, row |-> row]] /\ work \in [Workers -> Task]
  BY DEF Goto, Sound, TypeOK
<1>2. [at |-> at, id |-> s, row |-> row] \in Task
  BY TaskMade
<1> QED
  BY <1>1, <1>2 DEF WorkFair, Level, Sound

\* A row that was not below the level is not below a level that fell.
LEMMA StillAbove ==
    ASSUME Sound, Level' \in Int, Level' <= Level, NEW w \in Workers,
           work[w].at \in {"EnableRow", "EnableProduct"}
    PROVE  work[w].row.qty >= Level' /\ work[w].row.prevQty >= Level'
<1>1. work[w] \in Task /\ Level \in Int
  BY DEF Sound, TypeOK, Level
<1>2. work[w].row.qty \in Int /\ work[w].row.prevQty \in Int
  BY <1>1, TaskFields DEF Points, Row
<1> QED
  BY <1>1, <1>2 DEF Sound, WorkFair

LEMMA FinishSound ==
    ASSUME Sound, Level' \in Int, Level' <= Level, NEW w \in Workers, Finish(w)
    PROVE  work' \in [Workers -> Task] /\ WorkFair'
<1>1. work' = [work EXCEPT ![w] = Idle] /\ work \in [Workers -> Task] /\ Idle \in Task
  BY DEF Finish, Sound, TypeOK, Task
<1> QED
  BY <1>1, StillAbove DEF WorkFair, Sound, Idle, Points

LEMMA CrashSound ==
    ASSUME Crash
    PROVE  work' \in [Workers -> Task] /\ WorkFair' /\ jobs' = {}
  BY DEF Crash, WorkFair, Idle, Points, Task

LEMMA WorkUnchanged ==
    ASSUME Sound, Level' \in Int, Level' <= Level, UNCHANGED work
    PROVE  work' \in [Workers -> Task] /\ WorkFair'
  BY StillAbove DEF Sound, TypeOK, WorkFair

\* What an action that leaves imports and the lowest quantity alone keeps.
LEMMA LevelStays ==
    ASSUME Sound, UNCHANGED <<lowest, imports>>
    PROVE  Level' \in Int /\ Level' <= Level /\ Level' = Level
  BY DEF Sound, TypeOK, Level

(***************************************************************************)
(* Every step keeps what is sound, action by action.                       *)
(***************************************************************************)
LEMMA CreateSound ==
    ASSUME Sound, NEW w \in Workers, CreateFlashSaleRead(w) \/ CreateFlashSaleCommit(w)
    PROVE  Sound'
<1>1. CASE CreateFlashSaleRead(w)
  <2>1. PICK start \in Time, due \in Time, p \in Prices, q \in Quantities :
            LET row == [start |-> start, due |-> due, price |-> p, qty |-> q,
                        prevPrice |-> price, prevQty |-> stock]
            IN  PriceValid(row) /\ q <= stock /\ Goto(w, "Create", None, row)
    BY <1>1 DEF CreateFlashSaleRead
  <2> DEFINE row == [start |-> start, due |-> due, price |-> p, qty |-> q,
                     prevPrice |-> price, prevQty |-> stock]
  <2>2. row \in Row /\ Fair(row)
    BY <2>1 DEF Row, Fair, PriceValid, Sound, TypeOK, NeverOversold
  <2>3. Goto(w, "Create", None, row) /\ "Create" \in Points
    BY <2>1 DEF Points
  <2> HIDE DEF row
  <2>4. work' \in [Workers -> Task] /\ WorkFair'
    BY <1>1, <2>2, <2>3, GotoSound DEF CreateFlashSaleRead, product
  <2> QED
    BY <1>1, <2>4 DEF CreateFlashSaleRead, Level, Sound, TypeOK, NeverOversold, RowsFair, Rows, product
<1>2. CASE CreateFlashSaleCommit(w)
  <2>1. work[w].row \in Row /\ Fair(work[w].row)
    <3>1. work[w] \in Task /\ work[w].at = "Create"
      BY <1>2 DEF CreateFlashSaleCommit, Sound, TypeOK
    <3> QED
      BY <3>1, TaskFields DEF Points, Sound, WorkFair
  <2>2. PICK s \in Sales \ made :
            /\ made' = made \cup {s}
            /\ sale' = [x \in Rows \cup {s} |-> IF x = s THEN work[w].row ELSE sale[x]]
            /\ jobs' = jobs \cup JobsOf(s, work[w].row)
    BY <1>2 DEF CreateFlashSaleCommit
  <2>3. sale' \in [Rows \cup {s} -> Row] /\ \A x \in DOMAIN sale' : Fair(sale'[x])
    BY <2>1, <2>2 DEF Sound, TypeOK, RowsFair, Rows
  <2>4. /\ lowest' \in Int /\ lowest' <= 0 /\ Level' \in Int /\ Level' <= Level
        /\ work[w].row.qty >= Level'
    <3>1. lowest' = Least(work[w].row.qty, lowest) /\ withdrawn' = withdrawn
      BY <1>2 DEF CreateFlashSaleCommit, product
    <3>2. work[w].row.qty \in Int /\ lowest \in Int /\ withdrawn \in Nat
      BY <2>1 DEF Row, Sound, TypeOK
    <3>3. lowest' \in Int /\ lowest' <= lowest /\ lowest' <= work[w].row.qty
      BY <3>1, <3>2 DEF Least
    <3> QED
      BY <3>1, <3>2, <3>3 DEF Level, Sound
  <2>5. RowsFair'
    <3>1. \A x \in Rows : sale[x].qty >= Level' /\ sale[x].qty \in Int
      <4> TAKE x \in Rows
      <4>1. sale[x].qty \in Int /\ sale[x].qty >= Level /\ Level \in Int
        BY DEF Sound, TypeOK, RowsFair, Rows, Row, Level
      <4> QED
        BY <2>4, <4>1
    <3> QED
      BY <2>2, <2>3, <2>4, <3>1 DEF RowsFair, Rows
  <2>6. work' \in [Workers -> Task] /\ WorkFair'
    BY <1>2, <2>4, FinishSound DEF CreateFlashSaleCommit
  <2>7. jobs' \subseteq {"Enable", "Disable"} \X Sales
    BY <2>2 DEF JobsOf, Sound, TypeOK
  <2>8. UNCHANGED <<product, clock, restarts>>
    BY <1>2 DEF CreateFlashSaleCommit
  <2>9. NeverOversold'
    BY <2>8, <2>4 DEF Sound, TypeOK, NeverOversold, Level, product
  <2> QED
    BY <2>2, <2>3, <2>6, <2>7, <2>8, <2>4, <2>5, <2>9 DEF Sound, TypeOK, Rows, product
<1> QED
  BY <1>1, <1>2

LEMMA EnableSound ==
    ASSUME Sound, NEW w \in Workers,
           (\E s \in Sales : FireEnable(w, s)) \/ EnableRow(w) \/ EnableProduct(w)
    PROVE  Sound'
<1>1. CASE \E s \in Sales : FireEnable(w, s)
  <2>1. PICK s \in Sales : FireEnable(w, s)
    BY <1>1
  <2> DEFINE row == [sale[s] EXCEPT !.prevPrice = price, !.prevQty = stock]
  <2>2. row \in Row
    <3>1. s \in Rows
      BY <2>1 DEF FireEnable
    <3>2. sale[s] \in Row
      BY <3>1 DEF Sound, TypeOK, Rows
    <3>3. price \in Int /\ stock \in Int
      BY DEF Sound, TypeOK
    <3> QED
      BY <3>2, <3>3, RowRefreshed
  <2>5. row.qty >= Level /\ row.prevQty >= Level
    <3>1. s \in Rows /\ sale[s] \in Row
      BY <2>1 DEF FireEnable, Sound, TypeOK, Rows
    <3>2. row.qty = sale[s].qty /\ row.prevQty = stock
      BY <3>1 DEF Row
    <3> QED
      BY <3>1, <3>2 DEF Sound, RowsFair, NeverOversold, Level
  <2>3. Goto(w, "EnableRow", s, row) /\ "EnableRow" \in Points
    BY <2>1 DEF FireEnable, Points
  <2> HIDE DEF row
  <2>4. work' \in [Workers -> Task] /\ WorkFair'
    BY <2>1, <2>2, <2>3, <2>5, GotoSound DEF FireEnable, product
  <2> QED
    BY <2>1, <2>4 DEF FireEnable, Level, Sound, TypeOK, NeverOversold, RowsFair, Rows, product
<1>2. CASE EnableRow(w)
  <2> DEFINE s == work[w].id  row == Refreshed(s, work[w].row)
  <2>1. work[w].row \in Row /\ s \in Sales \cup {None} /\ {"EnableRow", "EnableProduct"} \subseteq Points
    <3>1. work[w] \in Task /\ work[w].at = "EnableRow"
      BY <1>2 DEF EnableRow, Sound, TypeOK
    <3> QED
      BY <3>1, TaskFields DEF Points
  <2>2. row \in Row /\ Fair(row) /\ row.qty >= Level /\ row.prevQty >= Level
    <3>1. work[w].row.qty >= Level /\ work[w].row.prevQty >= Level
      BY <1>2 DEF EnableRow, Sound, WorkFair
    <3> QED
      BY <2>1, <3>1, ClampedFair DEF Refreshed
  <2>3. CASE s \in Rows
    <3>1. sale' = [sale EXCEPT ![s] = row] /\ Goto(w, "EnableProduct", s, row)
          /\ UNCHANGED <<jobs, made, product, clock, lowest, restarts>>
      BY <1>2, <2>3 DEF EnableRow
    <3> HIDE DEF row
    <3>2. work' \in [Workers -> Task] /\ WorkFair'
      BY <2>1, <2>2, <3>1, GotoSound DEF product
    <3>3. sale' \in [Rows -> Row] /\ RowsFair'
      BY <2>2, <2>3, <3>1 DEF Sound, TypeOK, RowsFair, Level, Rows, product
    <3> QED
      BY <3>1, <3>2, <3>3 DEF Sound, TypeOK, NeverOversold, Rows, product
  <2>4. CASE s \notin Rows
    <3>1. Crash /\ UNCHANGED <<sale, made, product, clock, lowest, restarts>>
      BY <1>2, <2>4 DEF EnableRow
    <3> QED
      BY <3>1, CrashSound DEF Sound, TypeOK, NeverOversold, RowsFair, Level, Rows, product
  <2> QED
    BY <2>3, <2>4
<1>3. CASE EnableProduct(w)
  <2> DEFINE s == work[w].id  row == work[w].row
  <2>1. row.price \in Int /\ row.qty \in Int /\ row.qty >= Level /\ s \in Sales \cup {None}
    <3>1. work[w] \in Task /\ work[w].at = "EnableProduct"
      BY <1>3 DEF EnableProduct, Sound, TypeOK
    <3> QED
      BY <3>1, TaskFields DEF Points, Row, Sound, WorkFair
  <2>2. CASE s \in Rows
    <3>1. price' = row.price /\ stock' = row.qty /\ current' = s /\ Finish(w)
          /\ UNCHANGED <<jobs, sale, made, units, imports, clock, lowest, restarts>>
      BY <1>3, <2>2 DEF EnableProduct
    <3> QED
      BY <2>1, <2>2, <3>1, FinishSound, LevelStays
      DEF Sound, TypeOK, NeverOversold, RowsFair, Level, Rows
  <2>3. CASE s \notin Rows
    <3>1. Crash /\ UNCHANGED <<price, stock, current, sale, made, units, imports, clock, lowest, restarts>>
      BY <1>3, <2>3 DEF EnableProduct
    <3> QED
      BY <3>1, CrashSound DEF Sound, TypeOK, NeverOversold, RowsFair, Level, Rows
  <2> QED
    BY <2>2, <2>3
<1> QED
  BY <1>1, <1>2, <1>3

\* DisableProduct and DeleteProduct.
LEMMA RestoreSound ==
    ASSUME Sound, NEW w \in Workers, DisableProduct(w) \/ DeleteProduct(w)
    PROVE  Sound'
<1>1. work[w].row \in Row /\ Fair(work[w].row) /\ work[w].id \in Sales \cup {None}
  <2>1. work[w] \in Task /\ work[w].at \in {"DisableProduct", "DeleteProduct"}
    BY DEF DisableProduct, DeleteProduct, Sound, TypeOK
  <2> QED
    BY <2>1, TaskFields DEF Points, Sound, WorkFair
<1>2. stock' = stock + Released(work[w].row) /\ price' = work[w].row.prevPrice /\ current' = None
  BY DEF DisableProduct, DeleteProduct, RestoreProduct
<1>3. UNCHANGED <<sale, made, jobs, units, imports, clock, lowest, restarts>>
  BY DEF DisableProduct, DeleteProduct
<1>4. work' \in [Workers -> Task] /\ WorkFair'
  <2>1. \E at \in {"DisableDelete", "DeleteRow"} : Goto(w, at, work[w].id, work[w].row)
    BY DEF DisableProduct, DeleteProduct
  <2> QED
    BY <1>1, <1>3, <2>1, GotoSound DEF Points
<1> QED
  BY <1>1, <1>2, <1>3, <1>4, ReleasedPositive
  DEF Sound, TypeOK, NeverOversold, RowsFair, Level, Rows

\* DisableDelete and DeleteRow.
LEMMA DeleteSound ==
    ASSUME Sound, NEW w \in Workers, DisableDelete(w) \/ DeleteRow(w)
    PROVE  Sound'
<1>1. (Finish(w) /\ UNCHANGED jobs) \/ Crash
  BY DEF DisableDelete, DeleteRow
<1>2. UNCHANGED <<stock, price, units, imports, made, clock, lowest, restarts>>
  BY DEF DisableDelete, DeleteRow
<1>3. work' \in [Workers -> Task] /\ WorkFair' /\ jobs' \subseteq {"Enable", "Disable"} \X Sales
  BY <1>1, <1>2, FinishSound, CrashSound, LevelStays DEF Sound, TypeOK
<1>4. DeleteSale(work[w].id) \/ UNCHANGED <<sale, current>>
  BY DEF DisableDelete, DeleteRow
<1>5. /\ DOMAIN sale' \subseteq made /\ sale' \in [DOMAIN sale' -> Row] /\ RowsFair'
      /\ current' \in DOMAIN sale' \cup {None}
  BY <1>4, <1>2 DEF DeleteSale, Sound, TypeOK, RowsFair, Level, Rows
<1> QED
  BY <1>3, <1>5, <1>2 DEF Sound, TypeOK, NeverOversold, Rows

\* The reads of disableFlashSale and deleteFlashSale.
LEMMA ReadSound ==
    ASSUME Sound, NEW w \in Workers, NEW s \in Sales, FireDisable(w, s) \/ DeleteFlashSaleRead(w, s)
    PROVE  Sound'
<1>1. \E at \in {"DisableProduct", "DeleteProduct", "DeleteRow"} : Goto(w, at, s, sale[s])
  BY DEF FireDisable, DeleteFlashSaleRead
<1>2. s \in Rows /\ sale[s] \in Row /\ Fair(sale[s])
  BY DEF FireDisable, DeleteFlashSaleRead, Sound, TypeOK, RowsFair, Rows
<1>3. jobs' \subseteq jobs /\ UNCHANGED <<product, sale, made, clock, lowest, restarts>>
  BY DEF FireDisable, DeleteFlashSaleRead
<1>4. work' \in [Workers -> Task] /\ WorkFair'
  BY <1>1, <1>2, <1>3, GotoSound DEF Points, product
<1> QED
  BY <1>3, <1>4 DEF Sound, TypeOK, NeverOversold, RowsFair, Level, Rows, product

LEMMA Moved ==
    ASSUME NEW s \in Int, NEW t \in Int, NEW w \in Nat, NEW v \in Nat, NEW l \in Int,
           t + v >= s + w, s >= l - w
    PROVE  t >= l - v
  OBVIOUS

\* What an import takes, it takes from the stock and from the level.
LEMMA ImportSound ==
    ASSUME Sound, ImportProduct
    PROVE  Sound'
<1>1. PICK q \in (-MaxImport)..MaxImport :
          /\ stock' = stock + q /\ units' = units + q
          /\ received'  = IF q > 0 THEN received + q ELSE received
          /\ withdrawn' = IF q < 0 THEN withdrawn - q ELSE withdrawn
  BY DEF ImportProduct
<1>2. q \in Int /\ stock \in Int /\ units \in Int /\ received \in Nat /\ withdrawn \in Nat
      /\ lowest \in Int
  BY <1>1 DEF Sound, TypeOK
<1>3. /\ stock' \in Int /\ units' \in Int /\ received' \in Nat /\ withdrawn' \in Nat
      /\ withdrawn' >= withdrawn /\ stock' + withdrawn' >= stock + withdrawn
  BY <1>1, <1>2
<1>4. UNCHANGED <<price, current, sale, made, jobs, work, clock, lowest, restarts>>
  BY DEF ImportProduct
<1>5. Level' \in Int /\ Level' <= Level
  BY <1>2, <1>3, <1>4 DEF Level
<1>6. NeverOversold'
  <2>1. stock >= lowest - withdrawn
    BY DEF Sound, NeverOversold
  <2>2. stock' >= lowest - withdrawn'
    BY <1>2, <1>3, <2>1, Moved
  <2> QED
    BY <1>4, <2>2 DEF NeverOversold
<1>7. RowsFair'
  <2> SUFFICES ASSUME NEW s \in Rows PROVE sale[s].qty >= Level'
    BY <1>4 DEF RowsFair, Rows, Sound
  <2>1. sale[s].qty \in Int /\ sale[s].qty >= Level /\ Level \in Int
    BY <1>2 DEF Sound, TypeOK, RowsFair, Rows, Row, Level
  <2> QED
    BY <1>5, <2>1
<1> QED
  BY <1>3, <1>4, <1>5, <1>6, <1>7, WorkUnchanged DEF Sound, TypeOK

\* The rest of the shop, time and crashes.
LEMMA OthersSound ==
    ASSUME Sound,
           \/ \E k \in {"Enable", "Disable"}, s \in Sales : FireVainly(k, s)
           \/ ImportProduct \/ OrderOne \/ CancelOne \/ UpdateSalePrice \/ Tick \/ Restart
           \/ UNCHANGED vars
    PROVE  Sound'
<1>1. CASE \E k \in {"Enable", "Disable"}, s \in Sales : FireVainly(k, s)
  BY <1>1, WorkUnchanged, LevelStays
  DEF FireVainly, Sound, TypeOK, NeverOversold, RowsFair, Level, Rows, product
<1>2. CASE OrderOne \/ CancelOne
  <2>1. NeverOversold'
    <3>1. CASE OrderOne
      BY <3>1 DEF OrderOne, Sound, TypeOK, NeverOversold
    <3>2. CASE CancelOne
      BY <3>2 DEF CancelOne, Sound, TypeOK, NeverOversold
    <3> QED
      BY <1>2, <3>1, <3>2
  <2> QED
    BY <1>2, <2>1, WorkUnchanged, LevelStays
    DEF OrderOne, CancelOne, Sound, TypeOK, RowsFair, Level, Rows
<1>3. CASE UpdateSalePrice
  BY <1>3, WorkUnchanged, LevelStays
  DEF UpdateSalePrice, Sound, TypeOK, NeverOversold, RowsFair, Level, Rows
<1>4. CASE Tick
  BY <1>4, WorkUnchanged, LevelStays
  DEF Tick, Time, Sound, TypeOK, NeverOversold, RowsFair, Level, Rows, product
<1>5. CASE Restart
  BY <1>5, CrashSound
  DEF Restart, Sound, TypeOK, NeverOversold, RowsFair, Level, Rows, product
<1>6. CASE UNCHANGED vars
  BY <1>6, WorkUnchanged, LevelStays
  DEF vars, Sound, TypeOK, NeverOversold, RowsFair, Level, Rows
<1>7. CASE ImportProduct
  BY <1>7, ImportSound
<1> QED
  BY <1>1, <1>2, <1>3, <1>4, <1>5, <1>6, <1>7

LEMMA SoundNext == Sound /\ [Next]_vars => Sound'
<1> SUFFICES ASSUME Sound, [Next]_vars
             PROVE  Sound'
  OBVIOUS
<1>1. CASE \E w \in Workers : CreateFlashSaleRead(w) \/ CreateFlashSaleCommit(w)
  BY <1>1, CreateSound
<1>2. CASE \E w \in Workers : (\E s \in Sales : FireEnable(w, s)) \/ EnableRow(w) \/ EnableProduct(w)
  BY <1>2, EnableSound
<1>3. CASE \E w \in Workers : DisableProduct(w) \/ DeleteProduct(w)
  BY <1>3, RestoreSound
<1>4. CASE \E w \in Workers : DisableDelete(w) \/ DeleteRow(w)
  BY <1>4, DeleteSound
<1>5. CASE \E w \in Workers, s \in Sales : FireDisable(w, s) \/ DeleteFlashSaleRead(w, s)
  BY <1>5, ReadSound
<1>6. CASE \/ \E k \in {"Enable", "Disable"}, s \in Sales : FireVainly(k, s)
           \/ ImportProduct \/ OrderOne \/ CancelOne \/ UpdateSalePrice \/ Tick \/ Restart
           \/ UNCHANGED vars
  BY <1>6, OthersSound
<1> QED
  BY <1>1, <1>2, <1>3, <1>4, <1>5, <1>6 DEF Next, Step, Fire

(***************************************************************************)
(* flash-sales.service.ts writes only what the columns admit, and pushes   *)
(* quantityInStock below zero only as far as negative imports and flash    *)
(* quantities ask, whatever is interleaved or lost.                        *)
(***************************************************************************)
THEOREM FlashTypeCorrect == Spec => []TypeOK
<1>1. Sound => TypeOK
  BY DEF Sound
<1> QED
  BY <1>1, SoundInit, SoundNext, PTL DEF Spec

\* The stock of a product is never below zero but for what negative imports took
\* and the lowest quantity put on sale, for any number of flash sales and handlers.
THEOREM FlashStockSafe == Spec => []NeverOversold
<1>1. Sound => NeverOversold
  BY DEF Sound
<1> QED
  BY <1>1, SoundInit, SoundNext, PTL DEF Spec

-----------------------------------------------------------------------------
(* Prices, when updateProduct sets none above the first. *)

RowsCheap == \A s \in Rows : sale[s].prevPrice <= BasePrice
WorkCheap == \A w \in Workers : work[w].at \in Points => work[w].row.prevPrice <= BasePrice
Cheap == price <= BasePrice /\ RowsCheap /\ WorkCheap

LEMMA CheapInit == Init => Cheap
  BY DEF Init, Cheap, RowsCheap, WorkCheap, Rows, Idle, Points

LEMMA GotoCheap ==
    ASSUME Sound, Cheap, NEW w \in Workers, NEW at, NEW s, NEW row,
           row.prevPrice <= BasePrice, Goto(w, at, s, row)
    PROVE  WorkCheap'
  BY DEF Goto, Sound, TypeOK, Cheap, WorkCheap

LEMMA IdleCheap ==
    ASSUME Sound, Cheap, (\E w \in Workers : Finish(w)) \/ Crash \/ UNCHANGED work
    PROVE  WorkCheap'
<1>1. CASE \E w \in Workers : Finish(w)
  BY <1>1 DEF Finish, Idle, Points, Sound, TypeOK, Cheap, WorkCheap
<1>2. CASE Crash
  BY <1>2 DEF Crash, Idle, Points, WorkCheap
<1>3. CASE UNCHANGED work
  BY <1>3 DEF Cheap, WorkCheap
<1> QED
  BY <1>1, <1>2, <1>3

\* What a worker at a point has copied.
LEMMA WorkRow ==
    ASSUME Sound, Cheap, NEW w \in Workers, work[w].at \in Points
    PROVE  /\ work[w].row \in Row /\ work[w].row.prevPrice <= BasePrice
           /\ work[w].row.prevPrice \in Int /\ work[w].row.price \in Int
           /\ work[w].at # "EnableRow" => work[w].row.price <= work[w].row.prevPrice
<1>1. work[w] \in Task
  BY DEF Sound, TypeOK
<1>2. work[w].row \in Row
  BY <1>1, TaskFields
<1> QED
  BY <1>2 DEF Sound, WorkFair, Fair, Cheap, WorkCheap, Row

LEMMA CheapWorkers ==
    ASSUME Sound, Cheap, NEW w \in Workers,
           \/ CreateFlashSaleRead(w) \/ Fire(w) \/ Step(w)
           \/ \E s \in Sales : DeleteFlashSaleRead(w, s)
    PROVE  Cheap'
<1>1. CASE CreateFlashSaleRead(w)
  <2>1. PICK row : row.prevPrice = price /\ Goto(w, "Create", None, row)
    BY <1>1 DEF CreateFlashSaleRead
  <2>2. WorkCheap'
    BY <2>1, GotoCheap DEF Cheap
  <2> QED
    BY <1>1, <2>2 DEF CreateFlashSaleRead, product, Cheap, RowsCheap, Rows
<1>2. CASE \E s \in Sales : FireEnable(w, s)
  <2>1. PICK s \in Sales : FireEnable(w, s)
    BY <1>2
  <2> DEFINE row == [sale[s] EXCEPT !.prevPrice = price, !.prevQty = stock]
  <2>2. Goto(w, "EnableRow", s, row)
    BY <2>1 DEF FireEnable
  <2>3. row.prevPrice = price
    <3>1. s \in Rows
      BY <2>1 DEF FireEnable
    <3>2. sale[s] \in Row
      BY <3>1 DEF Sound, TypeOK, Rows
    <3> QED
      BY <3>2 DEF Row
  <2> HIDE DEF row
  <2>4. WorkCheap'
    BY <2>2, <2>3, GotoCheap DEF Cheap
  <2> QED
    BY <2>1, <2>4 DEF FireEnable, product, Cheap, RowsCheap, Rows
<1>3. CASE \E s \in Sales : FireDisable(w, s) \/ DeleteFlashSaleRead(w, s)
  <2>1. PICK s \in Sales : FireDisable(w, s) \/ DeleteFlashSaleRead(w, s)
    BY <1>3
  <2>2. s \in Rows /\ \E at : Goto(w, at, s, sale[s])
    BY <2>1 DEF FireDisable, DeleteFlashSaleRead
  <2>3. WorkCheap'
    BY <2>2, GotoCheap DEF Cheap, RowsCheap
  <2> QED
    BY <2>1, <2>3 DEF FireDisable, DeleteFlashSaleRead, product, Cheap, RowsCheap, Rows
<1>4. CASE CreateFlashSaleCommit(w)
  <2>1. work[w].at \in Points /\ Finish(w) /\ UNCHANGED product
    BY <1>4 DEF CreateFlashSaleCommit, Points
  <2>2. PICK s : sale' = [x \in Rows \cup {s} |-> IF x = s THEN work[w].row ELSE sale[x]]
    BY <1>4 DEF CreateFlashSaleCommit
  <2>3. RowsCheap'
    BY <2>1, <2>2, WorkRow DEF Cheap, RowsCheap, Rows
  <2> QED
    BY <2>1, <2>3, IdleCheap DEF Cheap, product
<1>5. CASE EnableRow(w)
  <2> DEFINE s == work[w].id  row == Refreshed(s, work[w].row)
  <2>1. work[w].at \in Points
    BY <1>5 DEF EnableRow, Points
  <2>2. row.prevPrice = work[w].row.prevPrice
    BY <2>1, WorkRow DEF Refreshed, Clamped, Row
  <2>3. row.prevPrice <= BasePrice
    BY <2>1, <2>2, WorkRow
  <2>4. \/ sale' = [sale EXCEPT ![s] = row] /\ Goto(w, "EnableProduct", s, row)
        \/ Crash /\ UNCHANGED sale
    BY <1>5 DEF EnableRow
  <2> HIDE DEF row
  <2>5. WorkCheap'
    BY <2>3, <2>4, GotoCheap, IdleCheap
  <2>6. RowsCheap'
    BY <2>3, <2>4 DEF Cheap, RowsCheap, Rows, Sound, TypeOK
  <2> QED
    BY <1>5, <2>5, <2>6 DEF EnableRow, product, Cheap
<1>6. CASE EnableProduct(w)
  <2>1. work[w].at \in Points /\ work[w].at # "EnableRow"
    BY <1>6 DEF EnableProduct, Points
  <2>2. work[w].row.price <= BasePrice
    BY <2>1, WorkRow
  <2> QED
    BY <1>6, <2>2, IdleCheap DEF EnableProduct, Cheap, RowsCheap, Rows
<1>7. CASE DisableProduct(w) \/ DeleteProduct(w)
  <2>1. work[w].at \in Points
    BY <1>7 DEF DisableProduct, DeleteProduct, Points
  <2>2. price' = work[w].row.prevPrice /\ UNCHANGED sale
        /\ \E at : Goto(w, at, work[w].id, work[w].row)
    BY <1>7 DEF DisableProduct, DeleteProduct, RestoreProduct
  <2>3. WorkCheap'
    BY <2>1, <2>2, WorkRow, GotoCheap
  <2> QED
    BY <2>1, <2>2, <2>3, WorkRow DEF Cheap, RowsCheap, Rows
<1>8. CASE DisableDelete(w) \/ DeleteRow(w)
  <2>1. (Finish(w) \/ Crash) /\ UNCHANGED price /\ (DeleteSale(work[w].id) \/ UNCHANGED sale)
    BY <1>8 DEF DisableDelete, DeleteRow
  <2> QED
    BY <2>1, IdleCheap DEF DeleteSale, Cheap, RowsCheap, Rows
<1> QED
  BY <1>1, <1>2, <1>3, <1>4, <1>5, <1>6, <1>7, <1>8 DEF Fire, Step

LEMMA CheapNext ==
    ASSUME \A p \in NewPrices : p <= BasePrice
    PROVE  Sound /\ Cheap /\ [Next]_vars => Cheap'
<1> SUFFICES ASSUME Sound, Cheap, [Next]_vars
             PROVE  Cheap'
  OBVIOUS
<1>1. CASE \E w \in Workers : \/ CreateFlashSaleRead(w) \/ Fire(w) \/ Step(w)
                              \/ \E s \in Sales : DeleteFlashSaleRead(w, s)
  BY <1>1, CheapWorkers
<1>2. CASE \E k \in {"Enable", "Disable"}, s \in Sales : FireVainly(k, s)
  BY <1>2, IdleCheap DEF FireVainly, product, Cheap, RowsCheap, Rows
<1>3. CASE ImportProduct \/ OrderOne \/ CancelOne
  BY <1>3, IdleCheap DEF ImportProduct, OrderOne, CancelOne, Cheap, RowsCheap, Rows
<1>4. CASE UpdateSalePrice
  BY <1>4, IdleCheap DEF UpdateSalePrice, Cheap, RowsCheap, Rows
<1>5. CASE Tick
  BY <1>5, IdleCheap DEF Tick, product, Cheap, RowsCheap, Rows
<1>6. CASE Restart
  BY <1>6, IdleCheap DEF Restart, product, Cheap, RowsCheap, Rows
<1>7. CASE UNCHANGED vars
  BY <1>7, IdleCheap DEF vars, Cheap, RowsCheap, Rows
<1> QED
  BY <1>1, <1>2, <1>3, <1>4, <1>5, <1>6, <1>7 DEF Next

(***************************************************************************)
(* While updateProduct sets no price above the first, neither overlapping  *)
(* flash sales nor lost or late jobs make the product dearer than it was,  *)
(* and no flash sale is dearer than the price it replaced.                 *)
(***************************************************************************)
THEOREM FlashPriceSafe ==
    ASSUME \A p \in NewPrices : p <= BasePrice
    PROVE  Spec => []NeverDearer
<1>1. Sound /\ Cheap => NeverDearer
  BY DEF Sound, RowsFair, Fair, Cheap, NeverDearer
<1>2. Sound /\ Cheap /\ [Next]_vars => (Sound /\ Cheap)'
  BY SoundNext, CheapNext
<1>3. Init => Sound /\ Cheap
  BY SoundInit, CheapInit
<1> QED
  BY <1>1, <1>2, <1>3, PTL DEF Spec
-----------------------------------------------------------------------------
(***************************************************************************)
(* One handler at a time, no restart, no sale that ends when it starts:    *)
(* flash sales follow each other, and what one takes it gives back.        *)
(***************************************************************************)
Calm == /\ ~Interleaved /\ MaxRestarts = 0 /\ MinLength > 0
        /\ \E w : Workers = {w}

\* Flash sales in the table last and do not meet.
Apart == /\ \A s \in Rows : sale[s].start < sale[s].due
         /\ \A s, t \in Rows : s # t => Disjoint(sale[s], sale[t])

\* No job of a flash sale that is there is late, and its end follows its start.
JobsAhead ==
    \A s \in Rows :
        /\ <<"Enable", s>> \in jobs => clock <= sale[s].start /\ <<"Disable", s>> \in jobs
        /\ <<"Disable", s>> \in jobs => clock <= sale[s].due

\* The current flash sale has begun, and its end is to come or at work.
CurrentRuns ==
    current # None =>
        /\ <<"Enable", current>> \notin jobs
        /\ clock >= sale[current].start
        /\ \/ <<"Disable", current>> \in jobs
           \/ \E w \in Workers : work[w].at = "DisableProduct" /\ work[w].id = current

\* What the worker knows is true until its next call.
Knows(t) ==
    /\ t.at = "Create" =>
          /\ clock <= t.row.start /\ t.row.start < t.row.due
          /\ \A s \in Rows : Disjoint(t.row, sale[s])
    /\ t.at \in {"EnableRow", "EnableProduct"} =>
          /\ t.id \in Rows /\ current = None
          /\ <<"Enable", t.id>> \notin jobs /\ <<"Disable", t.id>> \in jobs
          /\ t.row.start = sale[t.id].start /\ t.row.due = sale[t.id].due
          /\ clock = sale[t.id].start
          /\ t.row.prevQty = stock
    /\ t.at = "EnableProduct" => t.row = sale[t.id]
    /\ t.at \in {"DisableProduct", "DeleteProduct"} =>
          t.id # None /\ current = t.id /\ t.row = sale[t.id]
    /\ t.at = "DisableDelete" => t.id \in Rows /\ current = None
    /\ t.at = "DeleteRow" => t.id \in Rows /\ current # t.id

WorkersKnow == \A w \in Workers : Knows(work[w])

Orderly == Apart /\ JobsAhead /\ CurrentRuns /\ WorkersKnow /\ StockBooks

\* Types, as the steps below need them.
LEMMA SoundFields ==
    ASSUME Sound
    PROVE  /\ \A s \in Rows : /\ sale[s] \in Row /\ s \in Sales /\ s # None
                              /\ sale[s].start \in Int /\ sale[s].due \in Int
                              /\ sale[s].qty \in Int /\ sale[s].prevQty \in Int
           /\ \A w \in Workers : work[w] \in Task
           /\ clock \in Int /\ stock \in Int /\ units \in Int
           /\ current \in Rows \cup {None}
<1>1. \A s \in Rows : sale[s] \in Row /\ s \in Sales /\ s # None
  BY DEF Sound, TypeOK, Rows
<1>2. \A row \in Row : row.start \in Int /\ row.due \in Int /\ row.qty \in Int /\ row.prevQty \in Int
  BY DEF Row, Time
<1> QED
  BY <1>1, <1>2 DEF Sound, TypeOK, Time, Rows

LEMMA OnlyWorker ==
    ASSUME Calm, Sound, NEW w \in Workers, NEW at, NEW s, NEW row, Goto(w, at, s, row)
    PROVE  \A x \in Workers : x = w /\ work'[x] = [at |-> at, id |-> s, row |-> row]
  BY DEF Calm, Goto, Sound, TypeOK

LEMMA NoWorker ==
    ASSUME Calm, Sound, NEW w \in Workers, Finish(w)
    PROVE  \A x \in Workers : x = w /\ work'[x] = Idle
  BY DEF Calm, Finish, Sound, TypeOK

LEMMA OrderlyInit == Init => Orderly
  BY DEF Init, Orderly, Apart, JobsAhead, CurrentRuns, WorkersKnow, Knows, StockBooks, Rows, Idle

LEMMA OrderlyCreate ==
    ASSUME Calm, Sound, Orderly, NEW w \in Workers, CreateFlashSaleRead(w) \/ CreateFlashSaleCommit(w)
    PROVE  Orderly'
<1>0. /\ \A s \in Rows : sale[s] \in Row /\ s # None
      /\ clock \in Int /\ current \in Rows \cup {None}
      /\ Apart /\ JobsAhead /\ CurrentRuns /\ Knows(work[w]) /\ StockBooks
  BY SoundFields DEF Orderly, WorkersKnow
<1>1. CASE CreateFlashSaleRead(w)
  <2>1. PICK start \in Time, due \in Time, p \in Prices, q \in Quantities :
            LET row == [start |-> start, due |-> due, price |-> p, qty |-> q,
                        prevPrice |-> price, prevQty |-> stock]
            IN  /\ clock <= start /\ start + MinLength <= due
                /\ \A s \in Rows : Disjoint(row, sale[s])
                /\ Goto(w, "Create", None, row)
    BY <1>1 DEF CreateFlashSaleRead
  <2>2. PICK row : row = [start |-> start, due |-> due, price |-> p, qty |-> q,
                          prevPrice |-> price, prevQty |-> stock]
    OBVIOUS
  <2>3. row.start = start /\ row.due = due /\ start < due
    <3>1. start \in Int /\ due \in Int /\ MinLength \in Int /\ MinLength > 0
      BY DEF Time, Calm
    <3> QED
      BY <2>1, <2>2, <3>1
  <2>4. UNCHANGED <<product, sale, jobs, clock>> /\ work[w] = Idle
    BY <1>1 DEF CreateFlashSaleRead
  <2>5. \A x \in Workers : x = w /\ work'[x] = [at |-> "Create", id |-> None, row |-> row]
    BY <2>1, <2>2, OnlyWorker
  <2>6. WorkersKnow'
    BY <2>1, <2>2, <2>3, <2>4, <2>5 DEF WorkersKnow, Knows, Rows, Disjoint
  <2>7. CurrentRuns'
    <3>1. \A x \in Workers : work[x].at # "DisableProduct"
      BY <2>4, <2>5 DEF Idle
    <3> QED
      BY <1>0, <2>4, <3>1 DEF CurrentRuns, product
  <2> QED
    BY <1>0, <2>4, <2>6, <2>7 DEF Orderly, Apart, Disjoint, JobsAhead, StockBooks, Released, Rows, product
<1>2. CASE CreateFlashSaleCommit(w)
  <2>1. PICK row : row = work[w].row
    OBVIOUS
  <2>2. work[w].at = "Create" /\ UNCHANGED <<product, clock>> /\ Finish(w)
    BY <1>2 DEF CreateFlashSaleCommit
  <2>3. row \in Row /\ row.start \in Int /\ row.due \in Int
    BY <2>1, <2>2, SoundFields, TaskFields DEF Row, Time, Points
  <2>4. /\ clock <= row.start /\ row.start < row.due
        /\ \A s \in Rows : Disjoint(row, sale[s])
    BY <1>0, <2>1, <2>2 DEF Knows
  <2>5. PICK s \in Sales \ made :
            /\ sale' = [x \in Rows \cup {s} |-> IF x = s THEN row ELSE sale[x]]
            /\ jobs' = jobs \cup JobsOf(s, row)
    BY <1>2, <2>1 DEF CreateFlashSaleCommit
  <2>6. JobsOf(s, row) = {<<"Enable", s>>, <<"Disable", s>>}
    <3>1. row.start >= clock /\ row.due >= clock
      BY <1>0, <2>3, <2>4
    <3> QED
      BY <3>1 DEF JobsOf
  <2>7. /\ Rows' = Rows \cup {s} /\ s \notin Rows /\ sale'[s] = row
        /\ \A x \in Rows : sale'[x] = sale[x]
    BY <2>5 DEF Rows, Sound, TypeOK
  <2>8. Apart'
    <3>1. \A x \in Rows : Disjoint(row, sale[x]) /\ Disjoint(sale[x], row)
      BY <2>3, <2>4, SoundFields DEF Disjoint
    <3>2. \A x, y \in Rows' : x # y => Disjoint(sale'[x], sale'[y])
      BY <1>0, <2>7, <3>1 DEF Apart
    <3>3. \A x \in Rows' : sale'[x].start < sale'[x].due
      BY <1>0, <2>4, <2>7 DEF Apart
    <3> QED
      BY <3>2, <3>3 DEF Apart, Disjoint
  <2>9. \A x \in Rows, k \in {"Enable", "Disable"} : <<k, x>> \in jobs' <=> <<k, x>> \in jobs
    BY <2>5, <2>6, <2>7
  <2>10. JobsAhead'
    <3> SUFFICES ASSUME NEW x \in Rows'
                 PROVE  /\ <<"Enable", x>> \in jobs' => clock <= sale'[x].start /\ <<"Disable", x>> \in jobs'
                        /\ <<"Disable", x>> \in jobs' => clock <= sale'[x].due
      BY <2>2 DEF JobsAhead
    <3>1. CASE x = s
      BY <1>0, <2>3, <2>4, <2>5, <2>6, <2>7, <3>1
    <3>2. CASE x # s
      BY <1>0, <2>7, <2>9, <3>2 DEF JobsAhead
    <3> QED
      BY <3>1, <3>2
  <2>11. \A x \in Workers : x = w /\ work'[x] = Idle
    BY <2>2, NoWorker
  <2>12. CurrentRuns'
    <3>1. \A x \in Workers : work[x].at # "DisableProduct"
      BY <2>2, <2>11
    <3>2. current' = current /\ clock' = clock
      BY <2>2 DEF product
    <3>3. CASE current # None
      <4>1. /\ <<"Enable", current>> \notin jobs' /\ <<"Disable", current>> \in jobs'
            /\ clock >= sale'[current].start
        BY <1>0, <2>7, <2>9, <3>1, <3>3 DEF CurrentRuns
      <4> QED
        BY <3>2, <4>1 DEF CurrentRuns
    <3> QED
      BY <3>2, <3>3 DEF CurrentRuns
  <2>13. WorkersKnow'
    BY <2>11 DEF WorkersKnow, Knows, Idle
  <2>14. StockBooks'
    BY <1>0, <2>2, <2>7 DEF StockBooks, product, Released
  <2> QED
    BY <2>8, <2>10, <2>12, <2>13, <2>14 DEF Orderly
<1> QED
  BY <1>1, <1>2

LEMMA OrderlyEnable ==
    ASSUME Calm, Sound, Orderly, NEW w \in Workers,
           (\E s \in Sales : FireEnable(w, s)) \/ EnableRow(w) \/ EnableProduct(w)
    PROVE  Orderly'
<1>0. /\ \A s \in Rows : sale[s] \in Row /\ s # None
      /\ clock \in Int /\ current \in Rows \cup {None}
      /\ Apart /\ JobsAhead /\ CurrentRuns /\ Knows(work[w]) /\ StockBooks
  BY SoundFields DEF Orderly, WorkersKnow
<1>1. CASE \E s \in Sales : FireEnable(w, s)
  <2>1. PICK s \in Sales : FireEnable(w, s)
    BY <1>1
  <2>2. PICK row : row = [sale[s] EXCEPT !.prevPrice = price, !.prevQty = stock]
    OBVIOUS
  <2>3. /\ work[w] = Idle /\ s \in Rows /\ <<"Enable", s>> \in jobs /\ clock >= sale[s].start
        /\ jobs' = jobs \ {<<"Enable", s>>} /\ Goto(w, "EnableRow", s, row)
        /\ UNCHANGED <<product, sale, clock>>
    BY <2>1, <2>2 DEF FireEnable
  <2>4. /\ row.start = sale[s].start /\ row.due = sale[s].due /\ row.prevQty = stock
    BY <1>0, <2>2, <2>3 DEF Row
  <2>5. \A x \in Workers : x = w /\ work'[x] = [at |-> "EnableRow", id |-> s, row |-> row]
    BY <2>3, OnlyWorker
  <2>6. \A x \in Workers : work[x].at # "DisableProduct"
    BY <2>3, <2>5 DEF Idle
  <2>7. clock = sale[s].start /\ <<"Disable", s>> \in jobs
    BY <1>0, <2>3, SoundFields DEF JobsAhead
  <2>8. current = None
    <3> SUFFICES ASSUME current # None PROVE FALSE
      OBVIOUS
    <3>1. current \in Rows /\ current # s
      BY <1>0, <2>3 DEF CurrentRuns
    <3>2. clock >= sale[current].start /\ clock <= sale[current].due
      BY <1>0, <2>6, <3>1 DEF CurrentRuns, JobsAhead
    <3>3. Disjoint(sale[s], sale[current]) /\ sale[s].start < sale[s].due
      BY <1>0, <2>3, <3>1 DEF Apart
    <3> QED
      BY <2>3, <2>7, <3>1, <3>2, <3>3, SoundFields DEF Disjoint
  <2>9. WorkersKnow'
    BY <2>3, <2>4, <2>5, <2>7, <2>8 DEF WorkersKnow, Knows, Rows, product
  <2>10. JobsAhead'
    BY <1>0, <2>3 DEF JobsAhead, Rows
  <2>11. CurrentRuns'
    BY <2>3, <2>8 DEF CurrentRuns, product
  <2>12. StockBooks'
    BY <1>0, <2>3 DEF StockBooks, product, Released
  <2>13. Apart'
    BY <1>0, <2>3 DEF Apart, Disjoint, Rows
  <2> QED
    BY <2>9, <2>10, <2>11, <2>12, <2>13 DEF Orderly
<1>2. CASE EnableRow(w)
  <2>1. PICK s, row : s = work[w].id /\ row = Refreshed(s, work[w].row)
    OBVIOUS
  <2>2. /\ work[w].at = "EnableRow" /\ s \in Rows /\ current = None
        /\ <<"Enable", s>> \notin jobs /\ <<"Disable", s>> \in jobs
        /\ work[w].row.start = sale[s].start /\ work[w].row.due = sale[s].due
        /\ clock = sale[s].start /\ work[w].row.prevQty = stock
    BY <1>0, <1>2, <2>1 DEF EnableRow, Knows
  <2>3. row.start = sale[s].start /\ row.due = sale[s].due /\ row.prevQty = stock
    <3>1. work[w].row \in Row
      BY <2>2, SoundFields, TaskFields DEF Points
    <3> QED
      BY <2>1, <2>2, <3>1 DEF Refreshed, Clamped, Row
  <2>4. /\ sale' = [sale EXCEPT ![s] = row] /\ Goto(w, "EnableProduct", s, row)
        /\ UNCHANGED <<jobs, product, clock>>
    BY <1>2, <2>1, <2>2 DEF EnableRow
  <2>5. /\ Rows' = Rows /\ sale'[s] = row /\ \A x \in Rows : x # s => sale'[x] = sale[x]
    BY <2>2, <2>4 DEF Rows
  <2>6. \A x \in Rows : sale'[x].start = sale[x].start /\ sale'[x].due = sale[x].due
    BY <2>3, <2>5
  <2>7. \A x \in Workers : x = w /\ work'[x] = [at |-> "EnableProduct", id |-> s, row |-> row]
    BY <2>4, OnlyWorker
  <2>8. WorkersKnow'
    BY <2>2, <2>3, <2>4, <2>5, <2>7 DEF WorkersKnow, Knows, product
  <2>9. Apart'
    BY <1>0, <2>5, <2>6 DEF Apart, Disjoint
  <2>10. JobsAhead'
    BY <1>0, <2>4, <2>5, <2>6 DEF JobsAhead
  <2>11. CurrentRuns' /\ StockBooks'
    BY <1>0, <2>2, <2>4 DEF CurrentRuns, StockBooks, product
  <2> QED
    BY <2>8, <2>9, <2>10, <2>11 DEF Orderly
<1>3. CASE EnableProduct(w)
  <2>1. PICK s, row : s = work[w].id /\ row = work[w].row
    OBVIOUS
  <2>2. /\ work[w].at = "EnableProduct" /\ s \in Rows /\ current = None
        /\ <<"Enable", s>> \notin jobs /\ <<"Disable", s>> \in jobs
        /\ clock = sale[s].start /\ row.prevQty = stock /\ row = sale[s]
    BY <1>0, <1>3, <2>1 DEF EnableProduct, Knows
  <2>3. /\ stock' = row.qty /\ current' = s /\ Finish(w)
        /\ UNCHANGED <<jobs, sale, units, clock>>
    BY <1>3, <2>1, <2>2 DEF EnableProduct
  <2>4. StockBooks'
    <3>1. stock = units /\ current' # None
      <4>1. stock + 0 = units
        BY <1>0, <2>2 DEF StockBooks
      <4> QED
        BY <2>2, <2>3, <4>1, SoundFields
    <3>2. Released(row) = stock - row.qty /\ row.qty \in Int /\ stock \in Int
      BY <2>2, SoundFields DEF Released
    <3>3. PICK r \in Int : r = Released(row)
      BY <3>2
    <3>4. row.qty + r = units
      BY <3>1, <3>2, <3>3
    <3>5. stock' = row.qty /\ units' = units /\ current' # None /\ Released(sale'[current']) = r
      BY <2>2, <2>3, <3>1, <3>3 DEF Released
    <3> QED
      BY <3>4, <3>5 DEF StockBooks, Released
  <2>5. CurrentRuns'
    BY <1>0, <2>2, <2>3, SoundFields DEF CurrentRuns
  <2>6. WorkersKnow'
    BY <2>3, NoWorker DEF WorkersKnow, Knows, Idle
  <2> QED
    BY <1>0, <2>3, <2>4, <2>5, <2>6 DEF Orderly, Apart, JobsAhead, Disjoint, Rows
<1> QED
  BY <1>1, <1>2, <1>3

\* The reads of disableFlashSale and deleteFlashSale.
LEMMA OrderlyRead ==
    ASSUME Calm, Sound, Orderly, NEW w \in Workers, NEW s \in Sales,
           FireDisable(w, s) \/ DeleteFlashSaleRead(w, s)
    PROVE  Orderly'
<1>0. /\ Apart /\ JobsAhead /\ CurrentRuns /\ StockBooks /\ s # None
  BY DEF Orderly
<1>1. /\ work[w] = Idle /\ s \in Rows /\ UNCHANGED <<product, sale, clock>>
  BY DEF FireDisable, DeleteFlashSaleRead
<1>2. \A x \in Workers : x = w /\ work[x].at = "Idle"
  BY <1>1 DEF Calm, Idle
<1>3. Apart' /\ StockBooks'
  BY <1>0, <1>1 DEF Apart, Disjoint, StockBooks, Released, Rows, product
<1>4. CASE FireDisable(w, s)
  <2>1. /\ current = s /\ <<"Enable", s>> \notin jobs /\ jobs' = jobs \ {<<"Disable", s>>}
        /\ Goto(w, "DisableProduct", s, sale[s])
    BY <1>4 DEF FireDisable
  <2>2. \A x \in Workers : x = w /\ work'[x] = [at |-> "DisableProduct", id |-> s, row |-> sale[s]]
    BY <2>1, OnlyWorker
  <2>3. WorkersKnow'
    BY <1>0, <1>1, <2>1, <2>2 DEF WorkersKnow, Knows, product
  <2>4. JobsAhead'
    BY <1>0, <1>1, <2>1 DEF JobsAhead, Rows
  <2>5. CurrentRuns'
    BY <1>0, <1>1, <2>1, <2>2 DEF CurrentRuns, product
  <2> QED
    BY <1>3, <2>3, <2>4, <2>5 DEF Orderly
<1>5. CASE DeleteFlashSaleRead(w, s)
  <2>1. PICK at : /\ at = (IF current = s THEN "DeleteProduct" ELSE "DeleteRow")
                  /\ Goto(w, at, s, sale[s]) /\ UNCHANGED jobs
    BY <1>5 DEF DeleteFlashSaleRead
  <2>2. \A x \in Workers : x = w /\ work'[x] = [at |-> at, id |-> s, row |-> sale[s]]
    BY <2>1, OnlyWorker
  <2>3. WorkersKnow'
    BY <1>0, <1>1, <2>1, <2>2 DEF WorkersKnow, Knows, Rows, product
  <2>4. JobsAhead'
    BY <1>0, <1>1, <2>1 DEF JobsAhead, Rows
  <2>5. CurrentRuns'
    BY <1>0, <1>1, <1>2, <2>1 DEF CurrentRuns, product
  <2> QED
    BY <1>3, <2>3, <2>4, <2>5 DEF Orderly
<1> QED
  BY <1>4, <1>5

\* The writes of disableFlashSale and deleteFlashSale.
LEMMA OrderlyEnd ==
    ASSUME Calm, Sound, Orderly, NEW w \in Workers,
           DisableProduct(w) \/ DeleteProduct(w) \/ DisableDelete(w) \/ DeleteRow(w)
    PROVE  Orderly'
<1>0. /\ \A s \in Rows : sale[s] \in Row /\ s # None
      /\ clock \in Int /\ current \in Rows \cup {None}
      /\ Apart /\ JobsAhead /\ CurrentRuns /\ Knows(work[w]) /\ StockBooks
  BY SoundFields DEF Orderly, WorkersKnow
<1>1. CASE DisableProduct(w) \/ DeleteProduct(w)
  <2>1. PICK s, row : s = work[w].id /\ row = work[w].row
    OBVIOUS
  <2>2. s # None /\ current = s /\ row = sale[s] /\ s \in Rows
    BY <1>0, <1>1, <2>1 DEF DisableProduct, DeleteProduct, Knows
  <2>3. PICK at \in {"DisableDelete", "DeleteRow"} : Goto(w, at, s, row)
    BY <1>1, <2>1 DEF DisableProduct, DeleteProduct
  <2>4. /\ stock' = stock + Released(row) /\ current' = None
        /\ UNCHANGED <<sale, jobs, units, clock>>
    BY <1>1, <2>1 DEF DisableProduct, DeleteProduct, RestoreProduct
  <2>5. StockBooks'
    <3>1. stock + Released(sale[s]) = units /\ Released(sale[s]) \in Int
      BY <1>0, <2>2, SoundFields DEF StockBooks, Released
    <3>2. current' = None /\ stock' \in Int
      BY <2>2, <2>4, <3>1, SoundFields
    <3>3. stock' + 0 = units'
      BY <2>2, <2>4, <3>1, <3>2, SoundFields
    <3>4. (IF current' = None THEN 0 ELSE Released(sale'[current'])) = 0
      BY <3>2
    <3> QED
      BY <3>3, <3>4 DEF StockBooks, Released
  <2>6. \A x \in Workers : x = w /\ work'[x] = [at |-> at, id |-> s, row |-> row]
    BY <2>3, OnlyWorker
  <2>7. WorkersKnow'
    BY <2>2, <2>4, <2>6 DEF WorkersKnow, Knows, Rows
  <2>8. CurrentRuns'
    BY <2>4 DEF CurrentRuns
  <2> QED
    BY <1>0, <2>4, <2>5, <2>7, <2>8 DEF Orderly, Apart, JobsAhead, Disjoint, Rows
<1>2. CASE DisableDelete(w) \/ DeleteRow(w)
  <2>1. PICK s : s = work[w].id
    OBVIOUS
  <2>2. s \in Rows /\ current # s
    BY <1>0, <1>2, <2>1 DEF DisableDelete, DeleteRow, Knows
  <2>3. DeleteSale(s) /\ Finish(w) /\ UNCHANGED <<stock, units, jobs, clock>>
    BY <1>2, <2>1, <2>2 DEF DisableDelete, DeleteRow
  <2>4. /\ Rows' = Rows \ {s} /\ \A x \in Rows' : sale'[x] = sale[x]
        /\ current' = current
    BY <2>2, <2>3 DEF DeleteSale, Rows
  <2>5. \A x \in Workers : x = w /\ work'[x] = Idle
    BY <2>3, NoWorker
  <2>6. current # None => current \in Rows' /\ sale'[current] = sale[current]
    BY <1>0, <2>2, <2>4
  <2>7. StockBooks'
    BY <1>0, <2>3, <2>4, <2>6 DEF StockBooks, Released
  <2>8. CurrentRuns'
    <3>1. \A x \in Workers : work[x].at # "DisableProduct"
      BY <1>2, <2>5 DEF DisableDelete, DeleteRow
    <3> QED
      BY <1>0, <2>3, <2>4, <2>6, <3>1 DEF CurrentRuns
  <2>9. Apart' /\ JobsAhead'
    BY <1>0, <2>3, <2>4 DEF Apart, JobsAhead, Disjoint
  <2>10. WorkersKnow'
    BY <2>5 DEF WorkersKnow, Knows, Idle
  <2> QED
    BY <2>7, <2>8, <2>9, <2>10 DEF Orderly
<1> QED
  BY <1>1, <1>2

\* The rest of the shop, time, jobs without effect.
LEMMA OrderlyOthers ==
    ASSUME Calm, Sound, Orderly,
           \/ \E k \in {"Enable", "Disable"}, s \in Sales : FireVainly(k, s)
           \/ ImportProduct \/ OrderOne \/ CancelOne \/ UpdateSalePrice \/ Tick \/ Restart
           \/ UNCHANGED vars
    PROVE  Orderly'
<1>0. /\ \A s \in Rows : sale[s] \in Row /\ s # None
      /\ clock \in Int /\ stock \in Int /\ units \in Int /\ current \in Rows \cup {None}
      /\ Apart /\ JobsAhead /\ CurrentRuns /\ WorkersKnow /\ StockBooks
  BY SoundFields DEF Orderly
<1>1. ASSUME NEW k \in {"Enable", "Disable"}, NEW s \in Sales, FireVainly(k, s) PROVE Orderly'
  <2>1. /\ jobs' = jobs \ {<<k, s>>} /\ UNCHANGED <<product, sale, work, clock>>
        /\ s \in Rows => k = "Disable" /\ current # s /\ clock >= sale[s].due
        /\ k = "Disable" => <<"Enable", s>> \notin jobs
    BY <1>1 DEF FireVainly
  <2>2. Apart' /\ StockBooks'
    BY <1>0, <2>1 DEF Apart, Disjoint, StockBooks, Released, Rows, product
  <2>3. JobsAhead'
    BY <1>0, <2>1 DEF JobsAhead, Rows
  <2>4. CurrentRuns'
    BY <1>0, <2>1 DEF CurrentRuns, product
  <2>5. ASSUME NEW w \in Workers PROVE Knows(work[w])'
    <3>1. PICK t : t = work[w] /\ Knows(t)
      BY <1>0 DEF WorkersKnow
    <3>2. ASSUME t.at \in {"EnableRow", "EnableProduct"} PROVE s # t.id
      <4>1. t.id \in Rows /\ clock = sale[t.id].start
        BY <3>1, <3>2 DEF Knows
      <4>2. sale[t.id].start < sale[t.id].due
        BY <1>0, <4>1 DEF Apart
      <4> QED
        BY <2>1, <4>1, <4>2, SoundFields
    <3>3. Knows(t)'
      BY <2>1, <3>1, <3>2 DEF Knows, Rows, product, Disjoint
    <3> QED
      BY <2>1, <3>1, <3>3 DEF Knows, Disjoint, Rows
  <2> QED
    BY <2>2, <2>3, <2>4, <2>5 DEF Orderly, WorkersKnow
<1>2. CASE ImportProduct \/ OrderOne \/ CancelOne
  <2>1. /\ Quiet /\ UNCHANGED <<current, sale, jobs, work, clock>>
        /\ stock' - units' = stock - units /\ stock' \in Int /\ units' \in Int
    BY <1>0, <1>2 DEF ImportProduct, OrderOne, CancelOne, MayInterleave, Calm
  <2>2. StockBooks'
    <3>1. CASE current = None
      BY <1>0, <2>1, <3>1 DEF StockBooks
    <3>2. CASE current # None
      <4>1. PICK r \in Int : r = Released(sale[current])
        BY <1>0, <3>2, SoundFields DEF Released
      <4>2. current' # None /\ Released(sale'[current']) = r /\ stock + r = units
        BY <1>0, <2>1, <3>2, <4>1 DEF StockBooks, Released
      <4>3. stock' + r = units'
        BY <1>0, <2>1, <4>1, <4>2
      <4> QED
        BY <4>2, <4>3 DEF StockBooks, Released
    <3> QED
      BY <3>1, <3>2
  <2>3. WorkersKnow'
    BY <2>1 DEF Quiet, WorkersKnow, Knows, Idle
  <2> QED
    BY <1>0, <2>1, <2>2, <2>3 DEF Orderly, Apart, JobsAhead, CurrentRuns, Disjoint, Rows
<1>3. CASE UpdateSalePrice
  <2>1. Quiet /\ UNCHANGED <<current, sale, jobs, work, clock, stock, units>>
    BY <1>3 DEF UpdateSalePrice, MayInterleave, Calm
  <2>2. WorkersKnow'
    BY <2>1 DEF Quiet, WorkersKnow, Knows, Idle
  <2> QED
    BY <1>0, <2>1, <2>2
    DEF Orderly, Apart, JobsAhead, CurrentRuns, StockBooks, Released, Disjoint, Rows
<1>4. CASE Tick
  <2>1. /\ Quiet /\ \A j \in jobs : ~Due(j)
        /\ clock' = clock + 1 /\ UNCHANGED <<product, sale, jobs, work>>
    BY <1>4 DEF Tick, Calm
  <2>2. WorkersKnow'
    BY <2>1 DEF Quiet, WorkersKnow, Knows, Idle
  <2>3. JobsAhead'
    <3> SUFFICES ASSUME NEW s \in Rows
                 PROVE  /\ <<"Enable", s>> \in jobs =>
                              clock + 1 <= sale[s].start /\ <<"Disable", s>> \in jobs
                        /\ <<"Disable", s>> \in jobs => clock + 1 <= sale[s].due
      BY <2>1 DEF JobsAhead, Rows
    <3>1. <<"Enable", s>> \in jobs => ~(clock >= sale[s].start) /\ <<"Disable", s>> \in jobs
      BY <1>0, <2>1 DEF Due, Instant, JobsAhead
    <3>2. <<"Disable", s>> \in jobs => ~(clock >= sale[s].due)
      BY <2>1 DEF Due, Instant
    <3> QED
      BY <1>0, <3>1, <3>2, SoundFields
  <2>4. CurrentRuns'
    BY <1>0, <2>1, SoundFields DEF CurrentRuns, product
  <2> QED
    BY <1>0, <2>1, <2>2, <2>3, <2>4 DEF Orderly, Apart, StockBooks, Released, Disjoint, Rows, product
<1>5. ~Restart
  BY DEF Restart, Calm, Sound, TypeOK
<1>6. CASE UNCHANGED vars
  BY <1>0, <1>6
  DEF vars, Orderly, Apart, JobsAhead, CurrentRuns, WorkersKnow, Knows, StockBooks, Released, Disjoint, Rows
<1> QED
  BY <1>1, <1>2, <1>3, <1>4, <1>5, <1>6

LEMMA OrderlyNext ==
    ASSUME Calm
    PROVE  Sound /\ Orderly /\ [Next]_vars => Orderly'
<1> SUFFICES ASSUME Sound, Orderly, [Next]_vars
             PROVE  Orderly'
  OBVIOUS
<1>1. CASE \E w \in Workers : CreateFlashSaleRead(w) \/ CreateFlashSaleCommit(w)
  BY <1>1, OrderlyCreate
<1>2. CASE \E w \in Workers : (\E s \in Sales : FireEnable(w, s)) \/ EnableRow(w) \/ EnableProduct(w)
  BY <1>2, OrderlyEnable
<1>3. CASE \E w \in Workers :
               DisableProduct(w) \/ DeleteProduct(w) \/ DisableDelete(w) \/ DeleteRow(w)
  BY <1>3, OrderlyEnd
<1>4. CASE \E w \in Workers, s \in Sales : FireDisable(w, s) \/ DeleteFlashSaleRead(w, s)
  BY <1>4, OrderlyRead
<1>5. CASE \/ \E k \in {"Enable", "Disable"}, s \in Sales : FireVainly(k, s)
           \/ ImportProduct \/ OrderOne \/ CancelOne \/ UpdateSalePrice \/ Tick \/ Restart
           \/ UNCHANGED vars
  BY <1>5, OrderlyOthers
<1> QED
  BY <1>1, <1>2, <1>3, <1>4, <1>5 DEF Next, Step, Fire

\* One handler at a time, the units on sale and those the current flash sale
\* sets aside are exactly the units not promised to a customer.
THEOREM FlashBooksSafe ==
    ASSUME Calm
    PROVE  Spec => []StockBooks
<1>1. Sound /\ Orderly => StockBooks
  BY DEF Orderly
<1>2. Sound /\ Orderly /\ [Next]_vars => (Sound /\ Orderly)'
  BY SoundNext, OrderlyNext
<1>3. Init => Sound /\ Orderly
  BY SoundInit, OrderlyInit
<1> QED
  BY <1>1, <1>2, <1>3, PTL DEF Spec
-----------------------------------------------------------------------------
\* The price a flash sale will put back is the one from before it.
Kept == /\ PriceRestored
        /\ current # None => sale[current].prevPrice = BasePrice
        /\ \A w \in Workers : work[w].at \in {"EnableRow", "EnableProduct"} =>
                                  work[w].row.prevPrice = BasePrice

\* The handlers that do not write the product's price.
LEMMA KeptRead ==
    ASSUME Calm, Sound, Orderly, Kept, NEW w \in Workers,
           \/ CreateFlashSaleRead(w) \/ CreateFlashSaleCommit(w)
           \/ \E s \in Sales : FireEnable(w, s) \/ FireDisable(w, s) \/ DeleteFlashSaleRead(w, s)
           \/ DisableDelete(w) \/ DeleteRow(w)
    PROVE  Kept'
<1>0. Knows(work[w]) /\ current \in Rows \cup {None}
  BY SoundFields DEF Orderly, WorkersKnow
<1>1. CASE CreateFlashSaleRead(w)
  <2>1. PICK row : Goto(w, "Create", None, row)
    BY <1>1 DEF CreateFlashSaleRead
  <2>2. \A x \in Workers : x = w /\ work'[x] = [at |-> "Create", id |-> None, row |-> row]
    BY <2>1, OnlyWorker
  <2> QED
    BY <1>1, <2>2 DEF CreateFlashSaleRead, Kept, PriceRestored, product
<1>2. CASE CreateFlashSaleCommit(w)
  <2>1. \A x \in Workers : x = w /\ work'[x] = Idle
    BY <1>2, NoWorker DEF CreateFlashSaleCommit
  <2>2. current # None => sale'[current] = sale[current]
    <3>1. PICK s \in Sales \ made :
              sale' = [x \in Rows \cup {s} |-> IF x = s THEN work[w].row ELSE sale[x]]
      BY <1>2 DEF CreateFlashSaleCommit
    <3> QED
      BY <1>0, <3>1 DEF Sound, TypeOK, Rows
  <2> QED
    BY <1>2, <2>1, <2>2 DEF CreateFlashSaleCommit, Kept, PriceRestored, Idle, product
<1>3. ASSUME NEW s \in Sales, FireEnable(w, s) PROVE Kept'
  <2>1. PICK row : row = [sale[s] EXCEPT !.prevPrice = price, !.prevQty = stock]
    OBVIOUS
  <2>2. current = None /\ row.prevPrice = price
    <3>1. s \in Rows /\ sale[s] \in Row
      BY <1>3, SoundFields DEF FireEnable
    <3>2. row.prevPrice = price
      BY <2>1, <3>1 DEF Row
    <3>3. work'[w] = [at |-> "EnableRow", id |-> s, row |-> row]
      BY <1>3, <2>1, OnlyWorker DEF FireEnable
    <3>4. Orderly'
      BY <1>3, OrderlyEnable
    <3>5. current' = None
      <4>1. Knows(work[w])'
        BY <3>4 DEF Orderly, WorkersKnow
      <4>2. work'[w].at = "EnableRow"
        BY <3>3
      <4> QED
        BY <4>1, <4>2 DEF Knows
    <3> QED
      BY <1>3, <3>2, <3>5 DEF FireEnable, product
  <2>3. \A x \in Workers : x = w /\ work'[x] = [at |-> "EnableRow", id |-> s, row |-> row]
    BY <1>3, <2>1, OnlyWorker DEF FireEnable
  <2>4. current' = current /\ price' = price /\ price = BasePrice
    BY <1>3, <2>2 DEF FireEnable, Kept, PriceRestored, product
  <2>5. \A x \in Workers : work'[x].row = row
    BY <2>3
  <2> QED
    BY <2>2, <2>4, <2>5 DEF Kept, PriceRestored
<1>4. ASSUME NEW s \in Sales, FireDisable(w, s) \/ DeleteFlashSaleRead(w, s) PROVE Kept'
  <2>1. PICK at \in {"DisableProduct", "DeleteProduct", "DeleteRow"} : Goto(w, at, s, sale[s])
    BY <1>4 DEF FireDisable, DeleteFlashSaleRead
  <2>2. \A x \in Workers : x = w /\ work'[x] = [at |-> at, id |-> s, row |-> sale[s]]
    BY <2>1, OnlyWorker
  <2> QED
    BY <1>4, <2>2 DEF FireDisable, DeleteFlashSaleRead, Kept, PriceRestored, product
<1>5. CASE DisableDelete(w) \/ DeleteRow(w)
  <2>1. PICK s : s = work[w].id
    OBVIOUS
  <2>2. s \in Rows /\ current # s
    BY <1>0, <1>5, <2>1, SoundFields DEF DisableDelete, DeleteRow, Knows
  <2>3. DeleteSale(s) /\ Finish(w) /\ price' = price
    BY <1>5, <2>1, <2>2 DEF DisableDelete, DeleteRow
  <2>4. /\ \A x \in Rows \ {s} : sale'[x] = sale[x]
        /\ current' = current
    BY <2>2, <2>3 DEF DeleteSale, Rows
  <2>5. \A x \in Workers : x = w /\ work'[x] = Idle
    BY <2>3, NoWorker
  <2> QED
    BY <1>0, <2>2, <2>3, <2>4, <2>5 DEF Kept, PriceRestored, Idle
<1> QED
  BY <1>1, <1>2, <1>3, <1>4, <1>5

\* The handlers that write the row of an enabling or the product's price.
LEMMA KeptWrite ==
    ASSUME Calm, Sound, Orderly, Kept, NEW w \in Workers,
           EnableRow(w) \/ EnableProduct(w) \/ DisableProduct(w) \/ DeleteProduct(w)
    PROVE  Kept'
<1>0. Knows(work[w]) /\ work[w] \in Task
  BY SoundFields DEF Orderly, WorkersKnow
<1> DEFINE s == work[w].id  row == work[w].row
<1>1. CASE EnableRow(w)
  <2>1. PICK new : new = Refreshed(s, row)
    OBVIOUS
  <2>2. s \in Rows /\ current = None /\ row \in Row /\ row.prevPrice = BasePrice
    <3>1. work[w].at = "EnableRow"
      BY <1>1 DEF EnableRow
    <3>2. s \in Rows /\ current = None /\ row.prevPrice = BasePrice
      BY <1>0, <3>1 DEF Knows, Kept
    <3>3. row \in Row
      BY <3>1, SoundFields, TaskFields DEF Points
    <3> QED
      BY <3>2, <3>3
  <2>3. new.prevPrice = BasePrice
    BY <2>1, <2>2 DEF Refreshed, Clamped, Row
  <2>4. \A x \in Workers : x = w /\ work'[x] = [at |-> "EnableProduct", id |-> s, row |-> new]
    BY <1>1, <2>1, <2>2, OnlyWorker DEF EnableRow
  <2> QED
    BY <1>1, <2>2, <2>3, <2>4 DEF EnableRow, Kept, PriceRestored, product
<1>2. CASE EnableProduct(w)
  <2>1. s \in Rows /\ row = sale[s] /\ row.prevPrice = BasePrice /\ s # None
    BY <1>0, <1>2, SoundFields DEF EnableProduct, Knows, Kept
  <2>2. current' = s /\ sale' = sale /\ Finish(w)
    BY <1>2, <2>1 DEF EnableProduct
  <2>3. \A x \in Workers : x = w /\ work'[x] = Idle
    BY <2>2, NoWorker
  <2> QED
    BY <2>1, <2>2, <2>3 DEF Kept, PriceRestored, Idle
<1>3. CASE DisableProduct(w) \/ DeleteProduct(w)
  <2>1. current # None /\ row = sale[current] /\ row.prevPrice = BasePrice
    BY <1>0, <1>3 DEF DisableProduct, DeleteProduct, Knows, Kept
  <2>2. PICK at \in {"DisableDelete", "DeleteRow"} : Goto(w, at, s, row)
    BY <1>3 DEF DisableProduct, DeleteProduct
  <2>3. \A x \in Workers : x = w /\ work'[x] = [at |-> at, id |-> s, row |-> row]
    BY <2>2, OnlyWorker
  <2>4. price' = BasePrice /\ current' = None
    BY <1>3, <2>1 DEF DisableProduct, DeleteProduct, RestoreProduct
  <2> QED
    BY <2>3, <2>4 DEF Kept, PriceRestored
<1> QED
  BY <1>1, <1>2, <1>3

LEMMA KeptNext ==
    ASSUME Calm, NewPrices = {}
    PROVE  Sound /\ Orderly /\ Kept /\ [Next]_vars => Kept'
<1> SUFFICES ASSUME Sound, Orderly, Kept, [Next]_vars
             PROVE  Kept'
  OBVIOUS
<1>1. ASSUME NEW w \in Workers,
             \/ CreateFlashSaleRead(w) \/ CreateFlashSaleCommit(w)
             \/ \E s \in Sales : FireEnable(w, s) \/ FireDisable(w, s) \/ DeleteFlashSaleRead(w, s)
             \/ DisableDelete(w) \/ DeleteRow(w)
      PROVE  Kept'
  BY <1>1, KeptRead
<1>2. ASSUME NEW w \in Workers,
             EnableRow(w) \/ EnableProduct(w) \/ DisableProduct(w) \/ DeleteProduct(w)
      PROVE  Kept'
  BY <1>2, KeptWrite
<1>3. ASSUME NEW k \in {"Enable", "Disable"}, NEW s \in Sales, FireVainly(k, s) PROVE Kept'
  BY <1>3 DEF FireVainly, Kept, PriceRestored, product
<1>4. CASE ImportProduct \/ OrderOne \/ CancelOne
  BY <1>4 DEF ImportProduct, OrderOne, CancelOne, Kept, PriceRestored
<1>5. ~UpdateSalePrice
  BY DEF UpdateSalePrice
<1>6. CASE Tick
  BY <1>6 DEF Tick, Kept, PriceRestored, product
<1>7. ~Restart
  BY DEF Restart, Calm, Sound, TypeOK
<1>8. CASE UNCHANGED vars
  BY <1>8 DEF vars, Kept, PriceRestored
<1> QED
  BY <1>1, <1>2, <1>3, <1>4, <1>5, <1>6, <1>7, <1>8 DEF Next, Step, Fire

\* One handler at a time and nobody updating the price, the product costs what
\* it did once no flash sale is current.
THEOREM FlashPriceRestored ==
    ASSUME Calm, NewPrices = {}
    PROVE  Spec => []PriceRestored
<1>1. Kept => PriceRestored
  BY DEF Kept
<1>2. Sound /\ Orderly /\ Kept /\ [Next]_vars => (Sound /\ Orderly /\ Kept)'
  BY SoundNext, OrderlyNext, KeptNext
<1>3. Init => Sound /\ Orderly /\ Kept
  BY SoundInit, OrderlyInit DEF Init, Kept, PriceRestored, Idle
<1> QED
  BY <1>1, <1>2, <1>3, PTL DEF Spec
=============================================================================
