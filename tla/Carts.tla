------------------------------- MODULE Carts -------------------------------
(***************************************************************************)
(* Shopping carts and favorites: shopping-carts.service.ts and             *)
(* favorites.service.ts keep them in Firebase, per user and under the      *)
(* product's code, while the products are rows of MySQL.  deleteProduct    *)
(* sweeps both lists of every user, without waiting for it and before its  *)
(* transaction commits.                                                    *)
(*                                                                         *)
(* Entries of different codes never meet, so the model has one code and    *)
(* the products that bear it one after the other.                          *)
(***************************************************************************)
EXTENDS Serving, Sequences

CONSTANTS
    Buyers,
    Lists,            \* "carts" and "favorites"
    Clerks,           \* handlers of requests
    MaxProducts,      \* products that bear the code
    MaxCartDeaths     \* requests, processes and writes that die

ASSUME CartsAssumption == IsFiniteSet(Clerks) /\ {MaxProducts, MaxCartDeaths} \subseteq Nat

VARIABLES
    product,      \* the product that has the code, of table products
    lastProduct,
    entries,      \* productId of the entry of each list and buyer
    trading,      \* where each handler stands
    sweeps,       \* sweeps whose read of all users is under way
    unswept,      \* entries a sweep failed to remove or died before it could
    since,        \* how many sweeps had begun when each entry was written
    swept,        \* the products whose rows were deleted, committed or not, in order
    cartDeaths

cartVars == <<width, product, lastProduct, entries, trading, sweeps, since, unswept, swept, cartDeaths>>

NoProduct == 0
ProductId == 1..MaxProducts
\* nr: the deletion that began it, by its place in swept.
Sweep == [list : Lists, nr : Nat, product : ProductId]
Entry == Lists \X Buyers \X ProductId

Trading ==
    {Idle}
    \cup [at : {"Add", "Remove"}, list : Lists, buyer : Buyers, product : ProductId]
    \cup [at : {"Delete", "Commit"}, product : ProductId]

CartsTypeOK ==
    /\ width \in 1..MaxWidth
    /\ lastProduct \in 0..MaxProducts /\ product \in {NoProduct, lastProduct}
    /\ entries \in [Lists \X Buyers -> ProductId \cup {NoProduct}]
    /\ trading \in [Clerks -> Trading]
    /\ sweeps \subseteq Sweep
    /\ since \in [Lists \X Buyers -> 0..Len(swept)]
    /\ unswept \subseteq Entry
    /\ swept \in Seq(ProductId)
    /\ cartDeaths \in 0..MaxCartDeaths

CartsInit ==
    /\ ServingInit
    /\ product = NoProduct /\ lastProduct = 0
    /\ entries = [e \in Lists \X Buyers |-> NoProduct]
    /\ since = [e \in Lists \X Buyers |-> 0]
    /\ trading = [r \in Clerks |-> Idle]
    /\ sweeps = {} /\ unswept = {} /\ swept = <<>>
    /\ cartDeaths = 0

MayTrade(r) == trading[r] = Idle /\ MayServe(trading)
TradeGoto(r, point) == trading' = [trading EXCEPT ![r] = point]

\* A handler has read the product and goes on to a write.
BeginTrade(r, point) ==
    /\ MayTrade(r) /\ product # NoProduct
    /\ TradeGoto(r, point)
    /\ UNCHANGED <<product, lastProduct, entries, sweeps, since, unswept, swept, cartDeaths>>

\* A product whose code no other has; never a second one with the same code.
CreateProductWithCode ==
    /\ product = NoProduct
    /\ lastProduct < MaxProducts           \* bound: products
    /\ product' = lastProduct + 1 /\ lastProduct' = product'
    /\ UNCHANGED <<entries, trading, sweeps, since, unswept, swept, cartDeaths>>

-----------------------------------------------------------------------------
(* addProductToCart, removeProductInCart and the same of favorites *)

AddProduct(r, list, buyer) ==
    BeginTrade(r, [at |-> "Add", list |-> list, buyer |-> buyer, product |-> product])
RemoveProduct(r, list, buyer) ==
    BeginTrade(r, [at |-> "Remove", list |-> list, buyer |-> buyer, product |-> product])

AddWrite(r) ==
    LET at == trading[r] IN
    /\ at.at = "Add"
    /\ entries' = [entries EXCEPT ![<<at.list, at.buyer>>] = at.product]
    /\ since' = [since EXCEPT ![<<at.list, at.buyer>>] = Len(swept)]
    /\ TradeGoto(r, Idle)
    /\ UNCHANGED <<product, lastProduct, sweeps, unswept, swept, cartDeaths>>

RemoveWrite(r) ==
    LET at == trading[r] IN
    /\ at.at = "Remove"
    /\ entries' = [entries EXCEPT ![<<at.list, at.buyer>>] = NoProduct]
    /\ since' = [since EXCEPT ![<<at.list, at.buyer>>] = 0]
    /\ TradeGoto(r, Idle)
    /\ UNCHANGED <<product, lastProduct, sweeps, unswept, swept, cartDeaths>>

-----------------------------------------------------------------------------
(* deleteProduct *)

DeleteProduct(r) == BeginTrade(r, [at |-> "Delete", product |-> product])

ListsSweptFirst == {CHOOSE list \in Lists : TRUE}
ListsSwept == Lists

\* The row is deleted, still to be committed, and its lock held; the sweeps
\* begin.  A row that another request has deleted makes the request fail.
DeleteRow(r) ==
    LET p == trading[r].product IN
    /\ trading[r].at = "Delete"
    /\ \A q \in Clerks : trading[q] # [at |-> "Commit", product |-> p]
    /\ IF product = p
       THEN /\ sweeps' = sweeps \cup [list : ListsSwept, nr : {Len(swept) + 1}, product : {p}]
            /\ swept' = Append(swept, p)
            /\ TradeGoto(r, [at |-> "Commit", product |-> p])
       ELSE TradeGoto(r, Idle) /\ UNCHANGED <<sweeps, swept>>
    /\ UNCHANGED <<product, lastProduct, entries, since, unswept, cartDeaths>>

DeleteCommit(r) ==
    /\ trading[r].at = "Commit"
    /\ product' = NoProduct
    /\ TradeGoto(r, Idle)
    /\ UNCHANGED <<lastProduct, entries, sweeps, since, unswept, swept, cartDeaths>>

\* removeProductInAllCarts, removeProductInAllFavorites: the users are read
\* once, then the writes of all of them are sent.  A user who had nothing in
\* Firebase before the read may be missed; whose write fails keeps his entry,
\* and the error is logged.
SweepUsers(s) ==
    LET holders == {b \in Buyers : entries[<<s.list, b>>] # NoProduct}
        newcomers == {b \in holders : since[<<s.list, b>>] >= s.nr}
    IN
    /\ s \in sweeps
    /\ sweeps' = sweeps \ {s}
    /\ \E missed \in SUBSET newcomers, failing \in SUBSET holders :
          /\ failing # {} => cartDeaths < MaxCartDeaths      \* bound: deaths
          /\ cartDeaths' = IF failing = {} THEN cartDeaths ELSE cartDeaths + 1
          /\ LET removed == {s.list} \X (holders \ (missed \cup failing)) IN
             /\ entries' = [e \in Lists \X Buyers |-> IF e \in removed THEN NoProduct ELSE entries[e]]
             /\ since' = [e \in Lists \X Buyers |-> IF e \in removed THEN 0 ELSE since[e]]
          /\ unswept' = unswept \cup {<<s.list, b, entries[<<s.list, b>>]>> : b \in failing}
    /\ UNCHANGED <<product, lastProduct, trading, swept>>

-----------------------------------------------------------------------------
(* Deaths *)

\* A request dies; the transaction of a deletion is rolled back, its sweeps go on.
ClerkDies(r) ==
    /\ trading[r] # Idle
    /\ cartDeaths < MaxCartDeaths          \* bound: deaths
    /\ cartDeaths' = cartDeaths + 1
    /\ TradeGoto(r, Idle)
    /\ UNCHANGED <<product, lastProduct, entries, sweeps, since, unswept, swept>>

\* The process ends, and with it every request and every sweep.
CartsServerDies ==
    /\ sweeps # {}
    /\ cartDeaths < MaxCartDeaths          \* bound: deaths
    /\ cartDeaths' = cartDeaths + 1
    /\ unswept' = unswept \cup {e \in Entry : entries[<<e[1], e[2]>>] = e[3] /\ \E s \in sweeps : s.list = e[1]}
    /\ sweeps' = {}
    /\ trading' = [r \in Clerks |-> Idle]
    /\ UNCHANGED <<product, lastProduct, entries, since, swept>>

CartsNext ==
    /\ \/ \E r \in Clerks, list \in Lists, b \in Buyers : AddProduct(r, list, b) \/ RemoveProduct(r, list, b)
       \/ \E r \in Clerks :
             \/ AddWrite(r) \/ RemoveWrite(r)
             \/ DeleteProduct(r) \/ DeleteRow(r) \/ DeleteCommit(r) \/ ClerkDies(r)
       \/ \E s \in sweeps : SweepUsers(s)
       \/ CreateProductWithCode \/ CartsServerDies
    /\ UNCHANGED width

CartsSpec == CartsInit /\ [][CartsNext]_cartVars

-----------------------------------------------------------------------------
(* What must hold *)

Dead(list, b) == entries[<<list, b>>] \notin {NoProduct, product}

\* An entry whose product has been deleted is about to be swept, or is one the
\* sweep was kept from by a failure, or was written by a request that overtook
\* the deletion: which no request does when they are served one at a time.
DeadEntriesExplained ==
    \A list \in Lists, b \in Buyers : Dead(list, b) =>
        \/ \E s \in sweeps : s.list = list /\ s.product = entries[<<list, b>>]
        \/ <<list, b, entries[<<list, b>>]>> \in unswept
        \/ ~Alone /\ \A n \in DOMAIN swept : swept[n] = entries[<<list, b>>] => since[<<list, b>>] >= n
=============================================================================
