----------------------------- MODULE BackOffice -----------------------------
(***************************************************************************)
(* The parts of the server beside orders, sales, accounts, pictures and    *)
(* queues.  No two of them share a variable but the width of the server,   *)
(* which no step changes: every step of the server is a step of one part   *)
(* that leaves the others alone, so what is said of one part holds of the  *)
(* server if and only if it holds of the server in which only that part    *)
(* moves.  part is the one that moves.                                     *)
(***************************************************************************)
EXTENDS Chats, Comments, Reports, Carts, Pricing

VARIABLE part

Parts == {"Chats", "Comments", "Reports", "Carts", "Pricing"}

vars == <<part, chatVars, commentVars, reportVars, cartVars, pricingVars>>

\* The price of an order starts from any basket and voucher; they are kept
\* still while another part moves.
Init ==
    /\ part \in Parts
    /\ ChatsInit /\ CommentsInit /\ ReportsInit /\ CartsInit /\ PricingInit
    /\ part # "Pricing" => voucher = NoVoucher /\ \A t \in Totals : total <= t

Next ==
    /\ \/ /\ part = "Chats" /\ ChatsNext
          /\ UNCHANGED <<commentVars, reportVars, cartVars, pricingVars>>
       \/ /\ part = "Comments" /\ CommentsNext
          /\ UNCHANGED <<chatVars, reportVars, cartVars, pricingVars>>
       \/ /\ part = "Reports" /\ ReportsNext
          /\ UNCHANGED <<chatVars, commentVars, cartVars, pricingVars>>
       \/ /\ part = "Carts" /\ CartsNext
          /\ UNCHANGED <<chatVars, commentVars, reportVars, pricingVars>>
       \/ /\ part = "Pricing" /\ PricingNext
          /\ UNCHANGED <<chatVars, commentVars, reportVars, cartVars>>
    /\ UNCHANGED part

Spec == Init /\ [][Next]_vars

\* Every variable of every part holds a value of its kind.
TypeOK ==
    /\ part \in Parts
    /\ ChatsTypeOK /\ CommentsTypeOK /\ ReportsTypeOK /\ CartsTypeOK /\ PricingTypeOK
=============================================================================
