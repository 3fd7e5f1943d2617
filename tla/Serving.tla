------------------------------ MODULE Serving ------------------------------
(***************************************************************************)
(* How many requests the server has in hand at a time.  Node interleaves   *)
(* them at every await.  The width is chosen at the start and then kept,   *)
(* so that one run shows both what holds of requests served one after the  *)
(* other and what holds of every interleaving.                             *)
(***************************************************************************)
EXTENDS Integers, FiniteSets

CONSTANT MaxWidth      \* requests in hand at a time, at most

ASSUME WidthAssumption == MaxWidth \in Nat \ {0}

VARIABLE width

ServingInit == width \in 1..MaxWidth

Alone == width = 1

Idle == [at |-> "Idle"]

\* req[r] is where handler r stands.
MayServe(req) == Cardinality({r \in DOMAIN req : req[r] # Idle}) < width
=============================================================================
