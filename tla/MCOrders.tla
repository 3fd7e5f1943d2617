------------------------------ MODULE MCOrders ------------------------------
(* Values of the constants of Orders for model checking. *)
EXTENDS Orders, TLC

SomeQuantities == {-1, 2}

RequestSymmetry == Permutations(Requests)
OrderSymmetry   == Permutations(OrderIds)
ShopSymmetry    == RequestSymmetry \cup OrderSymmetry \cup Permutations(Users)
=============================================================================
