---------------------------- MODULE MCFlashSales ----------------------------
(* Values of the constants of FlashSales for model checking. *)
EXTENDS FlashSales, TLC

OneOrLess == {-1, 1}

FlashSaleSymmetry == Permutations(Sales) \cup Permutations(Workers)
=============================================================================
