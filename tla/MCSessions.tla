----------------------------- MODULE MCSessions -----------------------------
(* Values of the constants of Sessions for model checking. *)
EXTENDS Sessions, TLC

SessionSymmetry == Permutations(Requests) \cup Permutations(Passwords)
=============================================================================
