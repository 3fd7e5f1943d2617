------------------------------- MODULE MCMedia -------------------------------
(* Values of the constants of Media for model checking. *)
EXTENDS Media, TLC

MediaSymmetry == Permutations(Uploads) \cup Permutations(Requests)
=============================================================================
