----------------------------- MODULE MCAccounts -----------------------------
(* Values of the constants of Accounts for model checking. *)
EXTENDS Accounts, TLC

AccountSymmetry == Permutations(Mails) \cup Permutations(Socials) \cup Permutations(Requests)
=============================================================================
