---------------------------- MODULE MCBackOffice ----------------------------
(* Values of the constants of BackOffice for model checking: for prices, a   *)
(* floor of 10 and totals on both sides of it, of the minimum and the caps.  *)
EXTENDS BackOffice

SomeTotals == 0..40
=============================================================================
