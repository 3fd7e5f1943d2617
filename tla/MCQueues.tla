------------------------------ MODULE MCQueues ------------------------------
(* Values of the constants of Queues for model checking. *)
EXTENDS Queues

\* The same product twice, which may be deleted between them; a wrong header.
MCWorksheets ==
    {[header |-> TRUE, rows |-> <<"p1", "p1">>],
     [header |-> FALSE, rows |-> <<"p1">>]}
=============================================================================
