--------------------------- MODULE OrderLifecycle ---------------------------
(***************************************************************************)
(* What the order desk promises of one order at a time, without requests,  *)
(* locks or payment codes: goods leave only against money (or cash on      *)
(* delivery), a finished order stays finished, only received goods are     *)
(* reviewed.                                                               *)
(***************************************************************************)
EXTENDS Integers

CONSTANTS OrderIds, Products

VARIABLES phase,     \* where an order is in its life
          prepaid,   \* orders that must be paid before they are confirmed
          paid,      \* orders the customer has paid for
          reviewed   \* <<order, product>> pairs with a rating

vars == <<phase, prepaid, paid, reviewed>>

Phase == {"Unplaced", "Waiting", "Confirmed", "Shipping", "Unclaimed", "Completed", "Canceled"}

Init ==
    /\ phase = [o \in OrderIds |-> "Unplaced"]
    /\ prepaid = {} /\ paid = {} /\ reviewed = {}

Move(o, from, to) ==
    /\ phase[o] \in from
    /\ phase' = [phase EXCEPT ![o] = to]
    /\ UNCHANGED <<prepaid, paid, reviewed>>

Place(o) ==
    /\ phase[o] = "Unplaced"
    /\ phase' = [phase EXCEPT ![o] = "Waiting"]
    /\ prepaid' \in {prepaid, prepaid \cup {o}}
    /\ UNCHANGED <<paid, reviewed>>

Pay(o) ==
    /\ o \in prepaid
    /\ paid' = paid \cup {o}
    /\ UNCHANGED <<phase, prepaid, reviewed>>

Confirm(o)  == (o \in prepaid => o \in paid) /\ Move(o, {"Waiting"}, "Confirmed")
Ship(o)     == Move(o, {"Confirmed"}, "Shipping")
Unclaim(o)  == Move(o, {"Shipping"}, "Unclaimed")
Complete(o) == Move(o, {"Shipping", "Unclaimed"}, "Completed")
Cancel(o)   == Move(o, {"Waiting", "Confirmed", "Shipping", "Unclaimed"}, "Canceled")

Review(o, p) ==
    /\ phase[o] = "Completed"
    /\ <<o, p>> \notin reviewed
    /\ reviewed' = reviewed \cup {<<o, p>>}
    /\ UNCHANGED <<phase, prepaid, paid>>

Next ==
    \E o \in OrderIds :
        \/ Place(o) \/ Pay(o)
        \/ Confirm(o) \/ Ship(o) \/ Unclaim(o) \/ Complete(o) \/ Cancel(o)
        \/ \E p \in Products : Review(o, p)

Spec == Init /\ [][Next]_vars

-----------------------------------------------------------------------------
(* What follows *)

\* Only received goods are reviewed: the order of a review is, and stays, Completed.
ReviewedIsCompleted == \A t \in reviewed : phase[t[1]] = "Completed"

\* An order only moves forward: none goes back to a phase it has left, and a
\* finished one stays finished the way it is.
Rank == [Unplaced |-> 0, Waiting |-> 1, Confirmed |-> 2, Shipping |-> 3, Unclaimed |-> 4,
         Completed |-> 5, Canceled |-> 5]
Forward == \A o \in OrderIds : phase'[o] = phase[o] \/ Rank[phase'[o]] > Rank[phase[o]]
OnlyForward == [][Forward]_vars
=============================================================================
