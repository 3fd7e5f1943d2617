------------------------------- MODULE Queues -------------------------------
(***************************************************************************)
(* The two queues of the server.  They share Redis and nothing of what the *)
(* models keep of it: every step of the server is a step of one of them    *)
(* that leaves the other alone, so each is looked at while it alone moves. *)
(***************************************************************************)
EXTENDS Imports, Notices

VARIABLE part

vars == <<part, importVars, noticeVars>>

Init == part \in {"Imports", "Notices"} /\ ImportsInit /\ NoticesInit

Next ==
    /\ \/ part = "Imports" /\ ImportsNext /\ UNCHANGED noticeVars
       \/ part = "Notices" /\ NoticesNext /\ UNCHANGED importVars
    /\ UNCHANGED part

Spec == Init /\ [][Next]_vars /\ ImportsFairness /\ NoticesFairness

\* Every variable of both queues holds a value of its kind.
TypeOK == part \in {"Imports", "Notices"} /\ ImportsTypeOK /\ NoticesTypeOK
=============================================================================
