------------------------------ MODULE Imports ------------------------------
(***************************************************************************)
(* The queue of import forms: an administrator uploads a worksheet,        *)
(* products.service.ts puts it on the queue, file.processor.ts books its   *)
(* rows one after the other, waiting five seconds after each, and mails    *)
(* the administrator which rows it booked.                                 *)
(***************************************************************************)
EXTENDS Bull, Sequences

CONSTANTS
    Forms,         \* uploads
    Products,
    Worksheets,    \* what an upload may hold
    MaxRows        \* rows of a worksheet

Blank   == "Blank"      \* a row without a code, a quantity or a price
Unknown == "Unknown"    \* a code that no product has

ASSUME ImportsAssumption ==
    /\ MaxRows \in Nat
    /\ \A w \in Worksheets :
          /\ w.header \in BOOLEAN
          /\ w.rows \in Seq(Products \cup {Blank, Unknown}) /\ Len(w.rows) <= MaxRows

VARIABLES
    formJob,     \* the job of each upload
    form,        \* its worksheet
    run,         \* the job the worker is running, and where
    catalogue,   \* products that exist
    booked,      \* how often each row was booked
    reports,     \* the mails about each upload
    erred        \* uploads of which a run was given up with a logged error

importVars == <<formJob, form, run, catalogue, booked, reports, erred>>

NoSheet == [header |-> FALSE, rows |-> <<>>]
NoRun == [at |-> "NoRun"]
Rows  == 1..MaxRows
\* success: the rows this run has booked.
Run == {NoRun} \cup
       [at : {"Admin", "Row", "Update", "Return"}, form : Forms, row : 1..MaxRows + 1, success : SUBSET Rows]
Report == [header : BOOLEAN, success : SUBSET Rows]

ImportsTypeOK ==
    /\ formJob \in [Forms -> Job]
    /\ form \in [Forms -> Worksheets \cup {NoSheet}]
    /\ run \in Run
    /\ catalogue \subseteq Products
    /\ booked \in [Forms -> [Rows -> Nat]]
    /\ reports \in [Forms -> SUBSET Report]
    /\ erred \subseteq Forms

ImportsInit ==
    /\ formJob = [f \in Forms |-> NoJob]
    /\ form = [f \in Forms |-> NoSheet]
    /\ run = NoRun
    /\ catalogue = Products
    /\ booked = [f \in Forms |-> [i \in Rows |-> 0]]
    /\ reports = [f \in Forms |-> {}]
    /\ erred = {}

ImportProductsFromExcel(f, w) ==
    /\ formJob[f] = NoJob
    /\ form' = [form EXCEPT ![f] = w]
    /\ formJob' = [formJob EXCEPT ![f] = AddedJob]
    /\ UNCHANGED <<run, catalogue, booked, reports, erred>>

DeleteProductRow(p) ==
    /\ p \in catalogue
    /\ catalogue' = catalogue \ {p}
    /\ UNCHANGED <<formJob, form, run, booked, reports, erred>>

-----------------------------------------------------------------------------
(* importProductsFromForm: one run of a job *)

\* The processor keeps one job at a time.
WorkerFree(r) == r = NoRun

TakeForm(f) ==
    /\ WorkerFree(run) /\ Takeable(formJob[f])
    /\ formJob' = [formJob EXCEPT ![f] = Taken(@)]
    /\ run' = [at |-> "Admin", form |-> f, row |-> 1, success |-> {}]
    /\ UNCHANGED <<form, catalogue, booked, reports, erred>>

Sheet == form[run.form]

\* The administrator's row is read, then the header is compared.
FindAdmin ==
    /\ run.at = "Admin"
    /\ IF Sheet.header
       THEN run' = [run EXCEPT !.at = "Row"] /\ UNCHANGED reports
       ELSE /\ run' = [run EXCEPT !.at = "Return"]
            /\ reports' = [reports EXCEPT ![run.form] = @ \cup {[header |-> FALSE, success |-> {}]}]
    /\ UNCHANGED <<formJob, form, catalogue, booked, erred>>

\* Any error outside a row is logged and the job returns nothing.
GiveUp ==
    /\ run.at = "Admin"
    /\ run' = [run EXCEPT !.at = "Return"]
    /\ erred' = erred \cup {run.form}
    /\ UNCHANGED <<formJob, form, catalogue, booked, reports>>

NextRowAgain(success) == [run EXCEPT !.at = "Row", !.success = success]
NextRowAtOnce(success) == [run EXCEPT !.at = "Row", !.row = run.row + 1, !.success = success \cup {run.row}]
NextRow(success) == [run EXCEPT !.at = "Row", !.row = run.row + 1, !.success = success]

\* resultFormImport up to the product it finds.
FindRow ==
    /\ run.at = "Row" /\ run.row <= Len(Sheet.rows)
    /\ run' = IF Sheet.rows[run.row] \in catalogue THEN [run EXCEPT !.at = "Update"]
              ELSE NextRow(run.success)
    /\ UNCHANGED <<formJob, form, catalogue, booked, reports, erred>>

\* The nested update is refused when the product has gone meanwhile, and the
\* database or the client may refuse it for the row's values at any time.
BookRow ==
    /\ run.at = "Update"
    /\ \/ /\ Sheet.rows[run.row] \in catalogue
          /\ booked' = [booked EXCEPT ![run.form][run.row] = @ + 1]
          /\ run' = NextRow(run.success \cup {run.row})
       \/ run' = NextRow(run.success) /\ UNCHANGED booked
    /\ UNCHANGED <<formJob, form, catalogue, reports, erred>>

SendResult ==
    /\ run.at = "Row" /\ run.row > Len(Sheet.rows)
    /\ run' = [run EXCEPT !.at = "Return"]
    /\ reports' = [reports EXCEPT ![run.form] = @ \cup {[header |-> TRUE, success |-> run.success]}]
    /\ UNCHANGED <<formJob, form, catalogue, booked, erred>>

FormReturnsUndone ==
    /\ run.at = "Return"
    /\ run' = NoRun
    /\ UNCHANGED <<formJob, form, catalogue, booked, reports, erred>>
FormReturns ==
    /\ run.at = "Return"
    /\ formJob' = [formJob EXCEPT ![run.form] = Returned(@)]
    /\ run' = NoRun
    /\ UNCHANGED <<form, catalogue, booked, reports, erred>>

RunStep == FindAdmin \/ GiveUp \/ FindRow \/ BookRow \/ SendResult \/ FormReturns

-----------------------------------------------------------------------------
(* Lost locks and a server that dies *)

\* The run goes on, but its lock has expired.
FormLockExpires(f) ==
    /\ formJob[f].lock
    /\ formJob' = [formJob EXCEPT ![f] = Unlocked(@)]
    /\ UNCHANGED <<form, run, catalogue, booked, reports, erred>>

RecoverForm(f) ==
    /\ Stalled(formJob[f])
    /\ formJob' = [formJob EXCEPT ![f] = Recovered(@)]
    /\ UNCHANGED <<form, run, catalogue, booked, reports, erred>>

ImportsServerDies ==
    /\ run # NoRun
    /\ run' = NoRun
    /\ formJob' = [formJob EXCEPT ![run.form] = Unlocked(@)]
    /\ UNCHANGED <<form, catalogue, booked, reports, erred>>

ImportsNext ==
    \/ \E f \in Forms :
          \/ \E w \in Worksheets : ImportProductsFromExcel(f, w)
          \/ TakeForm(f) \/ FormLockExpires(f) \/ RecoverForm(f)
    \/ RunStep \/ ImportsServerDies
    \/ \E p \in Products : DeleteProductRow(p)

\* The worker works, and Bull looks for stalled jobs every half a minute.
ImportsFairness ==
    /\ WF_importVars(RunStep)
    /\ \A f \in Forms : WF_importVars(TakeForm(f)) /\ WF_importVars(RecoverForm(f))

ImportsSpec == ImportsInit /\ [][ImportsNext]_importVars /\ ImportsFairness

-----------------------------------------------------------------------------
(* What must hold *)

\* A row is booked at most once by each run of its job, and a job runs again
\* only after a stall: the goods of one line are never added more often than
\* the job began, whenever the server dies or the lock expires.
RowsBookedOncePerRun ==
    \A f \in Forms, i \in Rows : booked[f][i] <= Runs(formJob[f])

\* What the administrator is told is what was booked: a mail names only booked
\* rows, and when the job never stalled and no error was logged it is the one
\* mail and names every booked row, each of them booked once.
ReportsTellTheBooks ==
    \A f \in Forms :
        /\ \A m \in reports[f] : \A i \in m.success : booked[f][i] > 0
        /\ formJob[f].state = "Completed" /\ formJob[f].stalls = 0 /\ f \notin erred =>
              \E success \in SUBSET Rows :
                  /\ reports[f] = {[header |-> form[f].header, success |-> success]}
                  /\ \A i \in Rows : booked[f][i] = IF i \in success THEN 1 ELSE 0

\* Every upload comes to an end, however the server dies and locks expire.
FormsSettle == \A f \in Forms : formJob[f].state = "Wait" ~> Settled(formJob[f])
=============================================================================
