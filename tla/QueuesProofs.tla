---------------------------- MODULE QueuesProofs ----------------------------
(***************************************************************************)
(* Proofs about Imports and Notices, each as a specification of its own,   *)
(* and about the server with both, for every value of their constants.     *)
(***************************************************************************)
EXTENDS Queues, TLAPS

USE ImportsAssumption, StalledAssumption

-----------------------------------------------------------------------------
(* Jobs of Bull *)

\* Only an active job is locked, and one that may still run can still stall.
JobOK(job) ==
    /\ job \in Job
    /\ job.lock => job.state = "Active"
    /\ job.state \in {"Wait", "Active"} => job.stalls <= MaxStalled

LEMMA NewJobs ==
    /\ JobOK(NoJob) /\ NoJob.state = "None" /\ Runs(NoJob) = 0 /\ NoJob.stalls = 0 /\ ~NoJob.lock
    /\ JobOK(AddedJob) /\ AddedJob.state = "Wait" /\ Runs(AddedJob) = 0
    /\ AddedJob.stalls = 0 /\ ~AddedJob.lock
  BY DEF JobOK, Job, NoJob, AddedJob, Runs

LEMMA TakenJob ==
    ASSUME NEW job, JobOK(job), Takeable(job)
    PROVE  /\ JobOK(Taken(job)) /\ Taken(job).state = "Active" /\ Taken(job).lock
           /\ Taken(job).stalls = job.stalls /\ Runs(Taken(job)) = Runs(job) + 1
  BY DEF JobOK, Job, Takeable, Taken, Runs

LEMMA ReturnedJob ==
    ASSUME NEW job, JobOK(job)
    PROVE  /\ JobOK(Returned(job)) /\ ~Returned(job).lock /\ Returned(job).stalls = job.stalls
           /\ Runs(Returned(job)) = Runs(job)
           /\ job.lock => Returned(job).state = "Completed"
           /\ ~job.lock => Returned(job) = job
  BY DEF JobOK, Job, Returned, Runs

LEMMA UnlockedJob ==
    ASSUME NEW job, JobOK(job)
    PROVE  /\ JobOK(Unlocked(job)) /\ ~Unlocked(job).lock
           /\ Unlocked(job).state = job.state /\ Unlocked(job).stalls = job.stalls
           /\ Runs(Unlocked(job)) = Runs(job)
  BY DEF JobOK, Job, Unlocked, Runs

LEMMA RecoveredJob ==
    ASSUME NEW job, JobOK(job), Stalled(job)
    PROVE  /\ JobOK(Recovered(job)) /\ ~Recovered(job).lock
           /\ Recovered(job).state \in {"Wait", "Failed"} /\ Recovered(job).stalls = job.stalls + 1
           /\ Recovered(job).stalls > 0 /\ Runs(Recovered(job)) = Runs(job)
<1> DEFINE n == job.stalls + 1
<1> DEFINE s == IF job.stalls < MaxStalled THEN "Wait" ELSE "Failed"
<1>1. /\ job \in Job /\ job.stalls \in 0..MaxStalled /\ job.state = "Active" /\ job.lock = FALSE
      /\ n \in 0..MaxStalled + 1 /\ n > 0 /\ s \in {"Wait", "Failed"}
      /\ s = "Wait" => n <= MaxStalled
  BY DEF JobOK, Job, Stalled
<1>2. Recovered(job) = [job EXCEPT !.stalls = n, !.state = s]
  BY DEF Recovered
<1>3. Runs(job) = n
  BY <1>1 DEF Runs
<1> HIDE DEF n, s
<1>4. /\ Recovered(job) \in Job /\ Recovered(job).state = s /\ Recovered(job).stalls = n
      /\ Recovered(job).lock = FALSE
  BY <1>1, <1>2 DEF Job
<1>5. Runs(Recovered(job)) = n
  BY <1>1, <1>4 DEF Runs
<1>6. JobOK(Recovered(job))
  BY <1>1, <1>4 DEF JobOK
<1>7. n = job.stalls + 1
  BY DEF n
<1> QED
  BY <1>1, <1>3, <1>4, <1>5, <1>6, <1>7

LEMMA RunsType ==
    ASSUME NEW job, JobOK(job)
    PROVE  job.stalls \in Nat /\ Runs(job) \in Nat
  BY DEF JobOK, Job, Runs

-----------------------------------------------------------------------------
(* The invariant *)

\* A run keeps its upload's job from being taken, or ended, by another.
RunOfItsJob ==
    /\ \A f \in Forms : JobOK(formJob[f])
    /\ \A f \in Forms : formJob[f].lock => run # NoRun /\ run.form = f
    /\ run # NoRun =>
          /\ formJob[run.form].state \in {"Active", "Wait", "Failed"}
          /\ formJob[run.form].state = "Active" \/ formJob[run.form].stalls > 0
          /\ run.at = "Update" => run.row \in Rows
          /\ run.at \in {"Row", "Update"} => form[run.form].header = TRUE

\* The rows a run has still before it were booked by earlier runs only.
RowsAhead ==
    run # NoRun /\ run.at # "Return" =>
        \A i \in Rows : i >= run.row => booked[run.form][i] + 1 <= Runs(formJob[run.form])

\* The rows a run claims to have booked are behind it, and are booked.
RowsBehind ==
    run # NoRun =>
        /\ run.at = "Admin" => run.success = {}
        /\ \A i \in run.success : booked[run.form][i] > 0 /\ (run.at # "Return" => i < run.row)

Untouched(f) == reports[f] = {} /\ \A i \in Rows : booked[f][i] = 0

\* An upload whose job has not run.
Fresh ==
    \A f \in Forms :
        formJob[f].state \in {"None", "Wait"} /\ formJob[f].stalls = 0 => Untouched(f)

Booked(f, success) == \A i \in Rows : booked[f][i] = IF i \in success THEN 1 ELSE 0

\* The first run of a job that still holds its lock.
FirstRun ==
    run # NoRun /\ formJob[run.form].lock /\ formJob[run.form].stalls = 0 =>
        /\ Booked(run.form, run.success)
        /\ run.at # "Return" => reports[run.form] = {}
        /\ run.at = "Return" /\ run.form \notin erred =>
              reports[run.form] = {[header |-> form[run.form].header, success |-> run.success]}

ToldOnce(f) ==
    \E success \in SUBSET Rows :
        /\ reports[f] = {[header |-> form[f].header, success |-> success]}
        /\ Booked(f, success)

FirstRunTold ==
    \A f \in Forms :
        formJob[f].state = "Completed" /\ formJob[f].stalls = 0 /\ f \notin erred => ToldOnce(f)

ToldIsBooked == \A f \in Forms : \A m \in reports[f] : \A i \in m.success : booked[f][i] > 0

Inv ==
    /\ ImportsTypeOK /\ RunOfItsJob
    /\ RowsBookedOncePerRun /\ RowsAhead /\ RowsBehind
    /\ Fresh /\ FirstRun /\ FirstRunTold /\ ToldIsBooked

LEMMA InvInit == ImportsInit => Inv
<1> SUFFICES ASSUME ImportsInit PROVE Inv
  OBVIOUS
<1>1. \A f \in Forms : formJob[f] = NoJob /\ reports[f] = {} /\ \A i \in Rows : booked[f][i] = 0
  BY DEF ImportsInit
<1>2. NoJob \in Job
  BY NewJobs DEF JobOK
<1>3. ImportsTypeOK
  BY <1>2 DEF ImportsInit, ImportsTypeOK, Run
<1>4. run = NoRun
  BY DEF ImportsInit
<1> QED
  BY <1>1, <1>3, <1>4, NewJobs
     DEF Inv, RunOfItsJob, RowsBookedOncePerRun, RowsAhead, RowsBehind, Fresh, FirstRun,
         FirstRunTold, ToldIsBooked, Untouched

LEMMA RunFields ==
    ASSUME NEW q \in Run, q # NoRun
    PROVE  /\ q.at \in {"Admin", "Row", "Update", "Return"} /\ q.form \in Forms
           /\ q.row \in 1..MaxRows + 1 /\ q.success \in SUBSET Rows
           /\ \A at \in {"Admin", "Row", "Update", "Return"} :
                  /\ [q EXCEPT !.at = at] \in Run /\ [q EXCEPT !.at = at] # NoRun
                  /\ [q EXCEPT !.at = at].at = at /\ [q EXCEPT !.at = at].form = q.form
                  /\ [q EXCEPT !.at = at].row = q.row
                  /\ [q EXCEPT !.at = at].success = q.success
  BY DEF Run, NoRun

\* The worker is at some point, so it runs something.
LEMMA Running ==
    ASSUME NEW q, q.at \in {"Admin", "Row", "Update", "Return"}
    PROVE  q # NoRun
  BY DEF NoRun

LEMMA NextRowType ==
    ASSUME ImportsTypeOK, run # NoRun, run.row \in Rows, NEW success \in SUBSET Rows
    PROVE  /\ NextRow(success) \in Run /\ NextRow(success) # NoRun
           /\ NextRow(success).at = "Row" /\ NextRow(success).form = run.form
           /\ NextRow(success).row = run.row + 1 /\ NextRow(success).success = success
<1>1. run \in Run /\ run.row + 1 \in 1..MaxRows + 1
  BY DEF ImportsTypeOK, Rows
<1> QED
  BY <1>1 DEF NextRow, Run, NoRun

LEMMA SheetLength ==
    ASSUME ImportsTypeOK, run # NoRun
    PROVE  Len(Sheet.rows) \in Nat /\ Len(Sheet.rows) <= MaxRows /\ Sheet.header \in BOOLEAN
<1>0. run.form \in Forms
  BY RunFields DEF ImportsTypeOK
<1>1. Sheet \in Worksheets \cup {NoSheet}
  BY <1>0 DEF ImportsTypeOK, Sheet
<1>2. CASE Sheet \in Worksheets
  BY <1>2
<1>3. CASE Sheet = NoSheet
  BY <1>3 DEF NoSheet
<1> QED
  BY <1>1, <1>2, <1>3

\* One job changes.
LEMMA JobChanges ==
    ASSUME Inv, NEW f \in Forms, NEW job, JobOK(job), formJob' = [formJob EXCEPT ![f] = job]
    PROVE  /\ formJob' \in [Forms -> Job] /\ formJob'[f] = job
           /\ \A g \in Forms \ {f} : formJob'[g] = formJob[g]
           /\ \A g \in Forms : JobOK(formJob'[g])
  BY DEF Inv, ImportsTypeOK, RunOfItsJob, JobOK

-----------------------------------------------------------------------------
(* The actions, one after the other *)

LEMMA ImportKeeps ==
    ASSUME Inv, NEW f \in Forms, NEW w \in Worksheets, ImportProductsFromExcel(f, w)
    PROVE  Inv'
<1>1. /\ formJob[f] = NoJob /\ formJob' = [formJob EXCEPT ![f] = AddedJob]
      /\ form' = [form EXCEPT ![f] = w]
      /\ UNCHANGED <<run, catalogue, booked, reports, erred>>
  BY DEF ImportProductsFromExcel
<1>2. /\ formJob' \in [Forms -> Job] /\ formJob'[f] = AddedJob
      /\ \A g \in Forms \ {f} : formJob'[g] = formJob[g]
      /\ \A g \in Forms : JobOK(formJob'[g])
  BY <1>1, JobChanges, NewJobs
<1>3. /\ form' \in [Forms -> Worksheets \cup {NoSheet}]
      /\ \A g \in Forms \ {f} : form'[g] = form[g]
  BY <1>1 DEF Inv, ImportsTypeOK
<1>4. run # NoRun => run.form \in Forms \ {f}
  BY <1>1, NewJobs, RunFields DEF Inv, RunOfItsJob, ImportsTypeOK
<1>5. \A i \in Rows : booked[f][i] <= 0
  BY <1>1, NewJobs DEF Inv, RowsBookedOncePerRun
<1>6. ImportsTypeOK'
  BY <1>1, <1>2, <1>3 DEF Inv, ImportsTypeOK
<1>7. RunOfItsJob'
  BY <1>1, <1>2, <1>3, <1>4, NewJobs DEF Inv, RunOfItsJob
<1>8. RowsBookedOncePerRun'
  BY <1>1, <1>2, <1>5, NewJobs DEF Inv, RowsBookedOncePerRun
<1>9. RowsAhead' /\ RowsBehind'
  BY <1>1, <1>2, <1>4 DEF Inv, RowsAhead, RowsBehind
<1>10. Fresh'
  BY <1>1, <1>2, NewJobs DEF Inv, Fresh, Untouched
<1>11. FirstRun'
  BY <1>1, <1>2, <1>3, <1>4 DEF Inv, FirstRun, Booked
<1>12. FirstRunTold'
  <2>1. \A g \in Forms \ {f} : ToldOnce(g)' = ToldOnce(g)
    BY <1>1, <1>3 DEF ToldOnce, Booked
  <2> QED
    BY <1>1, <1>2, <2>1, NewJobs DEF Inv, FirstRunTold
<1>13. ToldIsBooked'
  BY <1>1 DEF Inv, ToldIsBooked
<1> QED
  BY <1>6, <1>7, <1>8, <1>9, <1>10, <1>11, <1>12, <1>13 DEF Inv

LEMMA TakeKeeps ==
    ASSUME Inv, NEW f \in Forms, TakeForm(f)
    PROVE  Inv'
<1> DEFINE job == formJob[f]
<1>0. JobOK(job) /\ job \in Job
  BY DEF Inv, RunOfItsJob, JobOK
<1>1. /\ run = NoRun /\ Takeable(job) /\ formJob' = [formJob EXCEPT ![f] = Taken(job)]
      /\ run' = [at |-> "Admin", form |-> f, row |-> 1, success |-> {}]
      /\ UNCHANGED <<form, catalogue, booked, reports, erred>>
  BY DEF TakeForm, WorkerFree
<1>2. /\ formJob' \in [Forms -> Job] /\ formJob'[f] = Taken(job)
      /\ \A g \in Forms \ {f} : formJob'[g] = formJob[g]
      /\ \A g \in Forms : JobOK(formJob'[g])
  BY <1>0, <1>1, JobChanges, TakenJob
<1>3. /\ Taken(job).state = "Active" /\ Taken(job).lock
      /\ Taken(job).stalls = job.stalls /\ Runs(Taken(job)) = Runs(job) + 1
  BY <1>0, <1>1, TakenJob
<1>4. run' \in Run /\ run' # NoRun /\ run'.form = f /\ run'.at = "Admin"
  BY <1>1 DEF Run, NoRun
<1>5. \A i \in Rows : booked[f][i] \in Nat /\ booked[f][i] <= Runs(job)
  BY DEF Inv, RowsBookedOncePerRun, ImportsTypeOK
<1>5a. Runs(job) \in Nat /\ job.stalls \in Nat
  BY <1>0, RunsType
<1>6. ImportsTypeOK'
  BY <1>1, <1>2, <1>4 DEF Inv, ImportsTypeOK
<1>7. RunOfItsJob'
  BY <1>1, <1>2, <1>3, <1>4 DEF Inv, RunOfItsJob
<1>8. RowsBookedOncePerRun'
  <2>1. \A i \in Rows : booked[f][i] <= Runs(Taken(job))
    BY <1>3, <1>5, <1>5a
  <2> QED
    BY <1>1, <1>2, <2>1 DEF Inv, RowsBookedOncePerRun
<1>9. RowsAhead' /\ RowsBehind'
  <2>1. \A i \in Rows : booked[f][i] + 1 <= Runs(Taken(job))
    BY <1>3, <1>5, <1>5a
  <2> QED
    BY <1>1, <1>2, <1>4, <2>1 DEF RowsAhead, RowsBehind
<1>10. Fresh'
  BY <1>1, <1>2, <1>3 DEF Inv, Fresh, Untouched
<1>11. FirstRun'
  <2>1. job.stalls = 0 => Untouched(f)
    BY <1>1 DEF Inv, Fresh, Takeable
  <2>2. run'.success = {}
    BY <1>1
  <2> QED
    BY <1>1, <1>2, <1>3, <1>4, <2>1, <2>2 DEF FirstRun, Booked, Untouched
<1>12. FirstRunTold'
  <2>1. \A g \in Forms : ToldOnce(g)' = ToldOnce(g)
    BY <1>1 DEF ToldOnce, Booked
  <2> QED
    BY <1>1, <1>2, <1>3, <2>1 DEF Inv, FirstRunTold
<1>13. ToldIsBooked'
  BY <1>1 DEF Inv, ToldIsBooked
<1> QED
  BY <1>6, <1>7, <1>8, <1>9, <1>10, <1>11, <1>12, <1>13 DEF Inv

\* Only a job changes that is not taken up by it: its runs stay as many.
LEMMA JobStepKeeps ==
    ASSUME Inv, NEW f \in Forms, NEW job, JobOK(job),
           formJob' = [formJob EXCEPT ![f] = job],
           UNCHANGED <<form, run, catalogue, booked, reports, erred>>,
           ~job.lock, Runs(job) = Runs(formJob[f]),
           \/ job.state = formJob[f].state /\ job.stalls = formJob[f].stalls
           \/ job.state \in {"Wait", "Failed"} /\ job.stalls > 0
    PROVE  Inv'
<1>1. /\ formJob' \in [Forms -> Job] /\ formJob'[f] = job
      /\ \A g \in Forms \ {f} : formJob'[g] = formJob[g]
      /\ \A g \in Forms : JobOK(formJob'[g])
  BY JobChanges
<1>2. \A g \in Forms : Runs(formJob'[g]) = Runs(formJob[g])
  BY <1>1
<1>3. \A g \in Forms : formJob'[g].lock => formJob[g].lock
  BY <1>1
<1>4. run # NoRun => run.form \in Forms
  BY RunFields DEF Inv, ImportsTypeOK
<1>5. ImportsTypeOK'
  BY <1>1 DEF Inv, ImportsTypeOK
<1>6. RunOfItsJob'
  BY <1>1, <1>3, <1>4 DEF Inv, RunOfItsJob
<1>7. RowsBookedOncePerRun' /\ RowsAhead' /\ RowsBehind'
  BY <1>2, <1>4 DEF Inv, RowsBookedOncePerRun, RowsAhead, RowsBehind
<1>8. Fresh'
  BY <1>1 DEF Inv, Fresh, Untouched
<1>9. FirstRun'
  BY <1>1, <1>4 DEF Inv, FirstRun, Booked
<1>10. FirstRunTold' /\ ToldIsBooked'
  <2>1. \A g \in Forms : ToldOnce(g)' = ToldOnce(g)
    BY DEF ToldOnce, Booked
  <2> QED
    BY <1>1, <2>1 DEF Inv, FirstRunTold, ToldIsBooked
<1> QED
  BY <1>5, <1>6, <1>7, <1>8, <1>9, <1>10 DEF Inv

LEMMA LockStepsKeep ==
    ASSUME Inv, NEW f \in Forms, FormLockExpires(f) \/ RecoverForm(f)
    PROVE  Inv'
<1>0. JobOK(formJob[f])
  BY DEF Inv, RunOfItsJob
<1>1. CASE FormLockExpires(f)
  BY <1>0, <1>1, UnlockedJob, JobStepKeeps DEF FormLockExpires
<1>2. CASE RecoverForm(f)
  BY <1>0, <1>2, RecoveredJob, JobStepKeeps DEF RecoverForm
<1> QED
  BY <1>1, <1>2

\* The worker lets go of its job: it returns, or the server dies.
LEMMA LettingGoKeeps ==
    ASSUME Inv, FormReturns \/ ImportsServerDies
    PROVE  Inv'
<1> DEFINE f == run.form
           job == formJob[f]
<1>0. run # NoRun /\ f \in Forms
  <2>1. run # NoRun
    BY Running DEF FormReturns, ImportsServerDies
  <2> QED
    BY <2>1, RunFields DEF Inv, ImportsTypeOK
<1>1. JobOK(job)
  BY <1>0 DEF Inv, RunOfItsJob
<1>2. run' = NoRun /\ UNCHANGED <<form, catalogue, booked, reports, erred>>
  BY DEF FormReturns, ImportsServerDies
<1>3. /\ formJob' \in [Forms -> Job]
      /\ FormReturns => formJob'[f] = Returned(job) /\ run.at = "Return"
      /\ ImportsServerDies => formJob'[f] = Unlocked(job)
      /\ \A g \in Forms \ {f} : formJob'[g] = formJob[g]
      /\ \A g \in Forms : JobOK(formJob'[g])
  BY <1>0, <1>1, JobChanges, ReturnedJob, UnlockedJob DEF FormReturns, ImportsServerDies
<1>4. /\ ~formJob'[f].lock /\ formJob'[f].stalls = job.stalls /\ Runs(formJob'[f]) = Runs(job)
      /\ \/ formJob'[f].state = job.state
         \/ FormReturns /\ job.lock /\ formJob'[f].state = "Completed"
  BY <1>1, <1>3, ReturnedJob, UnlockedJob
<1>5. ImportsTypeOK'
  BY <1>2, <1>3 DEF Inv, ImportsTypeOK, Run
<1>6. RunOfItsJob'
  BY <1>0, <1>2, <1>3, <1>4 DEF Inv, RunOfItsJob
<1>7. RowsBookedOncePerRun' /\ RowsAhead' /\ RowsBehind' /\ FirstRun' /\ ToldIsBooked'
  BY <1>0, <1>2, <1>3, <1>4
     DEF Inv, RowsBookedOncePerRun, RowsAhead, RowsBehind, FirstRun, ToldIsBooked
<1>8. Fresh'
  BY <1>0, <1>2, <1>3, <1>4 DEF Inv, Fresh, Untouched
<1>9. FirstRunTold'
  <2>1. \A g \in Forms : ToldOnce(g)' = ToldOnce(g)
    BY <1>2 DEF ToldOnce, Booked
  <2>2. FormReturns /\ job.lock /\ job.stalls = 0 /\ f \notin erred => ToldOnce(f)
    <3>1. run.success \in SUBSET Rows
      BY <1>0, RunFields DEF Inv, ImportsTypeOK
    <3> QED
      BY <1>0, <1>3, <3>1 DEF Inv, FirstRun, ToldOnce
  <2> QED
    BY <1>0, <1>2, <1>3, <1>4, <2>1, <2>2 DEF Inv, FirstRunTold
<1> QED
  BY <1>5, <1>6, <1>7, <1>8, <1>9 DEF Inv

\* The steps of the worker between taking a job and letting go of it: run.form
\* stays, and so do the jobs and worksheets.
Stays ==
    /\ Inv /\ run # NoRun /\ run' \in Run /\ run' # NoRun /\ run'.form = run.form
    /\ UNCHANGED <<formJob, form, catalogue>>

LEMMA StaysFacts ==
    ASSUME Stays
    PROVE  /\ run.form \in Forms /\ run.at # "NoRun"
           /\ run.at \in {"Admin", "Row", "Update", "Return"} /\ run.row \in 1..MaxRows + 1
           /\ run.success \in SUBSET Rows
           /\ formJob[run.form].state \in {"Active", "Wait", "Failed"}
           /\ formJob[run.form].state \in {"None", "Wait"} => formJob[run.form].stalls > 0
           /\ Runs(formJob[run.form]) \in Nat
<1>1. run.form \in Forms
  BY RunFields DEF Stays, Inv, ImportsTypeOK
<1>2. Runs(formJob[run.form]) \in Nat
  BY <1>1, RunsType DEF Stays, Inv, RunOfItsJob
<1> QED
  BY <1>1, <1>2, RunFields DEF Stays, Inv, ImportsTypeOK, RunOfItsJob

\* Nothing is booked and nothing mailed: only the run moves on.
LEMMA MovingKeeps ==
    ASSUME Stays, UNCHANGED <<booked, reports>>,
           run'.success = run.success, run.at # "Return",
           run'.at # "Return" => run'.row >= run.row,
           run'.at # "Admin",
           run'.at = "Update" => run'.row \in Rows,
           run'.at \in {"Row", "Update"} => Sheet.header = TRUE,
           erred' = IF run'.at = "Return" THEN erred \cup {run.form} ELSE erred
    PROVE  Inv'
<1>1. ImportsTypeOK'
  BY StaysFacts DEF Stays, Inv, ImportsTypeOK
<1>2. RunOfItsJob'
  BY StaysFacts DEF Stays, Inv, RunOfItsJob, Sheet
<1>3. run.row \in Nat /\ run'.row \in Nat
  <2>1. run'.row \in 1..MaxRows + 1
    BY RunFields DEF Stays
  <2> QED
    BY <2>1, StaysFacts
<1>4. RowsBookedOncePerRun' /\ ToldIsBooked' /\ Fresh'
  BY DEF Stays, Inv, RowsBookedOncePerRun, ToldIsBooked, Fresh, Untouched
<1>5. Rows \subseteq Nat
  BY DEF Rows
<1>6. RowsAhead'
  BY <1>3, <1>5 DEF Stays, Inv, RowsAhead
<1>7. RowsBehind'
  <2>1. \A i \in run.success : i \in Nat /\ i < run.row
    BY <1>5, StaysFacts DEF Stays, Inv, RowsBehind
  <2> QED
    BY <1>3, <2>1 DEF Stays, Inv, RowsBehind
<1>8. FirstRun'
  BY StaysFacts DEF Stays, Inv, FirstRun, Booked
<1>9. FirstRunTold'
  <2>1. \A g \in Forms : ToldOnce(g)' = ToldOnce(g)
    BY DEF Stays, ToldOnce, Booked
  <2> QED
    BY <2>1 DEF Stays, Inv, FirstRunTold
<1> QED
  BY <1>1, <1>2, <1>4, <1>6, <1>7, <1>8, <1>9 DEF Inv

\* NextRow after a row that booked nothing.
LEMMA PassingKeeps ==
    ASSUME Inv, run.at \in {"Row", "Update"}, run.row \in Rows, run' = NextRow(run.success),
           UNCHANGED <<formJob, form, catalogue, booked, reports, erred>>
    PROVE  Inv'
<1>1. run # NoRun /\ run \in Run
  BY Running DEF Inv, ImportsTypeOK
<1>2. run.success \in SUBSET Rows
  BY <1>1, RunFields
<1>3. /\ run' \in Run /\ run' # NoRun /\ run'.at = "Row" /\ run'.form = run.form
      /\ run'.row = run.row + 1 /\ run'.success = run.success
  BY <1>1, <1>2, NextRowType DEF Inv
<1>4. Stays
  BY <1>1, <1>3 DEF Stays
<1>5. run'.row >= run.row
  BY <1>3 DEF Rows
<1>6. Sheet.header = TRUE
  BY <1>1 DEF Inv, RunOfItsJob, Sheet
<1> QED
  BY <1>3, <1>4, <1>5, <1>6, MovingKeeps

LEMMA FindRowKeeps ==
    ASSUME Inv, FindRow
    PROVE  Inv'
<1>1. run # NoRun /\ run \in Run
  BY Running DEF Inv, ImportsTypeOK, FindRow
<1>2. run.row \in Rows
  <2>1. run.row \in 1..MaxRows + 1
    BY <1>1, RunFields
  <2>2. Len(Sheet.rows) \in Nat /\ Len(Sheet.rows) <= MaxRows
    BY <1>1, SheetLength DEF Inv
  <2>3. run.row <= Len(Sheet.rows)
    BY DEF FindRow
  <2> QED
    BY <2>1, <2>2, <2>3 DEF Rows
<1>3. CASE run' = NextRow(run.success)
  BY <1>2, <1>3, PassingKeeps DEF FindRow
<1>4. CASE run' = [run EXCEPT !.at = "Update"]
  <2>1. /\ run' \in Run /\ run' # NoRun /\ run'.at = "Update" /\ run'.form = run.form
        /\ run'.row = run.row /\ run'.success = run.success
    BY <1>1, <1>4, RunFields
  <2>2. Stays
    BY <1>1, <2>1 DEF Stays, FindRow
  <2>3. Sheet.header = TRUE
    BY <1>1 DEF Inv, RunOfItsJob, Sheet, FindRow
  <2>4. run.row >= run.row
    BY <1>2 DEF Rows
  <2> QED
    BY <1>2, <2>1, <2>2, <2>3, <2>4, MovingKeeps DEF FindRow
<1> QED
  BY <1>3, <1>4 DEF FindRow

LEMMA GiveUpKeeps ==
    ASSUME Inv, GiveUp
    PROVE  Inv'
<1>1. run # NoRun /\ run \in Run
  BY Running DEF Inv, ImportsTypeOK, GiveUp
<1>2. /\ run' \in Run /\ run' # NoRun /\ run'.at = "Return" /\ run'.form = run.form
      /\ run'.success = run.success
  BY <1>1, RunFields DEF GiveUp
<1>3. Stays
  BY <1>1, <1>2 DEF Stays, GiveUp
<1> QED
  BY <1>2, <1>3, MovingKeeps DEF GiveUp

\* A row is booked once more: this run has not booked it before.
LEMMA BookRowKeeps ==
    ASSUME Inv, BookRow
    PROVE  Inv'
<1>1. run # NoRun /\ run \in Run /\ run.at = "Update"
  BY Running DEF Inv, ImportsTypeOK, BookRow
<1>2. run.row \in Rows
  BY <1>1 DEF Inv, RunOfItsJob
<1>3. CASE run' = NextRow(run.success) /\ UNCHANGED booked
  BY <1>1, <1>2, <1>3, PassingKeeps DEF BookRow
<1>4. CASE /\ booked' = [booked EXCEPT ![run.form][run.row] = @ + 1]
           /\ run' = NextRow(run.success \cup {run.row})
  <2> DEFINE f == run.form
             i == run.row
  <2>1. run.success \cup {i} \in SUBSET Rows
    BY <1>1, <1>2, RunFields
  <2>2. /\ run' \in Run /\ run' # NoRun /\ run'.at = "Row" /\ run'.form = f
        /\ run'.row = i + 1 /\ run'.success = run.success \cup {i}
    BY <1>1, <1>2, <1>4, <2>1, NextRowType DEF Inv
  <2>3. Stays /\ UNCHANGED <<formJob, form, catalogue, reports, erred>>
    BY <1>1, <2>2 DEF Stays, BookRow
  <2>4. f \in Forms /\ i \in Nat /\ Rows \subseteq Nat
    BY <1>2, <2>3, StaysFacts DEF Rows
  <2>5. /\ booked' \in [Forms -> [Rows -> Nat]]
        /\ booked'[f][i] = booked[f][i] + 1 /\ booked[f][i] \in Nat
        /\ \A j \in Rows \ {i} : booked'[f][j] = booked[f][j]
        /\ \A g \in Forms \ {f} : booked'[g] = booked[g]
    BY <1>2, <1>4, <2>4 DEF Inv, ImportsTypeOK
  <2>6. \A g \in Forms, j \in Rows :
          booked[g][j] \in Nat /\ booked'[g][j] \in Nat /\ booked'[g][j] >= booked[g][j]
    <3>1. \A g \in Forms, j \in Rows : booked[g][j] \in Nat /\ booked'[g][j] \in Nat
      BY <2>5 DEF Inv, ImportsTypeOK
    <3>2. SUFFICES ASSUME NEW g \in Forms, NEW j \in Rows
                   PROVE  booked'[g][j] >= booked[g][j]
      BY <3>1
    <3>3. booked'[g][j] = booked[g][j] \/ booked'[g][j] = booked[g][j] + 1
      BY <2>5
    <3> QED
      BY <3>1, <3>3
  <2>7. ImportsTypeOK'
    BY <2>2, <2>3, <2>5 DEF Inv, ImportsTypeOK
  <2>8. RunOfItsJob'
    BY <1>1, <2>2, <2>3 DEF Inv, RunOfItsJob
  <2>9. RowsBookedOncePerRun'
    <3>1. booked[f][i] + 1 <= Runs(formJob[f])
      BY <1>1, <1>2, <2>4 DEF Inv, RowsAhead
    <3> QED
      BY <2>3, <2>4, <2>5, <3>1 DEF Inv, RowsBookedOncePerRun
  <2>10. RowsAhead'
    <3>1. \A j \in Rows : j >= i + 1 => j # i /\ j >= i
      BY <2>4
    <3> QED
      BY <1>1, <2>2, <2>3, <2>5, <3>1 DEF Inv, RowsAhead
  <2>11. RowsBehind'
    <3>0. \A j \in run.success : j \in Rows /\ j \in Nat
      BY <2>1, <2>4
    <3>1. \A j \in run.success : j \in Rows /\ j < i + 1 /\ booked[f][j] > 0
      BY <1>1, <2>4, <3>0 DEF Inv, RowsBehind
    <3>2. booked'[f][i] > 0
      BY <2>5
    <3>3. ASSUME NEW j \in run.success
          PROVE  booked'[f][j] > 0
      <4>1. j \in Rows /\ booked[f][j] > 0
        BY <3>1
      <4>2. booked[f][j] \in Nat /\ booked'[f][j] \in Nat /\ booked'[f][j] >= booked[f][j]
        BY <2>4, <2>6, <4>1
      <4> QED
        BY <4>1, <4>2
    <3> QED
      BY <2>2, <2>4, <3>1, <3>2, <3>3 DEF RowsBehind
  <2>12. Fresh'
    <3>1. \A g \in Forms \ {f} : Untouched(g) => Untouched(g)'
      BY <2>3, <2>5 DEF Untouched
    <3>2. ~(formJob[f].state \in {"None", "Wait"} /\ formJob[f].stalls = 0)
      BY <2>3, StaysFacts
    <3> QED
      BY <2>3, <3>1, <3>2 DEF Inv, Fresh
  <2>13. FirstRun'
    <3>1. i \notin run.success
      BY <1>1, <2>4 DEF Inv, RowsBehind
    <3> QED
      BY <1>1, <1>2, <2>2, <2>3, <2>5, <3>1 DEF Inv, FirstRun, Booked
  <2>14. FirstRunTold'
    <3>1. ASSUME NEW g \in Forms \ {f}
          PROVE  ToldOnce(g)' = ToldOnce(g)
      <4>1. booked'[g] = booked[g] /\ reports'[g] = reports[g] /\ form'[g] = form[g]
        BY <2>3, <2>5
      <4> QED
        BY <4>1 DEF ToldOnce, Booked
    <3> QED
      BY <2>3, <3>1, StaysFacts DEF Inv, FirstRunTold
  <2>15. ToldIsBooked'
    <3>1. \A g \in Forms : \A m \in reports[g] : m.success \subseteq Rows
      BY DEF Inv, ImportsTypeOK, Report
    <3>2. SUFFICES ASSUME NEW g \in Forms, NEW m \in reports[g], NEW j \in m.success
                   PROVE  booked'[g][j] > 0
      BY <2>3 DEF ToldIsBooked
    <3>3. j \in Rows /\ booked[g][j] > 0
      BY <3>1 DEF Inv, ToldIsBooked
    <3> QED
      BY <2>6, <3>3
  <2> QED
    BY <2>7, <2>8, <2>9, <2>10, <2>11, <2>12, <2>13, <2>14, <2>15 DEF Inv
<1> QED
  BY <1>3, <1>4 DEF BookRow

\* A mail is sent, and the run is over.
LEMMA MailKeeps ==
    ASSUME Inv, run.at \in {"Admin", "Row"},
           run' = [run EXCEPT !.at = "Return"],
           NEW m \in Report,
           reports' = [reports EXCEPT ![run.form] = @ \cup {m}],
           m = [header |-> Sheet.header, success |-> run.success],
           UNCHANGED <<formJob, form, catalogue, booked, erred>>
    PROVE  Inv'
<1> DEFINE f == run.form
<1>1. run # NoRun /\ run \in Run
  BY Running DEF Inv, ImportsTypeOK
<1>2. /\ run' \in Run /\ run' # NoRun /\ run'.at = "Return" /\ run'.form = f
      /\ run'.success = run.success
  BY <1>1, RunFields
<1>3. Stays
  BY <1>1, <1>2 DEF Stays
<1>4. f \in Forms /\ run.success \in SUBSET Rows
  BY <1>3, StaysFacts
<1>5. /\ reports' \in [Forms -> SUBSET Report]
      /\ reports'[f] = reports[f] \cup {m}
      /\ \A g \in Forms \ {f} : reports'[g] = reports[g]
  BY <1>4 DEF Inv, ImportsTypeOK
<1>6. ImportsTypeOK'
  BY <1>2, <1>5 DEF Inv, ImportsTypeOK
<1>7. RunOfItsJob'
  BY <1>1, <1>2 DEF Inv, RunOfItsJob
<1>8. RowsBookedOncePerRun' /\ RowsAhead'
  BY <1>2 DEF Inv, RowsBookedOncePerRun, RowsAhead
<1>9. RowsBehind'
  BY <1>1, <1>2 DEF Inv, RowsBehind
<1>10. Fresh'
  <2>1. \A g \in Forms \ {f} : Untouched(g) => Untouched(g)'
    BY <1>5 DEF Untouched
  <2>2. ~(formJob[f].state \in {"None", "Wait"} /\ formJob[f].stalls = 0)
    BY <1>3, StaysFacts
  <2> QED
    BY <2>1, <2>2 DEF Inv, Fresh
<1>11. FirstRun'
  <2>1. SUFFICES ASSUME formJob[f].lock, formJob[f].stalls = 0
                 PROVE  Booked(f, run.success)' /\ reports'[f] = {m}
    BY <1>2 DEF FirstRun, Booked, Sheet
  <2>2. Booked(f, run.success) /\ reports[f] = {}
    BY <1>1, <2>1 DEF Inv, FirstRun
  <2> QED
    BY <1>2, <1>5, <2>2 DEF Booked
<1>12. FirstRunTold'
  <2>1. ASSUME NEW g \in Forms \ {f}
        PROVE  ToldOnce(g)' = ToldOnce(g)
    <3>1. reports'[g] = reports[g]
      BY <1>5
    <3> QED
      BY <3>1 DEF ToldOnce, Booked
  <2> QED
    BY <1>3, <2>1, StaysFacts DEF Inv, FirstRunTold
<1>13. ToldIsBooked'
  <2>1. \A i \in m.success : booked[f][i] > 0
    BY <1>1 DEF Inv, RowsBehind
  <2> QED
    BY <1>5, <2>1 DEF Inv, ToldIsBooked
<1> QED
  BY <1>6, <1>7, <1>8, <1>9, <1>10, <1>11, <1>12, <1>13 DEF Inv

LEMMA SendResultKeeps ==
    ASSUME Inv, SendResult
    PROVE  Inv'
<1>0. run # NoRun /\ run \in Run /\ run.at = "Row"
  BY Running DEF Inv, ImportsTypeOK, SendResult
<1>1. run.success \in SUBSET Rows /\ Sheet.header = TRUE
  BY <1>0, RunFields DEF Inv, RunOfItsJob, Sheet
<1> DEFINE m == [header |-> TRUE, success |-> run.success]
<1>2. m \in Report /\ m = [header |-> Sheet.header, success |-> run.success]
  BY <1>1 DEF Report
<1> HIDE DEF m
<1>3. reports' = [reports EXCEPT ![run.form] = @ \cup {m}]
  BY DEF SendResult, m
<1> QED
  BY <1>2, <1>3, MailKeeps DEF SendResult

LEMMA FindAdminKeeps ==
    ASSUME Inv, FindAdmin
    PROVE  Inv'
<1>1. run # NoRun /\ run \in Run
  BY Running DEF Inv, ImportsTypeOK, FindAdmin
<1>2. CASE Sheet.header
  <2>0. run' = [run EXCEPT !.at = "Row"]
    BY <1>2 DEF FindAdmin
  <2>1. UNCHANGED <<formJob, form, catalogue, booked, reports, erred>>
    BY <1>2 DEF FindAdmin
  <2>2. Sheet.header = TRUE
    BY <1>1, <1>2, SheetLength DEF Inv
  <2>3. /\ run' \in Run /\ run' # NoRun /\ run'.at = "Row" /\ run'.form = run.form
        /\ run'.row = run.row /\ run'.success = run.success
    <3> DEFINE q == [run EXCEPT !.at = "Row"]
    <3>1. /\ q \in Run /\ q # NoRun /\ q.at = "Row" /\ q.form = run.form
          /\ q.row = run.row /\ q.success = run.success
      BY <1>1 DEF Run, NoRun
    <3> QED
      BY <2>0, <3>1
  <2>4. Stays
    BY <1>1, <2>1, <2>3 DEF Stays
  <2>5. run.row >= run.row
    BY <2>4, StaysFacts
  <2> QED
    BY <2>1, <2>2, <2>3, <2>4, <2>5, MovingKeeps DEF FindAdmin
<1>3. CASE ~Sheet.header
  <2>1. run.success = {}
    BY <1>1 DEF Inv, RowsBehind, FindAdmin
  <2> DEFINE m == [header |-> FALSE, success |-> {}]
  <2>2. Sheet.header = FALSE
    BY <1>1, <1>3, SheetLength DEF Inv
  <2>3. m \in Report /\ m = [header |-> Sheet.header, success |-> run.success]
    BY <2>1, <2>2 DEF Report
  <2> HIDE DEF m
  <2>4. /\ reports' = [reports EXCEPT ![run.form] = @ \cup {m}]
        /\ run' = [run EXCEPT !.at = "Return"] /\ UNCHANGED <<formJob, form, catalogue, booked, erred>>
    BY <1>3 DEF FindAdmin, m
  <2> QED
    BY <2>3, <2>4, MailKeeps DEF FindAdmin
<1> QED
  BY <1>2, <1>3

LEMMA InvNext == Inv /\ [ImportsNext]_importVars => Inv'
<1> SUFFICES ASSUME Inv, [ImportsNext]_importVars
             PROVE  Inv'
  OBVIOUS
<1>1. CASE \E f \in Forms, w \in Worksheets : ImportProductsFromExcel(f, w)
  BY <1>1, ImportKeeps
<1>2. CASE \E f \in Forms : TakeForm(f)
  BY <1>2, TakeKeeps
<1>3. CASE \E f \in Forms : FormLockExpires(f) \/ RecoverForm(f)
  BY <1>3, LockStepsKeep
<1>4. CASE FindAdmin \/ GiveUp \/ FindRow
  BY <1>4, FindAdminKeeps, GiveUpKeeps, FindRowKeeps
<1>5. CASE BookRow \/ SendResult
  BY <1>5, BookRowKeeps, SendResultKeeps
<1>6. CASE FormReturns \/ ImportsServerDies
  BY <1>6, LettingGoKeeps
<1>7. CASE \E p \in Products : DeleteProductRow(p)
  <2>1. catalogue' \subseteq Products /\ UNCHANGED <<formJob, form, run, booked, reports, erred>>
    BY <1>7 DEF DeleteProductRow, Inv, ImportsTypeOK
  <2>2. \A g \in Forms : ToldOnce(g)' = ToldOnce(g)
    BY <2>1 DEF ToldOnce, Booked
  <2> QED
    BY <2>1, <2>2
       DEF Inv, ImportsTypeOK, RunOfItsJob, RowsBookedOncePerRun, RowsAhead, RowsBehind, Fresh,
           Untouched, FirstRun, Booked, FirstRunTold, ToldIsBooked
<1>8. CASE UNCHANGED importVars
  <2>1. \A g \in Forms : ToldOnce(g)' = ToldOnce(g)
    BY <1>8 DEF importVars, ToldOnce, Booked
  <2> QED
    BY <1>8, <2>1
       DEF importVars, Inv, ImportsTypeOK, RunOfItsJob, RowsBookedOncePerRun, RowsAhead, RowsBehind,
           Fresh, Untouched, FirstRun, Booked, FirstRunTold, ToldIsBooked
<1> QED
  BY <1>1, <1>2, <1>3, <1>4, <1>5, <1>6, <1>7, <1>8 DEF ImportsNext, RunStep

LEMMA InvAlways == ImportsSpec => []Inv
  BY InvInit, InvNext, PTL DEF ImportsSpec

(***************************************************************************)
(* The variables of the import queue keep their types: the worker is never *)
(* past the last row it may read, and a job stalls once more than Bull     *)
(* allows at most.                                                         *)
(***************************************************************************)
THEOREM ImportsTypeCorrect == ImportsSpec => []ImportsTypeOK
<1>1. Inv => ImportsTypeOK
  BY DEF Inv
<1> QED
  BY <1>1, InvAlways, PTL

(***************************************************************************)
(* However locks expire and the server dies, a row is booked no more often *)
(* than its job has begun.                                                 *)
(***************************************************************************)
THEOREM RowsBookedCorrect == ImportsSpec => []RowsBookedOncePerRun
<1>1. Inv => RowsBookedOncePerRun
  BY DEF Inv
<1> QED
  BY <1>1, InvAlways, PTL

(***************************************************************************)
(* The mails about an upload name only booked rows, and a job that ran     *)
(* once to its end without an error sent one mail that names all of them.  *)
(***************************************************************************)
THEOREM ReportsCorrect == ImportsSpec => []ReportsTellTheBooks
<1>1. Inv => ReportsTellTheBooks
  BY DEF Inv, ToldIsBooked, FirstRunTold, ToldOnce, Booked, ReportsTellTheBooks
<1> QED
  BY <1>1, InvAlways, PTL

-----------------------------------------------------------------------------
(* Notices *)

\* A run keeps its job from being made or taken anew.
SendingItsJob ==
    /\ \A j \in MailJobs : JobOK(mailJob[j])
    /\ \A j \in MailJobs : mailJob[j].lock => sending # NotSending /\ sending.job = j
    /\ sending # NotSending => mailJob[sending.job].state # "None"

\* A sale is announced once, and jobs are made once and only after that.
JobsOfNotice ==
    /\ \A s \in Sales : sale[s] = "None" => s \notin scheduled /\ s \notin announced
    /\ \A s \in Sales : s \in scheduled => s \notin announced
    /\ \A s \in Sales : \A c \in toEnqueue[s] : s \in announced /\ mailJob[<<s, c>>] = NoJob
    /\ \A j \in MailJobs : j[1] \notin announced => mailJob[j] = NoJob

\* A run that has yet to mail its customer has not done so.
MailAhead == sending.at = "Send" => mailed[sending.job] + 1 <= Runs(mailJob[sending.job])

NoticesInv == NoticesTypeOK /\ SendingItsJob /\ JobsOfNotice /\ MailAhead /\ MailedOncePerRun

LEMMA NoticesInvInit == NoticesInit => NoticesInv
<1> SUFFICES ASSUME NoticesInit PROVE NoticesInv
  OBVIOUS
<1>1. /\ \A j \in MailJobs : mailJob[j] = NoJob /\ mailed[j] = 0
      /\ sending = NotSending /\ NotSending.at = "NotSending"
  BY DEF NoticesInit, NotSending
<1>2. NoJob \in Job
  BY NewJobs DEF JobOK
<1>3. NoticesTypeOK
  BY <1>2 DEF NoticesInit, NoticesTypeOK, Sending
<1>4. JobsOfNotice
  BY <1>1 DEF NoticesInit, JobsOfNotice
<1> QED
  BY <1>1, <1>3, <1>4, NewJobs DEF NoticesInv, SendingItsJob, MailAhead, MailedOncePerRun

LEMMA SendingFields ==
    ASSUME NEW q \in Sending
    PROVE  /\ q # NotSending => /\ q.at \in {"Send", "Return"} /\ q.job \in MailJobs
                                /\ [q EXCEPT !.at = "Return"] \in Sending
                                /\ [q EXCEPT !.at = "Return"] # NotSending
                                /\ [q EXCEPT !.at = "Return"].at = "Return"
                                /\ [q EXCEPT !.at = "Return"].job = q.job
           /\ q.at \in {"Send", "Return"} => q # NotSending
  BY DEF Sending, NotSending

\* One mail job changes.
LEMMA MailJobChanges ==
    ASSUME NoticesInv, NEW j \in MailJobs, NEW job, JobOK(job), mailJob' = [mailJob EXCEPT ![j] = job]
    PROVE  /\ mailJob' \in [MailJobs -> Job] /\ mailJob'[j] = job
           /\ \A k \in MailJobs \ {j} : mailJob'[k] = mailJob[k]
           /\ \A k \in MailJobs : JobOK(mailJob'[k])
  BY DEF NoticesInv, NoticesTypeOK, SendingItsJob, JobOK

LEMMA MailCounts ==
    ASSUME NoticesInv, NEW j \in MailJobs
    PROVE  /\ mailed[j] \in Nat /\ Runs(mailJob[j]) \in Nat /\ JobOK(mailJob[j])
           /\ mailed[j] <= Runs(mailJob[j])
           /\ mailJob[j].state # "None" => j[1] \in announced
  BY RunsType, NewJobs DEF NoticesInv, NoticesTypeOK, SendingItsJob, MailedOncePerRun, JobsOfNotice

\* A sale is created, goes, or is announced.
LEMMA SaleStepKeeps ==
    ASSUME NoticesInv, NEW s \in Sales, NotiFlashSale(s) \/ FlashSaleGone(s) \/ NoticeFires(s)
    PROVE  NoticesInv'
<1>1. UNCHANGED <<mailJob, sending, mailed, forgotten, cut>>
  BY DEF NotiFlashSale, FlashSaleGone, NoticeFires
<1>2. NoticesTypeOK'
  BY DEF NotiFlashSale, FlashSaleGone, NoticeFires, NoticesInv, NoticesTypeOK
<1>3. SendingItsJob' /\ MailAhead'
  BY <1>1 DEF NoticesInv, SendingItsJob, MailAhead
<1>4. announced \subseteq announced'
  BY DEF NotiFlashSale, FlashSaleGone, NoticeFires
<1>5. MailedOncePerRun'
  BY <1>1, <1>4 DEF NoticesInv, MailedOncePerRun
<1>6. JobsOfNotice'
  <2>1. CASE NotiFlashSale(s)
    BY <1>1, <2>1 DEF NotiFlashSale, NoticesInv, NoticesTypeOK, JobsOfNotice
  <2>2. CASE FlashSaleGone(s)
    BY <1>1, <2>2 DEF FlashSaleGone, NoticesInv, NoticesTypeOK, JobsOfNotice
  <2>3. CASE NoticeFires(s)
    <3>1. /\ s \in scheduled /\ scheduled' = scheduled \ {s} /\ announced' = announced \cup {s}
          /\ toEnqueue' = [toEnqueue EXCEPT ![s] = Recipients] /\ UNCHANGED sale
      BY <2>3 DEF NoticeFires
    <3>2. s \notin announced /\ sale[s] # "None"
      BY <3>1 DEF NoticesInv, JobsOfNotice
    <3>3. \A c \in Recipients : mailJob[<<s, c>>] = NoJob
      BY <3>2 DEF NoticesInv, JobsOfNotice, MailJobs
    <3> QED
      BY <1>1, <3>1, <3>2, <3>3 DEF NoticesInv, NoticesTypeOK, JobsOfNotice
  <2> QED
    BY <2>1, <2>2, <2>3
<1> QED
  BY <1>2, <1>3, <1>5, <1>6 DEF NoticesInv

LEMMA EnqueueKeeps ==
    ASSUME NoticesInv, NEW s \in Sales, EnqueueNotice(s)
    PROVE  NoticesInv'
<1>1. PICK c \in toEnqueue[s] :
        /\ toEnqueue' = [toEnqueue EXCEPT ![s] = @ \ {c}]
        /\ mailJob' = [mailJob EXCEPT ![<<s, c>>] = AddedJob]
  BY DEF EnqueueNotice
<1>2. UNCHANGED <<sale, scheduled, announced, sending, mailed, forgotten, cut>>
  BY DEF EnqueueNotice
<1> DEFINE j == <<s, c>>
<1>3. j \in MailJobs /\ c \in Recipients
  BY DEF NoticesInv, NoticesTypeOK, MailJobs
<1>4. mailJob[j] = NoJob /\ s \in announced /\ j[1] = s
  BY DEF NoticesInv, JobsOfNotice
<1>5. mailJob' = [mailJob EXCEPT ![j] = AddedJob]
  BY <1>1
<1>6. /\ toEnqueue' \in [Sales -> SUBSET Recipients] /\ j \notin {<<s, d>> : d \in toEnqueue'[s]}
      /\ \A t \in Sales : toEnqueue'[t] \subseteq toEnqueue[t]
      /\ \A t \in Sales : \A d \in toEnqueue'[t] : <<t, d>> # j /\ <<t, d>> \in MailJobs
  BY <1>1 DEF NoticesInv, NoticesTypeOK, MailJobs
<1> HIDE DEF j
<1>7. /\ mailJob' \in [MailJobs -> Job] /\ mailJob'[j] = AddedJob
      /\ \A k \in MailJobs \ {j} : mailJob'[k] = mailJob[k]
      /\ \A k \in MailJobs : JobOK(mailJob'[k])
  BY <1>3, <1>5, MailJobChanges, NewJobs
<1>8. sending # NotSending => sending.job # j /\ sending.job \in MailJobs
  BY <1>4, NewJobs, SendingFields DEF NoticesInv, NoticesTypeOK, SendingItsJob
<1>9. mailed[j] = 0
  <2>1. mailed[j] \in Nat /\ mailed[j] <= Runs(mailJob[j])
    BY <1>3, MailCounts
  <2> QED
    BY <1>4, <2>1, NewJobs
<1>10. NoticesTypeOK'
  BY <1>2, <1>6, <1>7 DEF NoticesInv, NoticesTypeOK
<1>11. SendingItsJob'
  BY <1>2, <1>7, <1>8, NewJobs DEF NoticesInv, SendingItsJob
<1>12. JobsOfNotice'
  <2>1. ASSUME NEW t \in Sales, NEW d \in toEnqueue'[t]
        PROVE  t \in announced' /\ mailJob'[<<t, d>>] = NoJob
    <3>1. d \in toEnqueue[t] /\ <<t, d>> \in MailJobs \ {j}
      BY <1>6
    <3>2. t \in announced /\ mailJob[<<t, d>>] = NoJob
      BY <3>1 DEF NoticesInv, JobsOfNotice
    <3>3. mailJob'[<<t, d>>] = mailJob[<<t, d>>]
      BY <1>7, <3>1
    <3> QED
      BY <1>2, <3>2, <3>3
  <2>2. \A k \in MailJobs : k[1] \notin announced' => mailJob'[k] = NoJob
    BY <1>2, <1>4, <1>7 DEF NoticesInv, JobsOfNotice
  <2> QED
    BY <1>2, <2>1, <2>2 DEF NoticesInv, JobsOfNotice
<1>13. MailAhead'
  BY <1>2, <1>7, <1>8, SendingFields DEF NoticesInv, NoticesTypeOK, MailAhead
<1>14. MailedOncePerRun'
  BY <1>2, <1>7, <1>9, NewJobs DEF NoticesInv, MailedOncePerRun
<1> QED
  BY <1>10, <1>11, <1>12, <1>13, <1>14 DEF NoticesInv

LEMMA TakeMailKeeps ==
    ASSUME NoticesInv, NEW j \in MailJobs, TakeMail(j)
    PROVE  NoticesInv'
<1>1. /\ sending = NotSending /\ Takeable(mailJob[j])
      /\ mailJob' = [mailJob EXCEPT ![j] = Taken(mailJob[j])]
      /\ sending' = [at |-> "Send", job |-> j]
      /\ UNCHANGED <<sale, scheduled, announced, toEnqueue, mailed, forgotten, cut>>
  BY DEF TakeMail
<1>2. /\ JobOK(mailJob[j]) /\ mailed[j] \in Nat /\ Runs(mailJob[j]) \in Nat
      /\ mailed[j] <= Runs(mailJob[j]) /\ j[1] \in announced
  BY <1>1, MailCounts DEF Takeable
<1>3. /\ JobOK(Taken(mailJob[j])) /\ Taken(mailJob[j]).state = "Active"
      /\ Runs(Taken(mailJob[j])) = Runs(mailJob[j]) + 1
  BY <1>1, <1>2, TakenJob
<1>4. /\ mailJob' \in [MailJobs -> Job] /\ mailJob'[j] = Taken(mailJob[j])
      /\ \A k \in MailJobs \ {j} : mailJob'[k] = mailJob[k]
      /\ \A k \in MailJobs : JobOK(mailJob'[k])
  BY <1>1, <1>3, MailJobChanges
<1>5. sending' \in Sending /\ sending' # NotSending /\ sending'.job = j
  BY <1>1 DEF Sending, NotSending
<1>6. NoticesTypeOK'
  BY <1>1, <1>4, <1>5 DEF NoticesInv, NoticesTypeOK
<1>7. SendingItsJob'
  BY <1>1, <1>3, <1>4, <1>5 DEF NoticesInv, SendingItsJob
<1>8. JobsOfNotice'
  <2>1. mailJob[j] # NoJob
    BY <1>1, NewJobs DEF Takeable
  <2>2. \A s \in Sales : \A c \in toEnqueue[s] : <<s, c>> \in MailJobs \ {j}
    BY <2>1 DEF NoticesInv, NoticesTypeOK, JobsOfNotice, MailJobs
  <2> QED
    BY <1>1, <1>2, <1>4, <2>2 DEF NoticesInv, JobsOfNotice
<1>9. MailAhead'
  BY <1>1, <1>2, <1>3, <1>4, <1>5 DEF MailAhead
<1>10. MailedOncePerRun'
  BY <1>1, <1>2, <1>3, <1>4 DEF NoticesInv, MailedOncePerRun
<1> QED
  BY <1>6, <1>7, <1>8, <1>9, <1>10 DEF NoticesInv

LEMMA SendKeeps ==
    ASSUME NoticesInv, SendNotice
    PROVE  NoticesInv'
<1>0. PICK j : j = sending.job
  OBVIOUS
<1>1. /\ sending.at = "Send" /\ sending' = [sending EXCEPT !.at = "Return"]
      /\ mailed' \in {mailed, [mailed EXCEPT ![j] = mailed[j] + 1]}
      /\ forgotten' \in {forgotten, forgotten \cup {j}}
      /\ UNCHANGED <<sale, scheduled, announced, toEnqueue, mailJob, cut>>
  BY <1>0 DEF SendNotice
<1>2. /\ sending # NotSending /\ j \in MailJobs /\ sending' \in Sending /\ sending' # NotSending
      /\ sending'.at = "Return" /\ sending'.job = j
  BY <1>0, <1>1, SendingFields DEF NoticesInv, NoticesTypeOK
<1>3. /\ mailed[j] \in Nat /\ mailed[j] + 1 <= Runs(mailJob[j]) /\ Runs(mailJob[j]) \in Nat
      /\ j[1] \in announced
  BY <1>0, <1>1, <1>2, MailCounts DEF NoticesInv, MailAhead, SendingItsJob
<1>4. NoticesTypeOK'
  BY <1>1, <1>2, <1>3 DEF NoticesInv, NoticesTypeOK
<1>5. SendingItsJob' /\ JobsOfNotice' /\ MailAhead'
  BY <1>0, <1>1, <1>2 DEF NoticesInv, SendingItsJob, JobsOfNotice, MailAhead
<1>6. MailedOncePerRun'
  <2>1. /\ mailed'[j] <= Runs(mailJob[j])
        /\ \A k \in MailJobs \ {j} : mailed'[k] = mailed[k]
    BY <1>1, <1>2, <1>3 DEF NoticesInv, NoticesTypeOK
  <2> QED
    BY <1>1, <1>3, <2>1 DEF NoticesInv, MailedOncePerRun
<1> QED
  BY <1>4, <1>5, <1>6 DEF NoticesInv

\* A job changes, or its run ends, and its runs stay as many.
LEMMA MailJobStepKeeps ==
    ASSUME NoticesInv, NEW j \in MailJobs, NEW job, JobOK(job),
           mailJob' = [mailJob EXCEPT ![j] = job], Runs(job) = Runs(mailJob[j]),
           ~job.lock, job.state # "None", mailJob[j].state # "None",
           \/ sending' = sending
           \/ sending' = NotSending /\ \A k \in MailJobs : mailJob[k].lock => k = j,
           scheduled' \subseteq scheduled, cut' \subseteq Sales,
           toEnqueue' \in {toEnqueue, [s \in Sales |-> {}]},
           UNCHANGED <<sale, announced, mailed, forgotten>>
    PROVE  NoticesInv'
<1>1. /\ mailJob' \in [MailJobs -> Job] /\ mailJob'[j] = job
      /\ \A k \in MailJobs \ {j} : mailJob'[k] = mailJob[k]
      /\ \A k \in MailJobs : JobOK(mailJob'[k])
  BY MailJobChanges
<1>2. \A k \in MailJobs : Runs(mailJob'[k]) = Runs(mailJob[k])
  BY <1>1
<1>3. sending # NotSending => sending.job \in MailJobs
  BY SendingFields DEF NoticesInv, NoticesTypeOK
<1>4. toEnqueue' \in [Sales -> SUBSET Recipients] /\ \A s \in Sales : toEnqueue'[s] \subseteq toEnqueue[s]
  BY DEF NoticesInv, NoticesTypeOK
<1>5. NoticesTypeOK'
  BY <1>1, <1>4 DEF NoticesInv, NoticesTypeOK, Sending
<1>6. SendingItsJob'
  BY <1>1, <1>3 DEF NoticesInv, SendingItsJob
<1>7. JobsOfNotice'
  <2>1. mailJob[j] # NoJob /\ j[1] \in announced
    BY NewJobs, MailCounts
  <2>2. ASSUME NEW s \in Sales, NEW c \in toEnqueue'[s]
        PROVE  <<s, c>> \in MailJobs \ {j}
    <3>1. c \in toEnqueue[s] /\ c \in Recipients
      BY <1>4
    <3>2. <<s, c>> \in MailJobs
      BY <3>1 DEF MailJobs
    <3>3. mailJob[<<s, c>>] = NoJob
      BY <3>1 DEF NoticesInv, JobsOfNotice
    <3> QED
      BY <2>1, <3>2, <3>3
  <2> QED
    BY <1>1, <1>4, <2>1, <2>2 DEF NoticesInv, JobsOfNotice
<1>8. MailAhead'
  BY <1>2, <1>3, SendingFields DEF NoticesInv, NoticesTypeOK, MailAhead, NotSending
<1>9. MailedOncePerRun'
  BY <1>2 DEF NoticesInv, MailedOncePerRun
<1> QED
  BY <1>5, <1>6, <1>7, <1>8, <1>9 DEF NoticesInv

LEMMA ServerDiesKeeps ==
    ASSUME NoticesInv, NoticesServerDies
    PROVE  NoticesInv'
<1>1. /\ scheduled' = {} /\ toEnqueue' = [s \in Sales |-> {}] /\ cut' \subseteq Sales
      /\ sending' = NotSending /\ UNCHANGED <<sale, announced, mailed, forgotten>>
      /\ mailJob' = IF sending = NotSending THEN mailJob
                    ELSE [mailJob EXCEPT ![sending.job] = Unlocked(mailJob[sending.job])]
  BY DEF NoticesServerDies, NoticesInv, NoticesTypeOK
<1>2. CASE sending = NotSending
  <2>1. mailJob' = mailJob /\ NotSending.at = "NotSending"
    BY <1>1, <1>2 DEF NotSending
  <2>2. NoticesTypeOK'
    BY <1>1, <2>1 DEF NoticesInv, NoticesTypeOK, Sending
  <2> QED
    BY <1>1, <1>2, <2>1, <2>2
       DEF NoticesInv, SendingItsJob, JobsOfNotice, MailAhead, MailedOncePerRun
<1>3. CASE sending # NotSending
  <2>0. PICK j \in MailJobs : j = sending.job
    BY <1>3, SendingFields DEF NoticesInv, NoticesTypeOK
  <2>1. JobOK(mailJob[j]) /\ mailJob[j].state # "None" /\ \A k \in MailJobs : mailJob[k].lock => k = j
    BY <1>3, <2>0 DEF NoticesInv, SendingItsJob
  <2>2. mailJob' = [mailJob EXCEPT ![j] = Unlocked(mailJob[j])]
    BY <1>1, <1>3, <2>0
  <2>3. toEnqueue' \in {toEnqueue, [s \in Sales |-> {}]} /\ scheduled' \subseteq scheduled
    BY <1>1
  <2> QED
    BY <1>1, <2>0, <2>1, <2>2, <2>3, UnlockedJob, MailJobStepKeeps
<1> QED
  BY <1>2, <1>3

LEMMA NoticesInvNext == NoticesInv /\ [NoticesNext]_noticeVars => NoticesInv'
<1> SUFFICES ASSUME NoticesInv, [NoticesNext]_noticeVars
             PROVE  NoticesInv'
  OBVIOUS
<1>1. CASE UNCHANGED noticeVars
  BY <1>1 DEF noticeVars, NoticesInv, NoticesTypeOK, SendingItsJob, JobsOfNotice, MailAhead, MailedOncePerRun
<1>2. cut \subseteq Sales
  BY DEF NoticesInv, NoticesTypeOK
<1>3. ASSUME NEW j \in MailJobs, MailLockExpires(j)
      PROVE  NoticesInv'
  <2>1. /\ mailJob[j].lock /\ mailJob' = [mailJob EXCEPT ![j] = Unlocked(mailJob[j])]
        /\ UNCHANGED <<sale, scheduled, announced, toEnqueue, sending, mailed, forgotten, cut>>
    BY <1>3 DEF MailLockExpires
  <2>2. JobOK(mailJob[j]) /\ mailJob[j].state = "Active"
    BY <2>1, MailCounts DEF JobOK
  <2> QED
    BY <1>2, <2>1, <2>2, UnlockedJob, MailJobStepKeeps
<1>4. ASSUME NEW j \in MailJobs, RecoverMail(j)
      PROVE  NoticesInv'
  <2>1. /\ Stalled(mailJob[j]) /\ mailJob' = [mailJob EXCEPT ![j] = Recovered(mailJob[j])]
        /\ UNCHANGED <<sale, scheduled, announced, toEnqueue, sending, mailed, forgotten, cut>>
    BY <1>4 DEF RecoverMail
  <2>2. JobOK(mailJob[j]) /\ mailJob[j].state # "None"
    BY <2>1, MailCounts DEF Stalled
  <2>3. Recovered(mailJob[j]).state # "None"
    BY <2>1, <2>2, RecoveredJob
  <2> QED
    BY <1>2, <2>1, <2>2, <2>3, RecoveredJob, MailJobStepKeeps
<1>5. ASSUME MailReturns
      PROVE  NoticesInv'
  <2>1. /\ sending.at = "Return" /\ sending' = NotSending
        /\ mailJob' = [mailJob EXCEPT ![sending.job] = Returned(mailJob[sending.job])]
        /\ UNCHANGED <<sale, scheduled, announced, toEnqueue, mailed, forgotten, cut>>
    BY <1>5 DEF MailReturns
  <2>2. PICK j \in MailJobs : j = sending.job
    BY <2>1, SendingFields DEF NoticesInv, NoticesTypeOK
  <2>3. /\ JobOK(mailJob[j]) /\ mailJob[j].state # "None"
        /\ \A k \in MailJobs : mailJob[k].lock => k = j
    BY <2>1, <2>2, SendingFields DEF NoticesInv, NoticesTypeOK, SendingItsJob
  <2>4. Returned(mailJob[j]).state # "None"
    BY <2>3, ReturnedJob
  <2>5. mailJob' = [mailJob EXCEPT ![j] = Returned(mailJob[j])]
    BY <2>1, <2>2
  <2> QED
    BY <1>2, <2>1, <2>3, <2>4, <2>5, ReturnedJob, MailJobStepKeeps
<1> QED
  BY <1>1, <1>3, <1>4, <1>5, SaleStepKeeps, EnqueueKeeps, TakeMailKeeps, SendKeeps, ServerDiesKeeps
     DEF NoticesNext, MailStep

(***************************************************************************)
(* However locks expire and the server dies, a customer is mailed no more  *)
(* often than his job has begun, and only for a sale that was announced.   *)
(***************************************************************************)
THEOREM NoticesCorrect == NoticesSpec => []MailedOncePerRun
<1>1. NoticesInv => MailedOncePerRun
  BY DEF NoticesInv
<1> QED
  BY <1>1, NoticesInvInit, NoticesInvNext, PTL DEF NoticesSpec

-----------------------------------------------------------------------------
(* Both queues *)

(***************************************************************************)
(* The variables of both queues keep their types, whichever of them moves. *)
(***************************************************************************)
THEOREM QueuesTypeCorrect == Spec => []TypeOK
<1> DEFINE Both == part \in {"Imports", "Notices"} /\ Inv /\ NoticesInv
<1>1. Init => Both
  BY InvInit, NoticesInvInit DEF Init
<1>2. [Next]_vars => /\ [ImportsNext]_importVars /\ [NoticesNext]_noticeVars
                     /\ UNCHANGED part
  BY DEF Next, vars
<1>3. Both /\ [Next]_vars => Both'
  BY <1>2, InvNext, NoticesInvNext
<1>4. Both => TypeOK
  BY DEF Inv, NoticesInv, TypeOK
<1> QED
  BY <1>1, <1>3, <1>4, PTL DEF Spec

(***************************************************************************)
(* What the two queues promise, the server with both of them keeps.        *)
(***************************************************************************)
THEOREM QueuesCorrect ==
    Spec => []RowsBookedOncePerRun /\ []ReportsTellTheBooks /\ []MailedOncePerRun
<1>1. Init => ImportsInit /\ NoticesInit
  BY DEF Init
<1>2. [Next]_vars => [ImportsNext]_importVars /\ [NoticesNext]_noticeVars
  BY DEF Next, vars
<1> QED
  BY <1>1, <1>2, RowsBookedCorrect, ReportsCorrect, NoticesCorrect, PTL DEF Spec, ImportsSpec, NoticesSpec
=============================================================================
