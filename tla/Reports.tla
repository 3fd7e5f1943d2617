------------------------------ MODULE Reports ------------------------------
(***************************************************************************)
(* Administrators deciding reports of the system and of users:             *)
(* reports.service.ts, with the mail and the notification that answer the  *)
(* reporter.  Neither of them is awaited: they go on after the answer to   *)
(* the administrator, and a notification that fails ends the process.      *)
(***************************************************************************)
EXTENDS Serving

CONSTANTS
    Filed,           \* reports that may be filed
    Judges,          \* handlers of the administrators' requests
    MaxDecisions,    \* decisions of administrators
    MaxJudgeDeaths   \* requests and processes that die

ASSUME ReportsAssumption == IsFiniteSet(Judges) /\ {MaxDecisions, MaxJudgeDeaths} \subseteq Nat

VARIABLES
    status,        \* resolveStatus of each report
    judging,       \* where each handler stands
    mails,         \* the decisions mailed about each report
    lastMail,      \* the one mailed last
    ringing, rung, \* reports whose notification is being written, is written
    unanswered,    \* reports decided by a request that died before its mail
    contested,     \* reports that two requests have had in hand at a time
    decisions, judgeDeaths

reportVars == <<width, status, judging, mails, lastMail, ringing, rung, unanswered, contested,
                decisions, judgeDeaths>>

Decision == {"Resolved", "Refused"}
Judging  == {Idle} \cup [at : {"Decide", "Answer"}, report : Filed, decision : Decision]

ReportsTypeOK ==
    /\ width \in 1..MaxWidth
    /\ status \in [Filed -> {"None", "Waiting"} \cup Decision]
    /\ judging \in [Judges -> Judging]
    /\ mails \in [Filed -> SUBSET Decision]
    /\ lastMail \in [Filed -> {"None"} \cup Decision]
    /\ ringing \subseteq Filed /\ rung \subseteq Filed
    /\ unanswered \subseteq Filed /\ contested \subseteq Filed
    /\ decisions \in 0..MaxDecisions /\ judgeDeaths \in 0..MaxJudgeDeaths

ReportsInit ==
    /\ ServingInit
    /\ status = [i \in Filed |-> "None"]
    /\ judging = [r \in Judges |-> Idle]
    /\ mails = [i \in Filed |-> {}]
    /\ lastMail = [i \in Filed |-> "None"]
    /\ ringing = {} /\ rung = {} /\ unanswered = {} /\ contested = {}
    /\ decisions = 0 /\ judgeDeaths = 0

JudgeGoto(r, point) == judging' = [judging EXCEPT ![r] = point]

\* createSystemReport, createUserReport; createCommentReport as in Comments.
CreateReport(i) ==
    /\ status[i] = "None"
    /\ status' = [status EXCEPT ![i] = "Waiting"]
    /\ UNCHANGED <<judging, mails, lastMail, ringing, rung, unanswered, contested, decisions, judgeDeaths>>

InHand(i) == \E r \in Judges : judging[r] # Idle /\ judging[r].report = i

\* resolveSystemReport, resolveUserReport read the report; what was decided
\* may be decided again.
BeginResolve(r, i, decision) ==
    /\ judging[r] = Idle /\ MayServe(judging)
    /\ status[i] # "None"
    /\ decisions < MaxDecisions            \* bound: decisions
    /\ decisions' = decisions + 1
    /\ JudgeGoto(r, [at |-> "Decide", report |-> i, decision |-> decision])
    /\ contested' = IF InHand(i) THEN contested \cup {i} ELSE contested
    /\ UNCHANGED <<status, mails, lastMail, ringing, rung, unanswered, judgeDeaths>>

ResolveReport(r) ==
    LET i == judging[r].report IN
    /\ judging[r].at = "Decide"
    /\ status' = [status EXCEPT ![i] = judging[r].decision]
    /\ JudgeGoto(r, [judging[r] EXCEPT !.at = "Answer"])
    /\ UNCHANGED <<mails, lastMail, ringing, rung, unanswered, contested, decisions, judgeDeaths>>

\* What the mail says: the row as the update returned it.
MailedAsRead(r) == IF mails[judging[r].report] = {} THEN judging[r].decision ELSE lastMail[judging[r].report]
MailedDecision(r) == judging[r].decision

\* The reporter's row is read; then the notification is begun and the mail
\* handed to the mailer.
AnswerReporter(r) ==
    LET i == judging[r].report IN
    /\ judging[r].at = "Answer"
    /\ mails' = [mails EXCEPT ![i] = @ \cup {MailedDecision(r)}]
    /\ lastMail' = [lastMail EXCEPT ![i] = MailedDecision(r)]
    /\ ringing' = ringing \cup {i}
    /\ JudgeGoto(r, Idle)
    /\ UNCHANGED <<status, rung, unanswered, contested, decisions, judgeDeaths>>

\* createSpecificNotification: seen once the notification is linked to its user.
Ring(i) ==
    /\ i \in ringing
    /\ ringing' = ringing \ {i}
    /\ rung' = rung \cup {i}
    /\ UNCHANGED <<status, judging, mails, lastMail, unanswered, contested, decisions, judgeDeaths>>

-----------------------------------------------------------------------------
\* The reports whose decision is stored by one of these and not yet mailed.
Owed(requests) == {judging[r].report : r \in {q \in requests : judging[q].at = "Answer"}}

JudgeDies(r) ==
    /\ judging[r] # Idle
    /\ judgeDeaths < MaxJudgeDeaths        \* bound: deaths
    /\ judgeDeaths' = judgeDeaths + 1
    /\ unanswered' = unanswered \cup Owed({r})
    /\ JudgeGoto(r, Idle)
    /\ UNCHANGED <<status, mails, lastMail, ringing, rung, contested, decisions>>

\* An unhandled rejection ends the process, and every request with it.
RingFails ==
    /\ ringing # {}
    /\ judgeDeaths < MaxJudgeDeaths        \* bound: deaths
    /\ judgeDeaths' = judgeDeaths + 1
    /\ unanswered' = unanswered \cup Owed(Judges)
    /\ ringing' = {}
    /\ judging' = [r \in Judges |-> Idle]
    /\ UNCHANGED <<status, mails, lastMail, rung, contested, decisions>>

ReportsNext ==
    /\ \/ \E r \in Judges :
             \/ \E i \in Filed, decision \in Decision : BeginResolve(r, i, decision)
             \/ ResolveReport(r) \/ AnswerReporter(r) \/ JudgeDies(r)
       \/ \E i \in Filed : CreateReport(i) \/ Ring(i)
       \/ RingFails
    /\ UNCHANGED width

ReportsSpec == ReportsInit /\ [][ReportsNext]_reportVars

-----------------------------------------------------------------------------
(* What must hold *)

\* When no decision about a report is under way and none died before its mail,
\* the reporter was mailed the decision that stands; it is also the last he was
\* mailed, unless two requests had the report in hand at a time.  And who is
\* notified that his report was answered by mail has been mailed.
DecisionMailed ==
    /\ \A i \in Filed \ (unanswered \cup Owed(Judges)) :
          status[i] \in Decision =>
              /\ status[i] \in mails[i]
              /\ i \notin contested => lastMail[i] = status[i]
    /\ \A i \in ringing \cup rung : mails[i] # {}
=============================================================================
