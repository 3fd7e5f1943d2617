------------------------------ MODULE Notices ------------------------------
(***************************************************************************)
(* Telling the customers of a flash sale: flash-sales.service.ts schedules *)
(* a notice when the sale is created; when its time comes the notice       *)
(* writes the general notification and puts one job per customer on the    *)
(* mail queue, which mail.processor.ts works off.  The scheduled notice    *)
(* and the enqueueing loop are memory of the server, the jobs are not.     *)
(***************************************************************************)
EXTENDS Bull, FiniteSets

CONSTANTS
    Sales,
    Recipients,
    Mute           \* customers without an e-mail address

ASSUME NoticesAssumption == Mute \subseteq Recipients

VARIABLES
    sale,          \* "None" before it is created, "Alive", "Gone"
    scheduled,     \* sales whose notice is a cron job of the server
    announced,     \* sales in the general notifications
    toEnqueue,     \* customers of whom the loop of each sale has yet to make a job
    mailJob,       \* the job of each sale and customer
    sending,       \* the job the worker is running, and where
    mailed,        \* mails handed to the mailer
    forgotten,     \* jobs of which a run was given up with a logged error
    cut            \* sales whose notice or loop died with the server

noticeVars == <<sale, scheduled, announced, toEnqueue, mailJob, sending, mailed, forgotten, cut>>

MailJobs == Sales \X Recipients
NotSending == [at |-> "NotSending"]
Sending == {NotSending} \cup [at : {"Send", "Return"}, job : MailJobs]

NoticesTypeOK ==
    /\ sale \in [Sales -> {"None", "Alive", "Gone"}]
    /\ scheduled \subseteq Sales /\ announced \subseteq Sales /\ cut \subseteq Sales
    /\ toEnqueue \in [Sales -> SUBSET Recipients]
    /\ mailJob \in [MailJobs -> Job]
    /\ sending \in Sending
    /\ mailed \in [MailJobs -> Nat]
    /\ forgotten \subseteq MailJobs

NoticesInit ==
    /\ sale = [s \in Sales |-> "None"]
    /\ scheduled = {} /\ announced = {} /\ cut = {}
    /\ toEnqueue = [s \in Sales |-> {}]
    /\ mailJob = [j \in MailJobs |-> NoJob]
    /\ sending = NotSending
    /\ mailed = [j \in MailJobs |-> 0]
    /\ forgotten = {}

NotiFlashSaleAtOnce(s) ==
    /\ sale[s] = "None"
    /\ sale' = [sale EXCEPT ![s] = "Alive"]
    /\ toEnqueue' = [toEnqueue EXCEPT ![s] = Recipients]
    /\ UNCHANGED <<scheduled, announced, mailJob, sending, mailed, forgotten, cut>>

\* createFlashSale, as far as notiFlashSale is concerned.  A notice whose time
\* has passed is refused by the cron library: the administrator is answered
\* with an error, and the sale is there.
NotiFlashSale(s) ==
    /\ sale[s] = "None"
    /\ sale' = [sale EXCEPT ![s] = "Alive"]
    /\ scheduled' \in {scheduled, scheduled \cup {s}}
    /\ UNCHANGED <<announced, toEnqueue, mailJob, sending, mailed, forgotten, cut>>

\* disableFlashSale and deleteFlashSale; the notice stays scheduled.
FlashSaleGone(s) ==
    /\ sale[s] = "Alive"
    /\ sale' = [sale EXCEPT ![s] = "Gone"]
    /\ UNCHANGED <<scheduled, announced, toEnqueue, mailJob, sending, mailed, forgotten, cut>>

\* The cron job starts the general notification and the loop.
NoticeFires(s) ==
    /\ s \in scheduled
    /\ scheduled' = scheduled \ {s}
    /\ announced' = announced \cup {s}
    /\ toEnqueue' = [toEnqueue EXCEPT ![s] = Recipients]
    /\ UNCHANGED <<sale, mailJob, sending, mailed, forgotten, cut>>

EnqueueNoticeUntilMute(s) ==
    /\ \E c \in toEnqueue[s] :
          /\ toEnqueue' = [toEnqueue EXCEPT ![s] = IF c \in Mute THEN {} ELSE @ \ {c}]
          /\ mailJob' = IF c \in Mute THEN mailJob ELSE [mailJob EXCEPT ![<<s, c>>] = AddedJob]
    /\ UNCHANGED <<sale, scheduled, announced, sending, mailed, forgotten, cut>>

\* sendNotiFlashSaleToUsers: one customer after the other.
EnqueueNotice(s) ==
    /\ \E c \in toEnqueue[s] :
          /\ toEnqueue' = [toEnqueue EXCEPT ![s] = @ \ {c}]
          /\ mailJob' = [mailJob EXCEPT ![<<s, c>>] = AddedJob]
    /\ UNCHANGED <<sale, scheduled, announced, sending, mailed, forgotten, cut>>

-----------------------------------------------------------------------------
(* sendNotificationEmail: one run of a job *)

TakeMail(j) ==
    /\ sending = NotSending /\ Takeable(mailJob[j])
    /\ mailJob' = [mailJob EXCEPT ![j] = Taken(@)]
    /\ sending' = [at |-> "Send", job |-> j]
    /\ UNCHANGED <<sale, scheduled, announced, toEnqueue, mailed, forgotten, cut>>

HasEmail(j) == j[2] \notin Mute
StillThere(j) == sale[j[1]] = "Alive"

\* Only handed to the mailer: sendMail is not awaited.  A sale that has gone
\* is an error, logged like any other, and the job returns without a mail.
SendNotice ==
    LET j == sending.job IN
    /\ sending.at = "Send"
    /\ sending' = [sending EXCEPT !.at = "Return"]
    /\ \/ /\ HasEmail(j) /\ StillThere(j)
          /\ mailed' = [mailed EXCEPT ![j] = @ + 1]
          /\ UNCHANGED forgotten
       \/ ~(HasEmail(j) /\ StillThere(j)) /\ UNCHANGED <<mailed, forgotten>>
       \/ forgotten' = forgotten \cup {j} /\ UNCHANGED mailed
    /\ UNCHANGED <<sale, scheduled, announced, toEnqueue, mailJob, cut>>

MailReturns ==
    /\ sending.at = "Return"
    /\ mailJob' = [mailJob EXCEPT ![sending.job] = Returned(@)]
    /\ sending' = NotSending
    /\ UNCHANGED <<sale, scheduled, announced, toEnqueue, mailed, forgotten, cut>>

-----------------------------------------------------------------------------
(* Lost locks and a server that dies *)

MailLockExpires(j) ==
    /\ mailJob[j].lock
    /\ mailJob' = [mailJob EXCEPT ![j] = Unlocked(@)]
    /\ UNCHANGED <<sale, scheduled, announced, toEnqueue, sending, mailed, forgotten, cut>>

RecoverMail(j) ==
    /\ Stalled(mailJob[j])
    /\ mailJob' = [mailJob EXCEPT ![j] = Recovered(@)]
    /\ UNCHANGED <<sale, scheduled, announced, toEnqueue, sending, mailed, forgotten, cut>>

\* No cron job is scheduled again when the server starts.
NoticesServerDies ==
    LET lost == {s \in Sales : s \in scheduled \/ toEnqueue[s] # {}} IN
    /\ lost # {} \/ sending # NotSending
    /\ scheduled' = {}
    /\ toEnqueue' = [s \in Sales |-> {}]
    /\ cut' = cut \cup lost
    /\ sending' = NotSending
    /\ mailJob' = IF sending = NotSending THEN mailJob
                  ELSE [mailJob EXCEPT ![sending.job] = Unlocked(@)]
    /\ UNCHANGED <<sale, announced, mailed, forgotten>>

MailStep == SendNotice \/ MailReturns

NoticesNext ==
    \/ \E s \in Sales : NotiFlashSale(s) \/ FlashSaleGone(s) \/ NoticeFires(s) \/ EnqueueNotice(s)
    \/ \E j \in MailJobs : TakeMail(j) \/ MailLockExpires(j) \/ RecoverMail(j)
    \/ MailStep \/ NoticesServerDies

\* The loop and the worker go on, and Bull looks for stalled jobs.  Whether a
\* notice's time comes before the server dies is left open.
NoticesFairness ==
    /\ WF_noticeVars(MailStep)
    /\ \A s \in Sales : WF_noticeVars(EnqueueNotice(s))
    /\ \A j \in MailJobs : WF_noticeVars(TakeMail(j)) /\ WF_noticeVars(RecoverMail(j))

NoticesSpec == NoticesInit /\ [][NoticesNext]_noticeVars /\ NoticesFairness

-----------------------------------------------------------------------------
(* What must hold *)

\* No customer is mailed more often than a run of his job began, and none for
\* a sale that was not announced.
MailedOncePerRun ==
    \A j \in MailJobs : mailed[j] <= Runs(mailJob[j]) /\ (mailed[j] > 0 => j[1] \in announced)

\* The customer was mailed, or he has no address, or the sale has gone, or an
\* error was logged, or his job stalled too often.
Answered(j) ==
    \/ mailJob[j].state = "Failed"
    \/ mailJob[j].state = "Completed"
       /\ (mailed[j] > 0 \/ ~HasEmail(j) \/ sale[j[1]] = "Gone" \/ j \in forgotten)

\* Once a notice fires, every customer's job comes to that, unless the server
\* died while jobs were still being made.
CustomersAreTold ==
    \A j \in MailJobs : j[1] \in announced ~> Answered(j) \/ j[1] \in cut
=============================================================================
