------------------------------ MODULE Comments ------------------------------
(***************************************************************************)
(* Comments on a product, their replies and the reports about them:        *)
(* comments.service.ts and createCommentReport of reports.service.ts.      *)
(* Every handler reads a comment and then writes; a comment is deleted     *)
(* together with its replies, and the reports about it lose their comment. *)
(* What becomes of a report afterwards is in Reports.                      *)
(***************************************************************************)
EXTENDS Serving, Sequences

CONSTANTS
    Authors,
    Posters,          \* handlers of requests
    MaxComments, MaxCommentReports

ASSUME CommentsAssumption == {MaxComments, MaxCommentReports} \subseteq Nat

VARIABLES
    comments,         \* rows of product_comments
    lastComment,
    commentReports,   \* rows of user_reports of type CommentViolation
    posting           \* where each handler stands

commentVars == <<width, comments, lastComment, commentReports, posting>>

NoComment == 0
CommentId == 1..MaxComments

\* root: replyOfCommentId.
Comment == [id : CommentId, author : Authors, root : CommentId \cup {NoComment}]
CommentReport == [comment : CommentId \cup {NoComment}, reportee : Authors]

Posting ==
    {Idle}
    \cup [at : {"Reply"}, author : Authors, root : CommentId]
    \cup [at : {"Delete"}, comment : CommentId]
    \cup [at : {"Report"}, comment : CommentId, reportee : Authors]

CommentsTypeOK ==
    /\ width \in 1..MaxWidth
    /\ comments \subseteq Comment
    /\ lastComment \in 0..MaxComments
    /\ commentReports \in Seq(CommentReport) /\ Len(commentReports) <= MaxCommentReports
    /\ posting \in [Posters -> Posting]

CommentsInit ==
    /\ ServingInit
    /\ comments = {} /\ lastComment = 0
    /\ commentReports = <<>>
    /\ posting = [r \in Posters |-> Idle]

MayPost(r) == posting[r] = Idle /\ MayServe(posting)
PostGoto(r, point) == posting' = [posting EXCEPT ![r] = point]

Existed(id) == id <= lastComment
Exists(id) == \E c \in comments : c.id = id

AddComment(author, root) ==
    /\ lastComment < MaxComments           \* bound: comments
    /\ lastComment' = lastComment + 1
    /\ comments' = comments \cup {[id |-> lastComment + 1, author |-> author, root |-> root]}

\* A handler has read comment c and goes on to a write.
BeginPost(r, c, point) ==
    /\ MayPost(r) /\ c \in comments
    /\ PostGoto(r, point)
    /\ UNCHANGED <<comments, lastComment, commentReports>>

-----------------------------------------------------------------------------
(* Comments and replies *)

\* createComment is one statement.
CreateComment(r, author) ==
    /\ MayPost(r)
    /\ AddComment(author, NoComment)
    /\ UNCHANGED <<commentReports, posting>>

ItselfAsRoot(c) == c.id
RootOf(c) == IF c.root = NoComment THEN c.id ELSE c.root

BeginReply(r, author, c) == BeginPost(r, c, [at |-> "Reply", author |-> author, root |-> RootOf(c)])

\* The update of a root that has gone meanwhile is refused.
ReplyComment(r) ==
    /\ posting[r].at = "Reply"
    /\ IF Exists(posting[r].root)
       THEN AddComment(posting[r].author, posting[r].root)
       ELSE UNCHANGED <<comments, lastComment>>
    /\ PostGoto(r, Idle)
    /\ UNCHANGED commentReports

\* By the comment's author, deleteComment, or by an administrator.
BeginDelete(r, c) == BeginPost(r, c, [at |-> "Delete", comment |-> c.id])

\* The foreign keys: replies go with their root, reports keep no comment.
Thread(id) == {c \in comments : c.id = id \/ c.root = id}

WithoutComments(report, gone) ==
    IF report.comment \in gone THEN [report EXCEPT !.comment = NoComment] ELSE report

DeleteComment(r) ==
    LET thread == Thread(posting[r].comment) IN
    /\ posting[r].at = "Delete"
    /\ comments' = comments \ thread
    /\ commentReports' = [i \in 1..Len(commentReports) |->
                             WithoutComments(commentReports[i], {c.id : c \in thread})]
    /\ PostGoto(r, Idle)
    /\ UNCHANGED lastComment

-----------------------------------------------------------------------------
(* Reports about comments *)

BeginCommentReport(r, c) == BeginPost(r, c, [at |-> "Report", comment |-> c.id, reportee |-> c.author])

\* The foreign key refuses a comment that has gone.
CreateCommentReport(r) ==
    /\ posting[r].at = "Report"
    /\ IF Exists(posting[r].comment)
       THEN /\ Len(commentReports) < MaxCommentReports       \* bound: reports
            /\ commentReports' = Append(commentReports,
                   [comment |-> posting[r].comment, reportee |-> posting[r].reportee])
       ELSE UNCHANGED commentReports
    /\ PostGoto(r, Idle)
    /\ UNCHANGED <<comments, lastComment>>

-----------------------------------------------------------------------------
\* A request dies between its read and its write.
PosterDies(r) ==
    /\ posting[r] # Idle
    /\ PostGoto(r, Idle)
    /\ UNCHANGED <<comments, lastComment, commentReports>>

CommentsNext ==
    /\ \E r \in Posters :
          \/ \E author \in Authors :
                CreateComment(r, author) \/ \E c \in comments : BeginReply(r, author, c)
          \/ \E c \in comments : BeginDelete(r, c) \/ BeginCommentReport(r, c)
          \/ ReplyComment(r) \/ DeleteComment(r) \/ CreateCommentReport(r) \/ PosterDies(r)
    /\ UNCHANGED width

CommentsSpec == CommentsInit /\ [][CommentsNext]_commentVars

-----------------------------------------------------------------------------
(* What must hold *)

\* Threads have two levels: a reply hangs on a comment that is still there and
\* is no reply itself, whatever is replied to and deleted meanwhile.
TwoLevels ==
    \A c \in comments : c.root # NoComment =>
        \E root \in comments : root.id = c.root /\ root.root = NoComment

\* What the administrators' list of comment reports takes.
Listed(report) == report.comment # NoComment

\* A report that the administrators' list shows blames its comment's author,
\* and the comment is there to be looked at.
ReportedAuthor ==
    \A i \in 1..Len(commentReports) :
        Listed(commentReports[i]) =>
            \E c \in comments : c.id = commentReports[i].comment /\ c.author = commentReports[i].reportee

\* Whatever is replied to, reported and deleted meanwhile, replies and reports
\* refer to what they were made about.
ReferencesHold == TwoLevels /\ ReportedAuthor
=============================================================================
