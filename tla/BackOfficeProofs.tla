-------------------------- MODULE BackOfficeProofs --------------------------
(***************************************************************************)
(* Proofs about the parts of BackOffice, each as a specification of its    *)
(* own, for every value of its constants.                                  *)
(***************************************************************************)
EXTENDS BackOffice, PricingProofs, SequenceTheorems, FiniteSetTheorems, TLAPS

USE WidthAssumption, CommentsAssumption, ReportsAssumption, CartsAssumption, ChatsAssumption

\* A request is taken up: when they are served one at a time, no other is in hand.
LEMMA ServedAlone ==
    ASSUME NEW Handlers, IsFiniteSet(Handlers), NEW Points, NEW req \in [Handlers -> Points],
           width = 1, MayServe(req)
    PROVE  \A r \in Handlers : req[r] = Idle
<1> DEFINE busy == {r \in DOMAIN req : req[r] # Idle}
<1>1. busy = {r \in Handlers : req[r] # Idle}
  OBVIOUS
<1>2. IsFiniteSet(busy) /\ Cardinality(busy) \in Nat
  BY <1>1, FS_Subset, FS_CardinalityType
<1>3. Cardinality(busy) = 0
  BY <1>2 DEF MayServe
<1>4. busy = {}
  BY <1>2, <1>3, FS_EmptySet
<1> QED
  BY <1>1, <1>4

-----------------------------------------------------------------------------
(* Comments *)

\* Identifiers are given once, and only behind lastComment.
CommentIds ==
    /\ \A c \in comments : c.id <= lastComment
    /\ \A c, d \in comments : c.id = d.id => c = d

\* What a handler has read of a comment stays true while the comment is there.
PostingHolds ==
    \A r \in Posters :
        /\ posting[r].at = "Reply" =>
              /\ posting[r].root <= lastComment
              /\ \A c \in comments : c.id = posting[r].root => c.root = NoComment
        /\ posting[r].at = "Report" =>
              /\ posting[r].comment <= lastComment
              /\ \A c \in comments : c.id = posting[r].comment => c.author = posting[r].reportee

CommentsInv == CommentsTypeOK /\ CommentIds /\ PostingHolds /\ ReferencesHold

LEMMA CommentsInvInit == CommentsInit => CommentsInv
<1> SUFFICES ASSUME CommentsInit
             PROVE  CommentsInv
  OBVIOUS
<1>1. /\ comments = {} /\ lastComment = 0 /\ commentReports = <<>> /\ width \in 1..MaxWidth
      /\ posting = [r \in Posters |-> Idle]
  BY DEF CommentsInit, ServingInit
<1>2. \A r \in Posters : posting[r] = Idle /\ posting[r].at = "Idle"
  BY <1>1 DEF Idle
<1>3. CommentsTypeOK
  BY <1>1 DEF CommentsTypeOK, Posting
<1> QED
  BY <1>1, <1>2, <1>3 DEF CommentsInv, CommentIds, PostingHolds, ReferencesHold, TwoLevels, ReportedAuthor

LEMMA PostGotoType ==
    ASSUME CommentsTypeOK, NEW r \in Posters, NEW point \in Posting, PostGoto(r, point)
    PROVE  /\ posting' \in [Posters -> Posting] /\ posting'[r] = point
           /\ \A q \in Posters \ {r} : posting'[q] = posting[q]
  BY DEF CommentsTypeOK, PostGoto

LEMMA PostingFields ==
    ASSUME NEW point \in Posting
    PROVE  /\ point.at = "Reply" => point.author \in Authors /\ point.root \in CommentId
           /\ point.at = "Delete" => point.comment \in CommentId
           /\ point.at = "Report" => point.comment \in CommentId /\ point.reportee \in Authors
  BY DEF Posting, Idle

\* Nothing but the handlers changes, and the new point holds.
LEMMA PostingOnlyKeeps ==
    ASSUME CommentsInv, NEW r \in Posters, NEW point \in Posting, PostGoto(r, point),
           UNCHANGED <<width, comments, lastComment, commentReports>>,
           point.at = "Reply" =>
              /\ point.root <= lastComment
              /\ \A c \in comments : c.id = point.root => c.root = NoComment,
           point.at = "Report" =>
              /\ point.comment <= lastComment
              /\ \A c \in comments : c.id = point.comment => c.author = point.reportee
    PROVE  CommentsInv'
<1>1. /\ posting' \in [Posters -> Posting] /\ posting'[r] = point
      /\ \A q \in Posters \ {r} : posting'[q] = posting[q]
  BY PostGotoType DEF CommentsInv
<1>2. CommentsTypeOK'
  BY <1>1 DEF CommentsInv, CommentsTypeOK
<1>3. PostingHolds'
  BY <1>1 DEF CommentsInv, PostingHolds
<1>4. CommentIds' /\ ReferencesHold'
  BY DEF CommentsInv, CommentIds, ReferencesHold, TwoLevels, ReportedAuthor
<1> QED
  BY <1>2, <1>3, <1>4 DEF CommentsInv

LEMMA RootOfIsRoot ==
    ASSUME CommentsInv, NEW c \in comments
    PROVE  /\ RootOf(c) \in CommentId /\ RootOf(c) <= lastComment
           /\ \A d \in comments : d.id = RootOf(c) => d.root = NoComment
<1>1. c \in Comment /\ c.id <= lastComment
  BY DEF CommentsInv, CommentsTypeOK, CommentIds
<1>2. CASE c.root = NoComment
  <2>1. RootOf(c) = c.id
    BY <1>2 DEF RootOf
  <2> QED
    BY <1>1, <1>2, <2>1 DEF CommentsInv, CommentIds, Comment
<1>3. CASE c.root # NoComment
  <2>1. RootOf(c) = c.root /\ c.root \in CommentId
    BY <1>1, <1>3 DEF RootOf, Comment
  <2>2. PICK root \in comments : root.id = c.root /\ root.root = NoComment
    BY <1>3 DEF CommentsInv, ReferencesHold, TwoLevels
  <2> QED
    BY <2>1, <2>2 DEF CommentsInv, CommentIds
<1> QED
  BY <1>2, <1>3

LEMMA BeginningsKeep ==
    ASSUME CommentsInv, NEW r \in Posters, NEW c \in comments, NEW author \in Authors, UNCHANGED width,
           BeginReply(r, author, c) \/ BeginDelete(r, c) \/ BeginCommentReport(r, c)
    PROVE  CommentsInv'
<1>0. c \in Comment /\ c.id \in CommentId /\ c.author \in Authors
  BY DEF CommentsInv, CommentsTypeOK, Comment
<1>1. CASE BeginReply(r, author, c)
  <2> DEFINE point == [at |-> "Reply", author |-> author, root |-> RootOf(c)]
  <2>1. /\ point \in Posting /\ point.at = "Reply" /\ point.root <= lastComment
        /\ \A d \in comments : d.id = point.root => d.root = NoComment
    BY RootOfIsRoot DEF Posting
  <2>2. PostGoto(r, point) /\ UNCHANGED <<comments, lastComment, commentReports>>
    BY <1>1 DEF BeginReply, BeginPost
  <2> HIDE DEF point
  <2> QED
    BY <2>1, <2>2, PostingOnlyKeeps
<1>2. CASE BeginDelete(r, c)
  <2> DEFINE point == [at |-> "Delete", comment |-> c.id]
  <2>1. point \in Posting /\ point.at = "Delete"
    BY <1>0 DEF Posting
  <2>2. PostGoto(r, point) /\ UNCHANGED <<comments, lastComment, commentReports>>
    BY <1>2 DEF BeginDelete, BeginPost
  <2> HIDE DEF point
  <2> QED
    BY <2>1, <2>2, PostingOnlyKeeps
<1>3. CASE BeginCommentReport(r, c)
  <2> DEFINE point == [at |-> "Report", comment |-> c.id, reportee |-> c.author]
  <2>1. /\ point \in Posting /\ point.at = "Report" /\ point.comment <= lastComment
        /\ \A d \in comments : d.id = point.comment => d.author = point.reportee
    BY <1>0 DEF Posting, CommentsInv, CommentIds
  <2>2. PostGoto(r, point) /\ UNCHANGED <<comments, lastComment, commentReports>>
    BY <1>3 DEF BeginCommentReport, BeginPost
  <2> HIDE DEF point
  <2> QED
    BY <2>1, <2>2, PostingOnlyKeeps
<1> QED
  BY <1>1, <1>2, <1>3

\* A comment is added, as a root or under a root that is there.
LEMMA AddKeeps ==
    ASSUME CommentsInv, NEW author \in Authors, NEW root, AddComment(author, root),
           \/ root = NoComment
           \/ root \in CommentId /\ \E c \in comments : c.id = root /\ c.root = NoComment,
           posting' \in [Posters -> Posting],
           \A q \in Posters : posting'[q] = posting[q] \/ posting'[q] = Idle,
           UNCHANGED <<width, commentReports>>
    PROVE  CommentsInv'
<1> DEFINE new == [id |-> lastComment + 1, author |-> author, root |-> root]
<1>1. /\ lastComment \in 0..MaxComments /\ lastComment < MaxComments
      /\ lastComment' = lastComment + 1 /\ comments' = comments \cup {new}
  BY DEF CommentsInv, CommentsTypeOK, AddComment
<1>2. new \in Comment /\ new.id = lastComment + 1 /\ new.root = root
  BY <1>1 DEF Comment, CommentId
<1> HIDE DEF new
<1>3. \A c \in comments : c.id \in Nat /\ c.id <= lastComment
  BY DEF CommentsInv, CommentsTypeOK, CommentIds, Comment, CommentId
<1>4. CommentsTypeOK'
  BY <1>1, <1>2 DEF CommentsInv, CommentsTypeOK
<1>5. CommentIds'
  BY <1>1, <1>2, <1>3 DEF CommentsInv, CommentIds
<1>6. PostingHolds'
  <2>1. \A q \in Posters : posting'[q].at # "Idle" => posting'[q] = posting[q]
    BY DEF Idle
  <2>2. \A q \in Posters :
          /\ posting[q].at = "Reply" => posting[q].root \in Nat /\ posting[q].root <= lastComment
          /\ posting[q].at = "Report" => posting[q].comment \in Nat /\ posting[q].comment <= lastComment
    BY PostingFields DEF CommentsInv, CommentsTypeOK, PostingHolds, CommentId
  <2>3. \A q \in Posters :
          /\ posting[q].at = "Reply" => posting[q].root # new.id /\ posting[q].root <= lastComment'
          /\ posting[q].at = "Report" => posting[q].comment # new.id /\ posting[q].comment <= lastComment'
    BY <1>1, <1>2, <2>2
  <2> QED
    BY <1>1, <2>1, <2>3 DEF CommentsInv, PostingHolds
<1>7. TwoLevels'
  BY <1>1, <1>2 DEF CommentsInv, ReferencesHold, TwoLevels
<1>8. ReportedAuthor'
  BY <1>1 DEF CommentsInv, ReferencesHold, ReportedAuthor
<1> QED
  BY <1>4, <1>5, <1>6, <1>7, <1>8 DEF CommentsInv, ReferencesHold

LEMMA ReplyCommentKeeps ==
    ASSUME CommentsInv, NEW r \in Posters, ReplyComment(r), UNCHANGED width
    PROVE  CommentsInv'
<1>1. posting[r] \in Posting /\ posting[r].at = "Reply" /\ Idle \in Posting
  BY DEF CommentsInv, CommentsTypeOK, ReplyComment, Posting
<1>2. /\ posting[r].author \in Authors /\ posting[r].root \in CommentId
      /\ \A c \in comments : c.id = posting[r].root => c.root = NoComment
  BY <1>1, PostingFields DEF CommentsInv, PostingHolds
<1>3. PostGoto(r, Idle) /\ UNCHANGED commentReports
  BY DEF ReplyComment
<1>4. /\ posting' \in [Posters -> Posting] /\ posting'[r] = Idle
      /\ \A q \in Posters \ {r} : posting'[q] = posting[q]
  BY <1>1, <1>3, PostGotoType DEF CommentsInv
<1>5. CASE Exists(posting[r].root)
  <2>1. AddComment(posting[r].author, posting[r].root)
    BY <1>5 DEF ReplyComment
  <2>2. \E c \in comments : c.id = posting[r].root /\ c.root = NoComment
    BY <1>2, <1>5 DEF Exists
  <2> QED
    BY <1>2, <1>3, <1>4, <2>1, <2>2, AddKeeps
<1>6. CASE ~Exists(posting[r].root)
  <2>1. UNCHANGED <<comments, lastComment>>
    BY <1>6 DEF ReplyComment
  <2> QED
    BY <1>1, <1>3, <2>1, PostingOnlyKeeps DEF Idle
<1> QED
  BY <1>5, <1>6

LEMMA CreateCommentKeeps ==
    ASSUME CommentsInv, NEW r \in Posters, NEW author \in Authors, CreateComment(r, author), UNCHANGED width
    PROVE  CommentsInv'
<1>1. posting' = posting /\ posting \in [Posters -> Posting]
  BY DEF CreateComment, CommentsInv, CommentsTypeOK
<1> QED
  BY <1>1, AddKeeps DEF CreateComment

\* A thread goes as a whole: no reply loses its root, no listed report its comment.
LEMMA DeleteCommentKeeps ==
    ASSUME CommentsInv, NEW r \in Posters, DeleteComment(r), UNCHANGED width
    PROVE  CommentsInv'
<1> DEFINE id == posting[r].comment
           thread == Thread(id)
           gone == {c.id : c \in thread}
<1>1. posting[r] \in Posting /\ posting[r].at = "Delete" /\ Idle \in Posting /\ id \in CommentId
  <2>1. posting[r] \in Posting /\ posting[r].at = "Delete" /\ Idle \in Posting
    BY DEF CommentsInv, CommentsTypeOK, DeleteComment, Posting
  <2> QED
    BY <2>1, PostingFields
<1>2. /\ comments' = comments \ thread
      /\ commentReports' = [i \in 1..Len(commentReports) |-> WithoutComments(commentReports[i], gone)]
      /\ PostGoto(r, Idle) /\ UNCHANGED <<width, lastComment>>
  BY DEF DeleteComment
<1>3. /\ posting' \in [Posters -> Posting] /\ posting'[r] = Idle
      /\ \A q \in Posters \ {r} : posting'[q] = posting[q]
  BY <1>1, <1>2, PostGotoType DEF CommentsInv
<1>4. /\ commentReports \in Seq(CommentReport) /\ Len(commentReports) \in Nat
      /\ \A i \in 1..Len(commentReports) : commentReports[i] \in CommentReport
  BY ElementOfSeq DEF CommentsInv, CommentsTypeOK
<1>5. ASSUME NEW report \in CommentReport
      PROVE  /\ WithoutComments(report, gone) \in CommentReport
             /\ Listed(WithoutComments(report, gone)) =>
                   report.comment \notin gone /\ WithoutComments(report, gone) = report
  BY DEF WithoutComments, CommentReport, Listed
<1> HIDE DEF gone
<1>6. /\ commentReports' \in Seq(CommentReport) /\ Len(commentReports') = Len(commentReports)
      /\ \A i \in 1..Len(commentReports) :
            Listed(commentReports'[i]) =>
               commentReports[i].comment \notin gone /\ commentReports'[i] = commentReports[i]
  <2>1. commentReports' \in [1..Len(commentReports) -> CommentReport]
    BY <1>2, <1>4, <1>5
  <2>2. commentReports' \in Seq(CommentReport) /\ Len(commentReports') = Len(commentReports)
    BY <1>4, <2>1
  <2> QED
    BY <1>2, <1>4, <1>5, <2>2
<1>7. CommentsTypeOK'
  BY <1>2, <1>3, <1>6 DEF CommentsInv, CommentsTypeOK
<1>8. CommentIds'
  BY <1>2 DEF CommentsInv, CommentIds
<1>9. PostingHolds'
  BY <1>2, <1>3 DEF CommentsInv, PostingHolds, Idle
<1>10. TwoLevels'
  <2> SUFFICES ASSUME NEW c \in comments', c.root # NoComment
               PROVE  \E root \in comments' : root.id = c.root /\ root.root = NoComment
    BY DEF TwoLevels
  <2>1. PICK root \in comments : root.id = c.root /\ root.root = NoComment
    BY <1>2 DEF CommentsInv, ReferencesHold, TwoLevels
  <2>2. root.id # id
    BY <1>2, <2>1 DEF Thread
  <2>3. root.root # id
    BY <1>1, <2>1 DEF CommentId, NoComment
  <2> QED
    BY <1>2, <2>1, <2>2, <2>3 DEF Thread
<1>11. ReportedAuthor'
  <2> SUFFICES ASSUME NEW i \in 1..Len(commentReports), Listed(commentReports'[i])
               PROVE  \E c \in comments' : /\ c.id = commentReports'[i].comment
                                           /\ c.author = commentReports'[i].reportee
    BY <1>6 DEF ReportedAuthor
  <2>1. commentReports[i].comment \notin gone /\ commentReports'[i] = commentReports[i]
    BY <1>6
  <2>2. PICK c \in comments : c.id = commentReports[i].comment /\ c.author = commentReports[i].reportee
    BY <2>1 DEF CommentsInv, ReferencesHold, ReportedAuthor
  <2>3. c \notin thread
    BY <2>1, <2>2 DEF gone
  <2> QED
    BY <1>2, <2>1, <2>2, <2>3
<1> QED
  BY <1>7, <1>8, <1>9, <1>10, <1>11 DEF CommentsInv, ReferencesHold

LEMMA CreateCommentReportKeeps ==
    ASSUME CommentsInv, NEW r \in Posters, CreateCommentReport(r), UNCHANGED width
    PROVE  CommentsInv'
<1>1. /\ posting[r] \in Posting /\ posting[r].at = "Report" /\ Idle \in Posting
      /\ PostGoto(r, Idle) /\ UNCHANGED <<width, comments, lastComment>>
  BY DEF CommentsInv, CommentsTypeOK, CreateCommentReport, Posting
<1>2. /\ posting' \in [Posters -> Posting] /\ posting'[r] = Idle
      /\ \A q \in Posters \ {r} : posting'[q] = posting[q]
  BY <1>1, PostGotoType DEF CommentsInv
<1>3. CASE ~Exists(posting[r].comment)
  <2>1. UNCHANGED commentReports
    BY <1>3 DEF CreateCommentReport
  <2> QED
    BY <1>1, <2>1, PostingOnlyKeeps DEF Idle
<1>4. CASE Exists(posting[r].comment)
  <2> DEFINE new == [comment |-> posting[r].comment, reportee |-> posting[r].reportee]
  <2>1. new \in CommentReport
    BY <1>1, PostingFields DEF CommentReport
  <2>2. \E c \in comments : c.id = new.comment /\ c.author = new.reportee
    BY <1>1, <1>4 DEF Exists, CommentsInv, PostingHolds
  <2>3. Len(commentReports) < MaxCommentReports /\ commentReports' = Append(commentReports, new)
    BY <1>4 DEF CreateCommentReport
  <2> HIDE DEF new
  <2>4. commentReports \in Seq(CommentReport) /\ Len(commentReports) \in Nat
    BY DEF CommentsInv, CommentsTypeOK
  <2>5. /\ commentReports' \in Seq(CommentReport) /\ Len(commentReports') = Len(commentReports) + 1
        /\ \A i \in 1..Len(commentReports') :
              commentReports'[i] = IF i = Len(commentReports) + 1 THEN new ELSE commentReports[i]
    BY <2>1, <2>3, <2>4, AppendProperties
  <2>6. CommentsTypeOK'
    BY <1>1, <1>2, <2>3, <2>4, <2>5 DEF CommentsInv, CommentsTypeOK
  <2>7. CommentIds' /\ TwoLevels'
    BY <1>1 DEF CommentsInv, CommentIds, ReferencesHold, TwoLevels
  <2>8. PostingHolds'
    BY <1>1, <1>2 DEF CommentsInv, PostingHolds, Idle
  <2>9. ReportedAuthor'
    <3> SUFFICES ASSUME NEW i \in 1..Len(commentReports'), Listed(commentReports'[i])
                 PROVE  \E c \in comments' : /\ c.id = commentReports'[i].comment
                                             /\ c.author = commentReports'[i].reportee
      BY DEF ReportedAuthor, Listed
    <3>1. CASE i = Len(commentReports) + 1
      BY <1>1, <2>2, <2>5, <3>1
    <3>2. CASE i # Len(commentReports) + 1
      <4>1. i \in 1..Len(commentReports) /\ commentReports'[i] = commentReports[i]
        BY <2>4, <2>5, <3>2
      <4> QED
        BY <1>1, <4>1 DEF CommentsInv, ReferencesHold, ReportedAuthor
    <3> QED
      BY <3>1, <3>2
  <2> QED
    BY <2>6, <2>7, <2>8, <2>9 DEF CommentsInv, ReferencesHold
<1> QED
  BY <1>3, <1>4

LEMMA CommentsInvNext == CommentsInv /\ [CommentsNext]_commentVars => CommentsInv'
<1> SUFFICES ASSUME CommentsInv, [CommentsNext]_commentVars
             PROVE  CommentsInv'
  OBVIOUS
<1>1. CASE UNCHANGED commentVars
  BY <1>1 DEF commentVars, CommentsInv, CommentsTypeOK, CommentIds, PostingHolds, ReferencesHold, TwoLevels,
              ReportedAuthor
<1>2. CASE CommentsNext
  <2>1. UNCHANGED width
    BY <1>2 DEF CommentsNext
  <2>2. PICK r \in Posters :
          \/ \E author \in Authors :
                CreateComment(r, author) \/ \E c \in comments : BeginReply(r, author, c)
          \/ \E c \in comments : BeginDelete(r, c) \/ BeginCommentReport(r, c)
          \/ ReplyComment(r) \/ DeleteComment(r) \/ CreateCommentReport(r) \/ PosterDies(r)
    BY <1>2 DEF CommentsNext
  <2>3. ASSUME NEW c \in comments
        PROVE  c.author \in Authors
    BY DEF CommentsInv, CommentsTypeOK, Comment
  <2>4. CASE PosterDies(r)
    <3>1. Idle \in Posting /\ PostGoto(r, Idle) /\ UNCHANGED <<comments, lastComment, commentReports>>
      BY <2>4 DEF PosterDies, Posting
    <3> QED
      BY <2>1, <3>1, PostingOnlyKeeps DEF Idle
  <2>5. CASE ReplyComment(r) \/ DeleteComment(r) \/ CreateCommentReport(r)
    BY <2>1, <2>5, ReplyCommentKeeps, DeleteCommentKeeps, CreateCommentReportKeeps
  <2>6. CASE \E author \in Authors :
               CreateComment(r, author) \/ \E c \in comments : BeginReply(r, author, c)
    BY <2>1, <2>6, CreateCommentKeeps, BeginningsKeep
  <2>7. CASE \E c \in comments : BeginDelete(r, c) \/ BeginCommentReport(r, c)
    BY <2>1, <2>3, <2>7, BeginningsKeep
  <2> QED
    BY <2>2, <2>4, <2>5, <2>6, <2>7
<1> QED
  BY <1>1, <1>2

(***************************************************************************)
(* Comments, replies and reports keep their types, whatever is posted and  *)
(* deleted between a handler's read and its write.                         *)
(***************************************************************************)
THEOREM CommentsTypeCorrect == CommentsSpec => []CommentsTypeOK
<1>1. CommentsInv => CommentsTypeOK
  BY DEF CommentsInv
<1> QED
  BY <1>1, CommentsInvInit, CommentsInvNext, PTL DEF CommentsSpec

(***************************************************************************)
(* A reply hangs on a root comment that is still there, and a report that  *)
(* the administrators are shown blames the author of its comment, whatever *)
(* was deleted between the read and the write of any handler.              *)
(***************************************************************************)
THEOREM ReferencesCorrect == CommentsSpec => []ReferencesHold
<1>1. CommentsInv => ReferencesHold
  BY DEF CommentsInv
<1> QED
  BY <1>1, CommentsInvInit, CommentsInvNext, PTL DEF CommentsSpec

-----------------------------------------------------------------------------
(* Reports *)

\* Nobody else has an uncontested report in hand.
OneJudge ==
    \A r, q \in Judges :
        /\ judging[r] # Idle /\ judging[q] # Idle
        /\ judging[r].report = judging[q].report /\ judging[r].report \notin contested
        => r = q

\* A decision that stands is mailed, or its request is about to mail it, or died.
Mailed ==
    \A i \in Filed \ unanswered :
        status[i] \in Decision =>
            \/ status[i] \in mails[i]
            \/ \E r \in Judges : judging[r] = [at |-> "Answer", report |-> i, decision |-> status[i]]

\* The last mail about an uncontested report is the decision that stands, and a
\* request about to mail its decision about one has it standing.
LastMailed ==
    /\ \A i \in Filed \ (unanswered \cup contested) :
          status[i] \in Decision =>
             \/ lastMail[i] = status[i]
             \/ \E r \in Judges : judging[r].at = "Answer" /\ judging[r].report = i
    /\ \A r \in Judges :
          judging[r].at = "Answer" /\ judging[r].report \notin contested
             => status[judging[r].report] = judging[r].decision

RungWasMailed == \A i \in ringing \cup rung : mails[i] # {}

ReportsInv == ReportsTypeOK /\ OneJudge /\ Mailed /\ LastMailed /\ RungWasMailed

LEMMA JudgingFields ==
    ASSUME NEW point \in Judging
    PROVE  /\ point.at \in {"Idle", "Decide", "Answer"}
           /\ point # Idle => /\ point.at # "Idle" /\ point.report \in Filed /\ point.decision \in Decision
                              /\ [point EXCEPT !.at = "Answer"] \in Judging
                              /\ [point EXCEPT !.at = "Answer"] =
                                   [at |-> "Answer", report |-> point.report, decision |-> point.decision]
  BY DEF Judging, Idle

LEMMA ReportsInvInit == ReportsInit => ReportsInv
<1> SUFFICES ASSUME ReportsInit
             PROVE  ReportsInv
  OBVIOUS
<1>1. /\ status = [i \in Filed |-> "None"] /\ judging = [r \in Judges |-> Idle] /\ width \in 1..MaxWidth
      /\ mails = [i \in Filed |-> {}] /\ lastMail = [i \in Filed |-> "None"]
      /\ ringing = {} /\ rung = {} /\ unanswered = {} /\ contested = {} /\ decisions = 0 /\ judgeDeaths = 0
  BY DEF ReportsInit, ServingInit
<1>2. ReportsTypeOK
  BY <1>1 DEF ReportsTypeOK, Judging
<1>3. Mailed /\ LastMailed
  BY <1>1 DEF Mailed, LastMailed, Decision, Idle
<1> QED
  BY <1>1, <1>2, <1>3 DEF ReportsInv, OneJudge, RungWasMailed

LEMMA JudgeGotoType ==
    ASSUME ReportsTypeOK, NEW r \in Judges, NEW point \in Judging, JudgeGoto(r, point)
    PROVE  /\ judging' \in [Judges -> Judging] /\ judging'[r] = point
           /\ \A q \in Judges \ {r} : judging'[q] = judging[q]
  BY DEF ReportsTypeOK, JudgeGoto

LEMMA BeginResolveKeeps ==
    ASSUME ReportsInv, NEW r \in Judges, NEW i \in Filed, NEW decision \in Decision,
           BeginResolve(r, i, decision), UNCHANGED width
    PROVE  ReportsInv'
<1> DEFINE point == [at |-> "Decide", report |-> i, decision |-> decision]
<1>1. point \in Judging /\ point.at = "Decide" /\ point.report = i
  BY DEF Judging
<1>2. /\ judging[r] = Idle /\ judging[r].at = "Idle" /\ MayServe(judging) /\ decisions < MaxDecisions
      /\ decisions' = decisions + 1 /\ JudgeGoto(r, point)
      /\ contested' = IF InHand(i) THEN contested \cup {i} ELSE contested
      /\ UNCHANGED <<width, status, mails, lastMail, ringing, rung, unanswered, judgeDeaths>>
  BY DEF BeginResolve, Idle
<1> HIDE DEF point
<1>3. /\ judging' \in [Judges -> Judging] /\ judging'[r] = point
      /\ \A q \in Judges \ {r} : judging'[q] = judging[q]
  BY <1>1, <1>2, JudgeGotoType DEF ReportsInv
<1>4. ReportsTypeOK'
  BY <1>2, <1>3 DEF ReportsInv, ReportsTypeOK
<1>5. OneJudge'
  <2>1. i \notin contested' => \A q \in Judges : judging[q] # Idle => judging[q].report # i
    BY <1>2 DEF InHand
  <2> QED
    BY <1>1, <1>2, <1>3, <2>1 DEF ReportsInv, OneJudge
<1>6. Mailed'
  BY <1>2, <1>3 DEF ReportsInv, Mailed
<1>7. LastMailed'
  BY <1>1, <1>2, <1>3 DEF ReportsInv, LastMailed
<1>8. RungWasMailed'
  BY <1>2 DEF ReportsInv, RungWasMailed
<1> QED
  BY <1>4, <1>5, <1>6, <1>7, <1>8 DEF ReportsInv

LEMMA ResolveReportKeeps ==
    ASSUME ReportsInv, NEW r \in Judges, ResolveReport(r), UNCHANGED width
    PROVE  ReportsInv'
<1> DEFINE i == judging[r].report
           point == [judging[r] EXCEPT !.at = "Answer"]
<1>1. judging[r] \in Judging /\ judging[r] # Idle
  BY DEF ReportsInv, ReportsTypeOK, ResolveReport, Idle
<1>2. /\ i \in Filed /\ judging[r].decision \in Decision /\ point \in Judging
      /\ point = [at |-> "Answer", report |-> i, decision |-> judging[r].decision]
      /\ point.at = "Answer" /\ point.report = i /\ point.decision = judging[r].decision
      /\ point # Idle
  BY <1>1, JudgingFields DEF Idle
<1>3. /\ judging[r].at = "Decide" /\ status' = [status EXCEPT ![i] = judging[r].decision]
      /\ JudgeGoto(r, point)
      /\ UNCHANGED <<width, mails, lastMail, ringing, rung, unanswered, contested, decisions, judgeDeaths>>
  BY DEF ResolveReport
<1> HIDE DEF point
<1>4. /\ judging' \in [Judges -> Judging] /\ judging'[r] = point
      /\ \A q \in Judges \ {r} : judging'[q] = judging[q]
  BY <1>2, <1>3, JudgeGotoType DEF ReportsInv
<1>5. /\ status'[i] = judging[r].decision
      /\ \A k \in Filed \ {i} : status'[k] = status[k]
      /\ status' \in [Filed -> {"None", "Waiting"} \cup Decision]
  BY <1>2, <1>3 DEF ReportsInv, ReportsTypeOK
<1>6. ReportsTypeOK'
  BY <1>3, <1>4, <1>5 DEF ReportsInv, ReportsTypeOK
<1>7. OneJudge'
  BY <1>1, <1>2, <1>3, <1>4 DEF ReportsInv, OneJudge
<1>8. Mailed'
  BY <1>2, <1>3, <1>4, <1>5 DEF ReportsInv, Mailed
<1>9. LastMailed'
  <2>1. i \notin contested => \A q \in Judges \ {r} : judging[q].at = "Answer" => judging[q].report # i
    BY <1>1 DEF ReportsInv, OneJudge, Idle
  <2> QED
    BY <1>2, <1>3, <1>4, <1>5, <2>1 DEF ReportsInv, LastMailed
<1>10. RungWasMailed'
  BY <1>3 DEF ReportsInv, RungWasMailed
<1> QED
  BY <1>6, <1>7, <1>8, <1>9, <1>10 DEF ReportsInv

LEMMA AnswerReporterKeeps ==
    ASSUME ReportsInv, NEW r \in Judges, AnswerReporter(r), UNCHANGED width
    PROVE  ReportsInv'
<1> DEFINE i == judging[r].report
           decision == judging[r].decision
<1>1. judging[r] \in Judging /\ judging[r] # Idle /\ Idle \in Judging
  BY DEF ReportsInv, ReportsTypeOK, AnswerReporter, Idle, Judging
<1>2. i \in Filed /\ decision \in Decision
  BY <1>1, JudgingFields
<1>3. /\ judging[r].at = "Answer" /\ mails' = [mails EXCEPT ![i] = @ \cup {decision}]
      /\ lastMail' = [lastMail EXCEPT ![i] = decision] /\ ringing' = ringing \cup {i}
      /\ JudgeGoto(r, Idle)
      /\ UNCHANGED <<width, status, rung, unanswered, contested, decisions, judgeDeaths>>
  BY DEF AnswerReporter, MailedDecision
<1>4. /\ judging' \in [Judges -> Judging] /\ judging'[r] = Idle
      /\ \A q \in Judges \ {r} : judging'[q] = judging[q]
  BY <1>1, <1>3, JudgeGotoType DEF ReportsInv
<1>5. /\ mails' \in [Filed -> SUBSET Decision] /\ lastMail' \in [Filed -> {"None"} \cup Decision]
      /\ mails'[i] = mails[i] \cup {decision} /\ lastMail'[i] = decision
      /\ \A k \in Filed \ {i} : mails'[k] = mails[k] /\ lastMail'[k] = lastMail[k]
  BY <1>2, <1>3 DEF ReportsInv, ReportsTypeOK
<1>6. ReportsTypeOK'
  BY <1>2, <1>3, <1>4, <1>5 DEF ReportsInv, ReportsTypeOK
<1>7. OneJudge'
  BY <1>3, <1>4 DEF ReportsInv, OneJudge
<1>8. Mailed'
  <2> SUFFICES ASSUME NEW k \in Filed \ unanswered, status[k] \in Decision, status[k] \notin mails'[k]
               PROVE  \E q \in Judges :
                         judging'[q] = [at |-> "Answer", report |-> k, decision |-> status[k]]
    BY <1>3 DEF Mailed
  <2>1. status[k] \notin mails[k]
    BY <1>5
  <2>2. PICK q \in Judges : judging[q] = [at |-> "Answer", report |-> k, decision |-> status[k]]
    BY <2>1 DEF ReportsInv, Mailed
  <2>3. q # r
    BY <1>5, <2>2
  <2> QED
    BY <1>4, <2>2, <2>3
<1>9. LastMailed'
  <2>1. i \notin contested => status[i] = decision
    BY <1>3 DEF ReportsInv, LastMailed
  <2>2. \A k \in Filed \ (unanswered \cup contested) :
           status[k] \in Decision /\ k # i /\ lastMail[k] # status[k]
              => \E q \in Judges \ {r} : judging[q].at = "Answer" /\ judging[q].report = k
    BY DEF ReportsInv, LastMailed
  <2>3. judging'[r].at = "Idle"
    BY <1>4 DEF Idle
  <2> QED
    BY <1>3, <1>4, <1>5, <2>1, <2>2, <2>3 DEF ReportsInv, LastMailed
<1>10. RungWasMailed'
  BY <1>2, <1>3, <1>5 DEF ReportsInv, ReportsTypeOK, RungWasMailed
<1> QED
  BY <1>6, <1>7, <1>8, <1>9, <1>10 DEF ReportsInv

LEMMA Answering ==
    ASSUME ReportsTypeOK, NEW r \in Judges, judging[r].at = "Answer"
    PROVE  judging[r].report \in Filed /\ judging[r].decision \in Decision
<1>1. judging[r] \in Judging /\ judging[r] # Idle
  BY DEF ReportsTypeOK, Idle
<1> QED
  BY <1>1, JudgingFields

LEMMA OwedReports ==
    ASSUME NEW dead \in SUBSET Judges
    PROVE  /\ \A r \in dead : judging[r].at = "Answer" => judging[r].report \in Owed(dead)
           /\ ReportsTypeOK => Owed(dead) \subseteq Filed
<1>1. ReportsTypeOK => \A r \in dead : judging[r].at = "Answer" => judging[r].report \in Filed
  BY Answering
<1> QED
  BY <1>1 DEF Owed

LEMMA CreateReportKeeps ==
    ASSUME ReportsInv, NEW i \in Filed, CreateReport(i), UNCHANGED width
    PROVE  ReportsInv'
<1>1. /\ status[i] = "None" /\ status' = [status EXCEPT ![i] = "Waiting"]
      /\ UNCHANGED <<width, judging, mails, lastMail, ringing, rung, unanswered, contested, decisions, judgeDeaths>>
  BY DEF CreateReport
<1>2. /\ status' \in [Filed -> {"None", "Waiting"} \cup Decision]
      /\ status[i] \notin Decision /\ status'[i] \notin Decision
      /\ \A k \in Filed \ {i} : status'[k] = status[k]
  BY <1>1 DEF ReportsInv, ReportsTypeOK, Decision
<1>3. ReportsTypeOK'
  BY <1>1, <1>2 DEF ReportsInv, ReportsTypeOK
<1>4. OneJudge' /\ RungWasMailed'
  BY <1>1 DEF ReportsInv, OneJudge, RungWasMailed
<1>5. Mailed'
  BY <1>1, <1>2 DEF ReportsInv, Mailed
<1>6. LastMailed'
  <2>1. \A r \in Judges : judging[r].at = "Answer" =>
           judging[r].report \in Filed /\ judging[r].decision \in Decision
    BY Answering DEF ReportsInv
  <2> QED
    BY <1>1, <1>2, <2>1 DEF ReportsInv, LastMailed
<1> QED
  BY <1>3, <1>4, <1>5, <1>6 DEF ReportsInv

LEMMA RingKeeps ==
    ASSUME ReportsInv, NEW i \in Filed, Ring(i), UNCHANGED width
    PROVE  ReportsInv'
<1>1. /\ i \in ringing /\ ringing' = ringing \ {i} /\ rung' = rung \cup {i}
      /\ UNCHANGED <<width, status, judging, mails, lastMail, unanswered, contested, decisions, judgeDeaths>>
  BY DEF Ring
<1>2. ReportsTypeOK'
  BY <1>1 DEF ReportsInv, ReportsTypeOK
<1>3. OneJudge' /\ Mailed' /\ LastMailed' /\ RungWasMailed'
  BY <1>1 DEF ReportsInv, OneJudge, Mailed, LastMailed, RungWasMailed
<1> QED
  BY <1>2, <1>3 DEF ReportsInv

\* Some requests end; what they owe stays unanswered.
LEMMA JudgesEndKeep ==
    ASSUME ReportsInv, NEW dead \in SUBSET Judges,
           judging' \in [Judges -> Judging],
           \A r \in Judges : judging'[r] = IF r \in dead THEN Idle ELSE judging[r],
           unanswered' = unanswered \cup Owed(dead),
           ringing' \subseteq ringing, judgeDeaths' \in 0..MaxJudgeDeaths,
           UNCHANGED <<width, status, mails, lastMail, rung, contested, decisions>>
    PROVE  ReportsInv'
<1>1. Owed(dead) \subseteq Filed
  BY OwedReports DEF ReportsInv
<1>2. ReportsTypeOK'
  BY <1>1 DEF ReportsInv, ReportsTypeOK
<1>3. OneJudge'
  BY DEF ReportsInv, OneJudge
<1>4. Mailed'
  <2> SUFFICES ASSUME NEW i \in Filed \ unanswered', status[i] \in Decision, status[i] \notin mails[i]
               PROVE  \E q \in Judges :
                         judging'[q] = [at |-> "Answer", report |-> i, decision |-> status[i]]
    BY DEF Mailed
  <2>1. PICK q \in Judges : judging[q] = [at |-> "Answer", report |-> i, decision |-> status[i]]
    BY DEF ReportsInv, Mailed
  <2>2. q \notin dead
    BY <2>1 DEF Owed
  <2> QED
    BY <2>1, <2>2
<1>5. LastMailed'
  <2>1. ASSUME NEW i \in Filed \ (unanswered' \cup contested), status[i] \in Decision, lastMail[i] # status[i]
        PROVE  \E q \in Judges : judging'[q].at = "Answer" /\ judging'[q].report = i
    <3>1. PICK q \in Judges : judging[q].at = "Answer" /\ judging[q].report = i
      BY <2>1 DEF ReportsInv, LastMailed
    <3>2. q \notin dead
      BY <2>1, <3>1 DEF Owed
    <3> QED
      BY <3>1, <3>2
  <2>2. \A q \in Judges : judging'[q].at = "Answer" => judging'[q] = judging[q]
    BY DEF Idle
  <2> QED
    BY <2>1, <2>2 DEF ReportsInv, LastMailed
<1>6. RungWasMailed'
  BY DEF ReportsInv, RungWasMailed
<1> QED
  BY <1>2, <1>3, <1>4, <1>5, <1>6 DEF ReportsInv

LEMMA ReportsInvNext == ReportsInv /\ [ReportsNext]_reportVars => ReportsInv'
<1> SUFFICES ASSUME ReportsInv, [ReportsNext]_reportVars
             PROVE  ReportsInv'
  OBVIOUS
<1>0. Idle \in Judging /\ judging \in [Judges -> Judging]
  BY DEF Judging, ReportsInv, ReportsTypeOK
<1>1. CASE UNCHANGED reportVars
  BY <1>1 DEF reportVars, ReportsInv, ReportsTypeOK, OneJudge, Mailed, LastMailed, RungWasMailed
<1>2. CASE ReportsNext
  <2>0. UNCHANGED width
    BY <1>2 DEF ReportsNext
  <2>1. CASE \E r \in Judges, i \in Filed, decision \in Decision : BeginResolve(r, i, decision)
    BY <2>0, <2>1, BeginResolveKeeps
  <2>2. CASE \E r \in Judges : ResolveReport(r) \/ AnswerReporter(r)
    BY <2>0, <2>2, ResolveReportKeeps, AnswerReporterKeeps
  <2>3. CASE \E i \in Filed : CreateReport(i) \/ Ring(i)
    BY <2>0, <2>3, CreateReportKeeps, RingKeeps
  <2>4. ASSUME NEW r \in Judges, JudgeDies(r)
        PROVE  ReportsInv'
    <3>1. \A q \in Judges : judging'[q] = IF q \in {r} THEN Idle ELSE judging[q]
      BY <1>0, <2>4 DEF JudgeDies, JudgeGoto
    <3>2. judging' \in [Judges -> Judging]
      BY <1>0, <2>4 DEF JudgeDies, JudgeGoto
    <3>3. judgeDeaths' \in 0..MaxJudgeDeaths
      BY <2>4 DEF JudgeDies, ReportsInv, ReportsTypeOK
    <3> QED
      BY <2>0, <2>4, <3>1, <3>2, <3>3, JudgesEndKeep DEF JudgeDies
  <2>5. CASE RingFails
    <3>1. \A q \in Judges : judging'[q] = IF q \in Judges THEN Idle ELSE judging[q]
      BY <2>5 DEF RingFails
    <3>2. judging' \in [Judges -> Judging]
      BY <1>0, <2>5 DEF RingFails
    <3>3. judgeDeaths' \in 0..MaxJudgeDeaths
      BY <2>5 DEF RingFails, ReportsInv, ReportsTypeOK
    <3> QED
      BY <2>0, <2>5, <3>1, <3>2, <3>3, JudgesEndKeep DEF RingFails
  <2> QED
    BY <1>2, <2>1, <2>2, <2>3, <2>4, <2>5 DEF ReportsNext
<1> QED
  BY <1>1, <1>2

(***************************************************************************)
(* Decisions, mails and notifications keep their types, however many       *)
(* decisions overlap and whatever ends the process.                        *)
(***************************************************************************)
THEOREM ReportsTypeCorrect == ReportsSpec => []ReportsTypeOK
<1>1. ReportsInv => ReportsTypeOK
  BY DEF ReportsInv
<1> QED
  BY <1>1, ReportsInvInit, ReportsInvNext, PTL DEF ReportsSpec

(***************************************************************************)
(* When no decision about a report is under way and none died before its   *)
(* mail, its reporter was mailed the decision that stands, last of all     *)
(* unless two requests had the report in hand at a time; and whose bell    *)
(* rings was mailed.                                                       *)
(***************************************************************************)
THEOREM DecisionsCorrect == ReportsSpec => []DecisionMailed
<1>1. ReportsInv => DecisionMailed
  <2> SUFFICES ASSUME ReportsInv, NEW i \in Filed \ (unanswered \cup Owed(Judges)), status[i] \in Decision
               PROVE  status[i] \in mails[i] /\ (i \notin contested => lastMail[i] = status[i])
    BY DEF DecisionMailed, ReportsInv, RungWasMailed
  <2>1. \A r \in Judges : judging[r].at = "Answer" => judging[r].report # i
    <3>1. Judges \in SUBSET Judges
      OBVIOUS
    <3>2. \A r \in Judges : judging[r].at = "Answer" => judging[r].report \in Owed(Judges)
      BY <3>1, OwedReports
    <3> QED
      BY <3>2
  <2>2. status[i] \in mails[i]
    <3> SUFFICES ASSUME status[i] \notin mails[i]
                 PROVE  FALSE
      OBVIOUS
    <3>1. PICK r \in Judges : judging[r] = [at |-> "Answer", report |-> i, decision |-> status[i]]
      BY DEF ReportsInv, Mailed
    <3>2. judging[r].at = "Answer" /\ judging[r].report = i
      BY <3>1
    <3> QED
      BY <2>1, <3>2
  <2>3. i \notin contested => lastMail[i] = status[i]
    BY <2>1 DEF ReportsInv, LastMailed
  <2> QED
    BY <2>2, <2>3
<1> QED
  BY <1>1, ReportsInvInit, ReportsInvNext, PTL DEF ReportsSpec

-----------------------------------------------------------------------------
(* Carts *)

\* One request at a time: what it has read is still so.
OneClerk ==
    width = 1 =>
        /\ \A r, q \in Clerks : trading[r] # Idle /\ trading[q] # Idle => r = q
        /\ \A r \in Clerks : trading[r] # Idle => trading[r].product = product

\* Entry e was there when some deletion of its product began.
Outlived(e) == \E n \in 1..Len(swept) : swept[n] = entries[e] /\ since[e] < n

\* One request at a time, an entry names the product, or one whose deletion it
\* outlived; while a deletion is about to commit, it has outlived that.
EntriesInTime ==
    width = 1 =>
        \A e \in Lists \X Buyers :
            entries[e] # NoProduct =>
                \/ Outlived(e)
                \/ entries[e] = product /\ \A r \in Clerks : trading[r].at # "Commit"

\* What was there when a deletion began is still to be swept, or was kept by a
\* failure.
SweptOrKept ==
    \A e \in Lists \X Buyers, n \in 1..Len(swept) :
        swept[n] = entries[e] /\ since[e] < n =>
            \/ [list |-> e[1], nr |-> n, product |-> swept[n]] \in sweeps
            \/ <<e[1], e[2], entries[e]>> \in unswept

CartsInv == CartsTypeOK /\ OneClerk /\ EntriesInTime /\ SweptOrKept

LEMMA CartsInvInit == CartsInit => CartsInv
<1> SUFFICES ASSUME CartsInit
             PROVE  CartsInv
  OBVIOUS
<1>1. /\ product = NoProduct /\ lastProduct = 0 /\ sweeps = {} /\ unswept = {} /\ swept = <<>>
      /\ entries = [e \in Lists \X Buyers |-> NoProduct] /\ since = [e \in Lists \X Buyers |-> 0]
      /\ trading = [r \in Clerks |-> Idle] /\ cartDeaths = 0 /\ width \in 1..MaxWidth
  BY DEF CartsInit, ServingInit
<1>2. CartsTypeOK
  BY <1>1 DEF CartsTypeOK, Trading, NoProduct
<1>3. OneClerk /\ EntriesInTime
  BY <1>1 DEF OneClerk, EntriesInTime
<1>4. SweptOrKept
  BY <1>1 DEF SweptOrKept
<1> QED
  BY <1>2, <1>3, <1>4 DEF CartsInv

LEMMA TradingFields ==
    ASSUME NEW point \in Trading
    PROVE  /\ point # Idle => point.product \in ProductId
           /\ point.at \in {"Add", "Remove"} => point.list \in Lists /\ point.buyer \in Buyers
  BY DEF Trading, Idle

LEMMA TradeGotoType ==
    ASSUME CartsTypeOK, NEW r \in Clerks, NEW point \in Trading, TradeGoto(r, point)
    PROVE  /\ trading' \in [Clerks -> Trading] /\ trading'[r] = point
           /\ \A q \in Clerks \ {r} : trading'[q] = trading[q]
  BY DEF CartsTypeOK, TradeGoto

LEMMA BeginTradeKeeps ==
    ASSUME CartsInv, NEW r \in Clerks, NEW point \in Trading, BeginTrade(r, point), UNCHANGED width,
           point.product = product, point.at # "Commit"
    PROVE  CartsInv'
<1>1. /\ trading[r] = Idle /\ MayServe(trading) /\ TradeGoto(r, point)
      /\ UNCHANGED <<width, product, lastProduct, entries, sweeps, since, unswept, swept, cartDeaths>>
  BY DEF BeginTrade, MayTrade
<1>2. /\ trading' \in [Clerks -> Trading] /\ trading'[r] = point
      /\ \A q \in Clerks \ {r} : trading'[q] = trading[q]
  BY <1>1, TradeGotoType DEF CartsInv
<1>3. CartsTypeOK'
  BY <1>1, <1>2 DEF CartsInv, CartsTypeOK
<1>4. OneClerk'
  <2>0. trading \in [Clerks -> Trading] /\ IsFiniteSet(Clerks)
    BY DEF CartsInv, CartsTypeOK
  <2>1. width = 1 => \A q \in Clerks : trading[q] = Idle
    BY <1>1, <2>0, ServedAlone
  <2> QED
    BY <1>1, <1>2, <2>1 DEF OneClerk
<1>5. EntriesInTime'
  <2>1. (\A q \in Clerks : trading[q].at # "Commit") => \A q \in Clerks : trading'[q].at # "Commit"
    BY <1>2
  <2>2. \A e \in Lists \X Buyers : Outlived(e)' = Outlived(e)
    BY <1>1 DEF Outlived
  <2> QED
    BY <1>1, <2>1, <2>2 DEF CartsInv, EntriesInTime
<1>6. SweptOrKept'
  BY <1>1 DEF CartsInv, SweptOrKept
<1> QED
  BY <1>3, <1>4, <1>5, <1>6 DEF CartsInv

\* A handler writes one entry: for a product it has read, or none.
LEMMA WriteKeeps ==
    ASSUME CartsInv, NEW r \in Clerks, trading[r].at \in {"Add", "Remove"},
           NEW p \in {NoProduct, trading[r].product}, NEW n \in 0..Len(swept),
           p # NoProduct => n = Len(swept),
           entries' = [entries EXCEPT ![<<trading[r].list, trading[r].buyer>>] = p],
           since' = [since EXCEPT ![<<trading[r].list, trading[r].buyer>>] = n],
           TradeGoto(r, Idle),
           UNCHANGED <<width, product, lastProduct, sweeps, unswept, swept, cartDeaths>>
    PROVE  CartsInv'
<1> DEFINE w == <<trading[r].list, trading[r].buyer>>
<1>1. trading[r] \in Trading /\ trading[r] # Idle /\ Idle \in Trading /\ Idle.at = "Idle"
  BY DEF CartsInv, CartsTypeOK, Trading, Idle
<1>2. w \in Lists \X Buyers /\ trading[r].product \in ProductId /\ NoProduct \notin ProductId
  BY <1>1, TradingFields DEF NoProduct, ProductId
<1>3. /\ trading' \in [Clerks -> Trading] /\ trading'[r] = Idle
      /\ \A q \in Clerks \ {r} : trading'[q] = trading[q]
  BY <1>1, TradeGotoType DEF CartsInv
<1>4. /\ entries' \in [Lists \X Buyers -> ProductId \cup {NoProduct}]
      /\ since' \in [Lists \X Buyers -> 0..Len(swept)]
      /\ entries'[w] = p /\ since'[w] = n
      /\ \A e \in (Lists \X Buyers) \ {w} : entries'[e] = entries[e] /\ since'[e] = since[e]
  BY <1>2 DEF CartsInv, CartsTypeOK
<1> HIDE DEF w
<1>5. CartsTypeOK'
  BY <1>3, <1>4 DEF CartsInv, CartsTypeOK
<1>6. OneClerk'
  BY <1>1, <1>3 DEF CartsInv, OneClerk
<1>7. \A k \in 1..Len(swept) : swept[k] \in ProductId
  BY ElementOfSeq DEF CartsInv, CartsTypeOK
<1>8. EntriesInTime'
  <2> SUFFICES ASSUME width = 1, NEW e \in Lists \X Buyers, entries'[e] # NoProduct
               PROVE  \/ Outlived(e)'
                      \/ entries'[e] = product /\ \A q \in Clerks : trading'[q].at # "Commit"
    BY DEF EntriesInTime
  <2>1. \A q \in Clerks : trading'[q].at # "Commit"
    BY <1>1, <1>3 DEF CartsInv, OneClerk
  <2>2. CASE e = w
    BY <1>1, <1>4, <2>1, <2>2 DEF CartsInv, OneClerk
  <2>3. CASE e # w
    <3>1. Outlived(e)' = Outlived(e)
      BY <1>4, <2>3 DEF Outlived
    <3> QED
      BY <1>4, <2>1, <2>3, <3>1 DEF CartsInv, EntriesInTime
  <2> QED
    BY <2>2, <2>3
<1>9. SweptOrKept'
  <2> SUFFICES ASSUME NEW e \in Lists \X Buyers, NEW k \in 1..Len(swept),
                      swept[k] = entries'[e], since'[e] < k
               PROVE  \/ [list |-> e[1], nr |-> k, product |-> swept[k]] \in sweeps
                      \/ <<e[1], e[2], entries'[e]>> \in unswept
    BY DEF SweptOrKept
  <2>0. Len(swept) \in Nat
    BY DEF CartsInv, CartsTypeOK
  <2>1. e # w
    BY <1>2, <1>4, <1>7, <2>0
  <2> QED
    BY <1>4, <2>1 DEF CartsInv, SweptOrKept
<1> QED
  BY <1>5, <1>6, <1>8, <1>9 DEF CartsInv

\* Only the handlers change, and some of them become idle.
LEMMA ClerksEndKeep ==
    ASSUME CartsInv, trading' \in [Clerks -> Trading],
           \A r \in Clerks : trading'[r] = trading[r] \/ trading'[r] = Idle,
           cartDeaths' \in 0..MaxCartDeaths,
           UNCHANGED <<width, product, lastProduct, entries, sweeps, since, unswept, swept>>
    PROVE  CartsInv'
<1>1. CartsTypeOK'
  BY DEF CartsInv, CartsTypeOK
<1>2. OneClerk'
  BY DEF CartsInv, OneClerk
<1>3. EntriesInTime'
  <2>1. (\A q \in Clerks : trading[q].at # "Commit") => \A q \in Clerks : trading'[q].at # "Commit"
    BY DEF Idle
  <2>2. \A e \in Lists \X Buyers : Outlived(e)' = Outlived(e)
    BY DEF Outlived
  <2> QED
    BY <2>1, <2>2 DEF CartsInv, EntriesInTime
<1>4. SweptOrKept'
  BY DEF CartsInv, SweptOrKept
<1> QED
  BY <1>1, <1>2, <1>3, <1>4 DEF CartsInv

\* Sweeps that end with the process count what they leave as kept.
LEMMA CartsServerDiesKeeps ==
    ASSUME CartsInv, CartsServerDies, UNCHANGED width
    PROVE  CartsInv'
<1> DEFINE dead == {e \in Entry : entries[<<e[1], e[2]>>] = e[3] /\ \E s \in sweeps : s.list = e[1]}
<1>1. /\ dead \subseteq Entry /\ unswept' = unswept \cup dead /\ sweeps' = {}
      /\ trading' = [r \in Clerks |-> Idle] /\ Idle \in Trading
      /\ UNCHANGED <<width, product, lastProduct, entries, since, swept>>
  BY DEF CartsServerDies, Trading
<1>2. CartsTypeOK'
  BY <1>1 DEF CartsServerDies, CartsInv, CartsTypeOK
<1>3. OneClerk'
  BY <1>1 DEF OneClerk
<1>4. EntriesInTime'
  <2>1. \A q \in Clerks : trading'[q].at # "Commit"
    BY <1>1 DEF Idle
  <2>2. \A e \in Lists \X Buyers : Outlived(e)' = Outlived(e)
    BY <1>1 DEF Outlived
  <2> QED
    BY <1>1, <2>1, <2>2 DEF CartsInv, EntriesInTime
<1>5. SweptOrKept'
  <2> SUFFICES ASSUME NEW e \in Lists \X Buyers, NEW n \in 1..Len(swept), swept[n] = entries[e], since[e] < n
               PROVE  <<e[1], e[2], entries[e]>> \in unswept'
    BY <1>1 DEF SweptOrKept
  <2>1. \/ [list |-> e[1], nr |-> n, product |-> swept[n]] \in sweeps
        \/ <<e[1], e[2], entries[e]>> \in unswept
    BY DEF CartsInv, SweptOrKept
  <2>2. CASE [list |-> e[1], nr |-> n, product |-> swept[n]] \in sweeps
    <3>1. PICK l \in Lists, b \in Buyers : e = <<l, b>>
      OBVIOUS
    <3>2. swept[n] \in ProductId
      BY ElementOfSeq DEF CartsInv, CartsTypeOK
    <3>3. <<l, b, entries[e]>> \in Entry /\ entries[<<l, b>>] = entries[e]
      BY <3>1, <3>2 DEF Entry
    <3>4. \E s \in sweeps : s.list = l
      BY <2>2, <3>1
    <3>5. <<l, b, entries[e]>> \in dead
      BY <3>3, <3>4
    <3> QED
      BY <1>1, <3>1, <3>5
  <2> QED
    BY <1>1, <2>1, <2>2
<1> QED
  BY <1>2, <1>3, <1>4, <1>5 DEF CartsInv

LEMMA CreateProductKeeps ==
    ASSUME CartsInv, CreateProductWithCode, UNCHANGED width
    PROVE  CartsInv'
<1>1. /\ product = NoProduct /\ lastProduct < MaxProducts /\ product' = lastProduct + 1
      /\ lastProduct' = product'
      /\ UNCHANGED <<width, entries, trading, sweeps, since, unswept, swept, cartDeaths>>
  BY DEF CreateProductWithCode
<1>2. CartsTypeOK'
  BY <1>1 DEF CartsInv, CartsTypeOK
<1>3. width = 1 => \A r \in Clerks : trading[r] = Idle
  <2>1. \A r \in Clerks : trading[r] # Idle => trading[r].product # NoProduct
    BY TradingFields DEF CartsInv, CartsTypeOK, ProductId, NoProduct
  <2> QED
    BY <1>1, <2>1 DEF CartsInv, OneClerk
<1>4. OneClerk'
  BY <1>1, <1>3 DEF OneClerk
<1>5. EntriesInTime'
  <2>1. \A e \in Lists \X Buyers : Outlived(e)' = Outlived(e)
    BY <1>1 DEF Outlived
  <2> QED
    BY <1>1, <2>1 DEF CartsInv, EntriesInTime
<1>6. SweptOrKept'
  BY <1>1 DEF CartsInv, SweptOrKept
<1> QED
  BY <1>2, <1>4, <1>5, <1>6 DEF CartsInv

\* Every entry of the product outlives the deletion that begins, and is to be swept.
LEMMA DeleteRowKeeps ==
    ASSUME CartsInv, NEW r \in Clerks, DeleteRow(r), UNCHANGED width
    PROVE  CartsInv'
<1> DEFINE p == trading[r].product
           point == [at |-> "Commit", product |-> p]
           n == Len(swept) + 1
<1>1. trading[r] \in Trading /\ trading[r] # Idle /\ trading[r].at = "Delete" /\ Idle \in Trading
  BY DEF CartsInv, CartsTypeOK, DeleteRow, Trading, Idle
<1>2. p \in ProductId /\ point \in Trading /\ point # Idle /\ point.product = p
  BY <1>1, TradingFields DEF Trading, Idle
<1>3. swept \in Seq(ProductId) /\ Len(swept) \in Nat /\ n \in Nat
  BY DEF CartsInv, CartsTypeOK
<1>4. CASE product = p
  <2>1. /\ sweeps' = sweeps \cup [list : Lists, nr : {n}, product : {p}]
        /\ swept' = Append(swept, p) /\ TradeGoto(r, point)
        /\ UNCHANGED <<width, product, lastProduct, entries, since, unswept, cartDeaths>>
    BY <1>4 DEF DeleteRow, ListsSwept
  <2> HIDE DEF point
  <2>2. /\ trading' \in [Clerks -> Trading] /\ trading'[r] = point
        /\ \A q \in Clerks \ {r} : trading'[q] = trading[q]
    BY <1>2, <2>1, TradeGotoType DEF CartsInv
  <2>3. /\ swept' \in Seq(ProductId) /\ Len(swept') = n /\ swept'[n] = p
        /\ \A k \in 1..Len(swept) : swept'[k] = swept[k]
        /\ 1..Len(swept') = (1..Len(swept)) \cup {n}
    BY <1>2, <1>3, <2>1, AppendProperties
  <2>4. /\ sweeps' \subseteq Sweep /\ sweeps \subseteq sweeps'
        /\ \A list \in Lists : [list |-> list, nr |-> n, product |-> p] \in sweeps'
    BY <1>2, <1>3, <2>1 DEF CartsInv, CartsTypeOK, Sweep
  <2>5. \A e \in Lists \X Buyers : since[e] \in 0..Len(swept)
    BY DEF CartsInv, CartsTypeOK
  <2>6. CartsTypeOK'
    <3>1. since \in [Lists \X Buyers -> 0..Len(swept')]
      BY <1>3, <2>3 DEF CartsInv, CartsTypeOK
    <3> QED
      BY <2>1, <2>2, <2>3, <2>4, <3>1 DEF CartsInv, CartsTypeOK
  <2>7. OneClerk'
    BY <1>1, <1>2, <1>4, <2>1, <2>2 DEF CartsInv, OneClerk
  <2>8. EntriesInTime'
    <3> SUFFICES ASSUME width = 1, NEW e \in Lists \X Buyers, entries[e] # NoProduct
                 PROVE  Outlived(e)'
      BY <2>1 DEF EntriesInTime
    <3>1. CASE Outlived(e)
      <4>1. PICK k \in 1..Len(swept) : swept[k] = entries[e] /\ since[e] < k
        BY <3>1 DEF Outlived
      <4>2. k \in 1..Len(swept') /\ swept'[k] = entries'[e] /\ since'[e] < k
        BY <2>1, <2>3, <4>1
      <4> QED
        BY <4>2 DEF Outlived
    <3>2. CASE entries[e] = product
      <4>1. n \in 1..Len(swept') /\ swept'[n] = entries'[e] /\ since'[e] < n
        BY <1>3, <1>4, <2>1, <2>3, <2>5, <3>2
      <4> QED
        BY <4>1 DEF Outlived
    <3> QED
      BY <3>1, <3>2 DEF CartsInv, EntriesInTime
  <2>9. SweptOrKept'
    <3> SUFFICES ASSUME NEW e \in Lists \X Buyers, NEW k \in 1..Len(swept'),
                        swept'[k] = entries[e], since[e] < k
                 PROVE  \/ [list |-> e[1], nr |-> k, product |-> swept'[k]] \in sweeps'
                        \/ <<e[1], e[2], entries[e]>> \in unswept
      BY <2>1 DEF SweptOrKept
    <3>1. CASE k = n
      <4>1. e[1] \in Lists
        OBVIOUS
      <4> QED
        BY <2>3, <2>4, <3>1, <4>1
    <3>2. CASE k \in 1..Len(swept)
      BY <2>3, <2>4, <3>2 DEF CartsInv, SweptOrKept
    <3> QED
      BY <2>3, <3>1, <3>2
  <2> QED
    BY <2>6, <2>7, <2>8, <2>9 DEF CartsInv
<1>5. CASE product # p
  <2>1. /\ TradeGoto(r, Idle) /\ cartDeaths' \in 0..MaxCartDeaths
        /\ UNCHANGED <<width, product, lastProduct, entries, sweeps, since, unswept, swept>>
    BY <1>5 DEF DeleteRow, CartsInv, CartsTypeOK
  <2>2. /\ trading' \in [Clerks -> Trading]
        /\ \A q \in Clerks : trading'[q] = trading[q] \/ trading'[q] = Idle
    BY <1>1, <2>1, TradeGotoType DEF CartsInv
  <2> QED
    BY <2>1, <2>2, ClerksEndKeep
<1> QED
  BY <1>4, <1>5

LEMMA DeleteCommitKeeps ==
    ASSUME CartsInv, NEW r \in Clerks, DeleteCommit(r), UNCHANGED width
    PROVE  CartsInv'
<1>1. /\ trading[r].at = "Commit" /\ trading[r] # Idle /\ Idle \in Trading
      /\ product' = NoProduct /\ TradeGoto(r, Idle)
      /\ UNCHANGED <<width, lastProduct, entries, sweeps, since, unswept, swept, cartDeaths>>
  BY DEF DeleteCommit, Idle, Trading
<1>2. /\ trading' \in [Clerks -> Trading] /\ trading'[r] = Idle
      /\ \A q \in Clerks \ {r} : trading'[q] = trading[q]
  BY <1>1, TradeGotoType DEF CartsInv
<1>3. CartsTypeOK'
  BY <1>1, <1>2 DEF CartsInv, CartsTypeOK
<1>4. OneClerk'
  BY <1>1, <1>2 DEF CartsInv, OneClerk
<1>5. EntriesInTime'
  <2>1. \A e \in Lists \X Buyers : Outlived(e)' = Outlived(e)
    BY <1>1 DEF Outlived
  <2> QED
    BY <1>1, <2>1 DEF CartsInv, EntriesInTime
<1>6. SweptOrKept'
  BY <1>1 DEF CartsInv, SweptOrKept
<1> QED
  BY <1>3, <1>4, <1>5, <1>6 DEF CartsInv

LEMMA SweepUsersKeeps ==
    ASSUME CartsInv, NEW s \in sweeps, SweepUsers(s), UNCHANGED width
    PROVE  CartsInv'
<1> DEFINE holders == {b \in Buyers : entries[<<s.list, b>>] # NoProduct}
           newcomers == {b \in holders : since[<<s.list, b>>] >= s.nr}
<1>1. /\ sweeps' = sweeps \ {s}
      /\ UNCHANGED <<width, product, lastProduct, trading, swept>>
  BY DEF SweepUsers
<1>2. PICK missed \in SUBSET newcomers, failing \in SUBSET holders :
        /\ failing # {} => cartDeaths < MaxCartDeaths
        /\ cartDeaths' = IF failing = {} THEN cartDeaths ELSE cartDeaths + 1
        /\ LET removed == {s.list} \X (holders \ (missed \cup failing)) IN
           /\ entries' = [e \in Lists \X Buyers |-> IF e \in removed THEN NoProduct ELSE entries[e]]
           /\ since' = [e \in Lists \X Buyers |-> IF e \in removed THEN 0 ELSE since[e]]
        /\ unswept' = unswept \cup {<<s.list, b, entries[<<s.list, b>>]>> : b \in failing}
  BY DEF SweepUsers
<1> DEFINE removed == {s.list} \X (holders \ (missed \cup failing))
           kept == {<<s.list, b, entries[<<s.list, b>>]>> : b \in failing}
<1>3. /\ \A e \in Lists \X Buyers : entries'[e] = IF e \in removed THEN NoProduct ELSE entries[e]
      /\ \A e \in Lists \X Buyers : since'[e] = IF e \in removed THEN 0 ELSE since[e]
      /\ unswept' = unswept \cup kept
  BY <1>2
<1>4. s \in Sweep /\ s.list \in Lists /\ s.nr \in Nat /\ s.product \in ProductId
  BY DEF CartsInv, CartsTypeOK, Sweep
<1>5. kept \subseteq Entry
  <2>1. ASSUME NEW b \in failing
        PROVE  <<s.list, b, entries[<<s.list, b>>]>> \in Entry
    <3>1. b \in Buyers /\ entries[<<s.list, b>>] # NoProduct
      BY <1>2
    <3>2. <<s.list, b>> \in Lists \X Buyers
      BY <1>4, <3>1
    <3>3. entries[<<s.list, b>>] \in ProductId
      BY <3>1, <3>2 DEF CartsInv, CartsTypeOK
    <3> QED
      BY <1>4, <3>1, <3>3 DEF Entry
  <2> QED
    BY <2>1
<1>6. CartsTypeOK'
  <2>1. entries' \in [Lists \X Buyers -> ProductId \cup {NoProduct}]
    BY <1>2 DEF CartsInv, CartsTypeOK
  <2>2. since' \in [Lists \X Buyers -> 0..Len(swept')]
    BY <1>1, <1>2 DEF CartsInv, CartsTypeOK
  <2>3. cartDeaths' \in 0..MaxCartDeaths
    BY <1>2 DEF CartsInv, CartsTypeOK
  <2> QED
    BY <1>1, <1>3, <1>5, <2>1, <2>2, <2>3 DEF CartsInv, CartsTypeOK
<1>7. OneClerk'
  BY <1>1 DEF CartsInv, OneClerk
<1>8. EntriesInTime'
  <2> SUFFICES ASSUME width = 1, NEW e \in Lists \X Buyers, entries'[e] # NoProduct
               PROVE  \/ Outlived(e)'
                      \/ entries'[e] = product /\ \A q \in Clerks : trading[q].at # "Commit"
    BY <1>1 DEF EntriesInTime
  <2>1. entries'[e] = entries[e] /\ since'[e] = since[e]
    BY <1>3
  <2>2. Outlived(e)' = Outlived(e)
    BY <1>1, <2>1 DEF Outlived
  <2> QED
    BY <2>1, <2>2 DEF CartsInv, EntriesInTime
<1>9. SweptOrKept'
  <2> SUFFICES ASSUME NEW e \in Lists \X Buyers, NEW n \in 1..Len(swept), swept[n] = entries'[e], since'[e] < n
               PROVE  \/ [list |-> e[1], nr |-> n, product |-> swept[n]] \in sweeps'
                      \/ <<e[1], e[2], entries'[e]>> \in unswept'
    BY <1>1 DEF SweptOrKept
  <2>1. swept[n] \in ProductId
    BY ElementOfSeq DEF CartsInv, CartsTypeOK
  <2>2. e \notin removed /\ entries'[e] = entries[e] /\ since'[e] = since[e]
    BY <1>3, <2>1 DEF ProductId, NoProduct
  <2>3. \/ [list |-> e[1], nr |-> n, product |-> swept[n]] \in sweeps
        \/ <<e[1], e[2], entries[e]>> \in unswept
    BY <2>2 DEF CartsInv, SweptOrKept
  <2>4. CASE s = [list |-> e[1], nr |-> n, product |-> swept[n]]
    <3>1. PICK b \in Buyers : e = <<s.list, b>>
      BY <2>4
    <3>2. s.nr = n /\ since[<<s.list, b>>] < s.nr /\ entries[<<s.list, b>>] # NoProduct
      BY <2>1, <2>2, <2>4, <3>1 DEF ProductId, NoProduct
    <3>3. since[e] \in Nat
      BY DEF CartsInv, CartsTypeOK
    <3>4. b \in holders /\ b \notin newcomers
      BY <1>4, <3>1, <3>2, <3>3
    <3>5. b \in failing
      BY <2>2, <3>1, <3>4
    <3> QED
      BY <1>3, <2>2, <3>1, <3>5
  <2>5. CASE s # [list |-> e[1], nr |-> n, product |-> swept[n]]
    BY <1>1, <1>3, <2>2, <2>3, <2>5
  <2> QED
    BY <2>4, <2>5
<1> QED
  BY <1>6, <1>7, <1>8, <1>9 DEF CartsInv

LEMMA CartsInvNext == CartsInv /\ [CartsNext]_cartVars => CartsInv'
<1> SUFFICES ASSUME CartsInv, [CartsNext]_cartVars
             PROVE  CartsInv'
  OBVIOUS
<1>1. CASE UNCHANGED cartVars
  <2>1. \A e \in Lists \X Buyers : Outlived(e)' = Outlived(e)
    BY <1>1 DEF cartVars, Outlived
  <2> QED
    BY <1>1, <2>1 DEF cartVars, CartsInv, CartsTypeOK, OneClerk, EntriesInTime, SweptOrKept
<1>2. CASE CartsNext
  <2>0. UNCHANGED width /\ Idle \in Trading
    BY <1>2 DEF CartsNext, Trading
  <2>1. ASSUME NEW r \in Clerks, NEW list \in Lists, NEW b \in Buyers,
               AddProduct(r, list, b) \/ RemoveProduct(r, list, b)
        PROVE  CartsInv'
    <3>1. PICK kind \in {"Add", "Remove"} :
            BeginTrade(r, [at |-> kind, list |-> list, buyer |-> b, product |-> product])
      BY <2>1 DEF AddProduct, RemoveProduct
    <3> DEFINE point == [at |-> kind, list |-> list, buyer |-> b, product |-> product]
    <3>2. product \in ProductId
      BY <3>1 DEF BeginTrade, CartsInv, CartsTypeOK, ProductId, NoProduct
    <3>3. point \in Trading /\ point.product = product /\ point.at # "Commit"
      BY <3>2 DEF Trading
    <3> HIDE DEF point
    <3>4. BeginTrade(r, point)
      BY <3>1 DEF point
    <3> QED
      BY <2>0, <3>3, <3>4, BeginTradeKeeps
  <2>2. ASSUME NEW r \in Clerks, DeleteProduct(r)
        PROVE  CartsInv'
    <3> DEFINE point == [at |-> "Delete", product |-> product]
    <3>1. product \in ProductId
      BY <2>2 DEF DeleteProduct, BeginTrade, CartsInv, CartsTypeOK, ProductId, NoProduct
    <3>2. point \in Trading /\ point.product = product /\ point.at # "Commit"
      BY <3>1 DEF Trading
    <3>3. BeginTrade(r, point)
      BY <2>2 DEF DeleteProduct
    <3> HIDE DEF point
    <3> QED
      BY <2>0, <3>2, <3>3, BeginTradeKeeps
  <2>3. ASSUME NEW r \in Clerks, AddWrite(r)
        PROVE  CartsInv'
    <3>1. Len(swept) \in 0..Len(swept)
      BY DEF CartsInv, CartsTypeOK
    <3> QED
      BY <2>0, <2>3, <3>1, WriteKeeps DEF AddWrite
  <2>4. ASSUME NEW r \in Clerks, RemoveWrite(r)
        PROVE  CartsInv'
    <3>1. 0 \in 0..Len(swept)
      BY DEF CartsInv, CartsTypeOK
    <3> QED
      BY <2>0, <2>4, <3>1, WriteKeeps DEF RemoveWrite
  <2>5. CASE \E r \in Clerks : DeleteRow(r) \/ DeleteCommit(r)
    BY <2>0, <2>5, DeleteRowKeeps, DeleteCommitKeeps
  <2>6. ASSUME NEW r \in Clerks, ClerkDies(r)
        PROVE  CartsInv'
    <3>1. /\ trading' \in [Clerks -> Trading]
          /\ \A q \in Clerks : trading'[q] = trading[q] \/ trading'[q] = Idle
      BY <2>0, <2>6, TradeGotoType DEF ClerkDies, CartsInv
    <3>2. cartDeaths' \in 0..MaxCartDeaths
      BY <2>6 DEF ClerkDies, CartsInv, CartsTypeOK
    <3> QED
      BY <2>0, <2>6, <3>1, <3>2, ClerksEndKeep DEF ClerkDies
  <2>7. CASE CartsServerDies
    BY <2>0, <2>7, CartsServerDiesKeeps
  <2>8. CASE \E s \in sweeps : SweepUsers(s)
    BY <2>0, <2>8, SweepUsersKeeps
  <2>9. CASE CreateProductWithCode
    BY <2>0, <2>9, CreateProductKeeps
  <2> QED
    BY <1>2, <2>1, <2>2, <2>3, <2>4, <2>5, <2>6, <2>7, <2>8, <2>9 DEF CartsNext
<1> QED
  BY <1>1, <1>2

(***************************************************************************)
(* Entries, sweeps and deletions keep their types, whatever fails.         *)
(***************************************************************************)
THEOREM CartsTypeCorrect == CartsSpec => []CartsTypeOK
<1>1. CartsInv => CartsTypeOK
  BY DEF CartsInv
<1> QED
  BY <1>1, CartsInvInit, CartsInvNext, PTL DEF CartsSpec

(***************************************************************************)
(* An entry of a deleted product is about to be swept, or was kept by a    *)
(* failure, or was written by a request that overtook the deletion, which  *)
(* no request does when they are served one at a time.                     *)
(***************************************************************************)
THEOREM DeadEntriesCorrect == CartsSpec => []DeadEntriesExplained
<1>1. CartsInv => DeadEntriesExplained
  <2> SUFFICES ASSUME CartsInv, NEW l \in Lists, NEW b \in Buyers, Dead(l, b),
                      ~(\E s \in sweeps : s.list = l /\ s.product = entries[<<l, b>>]),
                      <<l, b, entries[<<l, b>>]>> \notin unswept
               PROVE  width # 1 /\ \A n \in 1..Len(swept) :
                                      swept[n] = entries[<<l, b>>] => since[<<l, b>>] >= n
    BY LenProperties DEF DeadEntriesExplained, Alone, CartsInv, CartsTypeOK
  <2> DEFINE e == <<l, b>>
  <2>1. e \in Lists \X Buyers /\ e[1] = l /\ e[2] = b
    OBVIOUS
  <2>2. since[e] \in Nat
    BY <2>1 DEF CartsInv, CartsTypeOK
  <2>3. ASSUME NEW n \in 1..Len(swept), swept[n] = entries[e], since[e] < n
        PROVE  FALSE
    <3>1. [list |-> l, nr |-> n, product |-> swept[n]] \notin sweeps
      BY <2>3
    <3> QED
      BY <2>1, <2>3, <3>1 DEF CartsInv, SweptOrKept
  <2>4. \A n \in 1..Len(swept) : swept[n] = entries[e] => since[e] >= n
    <3> SUFFICES ASSUME NEW n \in 1..Len(swept), swept[n] = entries[e]
                 PROVE  since[e] >= n
      OBVIOUS
    <3>1. ~(since[e] < n)
      BY <2>3
    <3>2. n \in Int
      OBVIOUS
    <3> HIDE DEF e
    <3> QED
      BY <2>2, <3>1, <3>2
  <2>5. width # 1
    <3>1. ~Outlived(e)
      BY <2>3 DEF Outlived
    <3>2. entries[e] # NoProduct /\ entries[e] # product
      BY DEF Dead
    <3> QED
      BY <2>1, <3>1, <3>2 DEF CartsInv, EntriesInTime
  <2> QED
    BY <2>4, <2>5
<1> QED
  BY <1>1, CartsInvInit, CartsInvNext, PTL DEF CartsSpec

-----------------------------------------------------------------------------
(* Chats *)

Calling == {"Snapshot", "Write"}

\* What a handler has read or been given stays true until its next step.
ChatterOK(r) ==
    LET req == chatting[r] IN
    /\ req.at \in {"Upload", "FileRow"} => req.room \in rooms
    /\ req.at \in Calling =>
          /\ req.message.id <= sent /\ req.message.time <= lastTime /\ req.message \notin messages
          /\ \A q \in Chatters \ {r} : chatting[q].at \in Calling => chatting[q].message # req.message
          /\ req.message.file => req.message.room \in rooms
    /\ req.at = "Write" =>
          /\ req.snapshot \subseteq InRoom(req.message.room, messages)
          /\ req.message.file => req.existed
    /\ req.at = "Push" =>
          req.message \in messages /\ req.newest \in messages /\ req.newest.room = req.message.room

MessagesCounted ==
    /\ IsFiniteSet(messages)
    /\ \A m \in messages : m.id <= sent /\ m.time <= lastTime

\* The request that wrote message m is about to push m itself.
OnItsWay(m) == \E r \in Chatters : chatting[r].at = "Push" /\ chatting[r].message = m /\ chatting[r].newest = m

\* Of the newest messages of a room, the one written first does not see the
\* others: its request pushes it.
NewestOnItsWay ==
    \A c \in Customers :
        InRoom(c, messages) # {} => \E m \in Newest(InRoom(c, messages)) : Seen(m) \/ OnItsWay(m)

\* One request at a time, times increase and every message is pushed.
OneChatter ==
    width = 1 =>
        /\ \A r, q \in Chatters : chatting[r] # Idle /\ chatting[q] # Idle => r = q
        /\ \A r \in Chatters, m \in messages :
              chatting[r].at \in Calling => m.time < chatting[r].message.time
        /\ \A m \in messages : Seen(m) \/ OnItsWay(m)

ChatsInv ==
    /\ ChatsTypeOK /\ MessagesCounted /\ (\A r \in Chatters : ChatterOK(r))
    /\ PrivateMessages /\ NewestOnItsWay /\ OneChatter

LEMMA ChattingFields ==
    ASSUME NEW point \in Chatting
    PROVE  /\ point.at \in {"CreateRoom", "Upload", "FileRow"} =>
                 /\ point.room \in Customers /\ point.by \in {"Customer", "Admin"}
                 /\ \A next \in {"CreateRoom", "Upload", "FileRow"} :
                       /\ [point EXCEPT !.at = next] \in Chatting
                       /\ [point EXCEPT !.at = next].at = next
                       /\ [point EXCEPT !.at = next].room = point.room
           /\ point.at \in {"Snapshot", "Write", "Push"} => point.message \in Message
           /\ point.at = "Write" => point.existed \in BOOLEAN /\ point.snapshot \in SUBSET Message
           /\ point.at = "Push" => point.newest \in Message
  BY DEF Chatting, Idle

LEMMA MessageFields ==
    ASSUME NEW m \in Message
    PROVE  /\ m.id \in 1..MaxMessages /\ m.time \in 1..MaxMessages /\ m.room \in Customers
           /\ m.by \in {"Customer", "Admin"} /\ m.file \in BOOLEAN
  BY DEF Message

LEMMA ChatGotoType ==
    ASSUME ChatsTypeOK, NEW r \in Chatters, NEW point \in Chatting, ChatGoto(r, point)
    PROVE  /\ chatting' \in [Chatters -> Chatting] /\ chatting'[r] = point
           /\ \A q \in Chatters \ {r} : chatting'[q] = chatting[q]
  BY DEF ChatsTypeOK, ChatGoto

LEMMA ChatsInvInit == ChatsInit => ChatsInv
<1> SUFFICES ASSUME ChatsInit
             PROVE  ChatsInv
  OBVIOUS
<1>1. /\ rooms = {} /\ messages = {} /\ sent = 0 /\ lastTime = 0 /\ objects = 0 /\ chatDeaths = 0
      /\ chatting = [r \in Chatters |-> Idle] /\ shown = [u \in Users |-> {}] /\ unseen = {}
      /\ width \in 1..MaxWidth /\ admins \subseteq Admins
  BY DEF ChatsInit, ServingInit
<1>2. \A r \in Chatters : chatting[r] = Idle /\ chatting[r].at = "Idle"
  BY <1>1 DEF Idle
<1>3. ChatsTypeOK
  BY <1>1 DEF ChatsTypeOK, Chatting, Users
<1>4. MessagesCounted
  BY <1>1, FS_EmptySet DEF MessagesCounted
<1>5. \A r \in Chatters : ChatterOK(r)
  BY <1>2 DEF ChatterOK, Calling
<1>6. PrivateMessages /\ NewestOnItsWay /\ OneChatter
  BY <1>1, <1>2 DEF PrivateMessages, NewestOnItsWay, OneChatter, Users, InRoom
<1> QED
  BY <1>3, <1>4, <1>5, <1>6 DEF ChatsInv

\* A handler moves on before its message is written.
LEMMA ChatMovesKeeps ==
    ASSUME ChatsInv, NEW r \in Chatters, NEW point \in Chatting, ChatGoto(r, point),
           rooms \subseteq rooms', rooms' \subseteq Customers, objects' \in Nat,
           chatting[r].at \notin Calling, chatting[r].at # "Push",
           point.at \notin Calling, point.at # "Push",
           point.at \in {"Upload", "FileRow"} => point.room \in rooms',
           width = 1 => \A q \in Chatters \ {r} : chatting[q] = Idle,
           UNCHANGED <<width, admins, messages, sent, lastTime, shown, unseen, chatDeaths>>
    PROVE  ChatsInv'
<1>1. /\ chatting' \in [Chatters -> Chatting] /\ chatting'[r] = point
      /\ \A q \in Chatters \ {r} : chatting'[q] = chatting[q]
  BY ChatGotoType DEF ChatsInv
<1>2. ChatsTypeOK'
  BY <1>1 DEF ChatsInv, ChatsTypeOK, Users
<1>3. MessagesCounted' /\ PrivateMessages'
  BY DEF ChatsInv, MessagesCounted, PrivateMessages
<1>4. ASSUME NEW q \in Chatters
      PROVE  ChatterOK(q)'
  <2>1. CASE q = r
    BY <1>1, <2>1 DEF ChatterOK, Calling
  <2>2. CASE q # r
    <3>1. chatting'[q] = chatting[q] /\ ChatterOK(q)
      BY <1>1, <2>2 DEF ChatsInv
    <3>2. \A p \in Chatters : chatting'[p].at \in Calling => chatting[p] = chatting'[p]
      BY <1>1
    <3> QED
      BY <3>1, <3>2 DEF ChatterOK
  <2> QED
    BY <2>1, <2>2
<1>5. \A m : (Seen(m) => Seen(m)') /\ (OnItsWay(m) => OnItsWay(m)')
  BY <1>1 DEF Seen, Readers, OnItsWay
<1>6. NewestOnItsWay'
  BY <1>5 DEF ChatsInv, NewestOnItsWay
<1>7. OneChatter'
  BY <1>1, <1>5 DEF ChatsInv, OneChatter
<1> QED
  BY <1>2, <1>3, <1>4, <1>6, <1>7 DEF ChatsInv

\* prisma is called with a message that gets the next id and this time.
Called(r, c, file, m, time) ==
    /\ m.id = sent + 1 /\ m.time = time /\ m.room = c /\ m.file = file
    /\ sent' = sent + 1 /\ lastTime' = time
    /\ \/ time = lastTime + 1
       \/ time = lastTime /\ \E q \in Chatters \ {r} : chatting[q] # Idle
    /\ ChatGoto(r, [at |-> "Snapshot", message |-> m])

\* A fresh message is later than all when nothing overlaps.
LEMMA FreshMessage ==
    ASSUME ChatsTypeOK, NEW r \in Chatters, NEW c \in Customers, NEW by \in {"Customer", "Admin"},
           NEW file \in BOOLEAN, CallUpdate(r, c, by, file)
    PROVE  \E m \in Message, time \in 1..sent + 1 : Called(r, c, file, m, time)
<1>1. PICK time \in {lastTime + 1} \cup (IF SameTime(r) THEN {lastTime} ELSE {}) :
        /\ sent' = sent + 1 /\ lastTime' = time
        /\ ChatGoto(r, [at |-> "Snapshot",
               message |-> [id |-> sent', time |-> time, room |-> c, by |-> by, file |-> file]])
  BY DEF CallUpdate
<1> DEFINE m == [id |-> sent', time |-> time, room |-> c, by |-> by, file |-> file]
<1>2. sent < MaxMessages /\ sent \in Nat /\ lastTime \in 0..sent /\ MaxMessages \in Nat
  BY ChatsAssumption DEF CallUpdate, ChatsTypeOK
<1>3. SameTime(r) => lastTime > 0 /\ \E q \in Chatters \ {r} : chatting[q] # Idle
  <2> SUFFICES ASSUME NEW q \in Chatters \ {r}, chatting[q].at \in {"Snapshot", "Write", "Push"},
                      chatting[q].message.time = lastTime
               PROVE  lastTime > 0 /\ chatting[q] # Idle
    BY DEF SameTime
  <2>1. lastTime \in 1..MaxMessages
    BY ChattingFields, MessageFields DEF ChatsTypeOK
  <2>2. chatting[q] # Idle
    BY DEF Idle
  <2> QED
    BY <2>1, <2>2
<1>4. time = lastTime + 1 \/ (time = lastTime /\ SameTime(r))
  <2>1. CASE SameTime(r)
    <3>1. time \in {lastTime + 1} \cup {lastTime}
      BY <2>1
    <3> QED
      BY <2>1, <3>1
  <2>2. CASE ~SameTime(r)
    <3>1. time \in {lastTime + 1} \cup {}
      BY <2>2
    <3> QED
      BY <3>1
  <2> QED
    BY <2>1, <2>2
<1>5. ChatGoto(r, [at |-> "Snapshot", message |-> m])
  BY <1>1
<1>6. sent' = sent + 1 /\ lastTime' = time
  BY <1>1
<1>7. time \in 1..sent + 1
  <2> HIDE DEF m
  <2>1. CASE time = lastTime + 1
    BY <1>2, <2>1
  <2>2. CASE time = lastTime /\ SameTime(r)
    BY <1>2, <1>3, <2>2
  <2> QED
    BY <1>4, <2>1, <2>2
<1>8. m \in Message /\ m.id = sent + 1 /\ m.time = time /\ m.room = c /\ m.file = file
  <2>1. sent' \in 1..MaxMessages /\ time \in 1..MaxMessages
    BY <1>2, <1>6, <1>7
  <2> QED
    BY <1>6, <2>1 DEF Message
<1> HIDE DEF m
<1>9. Called(r, c, file, m, time)
  BY <1>3, <1>4, <1>5, <1>6, <1>8 DEF Called
<1> QED
  BY <1>7, <1>8, <1>9

LEMMA CallUpdateKeeps ==
    ASSUME ChatsInv, NEW r \in Chatters, NEW c \in Customers, NEW by \in {"Customer", "Admin"},
           NEW file \in BOOLEAN, CallUpdate(r, c, by, file), file => c \in rooms,
           chatting[r].at \notin Calling, chatting[r].at # "Push",
           width = 1 => \A q \in Chatters \ {r} : chatting[q] = Idle,
           UNCHANGED <<width, admins, objects>>
    PROVE  ChatsInv'
<1>0. PICK m \in Message, time \in 1..sent + 1 : Called(r, c, file, m, time)
  BY FreshMessage DEF ChatsInv
<1>1. /\ m.id = sent + 1 /\ m.time = time /\ m.room = c /\ m.file = file
      /\ sent' = sent + 1 /\ lastTime' = time
      /\ \/ time = lastTime + 1
         \/ time = lastTime /\ \E q \in Chatters \ {r} : chatting[q] # Idle
      /\ ChatGoto(r, [at |-> "Snapshot", message |-> m])
  BY <1>0 DEF Called
<1> DEFINE point == [at |-> "Snapshot", message |-> m]
<1>2. /\ sent < MaxMessages /\ sent \in Nat /\ lastTime \in 0..sent
      /\ UNCHANGED <<width, admins, rooms, messages, shown, unseen, objects, chatDeaths>>
  BY DEF CallUpdate, ChatsInv, ChatsTypeOK
<1>3. time = lastTime + 1 \/ (time = lastTime /\ width # 1)
  BY <1>1
<1>4. m.id = sent + 1 /\ m.time = time /\ m.room = c /\ m.file = file
  BY <1>1
<1>5. point \in Chatting /\ point.at = "Snapshot" /\ point.message = m
  BY DEF Chatting
<1>6. ChatGoto(r, point) /\ sent' = sent + 1 /\ lastTime' = time /\ lastTime <= time
  BY <1>1, <1>2
<1> HIDE DEF point
<1>7. /\ chatting' \in [Chatters -> Chatting] /\ chatting'[r] = point
      /\ \A q \in Chatters \ {r} : chatting'[q] = chatting[q]
  BY <1>5, <1>6, ChatGotoType DEF ChatsInv
<1>8. ChatsTypeOK'
  BY <1>2, <1>3, <1>6, <1>7 DEF ChatsInv, ChatsTypeOK, Users
<1>9. \A n \in messages : n.id \in Nat /\ n.time \in Nat /\ n.id <= sent /\ n.time <= lastTime
  BY MessageFields DEF ChatsInv, ChatsTypeOK, MessagesCounted
<1>10. MessagesCounted' /\ PrivateMessages'
  BY <1>2, <1>3, <1>6, <1>9 DEF ChatsInv, MessagesCounted, PrivateMessages
<1>11. m \notin messages
  BY <1>2, <1>4, <1>9
<1>12. ASSUME NEW q \in Chatters \ {r}, chatting[q].at \in Calling
       PROVE  /\ chatting[q].message # m /\ chatting[q].message.id <= sent'
              /\ chatting[q].message.time <= lastTime'
  <2>0. chatting[q].message \in Message
    BY <1>12, ChattingFields DEF ChatsInv, ChatsTypeOK, Calling
  <2>1. chatting[q].message.id \in Nat /\ chatting[q].message.time \in Nat
    BY <2>0, MessageFields
  <2>2. chatting[q].message.id <= sent /\ chatting[q].message.time <= lastTime
    BY <1>12 DEF ChatsInv, ChatterOK
  <2> QED
    BY <1>2, <1>3, <1>4, <1>6, <2>1, <2>2
<1>13. ASSUME NEW q \in Chatters
       PROVE  ChatterOK(q)'
  <2>1. CASE q = r
    BY <1>2, <1>3, <1>4, <1>5, <1>6, <1>7, <1>11, <1>12, <2>1 DEF ChatterOK
  <2>2. CASE q # r
    <3>1. chatting'[q] = chatting[q] /\ ChatterOK(q)
      BY <1>7, <2>2 DEF ChatsInv
    <3>2. \A p \in Chatters \ {q} : chatting'[p].at \in Calling /\ chatting[q].at \in Calling =>
             chatting'[p].message # chatting[q].message
      BY <1>5, <1>7, <1>12, <2>2, <3>1 DEF ChatterOK
    <3> QED
      BY <1>2, <1>12, <2>2, <3>1, <3>2 DEF ChatterOK
  <2> QED
    BY <2>1, <2>2
<1>14. \A n : (Seen(n) => Seen(n)') /\ (OnItsWay(n) => OnItsWay(n)')
  BY <1>2, <1>7 DEF Seen, Readers, OnItsWay
<1>15. NewestOnItsWay'
  BY <1>2, <1>14 DEF ChatsInv, NewestOnItsWay
<1>16. OneChatter'
  <2> SUFFICES ASSUME width = 1 PROVE OneChatter'
    BY <1>2 DEF OneChatter
  <2>1. \A q \in Chatters \ {r} : chatting'[q] = Idle /\ chatting'[q].at = "Idle"
    BY <1>7 DEF Idle
  <2>2. \A n \in messages : n.time < time
    BY <1>2, <1>3, <1>9
  <2>3. chatting'[r].message.time = time
    BY <1>4, <1>5, <1>7
  <2> QED
    BY <1>2, <1>7, <1>14, <2>1, <2>2, <2>3 DEF ChatsInv, OneChatter, Calling
<1> QED
  BY <1>8, <1>10, <1>13, <1>15, <1>16 DEF ChatsInv

LEMMA SnapshotTaken ==
    ASSUME ChatsTypeOK, NEW r \in Chatters, TakeSnapshot(r)
    PROVE  \E point \in Chatting :
              /\ ChatGoto(r, point) /\ point.at = "Write" /\ point.message = chatting[r].message
              /\ point.snapshot = InRoom(chatting[r].message.room, messages)
              /\ point.existed <=> chatting[r].message.room \in rooms
<1> DEFINE m == chatting[r].message
           existed == m.room \in rooms
           snapshot == InRoom(m.room, messages)
           point == [at |-> "Write", message |-> m, existed |-> existed, snapshot |-> snapshot]
<1>1. chatting[r].at = "Snapshot" /\ ChatGoto(r, point)
  BY DEF TakeSnapshot
<1>2. m \in Message /\ messages \subseteq Message
  BY <1>1, ChattingFields DEF ChatsTypeOK
<1>3. existed \in BOOLEAN /\ snapshot \in SUBSET Message
  BY <1>2 DEF InRoom
<1> HIDE DEF m, existed, snapshot
<1>4. /\ point \in Chatting /\ point.at = "Write" /\ point.message = m /\ point.snapshot = snapshot
      /\ point.existed = existed
  BY <1>2, <1>3 DEF Chatting
<1> HIDE DEF point
<1> QED
  BY <1>1, <1>4 DEF m, existed, snapshot

LEMMA TakeSnapshotKeeps ==
    ASSUME ChatsInv, NEW r \in Chatters, TakeSnapshot(r), UNCHANGED <<width, admins>>
    PROVE  ChatsInv'
<1>1. /\ chatting[r].at = "Snapshot"
      /\ UNCHANGED <<width, admins, rooms, messages, sent, lastTime, shown, unseen, objects, chatDeaths>>
  BY DEF TakeSnapshot
<1>2. PICK m : m = chatting[r].message
  OBVIOUS
<1>3. PICK point \in Chatting :
        /\ ChatGoto(r, point) /\ point.at = "Write" /\ point.message = m
        /\ point.snapshot = InRoom(m.room, messages) /\ (point.existed <=> m.room \in rooms)
  BY <1>2, SnapshotTaken DEF ChatsInv
<1>4. m \in Message
  BY <1>1, <1>2, ChattingFields DEF ChatsInv, ChatsTypeOK
<1>5. /\ chatting' \in [Chatters -> Chatting] /\ chatting'[r] = point
      /\ \A q \in Chatters \ {r} : chatting'[q] = chatting[q]
  BY <1>3, ChatGotoType DEF ChatsInv
<1>6. ChatsTypeOK'
  BY <1>1, <1>5 DEF ChatsInv, ChatsTypeOK, Users
<1>7. MessagesCounted' /\ PrivateMessages'
  BY <1>1 DEF ChatsInv, MessagesCounted, PrivateMessages
<1>8. \A q \in Chatters : /\ chatting'[q].at \in Calling <=> chatting[q].at \in Calling
                          /\ chatting[q].at \in Calling => chatting'[q].message = chatting[q].message
  BY <1>1, <1>2, <1>3, <1>5 DEF Calling
<1>9. ASSUME NEW q \in Chatters
      PROVE  ChatterOK(q)'
  <2>1. ChatterOK(q)
    BY DEF ChatsInv
  <2>2. CASE q = r
    <3>1. /\ chatting'[r].at = "Write" /\ chatting'[r].message = m
          /\ chatting'[r].snapshot = InRoom(m.room, messages)
          /\ chatting'[r].existed <=> m.room \in rooms
      BY <1>3, <1>5
    <3>2. m.file => m.room \in rooms
      BY <1>1, <1>2, <2>1, <2>2 DEF ChatterOK, Calling
    <3> QED
      BY <1>1, <1>8, <2>1, <2>2, <3>1, <3>2 DEF ChatterOK, InRoom
  <2>3. CASE q # r
    BY <1>1, <1>5, <1>8, <2>1, <2>3 DEF ChatterOK, InRoom
  <2> QED
    BY <2>2, <2>3
<1>10. \A n : (Seen(n) => Seen(n)') /\ (OnItsWay(n) => OnItsWay(n)')
  BY <1>1, <1>5 DEF Seen, Readers, OnItsWay
<1>11. NewestOnItsWay'
  BY <1>1, <1>10 DEF ChatsInv, NewestOnItsWay
<1>12. OneChatter'
  <2>1. chatting[r] # Idle
    BY <1>1 DEF Idle
  <2> QED
    BY <1>1, <1>5, <1>8, <1>10, <2>1 DEF ChatsInv, OneChatter
<1> QED
  BY <1>6, <1>7, <1>9, <1>11, <1>12 DEF ChatsInv

\* A request ends, without a message or before it could push it.
LEMMA ChatEndsKeeps ==
    ASSUME ChatsInv, NEW r \in Chatters, ChatGoto(r, Idle),
           unseen' = IF chatting[r].at = "Push" THEN unseen \cup {chatting[r].message} ELSE unseen,
           chatDeaths' \in 0..MaxChatDeaths, objects' \in Nat,
           UNCHANGED <<width, admins, rooms, messages, sent, lastTime, shown>>
    PROVE  ChatsInv'
<1>0. Idle \in Chatting /\ Idle.at = "Idle"
  BY DEF Chatting, Idle
<1>1. /\ chatting' \in [Chatters -> Chatting] /\ chatting'[r] = Idle
      /\ \A q \in Chatters \ {r} : chatting'[q] = chatting[q]
  BY <1>0, ChatGotoType DEF ChatsInv
<1>2. chatting[r].at = "Push" => chatting[r].message \in messages
  BY DEF ChatsInv, ChatterOK
<1>3. ChatsTypeOK'
  BY <1>1, <1>2 DEF ChatsInv, ChatsTypeOK, Users
<1>4. MessagesCounted' /\ PrivateMessages'
  BY DEF ChatsInv, MessagesCounted, PrivateMessages
<1>5. ASSUME NEW q \in Chatters
      PROVE  ChatterOK(q)'
  <2>1. CASE q = r
    BY <1>0, <1>1, <2>1 DEF ChatterOK, Calling
  <2>2. CASE q # r
    <3>1. chatting'[q] = chatting[q] /\ ChatterOK(q)
      BY <1>1, <2>2 DEF ChatsInv
    <3>2. \A p \in Chatters : chatting'[p].at \in Calling => chatting[p] = chatting'[p]
      BY <1>0, <1>1 DEF Calling
    <3> QED
      BY <3>1, <3>2 DEF ChatterOK
  <2> QED
    BY <2>1, <2>2
<1>6. ASSUME NEW m, Seen(m) \/ OnItsWay(m)
      PROVE  Seen(m)' \/ OnItsWay(m)'
  <2>1. CASE Seen(m)
    BY <2>1 DEF Seen, Readers
  <2>2. CASE OnItsWay(m)
    <3>1. PICK q \in Chatters :
            chatting[q].at = "Push" /\ chatting[q].message = m /\ chatting[q].newest = m
      BY <2>2 DEF OnItsWay
    <3>2. CASE q = r
      BY <3>1, <3>2 DEF Seen, Readers
    <3>3. CASE q # r
      BY <1>1, <3>1, <3>3 DEF OnItsWay
    <3> QED
      BY <3>2, <3>3
  <2> QED
    BY <1>6, <2>1, <2>2
<1>7. NewestOnItsWay'
  BY <1>6 DEF ChatsInv, NewestOnItsWay
<1>8. OneChatter'
  BY <1>0, <1>1, <1>6 DEF ChatsInv, OneChatter, Calling
<1> QED
  BY <1>3, <1>4, <1>5, <1>7, <1>8 DEF ChatsInv

\* A message is written after those its request has seen: if it is later than
\* all of its room it is the newest the request reads, and pushes.
LEMMA WriteMessageKeeps ==
    ASSUME ChatsInv, NEW r \in Chatters, WriteMessage(r), UNCHANGED <<width, admins>>
    PROVE  ChatsInv'
<1>0. PICK m : m = chatting[r].message
  OBVIOUS
<1>1. /\ chatting[r].at = "Write"
      /\ UNCHANGED <<width, admins, sent, lastTime, shown, unseen, objects, chatDeaths>>
  BY DEF WriteMessage
<1>2. CASE RoomRefused(r)
  <2>1. ChatGoto(r, Idle) /\ UNCHANGED <<rooms, messages>>
    BY <1>2 DEF WriteMessage
  <2>2. chatDeaths' \in 0..MaxChatDeaths /\ objects' \in Nat
    BY <1>1 DEF ChatsInv, ChatsTypeOK
  <2> QED
    BY <1>1, <2>1, <2>2, ChatEndsKeeps
<1>3. CASE ~RoomRefused(r)
  <2>1. PICK newest \in Newest(chatting[r].snapshot \cup {m}) :
          /\ rooms' = rooms \cup {m.room} /\ messages' = messages \cup {m}
          /\ ChatGoto(r, [at |-> "Push", message |-> m, newest |-> newest])
    BY <1>0, <1>3 DEF WriteMessage
  <2> DEFINE point == [at |-> "Push", message |-> m, newest |-> newest]
  <2>2. m \in Message /\ messages \subseteq Message
    BY <1>0, <1>1, ChattingFields DEF ChatsInv, ChatsTypeOK
  <2>3. /\ m.id <= sent /\ m.time <= lastTime /\ m \notin messages
        /\ chatting[r].snapshot \subseteq InRoom(m.room, messages)
        /\ \A q \in Chatters \ {r} : chatting[q].at \in Calling => chatting[q].message # m
    BY <1>0, <1>1 DEF ChatsInv, ChatterOK, Calling
  <2>4. /\ newest \in chatting[r].snapshot \cup {m}
        /\ \A n \in chatting[r].snapshot \cup {m} : n.time <= newest.time
    BY DEF Newest
  <2>5. newest \in messages' /\ newest.room = m.room /\ newest \in Message
    BY <2>1, <2>2, <2>3, <2>4 DEF InRoom
  <2>6. ChatGoto(r, point) /\ messages' = messages \cup {m} /\ rooms' = rooms \cup {m.room}
    BY <2>1
  <2>7. point \in Chatting /\ point.at = "Push" /\ point.message = m /\ point.newest = newest
    BY <2>2, <2>5 DEF Chatting
  <2> HIDE DEF point
  <2>8. /\ chatting' \in [Chatters -> Chatting] /\ chatting'[r] = point
        /\ \A q \in Chatters \ {r} : chatting'[q] = chatting[q]
    BY <2>6, <2>7, ChatGotoType DEF ChatsInv
  <2>9. ChatsTypeOK'
    <3>1. rooms' \subseteq Customers /\ messages' \subseteq Message /\ unseen' \subseteq messages'
      BY <1>1, <2>2, <2>6, MessageFields DEF ChatsInv, ChatsTypeOK
    <3>2. shown' \in [Users -> SUBSET messages']
      BY <1>1, <2>6 DEF ChatsInv, ChatsTypeOK, Users
    <3> QED
      BY <1>1, <2>8, <3>1, <3>2 DEF ChatsInv, ChatsTypeOK, Users
  <2>10. MessagesCounted'
    <3>1. IsFiniteSet(messages')
      BY <2>6, FS_AddElement DEF ChatsInv, MessagesCounted
    <3> QED
      BY <1>1, <2>3, <2>6, <3>1 DEF ChatsInv, MessagesCounted
  <2>11. PrivateMessages'
    BY <1>1 DEF ChatsInv, PrivateMessages
  <2>12. ASSUME NEW q \in Chatters
         PROVE  ChatterOK(q)'
    <3>1. CASE q = r
      BY <2>5, <2>6, <2>7, <2>8, <3>1 DEF ChatterOK, Calling
    <3>2. CASE q # r
      <4>1. chatting'[q] = chatting[q] /\ ChatterOK(q)
        BY <2>8, <3>2 DEF ChatsInv
      <4>2. \A p \in Chatters : chatting'[p].at \in Calling => chatting[p] = chatting'[p]
        BY <2>7, <2>8 DEF Calling
      <4>3. chatting[q].at \in Calling => chatting[q].message \notin messages'
        BY <2>3, <2>6, <3>2, <4>1 DEF ChatterOK
      <4>4. rooms \subseteq rooms' /\ messages \subseteq messages'
        BY <2>6
      <4>5. \A c : InRoom(c, messages) \subseteq InRoom(c, messages')
        BY <4>4 DEF InRoom
      <4>6. InRoom(chatting[q].message.room, messages)' = InRoom(chatting'[q].message.room, messages')
        BY DEF InRoom
      <4> QED
        BY <1>1, <4>1, <4>2, <4>3, <4>4, <4>5, <4>6 DEF ChatterOK
    <3> QED
      BY <3>1, <3>2
  <2>13. \A n : (Seen(n) => Seen(n)') /\ (OnItsWay(n) => OnItsWay(n)')
    BY <1>1, <2>8 DEF Seen, Readers, OnItsWay
  <2>14. newest = m => OnItsWay(m)'
    BY <2>7, <2>8 DEF OnItsWay
  <2>15. \A n \in messages' : n.time \in Nat
    BY <2>2, <2>6, MessageFields
  <2>16. (\A n \in InRoom(m.room, messages) : n.time < m.time) => newest = m
    <3> SUFFICES ASSUME \A n \in InRoom(m.room, messages) : n.time < m.time, newest # m
                 PROVE  FALSE
      OBVIOUS
    <3>1. newest \in InRoom(m.room, messages) /\ m.time <= newest.time
      BY <2>3, <2>4
    <3>2. newest.time < m.time /\ m \in messages'
      BY <2>6, <3>1
    <3> QED
      BY <2>5, <2>15, <3>1, <3>2
  <2>17. NewestOnItsWay'
    <3> SUFFICES ASSUME NEW c \in Customers, InRoom(c, messages') # {}
                 PROVE  \E n \in Newest(InRoom(c, messages')) : Seen(n)' \/ OnItsWay(n)'
      BY DEF NewestOnItsWay
    <3> DEFINE talk == InRoom(c, messages)
    <3>1. CASE c # m.room
      <4>1. InRoom(c, messages') = talk
        BY <2>6, <3>1 DEF InRoom
      <4> QED
        BY <2>13, <4>1 DEF ChatsInv, NewestOnItsWay
    <3>2. CASE c = m.room
      <4>1. InRoom(c, messages') = talk \cup {m}
        BY <2>6, <3>2 DEF InRoom
      <4>2. CASE \A n \in talk : n.time < m.time
        <5>1. OnItsWay(m)'
          BY <2>14, <2>16, <3>2, <4>2
        <5>2. m \in Newest(talk \cup {m})
          <6>1. \A n \in talk \cup {m} : n.time <= m.time
            BY <2>6, <2>15, <4>2 DEF InRoom
          <6> QED
            BY <6>1 DEF Newest
        <5> QED
          BY <4>1, <5>1, <5>2
      <4>3. CASE \E n \in talk : ~(n.time < m.time)
        <5>1. PICK old \in Newest(talk) : Seen(old) \/ OnItsWay(old)
          BY <4>3 DEF ChatsInv, NewestOnItsWay
        <5>2. PICK n \in talk : ~(n.time < m.time)
          BY <4>3
        <5>3. old \in talk /\ \A o \in talk : o.time <= old.time
          BY DEF Newest
        <5>4. m.time <= old.time
          <6>1. m \in messages' /\ n \in messages' /\ old \in messages'
            BY <2>6, <5>3 DEF InRoom
          <6>2. m.time \in Nat /\ n.time \in Nat /\ old.time \in Nat /\ n.time <= old.time
            BY <2>15, <5>3, <6>1
          <6> QED
            BY <5>2, <6>2
        <5>5. old \in Newest(talk \cup {m})
          BY <5>3, <5>4 DEF Newest
        <5> QED
          BY <2>13, <4>1, <5>1, <5>5
      <4> QED
        BY <4>2, <4>3
    <3> QED
      BY <3>1, <3>2
  <2>18. OneChatter'
    <3> SUFFICES ASSUME width = 1 PROVE OneChatter'
      BY <1>1 DEF OneChatter
    <3>1. chatting[r] # Idle /\ chatting[r].at \in Calling
      BY <1>1 DEF Idle, Calling
    <3>2. \A q \in Chatters \ {r} : chatting'[q] = Idle /\ chatting'[q].at = "Idle"
      BY <2>8, <3>1 DEF ChatsInv, OneChatter, Idle
    <3>3. \A n \in messages : n.time < m.time
      BY <1>0, <3>1 DEF ChatsInv, OneChatter
    <3>4. OnItsWay(m)'
      BY <2>14, <2>16, <3>3 DEF InRoom
    <3>5. \A n \in messages' : Seen(n)' \/ OnItsWay(n)'
      BY <2>6, <2>13, <3>4 DEF ChatsInv, OneChatter
    <3>6. \A q \in Chatters : chatting'[q].at \notin Calling
      BY <2>7, <2>8, <3>2 DEF Calling
    <3> QED
      BY <3>2, <3>5, <3>6 DEF OneChatter
  <2> QED
    BY <2>9, <2>10, <2>11, <2>12, <2>17, <2>18 DEF ChatsInv
<1> QED
  BY <1>2, <1>3

\* What is pushed is read by those it is for, or lost to those who are away.
LEMMA PushKeeps ==
    ASSUME ChatsInv, NEW r \in Chatters, Push(r), UNCHANGED <<width, admins>>
    PROVE  ChatsInv'
<1>0. PICK m, newest : m = chatting[r].message /\ newest = chatting[r].newest
  OBVIOUS
<1> DEFINE addressed == Addressed(Channels(m))
<1>1. /\ chatting[r].at = "Push" /\ ChatGoto(r, Idle)
      /\ UNCHANGED <<width, admins, rooms, messages, sent, lastTime, objects, chatDeaths>>
  BY DEF Push
<1>2. PICK online \in SUBSET addressed :
        /\ shown' = [u \in Users |-> IF u \in online THEN shown[u] \cup {newest} ELSE shown[u]]
        /\ unseen' = IF online = addressed THEN unseen ELSE unseen \cup {newest}
  BY <1>0 DEF Push
<1>3. /\ m \in Message /\ m \in messages /\ newest \in messages /\ newest.room = m.room
  BY <1>0, <1>1, ChattingFields DEF ChatsInv, ChatsTypeOK, ChatterOK
<1>4. m.by \in {"Customer", "Admin"} /\ m.room \in Customers
  BY <1>3, MessageFields
<1>5. /\ addressed \subseteq Users /\ Readers(m) \subseteq addressed
      /\ admins # {} => addressed = IF m.by = "Customer" THEN admins ELSE {m.room}
  BY <1>4 DEF Addressed, Channels, Readers, Users
<1> HIDE DEF addressed
<1>6. Idle \in Chatting /\ Idle.at = "Idle"
  BY DEF Chatting, Idle
<1>7. /\ chatting' \in [Chatters -> Chatting] /\ chatting'[r] = Idle
      /\ \A q \in Chatters \ {r} : chatting'[q] = chatting[q]
  BY <1>1, <1>6, ChatGotoType DEF ChatsInv
<1>8. \A u \in Users : shown[u] \subseteq messages
  BY DEF ChatsInv, ChatsTypeOK
<1>9. ChatsTypeOK'
  <2>1. shown' \in [Users' -> SUBSET messages']
    BY <1>1, <1>2, <1>3, <1>8 DEF Users
  <2>2. unseen' \subseteq messages'
    BY <1>1, <1>2, <1>3 DEF ChatsInv, ChatsTypeOK
  <2> QED
    BY <1>1, <1>7, <2>1, <2>2 DEF ChatsInv, ChatsTypeOK
<1>10. MessagesCounted'
  BY <1>1 DEF ChatsInv, MessagesCounted
<1>11. PrivateMessages'
  <2> SUFFICES ASSUME admins # {}, NEW c \in Customers, NEW n \in shown'[c]
               PROVE  n.room = c
    BY <1>1 DEF PrivateMessages
  <2>1. c \in Users /\ c \notin admins
    BY ChatsAssumption DEF Users, ChatsInv, ChatsTypeOK
  <2>2. CASE n \in shown[c]
    BY <2>2 DEF ChatsInv, PrivateMessages
  <2>3. CASE n \notin shown[c]
    <3>1. c \in addressed /\ n = newest
      BY <1>2, <2>1, <2>3
    <3>2. c = m.room
      BY <1>5, <2>1, <3>1
    <3> QED
      BY <1>3, <3>1, <3>2
  <2> QED
    BY <2>2, <2>3
<1>12. ASSUME NEW q \in Chatters
       PROVE  ChatterOK(q)'
  <2>1. CASE q = r
    BY <1>6, <1>7, <2>1 DEF ChatterOK, Calling
  <2>2. CASE q # r
    <3>1. chatting'[q] = chatting[q] /\ ChatterOK(q)
      BY <1>7, <2>2 DEF ChatsInv
    <3>2. \A p \in Chatters : chatting'[p].at \in Calling => chatting[p] = chatting'[p]
      BY <1>6, <1>7 DEF Calling
    <3> QED
      BY <1>1, <3>1, <3>2 DEF ChatterOK
  <2> QED
    BY <2>1, <2>2
<1>13. ASSUME NEW n \in messages, Seen(n)
       PROVE  Seen(n)'
  <2>1. Readers(n) \subseteq Users
    BY MessageFields DEF Readers, Users, ChatsInv, ChatsTypeOK
  <2>2. \A u \in Users : shown[u] \subseteq shown'[u]
    BY <1>2
  <2>3. unseen \subseteq unseen'
    BY <1>2
  <2> QED
    BY <1>1, <1>13, <2>1, <2>2, <2>3 DEF Seen, Readers
<1>14. newest = m => Seen(m)'
  <2> SUFFICES ASSUME newest = m, m \notin unseen'
               PROVE  \A u \in Readers(m) : m \in shown'[u]
    BY <1>1 DEF Seen, Readers
  <2>1. online = addressed
    BY <1>2
  <2>2. Readers(m) \subseteq online /\ Readers(m) \subseteq Users
    BY <1>5, <2>1
  <2> QED
    BY <1>2, <2>2
<1>15. ASSUME NEW n \in messages, Seen(n) \/ OnItsWay(n)
       PROVE  Seen(n)' \/ OnItsWay(n)'
  <2>1. CASE Seen(n)
    BY <1>13, <2>1
  <2>2. CASE OnItsWay(n)
    <3>1. PICK q \in Chatters :
            chatting[q].at = "Push" /\ chatting[q].message = n /\ chatting[q].newest = n
      BY <2>2 DEF OnItsWay
    <3>2. CASE q = r
      BY <1>0, <1>14, <3>1, <3>2
    <3>3. CASE q # r
      BY <1>7, <3>1, <3>3 DEF OnItsWay
    <3> QED
      BY <3>2, <3>3
  <2> QED
    BY <1>15, <2>1, <2>2
<1>16. NewestOnItsWay'
  <2> SUFFICES ASSUME NEW c \in Customers, InRoom(c, messages) # {}
               PROVE  \E n \in Newest(InRoom(c, messages)) : Seen(n)' \/ OnItsWay(n)'
    BY <1>1 DEF NewestOnItsWay
  <2>1. PICK n \in Newest(InRoom(c, messages)) : Seen(n) \/ OnItsWay(n)
    BY DEF ChatsInv, NewestOnItsWay
  <2>2. n \in messages
    BY DEF Newest, InRoom
  <2> QED
    BY <1>15, <2>1, <2>2
<1>17. OneChatter'
  BY <1>1, <1>6, <1>7, <1>15 DEF ChatsInv, OneChatter, Calling
<1> QED
  BY <1>9, <1>10, <1>11, <1>12, <1>16, <1>17 DEF ChatsInv

LEMMA ChatsInvNext == ChatsInv /\ [ChatsNext]_chatVars => ChatsInv'
<1> SUFFICES ASSUME ChatsInv, [ChatsNext]_chatVars
             PROVE  ChatsInv'
  OBVIOUS
<1>1. CASE UNCHANGED chatVars
  <2>1. \A r \in Chatters : ChatterOK(r) => ChatterOK(r)'
    BY <1>1 DEF chatVars, ChatterOK
  <2>2. \A n : (Seen(n) => Seen(n)') /\ (OnItsWay(n) => OnItsWay(n)')
    BY <1>1 DEF chatVars, Seen, Readers, OnItsWay
  <2>3. ChatsTypeOK' /\ MessagesCounted' /\ PrivateMessages'
    BY <1>1 DEF chatVars, ChatsInv, ChatsTypeOK, Users, MessagesCounted, PrivateMessages
  <2>4. NewestOnItsWay' /\ OneChatter'
    BY <1>1, <2>2 DEF chatVars, ChatsInv, NewestOnItsWay, OneChatter
  <2> QED
    BY <2>1, <2>3, <2>4 DEF ChatsInv
<1>2. CASE ChatsNext
  <2>0. UNCHANGED <<width, admins>> /\ Idle \in Chatting
    BY <1>2 DEF ChatsNext, Chatting
  <2>1. ASSUME NEW r \in Chatters, MayChat(r)
        PROVE  /\ chatting[r] = Idle /\ chatting[r].at = "Idle"
               /\ width = 1 => \A q \in Chatters \ {r} : chatting[q] = Idle
    <3>1. chatting \in [Chatters -> Chatting] /\ IsFiniteSet(Chatters)
      BY ChatsAssumption DEF ChatsInv, ChatsTypeOK
    <3> QED
      BY <2>1, <3>1, ServedAlone DEF MayChat, Idle
  <2>2. ASSUME NEW r \in Chatters, chatting[r] # Idle, width = 1
        PROVE  \A q \in Chatters \ {r} : chatting[q] = Idle
    BY <2>2 DEF ChatsInv, OneChatter
  <2>3. ASSUME NEW r \in Chatters, NEW c \in Customers,
               CustomerSendTextMessage(r, c) \/ AdminSendTextMessage(r, c)
        PROVE  ChatsInv'
    <3>1. PICK by \in {"Customer", "Admin"} : CallUpdate(r, c, by, FALSE)
      BY <2>3 DEF CustomerSendTextMessage, AdminSendTextMessage
    <3>2. MayChat(r) /\ UNCHANGED objects
      BY <2>3 DEF CustomerSendTextMessage, AdminSendTextMessage
    <3> QED
      BY <2>0, <2>1, <3>1, <3>2, CallUpdateKeeps DEF Calling
  <2>4. ASSUME NEW r \in Chatters, NEW c \in Customers, NEW by \in {"Customer", "Admin"},
               SendFileMessage(r, c, by)
        PROVE  ChatsInv'
    <3>1. PICK next \in {"Upload", "CreateRoom"} :
            /\ next = IF c \in rooms THEN "Upload" ELSE "CreateRoom"
            /\ ChatGoto(r, [at |-> next, room |-> c, by |-> by])
      BY <2>4 DEF SendFileMessage
    <3> DEFINE point == [at |-> next, room |-> c, by |-> by]
    <3>2. point \in Chatting /\ point.at = next /\ point.room = c
      BY DEF Chatting
    <3>3. ChatGoto(r, point)
      BY <3>1
    <3> HIDE DEF point
    <3>4. /\ MayChat(r)
          /\ UNCHANGED <<rooms, messages, sent, lastTime, shown, unseen, objects, chatDeaths>>
      BY <2>4 DEF SendFileMessage
    <3>5. rooms' \subseteq Customers /\ objects' \in Nat
      BY <3>4 DEF ChatsInv, ChatsTypeOK
    <3>6. point.at \in {"Upload", "FileRow"} => point.room \in rooms'
      BY <3>1, <3>2, <3>4
    <3>7. point.at \notin Calling /\ point.at # "Push"
      BY <3>2 DEF Calling
    <3> QED
      BY <2>0, <2>1, <3>2, <3>3, <3>4, <3>5, <3>6, <3>7, ChatMovesKeeps DEF Calling
  <2>5. ASSUME NEW r \in Chatters, NEW c \in Customers, AdminCreateConversation(r, c)
        PROVE  ChatsInv'
    <3>1. /\ MayChat(r) /\ rooms' = rooms \cup {c}
          /\ UNCHANGED <<messages, sent, lastTime, chatting, shown, unseen, objects, chatDeaths>>
      BY <2>5 DEF AdminCreateConversation
    <3>2. ChatGoto(r, Idle)
      BY <2>1, <3>1 DEF ChatGoto, ChatsInv, ChatsTypeOK
    <3>3. rooms \subseteq rooms' /\ rooms' \subseteq Customers /\ objects' \in Nat
      BY <3>1 DEF ChatsInv, ChatsTypeOK
    <3>4. Idle.at = "Idle"
      BY DEF Idle
    <3> QED
      BY <2>0, <2>1, <3>1, <3>2, <3>3, <3>4, ChatMovesKeeps DEF Calling
  <2>6. ASSUME NEW r \in Chatters, CreateRoom(r) \/ UploadChatFile(r)
        PROVE  ChatsInv'
    <3>1. PICK next \in {"Upload", "FileRow"} :
            \/ ChatGoto(r, Idle) /\ rooms' = rooms
            \/ /\ ChatGoto(r, [chatting[r] EXCEPT !.at = next])
               /\ rooms' = rooms \cup {chatting[r].room}
            \/ /\ ChatGoto(r, [chatting[r] EXCEPT !.at = next])
               /\ rooms' = rooms /\ chatting[r].at = "Upload"
      BY <2>6 DEF CreateRoom, UploadChatFile
    <3>2. /\ chatting[r].at \in {"CreateRoom", "Upload"}
          /\ UNCHANGED <<messages, sent, lastTime, shown, unseen, chatDeaths>>
      BY <2>6 DEF CreateRoom, UploadChatFile
    <3>3. objects' \in Nat
      BY <2>6 DEF CreateRoom, UploadChatFile, ChatsInv, ChatsTypeOK
    <3>4. chatting[r].room \in Customers
      BY <3>2, ChattingFields DEF ChatsInv, ChatsTypeOK
    <3>5. width = 1 => \A q \in Chatters \ {r} : chatting[q] = Idle
      BY <2>2, <3>2 DEF Idle
    <3> DEFINE point == [chatting[r] EXCEPT !.at = next]
    <3>6. point \in Chatting /\ point.at = next /\ point.room = chatting[r].room
      <4>1. chatting[r] \in Chatting
        BY DEF ChatsInv, ChatsTypeOK
      <4> QED
        BY <3>2, <4>1, ChattingFields
    <3>7. chatting[r].at = "Upload" => chatting[r].room \in rooms
      BY DEF ChatsInv, ChatterOK
    <3>8. rooms \subseteq rooms' /\ rooms' \subseteq Customers
      BY <3>1, <3>4 DEF ChatsInv, ChatsTypeOK
    <3>9. CASE ChatGoto(r, Idle)
      <4>1. Idle.at = "Idle"
        BY DEF Idle
      <4> QED
        BY <2>0, <3>2, <3>3, <3>5, <3>8, <3>9, <4>1, ChatMovesKeeps DEF Calling
    <3>10. CASE ChatGoto(r, point) /\ chatting[r].room \in rooms'
      <4> HIDE DEF point
      <4> QED
        BY <2>0, <3>2, <3>3, <3>5, <3>6, <3>8, <3>10, ChatMovesKeeps DEF Calling
    <3> QED
      BY <3>1, <3>7, <3>9, <3>10
  <2>7. ASSUME NEW r \in Chatters, CreateFileRow(r)
        PROVE  ChatsInv'
    <3>1. /\ chatting[r].at = "FileRow" /\ UNCHANGED objects
          /\ CallUpdate(r, chatting[r].room, chatting[r].by, TRUE)
      BY <2>7 DEF CreateFileRow
    <3>2. chatting[r].room \in Customers /\ chatting[r].by \in {"Customer", "Admin"}
      BY <3>1, ChattingFields DEF ChatsInv, ChatsTypeOK
    <3>3. chatting[r].room \in rooms
      BY <3>1 DEF ChatsInv, ChatterOK
    <3>4. width = 1 => \A q \in Chatters \ {r} : chatting[q] = Idle
      BY <2>2, <3>1 DEF Idle
    <3> QED
      BY <2>0, <3>1, <3>2, <3>3, <3>4, CallUpdateKeeps DEF Calling
  <2>8. ASSUME NEW r \in Chatters, ChatDies(r)
        PROVE  ChatsInv'
    <3>1. chatDeaths' \in 0..MaxChatDeaths /\ objects' \in Nat
      BY <2>8 DEF ChatDies, ChatsInv, ChatsTypeOK
    <3> QED
      BY <2>0, <2>8, <3>1, ChatEndsKeeps DEF ChatDies
  <2> QED
    BY <1>2, <2>0, <2>3, <2>4, <2>5, <2>6, <2>7, <2>8, TakeSnapshotKeeps, WriteMessageKeeps, PushKeeps
       DEF ChatsNext
<1> QED
  BY <1>1, <1>2

(***************************************************************************)
(* Rooms, messages and screens keep their types, and no message is written *)
(* twice, however requests overlap and wherever they die.                  *)
(***************************************************************************)
THEOREM ChatsTypeCorrect == ChatsSpec => []ChatsTypeOK
<1>1. ChatsInv => ChatsTypeOK
  BY DEF ChatsInv
<1> QED
  BY <1>1, ChatsInvInit, ChatsInvNext, PTL DEF ChatsSpec

(***************************************************************************)
(* If there is an administrator, nothing of a room reaches another         *)
(* customer.  The newest message of a quiet room has reached the side it   *)
(* is for; every message has when requests are served one at a time.       *)
(***************************************************************************)
THEOREM MessagesCorrect == ChatsSpec => []MessagesReachTheirReaders
<1>1. ChatsInv => MessagesReachTheirReaders
  <2> SUFFICES ASSUME ChatsInv, NEW c \in Customers, InRoom(c, messages) # {},
                      \A r \in Chatters :
                         chatting[r].at \in {"Write", "Push"} => chatting[r].message.room # c
               PROVE  /\ \E m \in Newest(InRoom(c, messages)) : Seen(m)
                      /\ Alone => \A m \in InRoom(c, messages) : Seen(m)
    BY DEF MessagesReachTheirReaders, NewestReachesItsReader, ChatsInv
  <2>1. \A m \in InRoom(c, messages) : ~OnItsWay(m)
    BY DEF OnItsWay, InRoom
  <2>2. Newest(InRoom(c, messages)) \subseteq InRoom(c, messages)
    BY DEF Newest
  <2>3. InRoom(c, messages) \subseteq messages
    BY DEF InRoom
  <2> QED
    BY <2>1, <2>2, <2>3 DEF ChatsInv, NewestOnItsWay, OneChatter, Alone
<1> QED
  BY <1>1, ChatsInvInit, ChatsInvNext, PTL DEF ChatsSpec

\* A handler that has uploaded a file and not written its message yet.
Holds(point) ==
    point.at = "FileRow" \/ (point.at \in {"Snapshot", "Write"} /\ point.message.file)
Holding == {r \in Chatters : Holds(chatting[r])}
FileMessages == {m \in messages : m.file}

LEMMA FilesCounted ==
    /\ ChatFilesAccounted <=>
          objects <= Cardinality(FileMessages) + chatDeaths + Cardinality(Holding)
    /\ ChatFilesAccounted' <=>
          objects' <= Cardinality(FileMessages') + chatDeaths' + Cardinality(Holding')
<1> DEFINE holding == {r \in Chatters : \/ chatting[r].at = "FileRow"
                                        \/ /\ chatting[r].at \in {"Snapshot", "Write"}
                                           /\ chatting[r].message.file}
<1>1. Holding = holding
  BY DEF Holding, Holds
<1>2. Holding' = holding'
  BY DEF Holding, Holds
<1> QED
  BY <1>1, <1>2 DEF ChatFilesAccounted, FileMessages

LEMMA HoldingGoto ==
    ASSUME ChatsTypeOK, NEW r \in Chatters, NEW point \in Chatting, ChatGoto(r, point)
    PROVE  /\ Cardinality(Holding) \in Nat /\ Cardinality(Holding') \in Nat
           /\ (Holds(chatting[r]) <=> Holds(point)) => Cardinality(Holding') = Cardinality(Holding)
           /\ ~Holds(chatting[r]) /\ Holds(point) => Cardinality(Holding') = Cardinality(Holding) + 1
           /\ Holds(chatting[r]) /\ ~Holds(point) => Cardinality(Holding') = Cardinality(Holding) - 1
<1>1. /\ chatting'[r] = point
      /\ \A q \in Chatters \ {r} : chatting'[q] = chatting[q]
  BY ChatGotoType
<1>2. Holding' = {q \in Chatters : Holds(chatting'[q])}
  BY DEF Holding, Holds
<1>3. IsFiniteSet(Holding) /\ IsFiniteSet(Holding')
  BY <1>2, ChatsAssumption, FS_Subset DEF Holding
<1>4. Cardinality(Holding) \in Nat /\ Cardinality(Holding') \in Nat
  BY <1>3, FS_CardinalityType
<1>5. CASE Holds(chatting[r]) <=> Holds(point)
  <2>1. Holding' = Holding
    BY <1>1, <1>2, <1>5 DEF Holding
  <2> QED
    BY <1>4, <1>5, <2>1
<1>6. CASE ~Holds(chatting[r]) /\ Holds(point)
  <2>1. Holding' = Holding \cup {r} /\ r \notin Holding
    BY <1>1, <1>2, <1>6 DEF Holding
  <2> QED
    BY <1>3, <1>4, <1>6, <2>1, FS_AddElement
<1>7. CASE Holds(chatting[r]) /\ ~Holds(point)
  <2>1. Holding' = Holding \ {r} /\ r \in Holding
    BY <1>1, <1>2, <1>7 DEF Holding
  <2> QED
    BY <1>3, <1>4, <1>7, <2>1, FS_RemoveElement
<1> QED
  BY <1>4, <1>5, <1>6, <1>7

LEMMA ChatFilesNext == ChatsInv /\ ChatFilesAccounted /\ [ChatsNext]_chatVars => ChatFilesAccounted'
<1> SUFFICES ASSUME ChatsInv, ChatFilesAccounted, [ChatsNext]_chatVars
             PROVE  ChatFilesAccounted'
  OBVIOUS
<1>1. /\ objects \in Nat /\ chatDeaths \in Nat /\ Cardinality(FileMessages) \in Nat
      /\ objects <= Cardinality(FileMessages) + chatDeaths + Cardinality(Holding)
  <2>1. IsFiniteSet(FileMessages)
    BY FS_Subset DEF FileMessages, ChatsInv, MessagesCounted
  <2> QED
    BY <2>1, FilesCounted, FS_CardinalityType DEF ChatsInv, ChatsTypeOK
<1>2. SUFFICES objects' <= Cardinality(FileMessages') + chatDeaths' + Cardinality(Holding')
  BY FilesCounted
<1>3. messages' = messages => FileMessages' = FileMessages
  BY DEF FileMessages
<1>4. ChatsTypeOK /\ Idle \in Chatting /\ ~Holds(Idle)
  BY DEF ChatsInv, Chatting, Holds, Idle
<1>5. ASSUME UNCHANGED <<chatting, messages, objects, chatDeaths>>
      PROVE  objects' <= Cardinality(FileMessages') + chatDeaths' + Cardinality(Holding')
  <2>1. Holding' = Holding
    BY <1>5 DEF Holding, Holds
  <2> QED
    BY <1>1, <1>3, <1>5, <2>1
\* Steps that give no file away.
<1>6. ASSUME NEW r \in Chatters, NEW point \in Chatting, ChatGoto(r, point),
             Holds(chatting[r]) => Holds(point), UNCHANGED <<messages, objects, chatDeaths>>
      PROVE  objects' <= Cardinality(FileMessages') + chatDeaths' + Cardinality(Holding')
  <2>1. /\ Cardinality(Holding) \in Nat /\ Cardinality(Holding') \in Nat
        /\ Cardinality(Holding') = Cardinality(Holding) \/ Cardinality(Holding') = Cardinality(Holding) + 1
    BY <1>4, <1>6, HoldingGoto
  <2> QED
    BY <1>1, <1>3, <1>6, <2>1
<1>7. ASSUME NEW r \in Chatters, NEW c, NEW by, NEW file, CallUpdate(r, c, by, file), UNCHANGED objects,
             c \in Customers, by \in {"Customer", "Admin"}, file \in BOOLEAN,
             Holds(chatting[r]) => file
      PROVE  objects' <= Cardinality(FileMessages') + chatDeaths' + Cardinality(Holding')
  <2>1. PICK m \in Message : m.file = file /\ ChatGoto(r, [at |-> "Snapshot", message |-> m])
    BY <1>4, <1>7, FreshMessage DEF Called
  <2> DEFINE point == [at |-> "Snapshot", message |-> m]
  <2>2. UNCHANGED <<messages, objects, chatDeaths>>
    BY <1>7 DEF CallUpdate
  <2>4. ChatGoto(r, point)
    BY <2>1
  <2>5. point \in Chatting /\ point.at = "Snapshot" /\ point.message = m
    BY DEF Chatting
  <2> HIDE DEF point
  <2>6. Holds(chatting[r]) => Holds(point)
    BY <1>7, <2>1, <2>5 DEF Holds
  <2> QED
    BY <1>6, <2>2, <2>4, <2>5, <2>6
<1>8. CASE UNCHANGED chatVars
  BY <1>5, <1>8 DEF chatVars
<1>9. ASSUME NEW r \in Chatters, NEW c \in Customers,
             CustomerSendTextMessage(r, c) \/ AdminSendTextMessage(r, c)
      PROVE  objects' <= Cardinality(FileMessages') + chatDeaths' + Cardinality(Holding')
  <2>1. PICK by \in {"Customer", "Admin"} : CallUpdate(r, c, by, FALSE)
    BY <1>9 DEF CustomerSendTextMessage, AdminSendTextMessage
  <2>2. chatting[r] = Idle /\ UNCHANGED objects
    BY <1>9 DEF CustomerSendTextMessage, AdminSendTextMessage, MayChat
  <2> QED
    BY <1>4, <1>7, <2>1, <2>2
<1>10. ASSUME NEW r \in Chatters, NEW c \in Customers, NEW by \in {"Customer", "Admin"},
              SendFileMessage(r, c, by)
       PROVE  objects' <= Cardinality(FileMessages') + chatDeaths' + Cardinality(Holding')
  <2>1. PICK next \in {"Upload", "CreateRoom"} : ChatGoto(r, [at |-> next, room |-> c, by |-> by])
    BY <1>10 DEF SendFileMessage
  <2>2. [at |-> next, room |-> c, by |-> by] \in Chatting
    BY DEF Chatting
  <2>3. chatting[r] = Idle /\ UNCHANGED <<messages, objects, chatDeaths>>
    BY <1>10 DEF SendFileMessage, MayChat
  <2> QED
    BY <1>4, <1>6, <2>1, <2>2, <2>3
<1>11. ASSUME NEW r \in Chatters, NEW c \in Customers, AdminCreateConversation(r, c)
       PROVE  objects' <= Cardinality(FileMessages') + chatDeaths' + Cardinality(Holding')
  BY <1>5, <1>11 DEF AdminCreateConversation
<1>12. ASSUME NEW r \in Chatters, CreateRoom(r)
       PROVE  objects' <= Cardinality(FileMessages') + chatDeaths' + Cardinality(Holding')
  <2>1. /\ chatting[r].at = "CreateRoom" /\ UNCHANGED <<messages, objects, chatDeaths>>
        /\ ChatGoto(r, Idle) \/ ChatGoto(r, [chatting[r] EXCEPT !.at = "Upload"])
    BY <1>12 DEF CreateRoom
  <2>2. [chatting[r] EXCEPT !.at = "Upload"] \in Chatting
    BY <1>4, <2>1, ChattingFields DEF ChatsTypeOK
  <2>3. ~Holds(chatting[r])
    BY <2>1 DEF Holds
  <2> QED
    BY <1>4, <1>6, <2>1, <2>2, <2>3
<1>13. ASSUME NEW r \in Chatters, UploadChatFile(r)
       PROVE  objects' <= Cardinality(FileMessages') + chatDeaths' + Cardinality(Holding')
  <2> DEFINE point == [chatting[r] EXCEPT !.at = "FileRow"]
  <2>1. /\ chatting[r].at = "Upload" /\ UNCHANGED <<messages, chatDeaths>>
        /\ ChatGoto(r, point) /\ objects' = objects + 1
    BY <1>13 DEF UploadChatFile
  <2>2. point \in Chatting /\ point.at = "FileRow"
    BY <1>4, <2>1, ChattingFields DEF ChatsTypeOK
  <2> HIDE DEF point
  <2>3. ~Holds(chatting[r]) /\ Holds(point)
    BY <2>1, <2>2 DEF Holds
  <2>4. Cardinality(Holding) \in Nat /\ Cardinality(Holding') = Cardinality(Holding) + 1
    BY <1>4, <2>1, <2>2, <2>3, HoldingGoto
  <2> QED
    BY <1>1, <1>3, <2>1, <2>4
<1>14. ASSUME NEW r \in Chatters, CreateFileRow(r)
       PROVE  objects' <= Cardinality(FileMessages') + chatDeaths' + Cardinality(Holding')
  <2>1. /\ chatting[r].at = "FileRow" /\ UNCHANGED objects
        /\ CallUpdate(r, chatting[r].room, chatting[r].by, TRUE)
    BY <1>14 DEF CreateFileRow
  <2>2. chatting[r].room \in Customers /\ chatting[r].by \in {"Customer", "Admin"}
    BY <1>4, <2>1, ChattingFields DEF ChatsTypeOK
  <2> QED
    BY <1>7, <2>1, <2>2
<1>15. ASSUME NEW r \in Chatters, TakeSnapshot(r)
       PROVE  objects' <= Cardinality(FileMessages') + chatDeaths' + Cardinality(Holding')
  <2>1. PICK point \in Chatting :
          /\ ChatGoto(r, point) /\ point.at = "Write" /\ point.message = chatting[r].message
    BY <1>4, <1>15, SnapshotTaken
  <2>2. /\ chatting[r].at = "Snapshot" /\ UNCHANGED <<messages, objects, chatDeaths>>
    BY <1>15 DEF TakeSnapshot
  <2>3. Holds(chatting[r]) => Holds(point)
    BY <2>1, <2>2 DEF Holds
  <2> QED
    BY <1>6, <2>1, <2>2, <2>3
<1>16. ASSUME NEW r \in Chatters, WriteMessage(r)
       PROVE  objects' <= Cardinality(FileMessages') + chatDeaths' + Cardinality(Holding')
  <2>0. PICK m : m = chatting[r].message
    OBVIOUS
  <2>1. chatting[r].at = "Write" /\ UNCHANGED <<objects, chatDeaths>>
    BY <1>16 DEF WriteMessage
  <2>2. m \in Message /\ m \notin messages /\ (m.file => chatting[r].existed)
    BY <1>4, <2>0, <2>1, ChattingFields DEF ChatsInv, ChatsTypeOK, ChatterOK, Calling
  <2>3. Holds(chatting[r]) <=> m.file
    BY <2>0, <2>1 DEF Holds
  <2>4. CASE RoomRefused(r)
    <3>1. ChatGoto(r, Idle) /\ UNCHANGED messages
      BY <1>16, <2>4 DEF WriteMessage
    <3>2. ~Holds(chatting[r])
      BY <2>2, <2>3, <2>4 DEF RoomRefused
    <3> QED
      BY <1>4, <1>6, <2>1, <3>1, <3>2
  <2>5. CASE ~RoomRefused(r)
    <3>1. PICK newest \in Newest(chatting[r].snapshot \cup {m}) :
            messages' = messages \cup {m} /\ ChatGoto(r, [at |-> "Push", message |-> m, newest |-> newest])
      BY <1>16, <2>0, <2>5 DEF WriteMessage
    <3> DEFINE point == [at |-> "Push", message |-> m, newest |-> newest]
    <3>2. newest \in Message
      BY <1>4, <2>1, <2>2, ChattingFields DEF Newest, ChatsTypeOK
    <3>3. point \in Chatting /\ point.at = "Push" /\ ChatGoto(r, point)
      BY <2>2, <3>1, <3>2 DEF Chatting
    <3> HIDE DEF point
    <3>4. ~Holds(point)
      BY <3>3 DEF Holds
    <3>5. Cardinality(Holding) \in Nat /\ Cardinality(Holding') \in Nat
      BY <1>4, <3>3, HoldingGoto
    <3>6. CASE m.file
      <4>1. Cardinality(Holding') = Cardinality(Holding) - 1
        BY <1>4, <2>3, <3>3, <3>4, <3>6, HoldingGoto
      <4>2. FileMessages' = FileMessages \cup {m} /\ m \notin FileMessages
        BY <2>2, <3>1, <3>6 DEF FileMessages
      <4>3. Cardinality(FileMessages') = Cardinality(FileMessages) + 1
        BY <4>2, FS_AddElement, FS_Subset DEF FileMessages, ChatsInv, MessagesCounted
      <4> QED
        BY <1>1, <2>1, <3>5, <4>1, <4>3
    <3>7. CASE ~m.file
      <4>1. Cardinality(Holding') = Cardinality(Holding)
        BY <1>4, <2>3, <3>3, <3>4, <3>7, HoldingGoto
      <4>2. FileMessages' = FileMessages
        BY <3>1, <3>7 DEF FileMessages
      <4> QED
        BY <1>1, <2>1, <4>1, <4>2
    <3> QED
      BY <3>6, <3>7
  <2> QED
    BY <2>4, <2>5
<1>17. ASSUME NEW r \in Chatters, Push(r)
       PROVE  objects' <= Cardinality(FileMessages') + chatDeaths' + Cardinality(Holding')
  <2>1. chatting[r].at = "Push" /\ ChatGoto(r, Idle) /\ UNCHANGED <<messages, objects, chatDeaths>>
    BY <1>17 DEF Push
  <2>2. ~Holds(chatting[r])
    BY <2>1 DEF Holds
  <2> QED
    BY <1>4, <1>6, <2>1, <2>2
<1>18. ASSUME NEW r \in Chatters, ChatDies(r)
       PROVE  objects' <= Cardinality(FileMessages') + chatDeaths' + Cardinality(Holding')
  <2>1. ChatGoto(r, Idle) /\ chatDeaths' = chatDeaths + 1 /\ UNCHANGED <<messages, objects>>
    BY <1>18 DEF ChatDies
  <2>2. /\ Cardinality(Holding) \in Nat /\ Cardinality(Holding') \in Nat
        /\ Cardinality(Holding') = Cardinality(Holding) \/ Cardinality(Holding') = Cardinality(Holding) - 1
    BY <1>4, <2>1, HoldingGoto
  <2> QED
    BY <1>1, <1>3, <2>1, <2>2
<1> QED
  BY <1>8, <1>9, <1>10, <1>11, <1>12, <1>13, <1>14, <1>15, <1>16, <1>17, <1>18 DEF ChatsNext

(***************************************************************************)
(* Every uploaded chat file belongs to a message, to a request that will   *)
(* write one, or to a request that died.                                   *)
(***************************************************************************)
THEOREM ChatFilesCorrect == ChatsSpec => []ChatFilesAccounted
<1>1. ChatsInit => ChatFilesAccounted
  <2> SUFFICES ASSUME ChatsInit
               PROVE  objects <= Cardinality(FileMessages) + chatDeaths + Cardinality(Holding)
    BY FilesCounted
  <2>1. /\ objects = 0 /\ chatDeaths = 0 /\ FileMessages = {}
        /\ \A r \in Chatters : chatting[r] = Idle
    BY DEF ChatsInit, FileMessages
  <2>2. Holding = {}
    BY <2>1 DEF Holding, Holds, Idle
  <2> QED
    BY <2>1, <2>2, FS_EmptySet
<1> QED
  BY <1>1, ChatsInvInit, ChatsInvNext, ChatFilesNext, PTL DEF ChatsSpec

-----------------------------------------------------------------------------
(* All parts *)

LEMMA OnePartMoves ==
    [Next]_vars =>
        /\ [ChatsNext]_chatVars /\ [CommentsNext]_commentVars /\ [ReportsNext]_reportVars
        /\ [CartsNext]_cartVars /\ [PricingNext]_pricingVars
  BY DEF Next, vars

(***************************************************************************)
(* The server with all its parts behaves as each part does by itself, so   *)
(* that what is proved of a part is true of the server.                    *)
(***************************************************************************)
THEOREM EveryPartBehaves ==
    Spec => ChatsSpec /\ CommentsSpec /\ ReportsSpec /\ CartsSpec /\ PricingSpec
<1>1. Init => ChatsInit /\ CommentsInit /\ ReportsInit /\ CartsInit /\ PricingInit
  BY DEF Init
<1> QED
  BY <1>1, OnePartMoves, PTL DEF Spec, ChatsSpec, CommentsSpec, ReportsSpec, CartsSpec, PricingSpec

(***************************************************************************)
(* Every variable of the server keeps its type.                            *)
(***************************************************************************)
THEOREM BackOfficeTypeCorrect == Spec => []TypeOK
<1>1. Init => part \in Parts
  BY DEF Init
<1>2. part \in Parts /\ [Next]_vars => (part \in Parts)'
  BY DEF Next, vars
<1>3. part \in Parts /\ ChatsTypeOK /\ CommentsTypeOK /\ ReportsTypeOK /\ CartsTypeOK /\ PricingTypeOK
      => TypeOK
  BY DEF TypeOK
<1> QED
  BY <1>1, <1>2, <1>3, EveryPartBehaves, ChatsTypeCorrect, CommentsTypeCorrect, ReportsTypeCorrect,
     CartsTypeCorrect, PricingTypeCorrect, PTL DEF Spec

(***************************************************************************)
(* What chats, comments, reports, carts and prices promise, the server     *)
(* with all of them keeps.                                                 *)
(***************************************************************************)
THEOREM BackOfficeCorrect ==
    Spec => /\ []MessagesReachTheirReaders /\ []ChatFilesAccounted
            /\ []ReferencesHold /\ []DecisionMailed
            /\ []DeadEntriesExplained /\ []PriceIsAsked
  BY EveryPartBehaves, MessagesCorrect, ChatFilesCorrect, ReferencesCorrect, DecisionsCorrect,
     DeadEntriesCorrect, PriceCorrect, PTL
=============================================================================
