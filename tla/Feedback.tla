------------------------------ MODULE Feedback ------------------------------
(***************************************************************************)
(* Feedback threads on a resource and their comments (feedback.service.ts).*)
(* Anybody with a client id takes part.  Every handler reads first and     *)
(* writes afterwards; a thread goes with its last comment.                 *)
(***************************************************************************)
EXTENDS Naturals, FiniteSets

CONSTANTS
  Topics,          \* rows of feedback_threads, those not created yet included
  Comments,        \* rows of feedback_comments, likewise
  Clients,
  NoTopic,
  NoComment,
  FeedbackCalls    \* requests in flight

ASSUME FeedbackAssumption ==
  NoTopic \notin Topics /\ NoComment \notin Comments /\ IsFiniteSet(Comments)

VARIABLES
  topic,           \* the rows of feedback_threads
  comment,         \* per comment its thread and author
  feedbackCall,    \* the local state of each request
  emptied          \* history: threads whose comments were deleted at once

feedbackVars == <<topic, comment, feedbackCall, emptied>>

Topic == [status : {"NONE", "OPEN", "RESOLVED", "DELETED"}, resolved : BOOLEAN]

NoCommentRow == [of |-> NoTopic, by |-> "nobody", used |-> FALSE]

FeedbackCall == [phase : {"idle", "adding", "deciding", "deleting", "editing"},
                 topic : Topics \cup {NoTopic},
                 comment : Comments \cup {NoComment},
                 by : Clients \cup {"nobody"},
                 status : {"OPEN", "RESOLVED"},
                 remaining : 0..Cardinality(Comments),
                 seen : SUBSET Comments]   \* history: the comments counted

Done == [phase |-> "idle", topic |-> NoTopic, comment |-> NoComment, by |-> "nobody",
         status |-> "OPEN", remaining |-> 0, seen |-> {}]

FeedbackTypeOK ==
  /\ topic \in [Topics -> Topic]
  /\ comment \in [Comments -> [of : Topics \cup {NoTopic}, by : Clients \cup {"nobody"},
                               used : BOOLEAN]]
  /\ feedbackCall \in [FeedbackCalls -> FeedbackCall]
  /\ emptied \subseteq Topics

FeedbackInit ==
  /\ topic = [t \in Topics |-> [status |-> "NONE", resolved |-> FALSE]]
  /\ comment = [m \in Comments |-> NoCommentRow]
  /\ feedbackCall = [c \in FeedbackCalls |-> Done]
  /\ emptied = {}

-----------------------------------------------------------------------------
IsOpen(t) == topic[t].status \in {"OPEN", "RESOLVED"}

In(t) == {m \in Comments : comment[m].of = t}

Row(t, a) == [of |-> t, by |-> a, used |-> TRUE]

Takes(c, record) ==
  /\ feedbackCall[c].phase = "idle"
  /\ feedbackCall' = [feedbackCall EXCEPT ![c] = record]
  /\ UNCHANGED <<topic, comment, emptied>>

Leaves(c, phase) ==
  /\ feedbackCall[c].phase = phase
  /\ feedbackCall' = [feedbackCall EXCEPT ![c] = Done]

\* The thread and its first comment in one statement
OpenTopic(t, m, a) ==
  /\ topic[t].status = "NONE" /\ ~comment[m].used
  /\ topic' = [topic EXCEPT ![t].status = "OPEN"]
  /\ comment' = [comment EXCEPT ![m] = Row(t, a)]
  /\ UNCHANGED <<feedbackCall, emptied>>

ReadTopic(c, t, m, a) ==
  /\ IsOpen(t) /\ ~comment[m].used
  /\ Takes(c, [Done EXCEPT !.phase = "adding", !.topic = t, !.comment = m, !.by = a])

\* The foreign key refuses a comment on a thread that is gone
AddComment(c) ==
  LET x == feedbackCall[c] IN
  /\ Leaves(c, "adding")
  /\ comment' = IF IsOpen(x.topic) /\ ~comment[x.comment].used
                THEN [comment EXCEPT ![x.comment] = Row(x.topic, x.by)] ELSE comment
  /\ UNCHANGED <<topic, emptied>>

AskStatus(c, t, status) ==
  /\ IsOpen(t)
  /\ Takes(c, [Done EXCEPT !.phase = "deciding", !.topic = t, !.status = status])

\* The update of a thread that is gone fails
UpdateTopic(c) ==
  LET x == feedbackCall[c] IN
  /\ Leaves(c, "deciding")
  /\ topic' = IF IsOpen(x.topic)
              THEN [topic EXCEPT ![x.topic].status = x.status,
                                 ![x.topic].resolved = (x.status = "RESOLVED")]
              ELSE topic
  /\ UNCHANGED <<comment, emptied>>

\* Its author may edit a comment: only its text changes
EditComment(c, m, a) ==
  /\ comment[m].of # NoTopic /\ comment[m].by = a
  /\ Takes(c, [Done EXCEPT !.phase = "editing", !.comment = m, !.by = a])

EditDone(c) == Leaves(c, "editing") /\ UNCHANGED <<topic, comment, emptied>>

CountComments(c, m, a) ==
  LET t == comment[m].of IN
  /\ t # NoTopic /\ comment[m].by = a
  /\ Takes(c, [Done EXCEPT !.phase = "deleting", !.topic = t, !.comment = m, !.by = a,
                 !.remaining = Cardinality(In(t)) - 1, !.seen = In(t)])

IsLastOfTwo(remaining) == remaining <= 1

IsLast(remaining) == remaining <= 0

\* The comment or its thread may be gone by now: the statement then fails
DeleteComment(c) ==
  LET x == feedbackCall[c]
      gone == IF IsLast(x.remaining) THEN In(x.topic) ELSE {x.comment}
  IN /\ Leaves(c, "deleting")
     /\ comment' = [m \in Comments |->
          IF m \in gone THEN [comment[m] EXCEPT !.of = NoTopic] ELSE comment[m]]
     /\ topic' = IF IsLast(x.remaining) THEN [topic EXCEPT ![x.topic].status = "DELETED"]
                 ELSE topic
     /\ emptied' = IF In(x.topic) # x.seen THEN emptied \cup {x.topic} ELSE emptied

FeedbackCallFails(c) ==
  /\ feedbackCall[c].phase # "idle"
  /\ Leaves(c, feedbackCall[c].phase)
  /\ UNCHANGED <<topic, comment, emptied>>

FeedbackNext ==
  \/ \E t \in Topics, m \in Comments, a \in Clients : OpenTopic(t, m, a)
  \/ \E c \in FeedbackCalls :
       \/ \E t \in Topics, s \in {"OPEN", "RESOLVED"} : AskStatus(c, t, s)
       \/ \E m \in Comments, a \in Clients :
            \/ EditComment(c, m, a) \/ CountComments(c, m, a)
            \/ \E t \in Topics : ReadTopic(c, t, m, a)
       \/ AddComment(c) \/ UpdateTopic(c) \/ EditDone(c) \/ DeleteComment(c)
       \/ FeedbackCallFails(c)

FeedbackSpec == FeedbackInit /\ [][FeedbackNext]_feedbackVars

-----------------------------------------------------------------------------
\* Whoever takes a comment away asked for it, or never counted it
DeletedOnRequest ==
  \A m \in Comments :
    comment[m].of # NoTopic /\ comment'[m].of = NoTopic =>
      \E c \in FeedbackCalls :
        /\ feedbackCall[c].phase = "deleting" /\ feedbackCall'[c].phase = "idle"
        /\ \/ feedbackCall[c].comment = m
           \/ m \notin feedbackCall[c].seen

\* A comment goes only at its author's request, or with a thread whose comments
\* that request had not counted it among (deleteComment).
CommentsOfOthersKept == [][DeletedOnRequest]_feedbackVars
=============================================================================
