----------------------------- MODULE OfficeProofs -----------------------------
(***************************************************************************)
(* Support, feedback, AI features and application releases, each for any   *)
(* sets of rows and requests.                                              *)
(***************************************************************************)
EXTENDS SupportThreads, Feedback, AiFeatures, AppReleases, FiniteSetTheorems, TLAPS

-----------------------------------------------------------------------------
(***************************************************************************)
(* The status of support threads and the record of actions, for any number *)
(* of threads, administrators and requests.  What a reply has read, or an  *)
(* action has still to record, is right as long as nobody overtook it:     *)
(* that is what the invariant says.                                        *)
(***************************************************************************)

USE SupportAssumption

\* Every request in flight has an open thread and an administrator
CallsAddressed ==
  \A c \in SupportCalls :
    supportCall[c].phase # "idle" =>
      /\ supportCall[c].of \in Threads
      /\ Opened(supportCall[c].of)
      /\ supportCall[c].by \in Staff

UnopenedAreFresh ==
  \A h \in Threads :
    ~Opened(h) => thread[h].status = "OPEN" /\ decided[h].status = "OPEN"

RepliesUpToDate ==
  \A c \in SupportCalls :
    supportCall[c].phase = "replying" /\ ~supportCall[c].stale =>
      supportCall[c].seen = thread[supportCall[c].of].status

RecordsUpToDate ==
  <<NoThread, "action">> \notin drifted =>
    \A c \in SupportCalls :
      Recording(c) /\ ~supportCall[c].stale =>
        active = (supportCall[c].kind = "enable_org")

SupportInv ==
  /\ SupportTypeOK
  /\ StatusAsDecided
  /\ ActionIsRecorded
  /\ CallsAddressed
  /\ UnopenedAreFresh
  /\ RepliesUpToDate
  /\ RecordsUpToDate

-----------------------------------------------------------------------------
LEMMA InitInv == SupportInit => SupportInv
<1> SUFFICES ASSUME SupportInit PROVE SupportInv
  OBVIOUS
<1> USE DEF SupportInit, AtRest, NoThreadRow
<1>1. SupportTypeOK
  BY DEF SupportTypeOK, Thread, SupportCall, Statuses, Staff
<1>2. StatusAsDecided /\ ActionIsRecorded
  BY DEF StatusAsDecided, ActionIsRecorded
<1>3. CallsAddressed /\ UnopenedAreFresh /\ RepliesUpToDate /\ RecordsUpToDate
  BY DEF CallsAddressed, UnopenedAreFresh, RepliesUpToDate, RecordsUpToDate, Recording
<1> QED
  BY <1>1, <1>2, <1>3 DEF SupportInv

(***************************************************************************)
(* The row of one thread is written, and the others stay.                  *)
(***************************************************************************)
LEMMA ThreadWritten ==
  ASSUME SupportTypeOK, NEW h \in Threads, NEW row \in Thread,
         thread' = [thread EXCEPT ![h] = row]
  PROVE  /\ thread' \in [Threads -> Thread]
         /\ thread'[h] = row
         /\ \A k \in Threads \ {h} : thread'[k] = thread[k]
  BY DEF SupportTypeOK

(***************************************************************************)
(* What the requests other than c are told of a change of h's status.      *)
(***************************************************************************)
LEMMA OvertakesType ==
  ASSUME SupportTypeOK, NEW h \in Threads, NEW c \in SupportCalls,
         NEW next \in SupportCall, supportCall' = Overtakes(h, c, next)
  PROVE  /\ supportCall' \in [SupportCalls -> SupportCall]
         /\ supportCall'[c] = next
         /\ \A d \in SupportCalls \ {c} :
              /\ supportCall'[d].phase = supportCall[d].phase
              /\ supportCall'[d].of = supportCall[d].of
              /\ supportCall'[d].by = supportCall[d].by
              /\ supportCall'[d].seen = supportCall[d].seen
              /\ supportCall'[d].kind = supportCall[d].kind
              /\ supportCall[d].stale => supportCall'[d].stale
              /\ supportCall[d].phase = "replying" /\ supportCall[d].of = h
                   => supportCall'[d].stale
  BY ZenonT(30) DEF SupportTypeOK, SupportCall, Overtakes

LEMMA OthersOvertakenType ==
  ASSUME SupportTypeOK, NEW h \in Threads, supportCall' = OthersOvertaken(h)
  PROVE  /\ supportCall' \in [SupportCalls -> SupportCall]
         /\ \A d \in SupportCalls :
              /\ supportCall'[d].phase = supportCall[d].phase
              /\ supportCall'[d].of = supportCall[d].of
              /\ supportCall'[d].by = supportCall[d].by
              /\ supportCall'[d].seen = supportCall[d].seen
              /\ supportCall'[d].kind = supportCall[d].kind
              /\ supportCall[d].stale => supportCall'[d].stale
              /\ supportCall[d].phase = "replying" /\ supportCall[d].of = h
                   => supportCall'[d].stale
<1>1. \A d \in SupportCalls : supportCall[d] \in SupportCall
  BY DEF SupportTypeOK
<1>2. supportCall' = [d \in SupportCalls |->
        [supportCall[d] EXCEPT !.stale =
           @ \/ (supportCall[d].phase = "replying" /\ supportCall[d].of = h)]]
  BY DEF OthersOvertaken
<1>3. \A d \in SupportCalls :
        /\ supportCall'[d] = [supportCall[d] EXCEPT !.stale =
             @ \/ (supportCall[d].phase = "replying" /\ supportCall[d].of = h)]
        /\ supportCall'[d] \in SupportCall
  <2> TAKE d \in SupportCalls
  <2>1. supportCall'[d] = [supportCall[d] EXCEPT !.stale =
             @ \/ (supportCall[d].phase = "replying" /\ supportCall[d].of = h)]
    BY <1>2
  <2> QED
    BY <1>1, <2>1 DEF SupportCall
<1> QED
  BY <1>1, <1>2, <1>3 DEF SupportCall

(***************************************************************************)
(* One request moves on and the others stay as they are.                   *)
(***************************************************************************)
LEMMA CallMoves ==
  ASSUME SupportTypeOK, NEW c \in SupportCalls, NEW next \in SupportCall,
         supportCall' = [supportCall EXCEPT ![c] = next]
  PROVE  /\ supportCall' \in [SupportCalls -> SupportCall]
         /\ supportCall'[c] = next
         /\ \A d \in SupportCalls \ {c} : supportCall'[d] = supportCall[d]
  BY DEF SupportTypeOK

LEMMA AtRestType == AtRest \in SupportCall /\ AtRest.phase = "idle"
  BY DEF AtRest, SupportCall, Statuses

LEMMA MailsType ==
  ASSUME SupportTypeOK, NEW h \in Threads, NEW to \in {"opener", "supers"}, Mails(h, to)
  PROVE  notice' \subseteq Threads \X {"opener", "supers"}
  BY DEF Mails, SupportTypeOK

-----------------------------------------------------------------------------
LEMMA CreateStep ==
  ASSUME SupportInv, NEW h \in Threads, NEW a \in Staff, NEW p \in {"NORMAL", "HIGH"},
         CreateThread(h, a, p)
  PROVE  SupportInv'
<1> USE DEF SupportInv
<1> DEFINE row == [NoThreadRow EXCEPT
              !.opener = a, !.priority = p, !.author = a, !.message = "opening"]
<1>1. /\ ~Opened(h)
      /\ thread' = [thread EXCEPT ![h] = row]
      /\ Mails(h, "supers")
      /\ UNCHANGED <<decided, active, supportCall, drifted>>
  BY DEF CreateThread
<1>2. row \in Thread /\ row.status = "OPEN" /\ row.opener # Nobody
  BY DEF Thread, NoThreadRow, Statuses, Staff
<1>3. /\ thread' \in [Threads -> Thread]
      /\ thread'[h] = row
      /\ \A k \in Threads \ {h} : thread'[k] = thread[k]
  <2> HIDE DEF row
  <2> QED
    BY <1>1, <1>2, ThreadWritten
<1>4. SupportTypeOK'
  BY <1>1, <1>3, MailsType DEF SupportTypeOK
<1>5. decided[h].status = "OPEN" /\ thread[h].status = "OPEN"
  BY <1>1 DEF UnopenedAreFresh
<1> HIDE DEF row
<1>6. StatusAsDecided'
  BY <1>1, <1>2, <1>3, <1>5 DEF StatusAsDecided
<1>7. UnopenedAreFresh' /\ CallsAddressed'
  BY <1>1, <1>2, <1>3 DEF UnopenedAreFresh, CallsAddressed, Opened
<1>8. RepliesUpToDate'
  BY <1>1, <1>2, <1>3 DEF RepliesUpToDate, CallsAddressed
<1>9. ActionIsRecorded' /\ RecordsUpToDate'
  BY <1>1 DEF ActionIsRecorded, RecordsUpToDate, Recording
<1> QED
  BY <1>4, <1>6, <1>7, <1>8, <1>9

(***************************************************************************)
(* A request that reads a thread, or asks for an action, changes no row.   *)
(***************************************************************************)
LEMMA TakeStep ==
  ASSUME SupportInv, NEW c \in SupportCalls, NEW next \in SupportCall,
         supportCall[c].phase = "idle",
         supportCall' = [supportCall EXCEPT ![c] = next],
         next.of \in Threads, Opened(next.of), next.by \in Staff,
         next.phase \in {"replying", "acting"},
         next.phase = "replying" => next.seen = thread[next.of].status,
         UNCHANGED <<thread, decided, notice, active, drifted>>
  PROVE  SupportInv'
<1> USE DEF SupportInv
<1>1. /\ supportCall' \in [SupportCalls -> SupportCall]
      /\ supportCall'[c] = next
      /\ \A d \in SupportCalls \ {c} : supportCall'[d] = supportCall[d]
  BY CallMoves
<1>2. SupportTypeOK'
  BY <1>1 DEF SupportTypeOK
<1>3. StatusAsDecided' /\ UnopenedAreFresh'
  BY DEF StatusAsDecided, UnopenedAreFresh, Opened
<1>4. CallsAddressed' /\ RepliesUpToDate'
  BY <1>1 DEF CallsAddressed, RepliesUpToDate, Opened
<1>5. \A d \in SupportCalls : Recording(d)' <=> Recording(d)
  BY <1>1 DEF Recording
<1>6. ActionIsRecorded' /\ RecordsUpToDate'
  BY <1>1, <1>5 DEF ActionIsRecorded, RecordsUpToDate, Recording
<1> QED
  BY <1>2, <1>3, <1>4, <1>6

LEMMA ReadStep ==
  ASSUME SupportInv, NEW c \in SupportCalls, NEW h \in Threads, NEW a \in Staff,
         ReadThread(c, h, a)
  PROVE  SupportInv'
<1> DEFINE next == [AtRest EXCEPT !.phase = "replying", !.of = h, !.by = a,
                                  !.seen = thread[h].status]
<1>1. thread[h].status \in Statuses
  BY DEF SupportInv, SupportTypeOK, Thread
<1>2. /\ next \in SupportCall
      /\ next.of = h /\ next.by = a /\ next.phase = "replying"
      /\ next.seen = thread[h].status
  BY <1>1 DEF AtRest, SupportCall, Statuses
<1>3. /\ supportCall[c].phase = "idle" /\ Opened(h)
      /\ supportCall' = [supportCall EXCEPT ![c] = next]
      /\ UNCHANGED <<thread, decided, notice, active, drifted>>
  BY DEF ReadThread
<1> HIDE DEF next
<1> QED
  BY <1>2, <1>3, TakeStep

LEMMA AskStep ==
  ASSUME SupportInv, NEW c \in SupportCalls, NEW h \in Threads, NEW a \in SuperAdmins,
         NEW k \in Actions, NEW b \in BOOLEAN, AskAction(c, h, a, k, b)
  PROVE  SupportInv'
<1> DEFINE next == [AtRest EXCEPT !.phase = "acting", !.of = h, !.by = a, !.kind = k,
                                  !.resolves = b]
<1>1. /\ next \in SupportCall
      /\ next.of = h /\ next.by = a /\ next.phase = "acting"
      /\ a \in Staff
  BY DEF AtRest, SupportCall, Statuses, Staff
<1>2. /\ supportCall[c].phase = "idle" /\ Opened(h)
      /\ supportCall' = [supportCall EXCEPT ![c] = next]
      /\ UNCHANGED <<thread, decided, notice, active, drifted>>
  BY DEF AskAction
<1> HIDE DEF next
<1> QED
  BY <1>1, <1>2, TakeStep

(***************************************************************************)
(* A reply whose status is up to date changes the status as it is decided; *)
(* another one is among the drifted.                                       *)
(***************************************************************************)
LEMMA ReplyStep ==
  ASSUME SupportInv, NEW c \in SupportCalls, AddMessage(c)
  PROVE  SupportInv'
<1> USE DEF SupportInv
<1> DEFINE x == supportCall[c]
           h == x.of
           status == StatusOfReply(x.seen, x.by)
           row == [thread[h] EXCEPT !.status = status, !.author = x.by,
                                    !.message = "reply"]
<1>1. /\ x.phase = "replying" /\ h \in Threads /\ x.by \in Staff /\ Opened(h)
      /\ x.seen \in Statuses /\ x.stale \in BOOLEAN
      /\ ~x.stale => x.seen = thread[h].status
  BY DEF AddMessage, CallsAddressed, RepliesUpToDate, SupportTypeOK, SupportCall
<1>2. /\ thread' = [thread EXCEPT ![h] = row]
      /\ decided' = IF decided[h].status = "OPEN" /\ x.by \in SuperAdmins
                    THEN [decided EXCEPT ![h].status = "IN_PROGRESS"] ELSE decided
      /\ Mails(h, NoticeOfReply(h, x.by))
      /\ drifted' = IF x.stale THEN drifted \cup {<<h, "status">>} ELSE drifted
      /\ supportCall' = IF status = thread[h].status
                        THEN [supportCall EXCEPT ![c] = AtRest]
                        ELSE Overtakes(h, c, AtRest)
      /\ UNCHANGED active
  BY DEF AddMessage
<1>3. thread[h] \in Thread /\ status \in Statuses
  BY <1>1 DEF SupportTypeOK, StatusOfReply, Statuses
<1>4. /\ row \in Thread
      /\ row.status = status
      /\ row.opener = thread[h].opener
      /\ row.resolved = thread[h].resolved
  BY <1>1, <1>3 DEF Thread
<1>5. /\ thread' \in [Threads -> Thread]
      /\ thread'[h] = row
      /\ \A k \in Threads \ {h} : thread'[k] = thread[k]
  <2> HIDE DEF row, h
  <2> QED
    BY <1>1, <1>2, <1>4, ThreadWritten
<1>6. /\ supportCall' \in [SupportCalls -> SupportCall]
      /\ supportCall'[c] = AtRest
      /\ \A d \in SupportCalls \ {c} :
           /\ supportCall'[d].phase = supportCall[d].phase
           /\ supportCall'[d].of = supportCall[d].of
           /\ supportCall'[d].by = supportCall[d].by
           /\ supportCall'[d].seen = supportCall[d].seen
           /\ supportCall'[d].kind = supportCall[d].kind
           /\ supportCall[d].stale => supportCall'[d].stale
           /\ supportCall[d].phase = "replying" /\ supportCall[d].of = h
                /\ status # thread[h].status => supportCall'[d].stale
  <2> HIDE DEF h, status
  <2>1. CASE status = thread[h].status
    BY <2>1, <1>2, CallMoves, AtRestType
  <2>2. CASE status # thread[h].status
    BY <2>2, <1>1, <1>2, OvertakesType, AtRestType
  <2> QED
    BY <2>1, <2>2
<1>7. decided[h].status \in Statuses /\ decided[h].action \in Actions \cup {"none"}
  BY <1>1 DEF SupportTypeOK
<1>8. /\ decided' \in [Threads -> [status : Statuses, action : Actions \cup {"none"}]]
      /\ decided'[h].status = StatusOfReply(decided[h].status, x.by)
      /\ \A k \in Threads : decided'[k].action = decided[k].action
      /\ \A k \in Threads \ {h} : decided'[k] = decided[k]
  BY <1>1, <1>2, <1>7 DEF SupportTypeOK, Statuses, StatusOfReply
<1>9. notice' \subseteq Threads \X {"opener", "supers"}
  BY <1>1, <1>2, MailsType DEF NoticeOfReply
<1>10. drifted' \subseteq (Threads \cup {NoThread}) \X {"status", "action"}
  BY <1>1, <1>2 DEF SupportTypeOK
<1>11. SupportTypeOK'
  BY <1>2, <1>5, <1>6, <1>8, <1>9, <1>10 DEF SupportTypeOK
<1> HIDE DEF row
<1>12. StatusAsDecided'
  <2> SUFFICES ASSUME NEW k \in Threads, <<k, "status">> \notin drifted'
               PROVE  /\ thread'[k].status = decided'[k].status
                      /\ thread'[k].status = "RESOLVED" => thread'[k].resolved
    BY DEF StatusAsDecided
  <2>1. <<k, "status">> \notin drifted
    BY <1>2
  <2>2. /\ thread[k].status = decided[k].status
        /\ thread[k].status = "RESOLVED" => thread[k].resolved
    BY <2>1 DEF StatusAsDecided
  <2>3. CASE k # h
    BY <2>2, <2>3, <1>5, <1>8
  <2>4. CASE k = h
    <3>1. ~x.stale
      BY <2>4, <1>2
    <3>2. status = StatusOfReply(thread[h].status, x.by)
      BY <3>1, <1>1
    <3>3. status = "RESOLVED" => thread[h].status = "RESOLVED"
      BY <3>2 DEF StatusOfReply
    <3> HIDE DEF status, h
    <3> QED
      BY <2>2, <2>4, <3>2, <3>3, <1>4, <1>5, <1>8
  <2> QED
    BY <2>3, <2>4
<1> HIDE DEF status
<1>13. UnopenedAreFresh'
  BY <1>1, <1>4, <1>5, <1>8 DEF UnopenedAreFresh, Opened
<1>14. CallsAddressed'
  BY <1>1, <1>4, <1>5, <1>6, AtRestType DEF CallsAddressed, Opened
<1>15. RepliesUpToDate'
  BY <1>1, <1>4, <1>5, <1>6, AtRestType DEF RepliesUpToDate, CallsAddressed
<1>16. /\ \A d \in SupportCalls : Recording(d)' <=> Recording(d)
       /\ <<NoThread, "action">> \notin drifted' => <<NoThread, "action">> \notin drifted
  BY <1>1, <1>2, <1>6, AtRestType DEF Recording
<1>17. ActionIsRecorded'
  BY <1>2, <1>8, <1>16 DEF ActionIsRecorded
<1>18. RecordsUpToDate'
  <2> SUFFICES ASSUME <<NoThread, "action">> \notin drifted',
                      NEW d \in SupportCalls, Recording(d)', ~supportCall'[d].stale
               PROVE  active' = (supportCall'[d].kind = "enable_org")
    BY DEF RecordsUpToDate
  <2>1. d # c
    BY <1>6, AtRestType DEF Recording
  <2>2. Recording(d) /\ ~supportCall[d].stale /\ supportCall'[d].kind = supportCall[d].kind
    BY <1>6, <1>16, <2>1
  <2> QED
    BY <1>2, <1>16, <2>2 DEF RecordsUpToDate
<1> QED
  BY <1>11, <1>12, <1>13, <1>14, <1>15, <1>17, <1>18

(***************************************************************************)
(* A status that is decided on, and what is then no longer drifted.        *)
(***************************************************************************)
LEMMA DecideStep ==
  ASSUME SupportInv, NEW h \in Threads, NEW a \in Staff, NEW next \in Statuses,
         UpdateStatus(h, a, next)
  PROVE  SupportInv'
<1> USE DEF SupportInv
<1> DEFINE row == [thread[h] EXCEPT !.status = next,
                                    !.resolved = @ \/ next = "RESOLVED"]
<1>1. /\ Opened(h)
      /\ thread' = [thread EXCEPT ![h] = row]
      /\ decided' = [decided EXCEPT ![h].status = next]
      /\ drifted' = drifted \ {<<h, "status">>}
      /\ supportCall' = OthersOvertaken(h)
      /\ UNCHANGED <<notice, active>>
  BY DEF UpdateStatus
<1>2. thread[h] \in Thread
  BY DEF SupportTypeOK
<1>3. /\ row \in Thread
      /\ row.status = next
      /\ row.opener = thread[h].opener
      /\ next = "RESOLVED" => row.resolved
  BY <1>2 DEF Thread
<1>4. /\ thread' \in [Threads -> Thread]
      /\ thread'[h] = row
      /\ \A k \in Threads \ {h} : thread'[k] = thread[k]
  <2> HIDE DEF row
  <2> QED
    BY <1>1, <1>3, ThreadWritten
<1>5. /\ decided' \in [Threads -> [status : Statuses, action : Actions \cup {"none"}]]
      /\ decided'[h].status = next
      /\ \A k \in Threads : decided'[k].action = decided[k].action
      /\ \A k \in Threads \ {h} : decided'[k] = decided[k]
  BY <1>1 DEF SupportTypeOK
<1>6. /\ supportCall' \in [SupportCalls -> SupportCall]
      /\ \A d \in SupportCalls :
           /\ supportCall'[d].phase = supportCall[d].phase
           /\ supportCall'[d].of = supportCall[d].of
           /\ supportCall'[d].by = supportCall[d].by
           /\ supportCall'[d].seen = supportCall[d].seen
           /\ supportCall'[d].kind = supportCall[d].kind
           /\ supportCall[d].stale => supportCall'[d].stale
           /\ supportCall[d].phase = "replying" /\ supportCall[d].of = h
                => supportCall'[d].stale
  BY <1>1, OthersOvertakenType
<1>7. SupportTypeOK'
  BY <1>1, <1>4, <1>5, <1>6 DEF SupportTypeOK
<1> HIDE DEF row
<1>8. StatusAsDecided'
  BY <1>1, <1>3, <1>4, <1>5 DEF StatusAsDecided
<1>9. UnopenedAreFresh' /\ CallsAddressed'
  BY <1>1, <1>3, <1>4, <1>5, <1>6 DEF UnopenedAreFresh, CallsAddressed, Opened
<1>10. RepliesUpToDate'
  BY <1>3, <1>4, <1>6 DEF RepliesUpToDate, CallsAddressed
<1>11. /\ \A d \in SupportCalls : Recording(d)' <=> Recording(d)
       /\ <<NoThread, "action">> \notin drifted' => <<NoThread, "action">> \notin drifted
  BY <1>1, <1>6 DEF Recording
<1>12. ActionIsRecorded' /\ RecordsUpToDate'
  BY <1>1, <1>5, <1>6, <1>11 DEF ActionIsRecorded, RecordsUpToDate
<1> QED
  BY <1>7, <1>8, <1>9, <1>10, <1>12

LEMMA PriorityStep ==
  ASSUME SupportInv, NEW h \in Threads, NEW p \in {"NORMAL", "HIGH"}, SetPriority(h, p)
  PROVE  SupportInv'
<1> USE DEF SupportInv
<1> DEFINE row == [thread[h] EXCEPT !.priority = p]
<1>1. /\ Opened(h)
      /\ thread' = [thread EXCEPT ![h] = row]
      /\ UNCHANGED <<decided, notice, active, supportCall, drifted>>
  BY DEF SetPriority
<1>2. thread[h] \in Thread
  BY DEF SupportTypeOK
<1>3. /\ row \in Thread
      /\ row.status = thread[h].status
      /\ row.opener = thread[h].opener
      /\ row.resolved = thread[h].resolved
  BY <1>2 DEF Thread
<1> HIDE DEF row
<1>4. /\ thread' \in [Threads -> Thread]
      /\ \A k \in Threads : /\ thread'[k].status = thread[k].status
                            /\ thread'[k].opener = thread[k].opener
                            /\ thread'[k].resolved = thread[k].resolved
  BY <1>1, <1>3, ThreadWritten
<1>5. SupportTypeOK'
  BY <1>1, <1>4 DEF SupportTypeOK
<1>6. StatusAsDecided' /\ UnopenedAreFresh' /\ CallsAddressed' /\ RepliesUpToDate'
  BY <1>1, <1>4 DEF StatusAsDecided, UnopenedAreFresh, CallsAddressed, RepliesUpToDate,
                    Opened
<1>7. ActionIsRecorded' /\ RecordsUpToDate'
  BY <1>1 DEF ActionIsRecorded, RecordsUpToDate, Recording
<1> QED
  BY <1>5, <1>6, <1>7

-----------------------------------------------------------------------------
(***************************************************************************)
(* What a request has done to the organization is right until the next     *)
(* request does something to it.                                           *)
(***************************************************************************)
LEMMA ActStep ==
  ASSUME SupportInv, NEW c \in SupportCalls, Act(c)
  PROVE  SupportInv'
<1> USE DEF SupportInv
<1>1. /\ supportCall[c].phase = "acting"
      /\ active' = (supportCall[c].kind = "enable_org")
      /\ supportCall' = [d \in SupportCalls |->
           IF d = c THEN [supportCall[c] EXCEPT !.phase = "recording"]
           ELSE [supportCall[d] EXCEPT !.stale = @ \/ Recording(d)]]
      /\ drifted' = drifted \ {<<NoThread, "action">>}
      /\ UNCHANGED <<thread, decided, notice>>
  BY DEF Act
<1>2. \A d \in SupportCalls : supportCall[d] \in SupportCall
  BY DEF SupportTypeOK
<1>3. /\ supportCall'[c] \in SupportCall
      /\ supportCall'[c].phase = "recording"
      /\ supportCall'[c].of = supportCall[c].of
      /\ supportCall'[c].by = supportCall[c].by
      /\ supportCall'[c].kind = supportCall[c].kind
  BY <1>1, <1>2 DEF SupportCall
<1>4. \A d \in SupportCalls \ {c} :
        /\ supportCall'[d] \in SupportCall
        /\ supportCall'[d].phase = supportCall[d].phase
        /\ supportCall'[d].of = supportCall[d].of
        /\ supportCall'[d].by = supportCall[d].by
        /\ supportCall'[d].seen = supportCall[d].seen
        /\ supportCall[d].stale => supportCall'[d].stale
        /\ supportCall[d].phase = "recording" => supportCall'[d].stale
  <2> TAKE d \in SupportCalls \ {c}
  <2>1. supportCall'[d] = [supportCall[d] EXCEPT !.stale = @ \/ Recording(d)]
    BY <1>1
  <2> QED
    BY <1>2, <2>1 DEF SupportCall, Recording
<1>5. supportCall' \in [SupportCalls -> SupportCall]
  BY <1>1, <1>3, <1>4
<1>6. SupportTypeOK'
  BY <1>1, <1>5 DEF SupportTypeOK
<1>7. StatusAsDecided' /\ UnopenedAreFresh'
  BY <1>1 DEF StatusAsDecided, UnopenedAreFresh, Opened
<1>8. CallsAddressed' /\ RepliesUpToDate'
  <2> SUFFICES ASSUME NEW d \in SupportCalls
               PROVE  /\ supportCall'[d].phase # "idle" =>
                           /\ supportCall'[d].of \in Threads
                           /\ Opened(supportCall'[d].of)
                           /\ supportCall'[d].by \in Staff
                      /\ supportCall'[d].phase = "replying" /\ ~supportCall'[d].stale =>
                           supportCall'[d].seen = thread[supportCall'[d].of].status
    BY <1>1 DEF CallsAddressed, RepliesUpToDate, Opened
  <2>1. CASE d = c
    BY <2>1, <1>1, <1>3 DEF CallsAddressed
  <2>2. CASE d # c
    BY <2>2, <1>4 DEF CallsAddressed, RepliesUpToDate
  <2> QED
    BY <2>1, <2>2
<1>9. RecordsUpToDate'
  BY <1>1, <1>3, <1>4 DEF RecordsUpToDate, Recording
<1>10. ActionIsRecorded'
  BY <1>3 DEF ActionIsRecorded, Recording
<1> QED
  BY <1>6, <1>7, <1>8, <1>9, <1>10

\* A request that ends before its action changes nothing else
LEMMA FailStep ==
  ASSUME SupportInv, NEW c \in SupportCalls, ActFails(c) \/ SupportCallFails(c)
  PROVE  SupportInv'
<1> USE DEF SupportInv
<1>1. /\ supportCall' = [supportCall EXCEPT ![c] = AtRest]
      /\ drifted' \in {drifted, drifted \cup {<<NoThread, "action">>}}
      /\ Recording(c) => <<NoThread, "action">> \in drifted'
      /\ UNCHANGED <<thread, decided, notice, active>>
  BY DEF ActFails, SupportCallFails, Recording
<1>2. /\ supportCall' \in [SupportCalls -> SupportCall]
      /\ supportCall'[c] = AtRest
      /\ \A d \in SupportCalls \ {c} : supportCall'[d] = supportCall[d]
  BY <1>1, CallMoves, AtRestType
<1>3. SupportTypeOK'
  BY <1>1, <1>2 DEF SupportTypeOK
<1>4. \A h \in Threads : <<h, "status">> \notin drifted' => <<h, "status">> \notin drifted
  BY <1>1
<1>5. StatusAsDecided' /\ UnopenedAreFresh'
  BY <1>1, <1>4 DEF StatusAsDecided, UnopenedAreFresh, Opened
<1>6. CallsAddressed' /\ RepliesUpToDate'
  BY <1>1, <1>2, AtRestType DEF CallsAddressed, RepliesUpToDate, Opened
<1>7. \A d \in SupportCalls \ {c} : Recording(d)' <=> Recording(d)
  BY <1>2 DEF Recording
<1>8. ~Recording(c)'
  BY <1>2, AtRestType DEF Recording
<1>9. ActionIsRecorded' /\ RecordsUpToDate'
  BY <1>1, <1>2, <1>7, <1>8 DEF ActionIsRecorded, RecordsUpToDate
<1> QED
  BY <1>3, <1>5, <1>6, <1>9

LEMMA RecordStep ==
  ASSUME SupportInv, NEW c \in SupportCalls, RecordAction(c)
  PROVE  SupportInv'
<1> USE DEF SupportInv
<1> DEFINE x == supportCall[c]
           h == x.of
           status == StatusOfAction(x.resolves)
           row == [thread[h] EXCEPT !.status = status, !.resolved = x.resolves,
                                    !.author = x.by, !.message = "action"]
<1>1. /\ x \in SupportCall
      /\ x.phase = "recording" /\ h \in Threads /\ x.by \in Staff /\ Opened(h)
      /\ x.resolves \in BOOLEAN /\ x.stale \in BOOLEAN
      /\ x.kind \in Actions \cup {"none"}
  BY DEF RecordAction, CallsAddressed, SupportTypeOK, SupportCall
<1>2. /\ thread' = [thread EXCEPT ![h] = row]
      /\ decided' = [k \in Threads |->
           IF k = h THEN [status |-> status, action |-> x.kind]
           ELSE [decided[k] EXCEPT !.action = "none"]]
      /\ notice' = {n \in notice : n[1] # h}
      /\ drifted' = (drifted \ {<<h, "status">>}) \cup
                      (IF x.stale THEN {<<NoThread, "action">>} ELSE {})
      /\ supportCall' = Overtakes(h, c, AtRest)
      /\ UNCHANGED active
  BY DEF RecordAction
<1>3. /\ thread[h] \in Thread
      /\ status \in Statuses
      /\ status = "RESOLVED" => x.resolves
  BY <1>1 DEF SupportTypeOK, StatusOfAction, Statuses
<1>4. /\ row \in Thread
      /\ row.status = status
      /\ row.opener = thread[h].opener
      /\ row.resolved = x.resolves
  BY <1>1, <1>3 DEF Thread
<1>5. /\ thread' \in [Threads -> Thread]
      /\ thread'[h] = row
      /\ \A k \in Threads \ {h} : thread'[k] = thread[k]
  <2> HIDE DEF row, h
  <2> QED
    BY <1>1, <1>2, <1>4, ThreadWritten
<1> HIDE DEF row
<1>6. /\ supportCall' \in [SupportCalls -> SupportCall]
      /\ supportCall'[c] = AtRest
      /\ \A d \in SupportCalls \ {c} :
           /\ supportCall'[d].phase = supportCall[d].phase
           /\ supportCall'[d].of = supportCall[d].of
           /\ supportCall'[d].by = supportCall[d].by
           /\ supportCall'[d].seen = supportCall[d].seen
           /\ supportCall'[d].kind = supportCall[d].kind
           /\ supportCall[d].stale => supportCall'[d].stale
           /\ supportCall[d].phase = "replying" /\ supportCall[d].of = h
                => supportCall'[d].stale
  <2> HIDE DEF h
  <2> QED
    BY <1>1, <1>2, OvertakesType, AtRestType
<1>7. \A k \in Threads :
        /\ decided'[k] \in [status : Statuses, action : Actions \cup {"none"}]
        /\ k = h => decided'[k].status = status /\ decided'[k].action = x.kind
        /\ k # h => /\ decided'[k].status = decided[k].status
                    /\ decided'[k].action = "none"
  <2> TAKE k \in Threads
  <2>1. decided[k] \in [status : Statuses, action : Actions \cup {"none"}]
    BY DEF SupportTypeOK
  <2>2. CASE k = h
    BY <2>2, <1>1, <1>2, <1>3
  <2>3. CASE k # h
    BY <2>1, <2>3, <1>2
  <2> QED
    BY <2>2, <2>3
<1>8. decided' \in [Threads -> [status : Statuses, action : Actions \cup {"none"}]]
  BY <1>2, <1>7
<1>9. /\ notice' \subseteq Threads \X {"opener", "supers"}
      /\ drifted' \subseteq (Threads \cup {NoThread}) \X {"status", "action"}
  BY <1>2 DEF SupportTypeOK
<1>10. SupportTypeOK'
  BY <1>2, <1>5, <1>6, <1>8, <1>9 DEF SupportTypeOK
<1> HIDE DEF status
<1>11. StatusAsDecided'
  <2> SUFFICES ASSUME NEW k \in Threads, <<k, "status">> \notin drifted'
               PROVE  /\ thread'[k].status = decided'[k].status
                      /\ thread'[k].status = "RESOLVED" => thread'[k].resolved
    BY DEF StatusAsDecided
  <2>1. CASE k = h
    BY <2>1, <1>3, <1>4, <1>5, <1>7
  <2>2. CASE k # h
    <3>1. <<k, "status">> \notin drifted
      BY <2>2, <1>2
    <3> QED
      BY <3>1, <2>2, <1>5, <1>7 DEF StatusAsDecided
  <2> QED
    BY <2>1, <2>2
<1>12. UnopenedAreFresh' /\ CallsAddressed'
  BY <1>1, <1>4, <1>5, <1>6, <1>7, AtRestType
     DEF UnopenedAreFresh, CallsAddressed, Opened
<1>13. RepliesUpToDate'
  BY <1>1, <1>4, <1>5, <1>6, AtRestType DEF RepliesUpToDate, CallsAddressed
<1>14. <<NoThread, "action">> \notin drifted' =>
         /\ ~x.stale
         /\ <<NoThread, "action">> \notin drifted
         /\ active = (x.kind = "enable_org")
  BY <1>1, <1>2 DEF RecordsUpToDate, Recording
<1>15. ActionIsRecorded'
  BY <1>2, <1>7, <1>14 DEF ActionIsRecorded
<1>16. RecordsUpToDate'
  BY <1>2, <1>6, <1>14, AtRestType DEF RecordsUpToDate, Recording
<1> QED
  BY <1>10, <1>11, <1>12, <1>13, <1>15, <1>16

\* An organization that is changed elsewhere is not what was recorded
LEMMA OrganizationStep ==
  ASSUME SupportInv, NEW b \in BOOLEAN, SetOrganization(b)
  PROVE  SupportInv'
<1> USE DEF SupportInv
<1>1. /\ active' = b
      /\ drifted' = drifted \cup {<<NoThread, "action">>}
      /\ UNCHANGED <<thread, decided, notice, supportCall>>
  BY DEF SetOrganization
<1>2. SupportTypeOK'
  BY <1>1 DEF SupportTypeOK
<1>3. StatusAsDecided' /\ UnopenedAreFresh' /\ CallsAddressed' /\ RepliesUpToDate'
  BY <1>1 DEF StatusAsDecided, UnopenedAreFresh, CallsAddressed, RepliesUpToDate, Opened
<1>4. ActionIsRecorded' /\ RecordsUpToDate'
  BY <1>1 DEF ActionIsRecorded, RecordsUpToDate
<1> QED
  BY <1>2, <1>3, <1>4

-----------------------------------------------------------------------------
LEMMA SupportInvariant == SupportSpec => []SupportInv
<1>1. SupportInv /\ [SupportNext]_supportVars => SupportInv'
  <2> SUFFICES ASSUME SupportInv, [SupportNext]_supportVars PROVE SupportInv'
    OBVIOUS
  <2>1. CASE ThreadStep
    BY <2>1, CreateStep, DecideStep, PriorityStep, ReadStep, ReplyStep DEF ThreadStep
  <2>2. CASE ActionStep
    BY <2>2, OrganizationStep, AskStep, ActStep, FailStep, RecordStep DEF ActionStep
  <2>3. CASE UNCHANGED supportVars
    BY <2>3 DEF supportVars, SupportInv, SupportTypeOK, StatusAsDecided, ActionIsRecorded,
                CallsAddressed, UnopenedAreFresh, RepliesUpToDate, RecordsUpToDate,
                Opened, Recording
  <2> QED
    BY <2>1, <2>2, <2>3 DEF SupportNext
<1> QED
  BY InitInv, <1>1, PTL DEF SupportSpec

(***************************************************************************)
(* A thread has the status last decided on unless a reply wrote back one   *)
(* that had changed since it was read (addMessage, updateStatus).          *)
(***************************************************************************)
THEOREM StatusHolds == SupportSpec => []StatusAsDecided
<1>1. SupportInv => StatusAsDecided
  BY DEF SupportInv
<1> QED
  BY SupportInvariant, <1>1, PTL

(***************************************************************************)
(* The organization is as the last record says, unless two actions met or  *)
(* a record was lost (applyAction).                                        *)
(***************************************************************************)
THEOREM RecordHolds == SupportSpec => []ActionIsRecorded
<1>1. SupportInv => ActionIsRecorded
  BY DEF SupportInv
<1> QED
  BY SupportInvariant, <1>1, PTL

-----------------------------------------------------------------------------
(***************************************************************************)
(* Mails about support threads: whoever has to answer is told.             *)
(***************************************************************************)
ActionsBySupers ==
  \A c \in SupportCalls :
    supportCall[c].phase \in {"acting", "recording"} => supportCall[c].by \in SuperAdmins

Notified ==
  \A h \in Threads :
    LET x == thread[h] IN
    /\ Opened(h) /\ x.author = x.opener /\ x.author \notin SuperAdmins
         => <<h, "supers">> \in notice
    /\ x.message = "reply" /\ x.author # x.opener => <<h, "opener">> \in notice

\* The mails about the other threads stay
RowIsWritten(h, row) ==
  /\ thread' = [thread EXCEPT ![h] = row]
  /\ \A k \in Threads \ {h}, to \in {"opener", "supers"} :
       <<k, to>> \in notice => <<k, to>> \in notice'

LEMMA NotifiedWhenWritten ==
  ASSUME SupportTypeOK, Notified, NEW h \in Threads, NEW row \in Thread, RowIsWritten(h, row),
         /\ row.opener # Nobody /\ row.author = row.opener /\ row.author \notin SuperAdmins
              => <<h, "supers">> \in notice'
         /\ row.message = "reply" /\ row.author # row.opener => <<h, "opener">> \in notice'
  PROVE  Notified'
<1>1. /\ thread'[h] = row
      /\ \A k \in Threads \ {h} : thread'[k] = thread[k]
  BY DEF RowIsWritten, SupportTypeOK
<1> QED
  BY <1>1 DEF RowIsWritten, Notified, Opened

LEMMA MailsTell ==
  ASSUME NEW h \in Threads, NEW to \in {"opener", "supers"}, Mails(h, to)
  PROVE  /\ <<h, to>> \in notice'
         /\ \A k \in Threads \ {h}, t \in {"opener", "supers"} :
              <<k, t>> \in notice => <<k, t>> \in notice'
  BY DEF Mails

LEMMA NotifiedStep ==
  ASSUME SupportInv, ActionsBySupers, Notified, [SupportNext]_supportVars
  PROVE  Notified'
<1> USE DEF SupportInv
<1>1. ASSUME NEW h \in Threads, NEW a \in Staff, NEW p \in {"NORMAL", "HIGH"},
             CreateThread(h, a, p)
      PROVE  Notified'
  <2> DEFINE row == [NoThreadRow EXCEPT
               !.opener = a, !.priority = p, !.author = a, !.message = "opening"]
  <2>1. /\ row \in Thread /\ row.message = "opening"
    BY DEF NoThreadRow, Thread, Statuses
  <2>2. RowIsWritten(h, row) /\ <<h, "supers">> \in notice'
    BY <1>1, MailsTell DEF CreateThread, RowIsWritten
  <2> HIDE DEF row
  <2> QED
    BY <2>1, <2>2, NotifiedWhenWritten
<1>2. ASSUME NEW h \in Threads, NEW a \in Staff, NEW next \in Statuses,
             UpdateStatus(h, a, next)
      PROVE  Notified'
  <2> DEFINE row == [thread[h] EXCEPT !.status = next, !.resolved = @ \/ next = "RESOLVED"]
  <2>1. /\ row \in Thread /\ row.message = thread[h].message /\ row.opener = thread[h].opener
        /\ row.author = thread[h].author
    <3>1. thread[h] \in Thread
      BY DEF SupportTypeOK
    <3>2. (thread[h].resolved \/ next = "RESOLVED") \in BOOLEAN
      OBVIOUS
    <3> QED
      BY <3>1, <3>2 DEF Thread
  <2>2. RowIsWritten(h, row) /\ notice' = notice
    BY <1>2 DEF UpdateStatus, RowIsWritten
  <2> HIDE DEF row
  <2> QED
    BY <2>1, <2>2, NotifiedWhenWritten DEF Notified, Opened
<1>3. ASSUME NEW h \in Threads, NEW p \in {"NORMAL", "HIGH"}, SetPriority(h, p)
      PROVE  Notified'
  <2> DEFINE row == [thread[h] EXCEPT !.priority = p]
  <2>1. /\ row \in Thread /\ row.message = thread[h].message /\ row.opener = thread[h].opener
        /\ row.author = thread[h].author
    BY DEF SupportTypeOK, Thread
  <2>2. RowIsWritten(h, row) /\ notice' = notice
    BY <1>3 DEF SetPriority, RowIsWritten
  <2> HIDE DEF row
  <2> QED
    BY <2>1, <2>2, NotifiedWhenWritten DEF Notified, Opened
<1>4. ASSUME NEW c \in SupportCalls, AddMessage(c)
      PROVE  Notified'
  <2> DEFINE x == supportCall[c]
             h == x.of
             row == [thread[h] EXCEPT !.status = StatusOfReply(x.seen, x.by),
                                      !.author = x.by, !.message = "reply"]
  <2>1. /\ h \in Threads /\ x.by \in Staff /\ x.seen \in Statuses
    BY <1>4 DEF AddMessage, CallsAddressed, SupportTypeOK, SupportCall
  <2>2. /\ row \in Thread /\ row.message = "reply" /\ row.opener = thread[h].opener
        /\ row.author = x.by
    <3>1. thread[h] \in Thread /\ StatusOfReply(x.seen, x.by) \in Statuses
      BY <2>1 DEF SupportTypeOK, StatusOfReply, Statuses
    <3> QED
      BY <2>1, <3>1 DEF Thread
  <2>3. RowIsWritten(h, row) /\ <<h, NoticeOfReply(h, x.by)>> \in notice'
    BY <1>4, <2>1, MailsTell DEF AddMessage, RowIsWritten, NoticeOfReply
  <2> HIDE DEF row, h
  <2> QED
    BY <2>1, <2>2, <2>3, NotifiedWhenWritten DEF NoticeOfReply
<1>5. ASSUME NEW c \in SupportCalls, RecordAction(c)
      PROVE  Notified'
  <2> DEFINE x == supportCall[c]
             h == x.of
             row == [thread[h] EXCEPT !.status = StatusOfAction(x.resolves),
                       !.resolved = x.resolves, !.author = x.by, !.message = "action"]
  <2>1. /\ h \in Threads /\ x.by \in SuperAdmins /\ x.resolves \in BOOLEAN
    BY <1>5 DEF RecordAction, CallsAddressed, ActionsBySupers, SupportTypeOK, SupportCall
  <2>2. /\ row \in Thread /\ row.message = "action" /\ row.author = x.by
    <3>1. thread[h] \in Thread /\ StatusOfAction(x.resolves) \in Statuses /\ x.by \in Staff
      BY <2>1 DEF SupportTypeOK, StatusOfAction, Statuses, Staff
    <3> QED
      BY <2>1, <3>1 DEF Thread
  <2>3. RowIsWritten(h, row)
    BY <1>5, <2>1 DEF RecordAction, RowIsWritten
  <2> HIDE DEF row, h
  <2> QED
    BY <2>1, <2>2, <2>3, NotifiedWhenWritten
<1>6. CASE UNCHANGED <<thread, notice>>
  BY <1>6 DEF Notified, Opened
<1>7. CASE UNCHANGED supportVars
  BY <1>6, <1>7 DEF supportVars
<1>8. ASSUME NEW c \in SupportCalls,
             \/ \E h \in Threads, a \in Staff : ReadThread(c, h, a)
             \/ \E h \in Threads, a \in SuperAdmins, k \in Actions, b \in BOOLEAN :
                  AskAction(c, h, a, k, b)
             \/ Act(c) \/ ActFails(c) \/ SupportCallFails(c)
      PROVE  Notified'
  BY <1>6, <1>8 DEF ReadThread, AskAction, Act, ActFails, SupportCallFails
<1>9. ASSUME NEW b \in BOOLEAN, SetOrganization(b) PROVE Notified'
  BY <1>6, <1>9 DEF SetOrganization
<1> QED
  BY <1>1, <1>2, <1>3, <1>4, <1>5, <1>7, <1>8, <1>9 DEF SupportNext, ThreadStep, ActionStep

LEMMA ActionsBySupersStep ==
  ASSUME SupportInv, ActionsBySupers, [SupportNext]_supportVars
  PROVE  ActionsBySupers'
<1> USE DEF SupportInv
<1> DEFINE Kept(d) == /\ supportCall'[d].phase = supportCall[d].phase
                      /\ supportCall'[d].by = supportCall[d].by
<1>1. CASE \A d \in SupportCalls : Kept(d)
  BY <1>1 DEF ActionsBySupers
<1>2. ASSUME NEW c \in SupportCalls, \A d \in SupportCalls \ {c} : Kept(d),
             supportCall'[c].phase \in {"acting", "recording"} =>
               supportCall'[c].by \in SuperAdmins
      PROVE  ActionsBySupers'
  BY <1>2 DEF ActionsBySupers
<1>3. ASSUME NEW h \in Threads, NEW a \in Staff, NEW next \in Statuses,
             UpdateStatus(h, a, next)
      PROVE  ActionsBySupers'
  BY <1>1, <1>3, OthersOvertakenType DEF UpdateStatus
<1>4. ASSUME NEW c \in SupportCalls, NEW h \in Threads, NEW a \in Staff, ReadThread(c, h, a)
      PROVE  ActionsBySupers'
  <2>1. supportCall'[c].phase = "replying"
    BY <1>4 DEF ReadThread, AtRest, SupportTypeOK
  <2> QED
    BY <1>2, <1>4, <2>1 DEF ReadThread, SupportTypeOK
<1>5. ASSUME NEW c \in SupportCalls, AddMessage(c)
      PROVE  ActionsBySupers'
  <2>1. supportCall[c].of \in Threads
    BY <1>5 DEF AddMessage, CallsAddressed
  <2>2. CASE supportCall' = [supportCall EXCEPT ![c] = AtRest]
    BY <2>2, <1>2, CallMoves, AtRestType
  <2>3. CASE supportCall' = Overtakes(supportCall[c].of, c, AtRest)
    <3>1. (\A d \in SupportCalls \ {c} : Kept(d)) /\ supportCall'[c].phase = "idle"
      BY <2>1, <2>3, OvertakesType, AtRestType
    <3> QED
      BY <3>1, <1>2
  <2> QED
    BY <1>5, <2>2, <2>3 DEF AddMessage
<1>6. ASSUME NEW c \in SupportCalls, NEW h \in Threads, NEW a \in SuperAdmins, NEW k \in Actions,
             NEW b \in BOOLEAN, AskAction(c, h, a, k, b)
      PROVE  ActionsBySupers'
  <2>1. supportCall'[c].by = a
    BY <1>6 DEF AskAction, AtRest, SupportTypeOK
  <2> QED
    BY <1>2, <1>6, <2>1 DEF AskAction, SupportTypeOK
<1>7. ASSUME NEW c \in SupportCalls, Act(c)
      PROVE  ActionsBySupers'
  <2>1. \A d \in SupportCalls : supportCall[d] \in SupportCall
    BY DEF SupportTypeOK
  <2>2. \A d \in SupportCalls \ {c} : Kept(d)
    BY <1>7, <2>1 DEF Act, SupportCall
  <2>3. supportCall'[c].by = supportCall[c].by /\ supportCall[c].phase = "acting"
    BY <1>7, <2>1 DEF Act, SupportCall
  <2> QED
    BY <1>2, <2>2, <2>3 DEF ActionsBySupers
<1>8. ASSUME NEW c \in SupportCalls, supportCall' = [supportCall EXCEPT ![c] = AtRest]
      PROVE  ActionsBySupers'
  BY <1>2, <1>8, CallMoves, AtRestType
<1>9. ASSUME NEW c \in SupportCalls, RecordAction(c)
      PROVE  ActionsBySupers'
  <2>1. supportCall[c].of \in Threads
    BY <1>9 DEF RecordAction, CallsAddressed
  <2>2. supportCall' = Overtakes(supportCall[c].of, c, AtRest)
    BY <1>9 DEF RecordAction
  <2>3. (\A d \in SupportCalls \ {c} : Kept(d)) /\ supportCall'[c].phase = "idle"
    BY <2>1, <2>2, OvertakesType, AtRestType
  <2> QED
    BY <2>3, <1>2
<1>10. ASSUME UNCHANGED supportCall PROVE ActionsBySupers'
  BY <1>10, <1>1
<1>11. CASE ThreadStep
  BY <1>3, <1>4, <1>5, <1>10, <1>11 DEF ThreadStep, CreateThread, SetPriority
<1>12. CASE ActionStep
  BY <1>6, <1>7, <1>8, <1>9, <1>10, <1>12 DEF ActionStep, SetOrganization, ActFails, SupportCallFails
<1> QED
  BY <1>10, <1>11, <1>12 DEF SupportNext, supportVars

\* Whoever has not answered the last message of a thread is mailed about it:
\* super administrators about what its opener writes, the opener about replies
\* (notifyThreadOpened, notifyReply, getUnreadCount).
THEOREM NotificationHolds == SupportSpec => []UnreadIsNotified
<1> DEFINE Inv == SupportInv /\ ActionsBySupers /\ Notified
<1>1. SupportInit => ActionsBySupers /\ Notified
  BY DEF SupportInit, ActionsBySupers, Notified, Opened, NoThreadRow, AtRest
<1>2. Inv /\ SupportInv' /\ [SupportNext]_supportVars => Inv'
  BY NotifiedStep, ActionsBySupersStep
<1>3. Inv => UnreadIsNotified
  <2> SUFFICES ASSUME Inv, NEW h \in Threads, NEW to \in {"supers", "opener"},
                      <<h, to>> \in notice
               PROVE  to \in {n[2] : n \in {m \in notice : m[1] = h}}
    BY DEF UnreadIsNotified, Notified
  <2>1. <<h, to>> \in {m \in notice : m[1] = h}
    OBVIOUS
  <2> QED
    BY <2>1
<1> QED
  BY <1>1, <1>2, <1>3, InitInv, SupportInvariant, PTL DEF SupportSpec

-----------------------------------------------------------------------------
(***************************************************************************)
(* Deleting a comment of a feedback thread takes nobody else's with it,    *)
(* for any number of threads, comments, clients and requests.  A request   *)
(* that deletes its thread counted one comment, its own: that is what the  *)
(* invariant says.                                                         *)
(***************************************************************************)

HIDE SupportAssumption
USE FeedbackAssumption

\* What a request has read, and what one that deletes has counted
Sound(x) ==
  /\ x.phase \in {"adding", "deciding", "deleting"} => x.topic \in Topics
  /\ x.phase = "deleting" => /\ x.comment \in x.seen
                             /\ x.remaining = Cardinality(x.seen) - 1

DeletionsCounted == \A c \in FeedbackCalls : Sound(feedbackCall[c])

FeedbackInv == FeedbackTypeOK /\ DeletionsCounted

CommentRow == [of : Topics \cup {NoTopic}, by : Clients \cup {"nobody"}, used : BOOLEAN]

-----------------------------------------------------------------------------
LEMMA DoneType == Done \in FeedbackCall /\ Done.phase = "idle"
<1>1. Cardinality(Comments) \in Nat
  BY FS_CardinalityType
<1> QED
  BY <1>1 DEF Done, FeedbackCall

LEMMA FeedbackInitInv == FeedbackInit => FeedbackInv
<1> SUFFICES ASSUME FeedbackInit PROVE FeedbackInv
  OBVIOUS
<1>1. FeedbackTypeOK
  BY DoneType DEF FeedbackInit, FeedbackTypeOK, Topic, NoCommentRow
<1>2. DeletionsCounted
  BY DoneType DEF FeedbackInit, DeletionsCounted, Sound
<1> QED
  BY <1>1, <1>2 DEF FeedbackInv

(***************************************************************************)
(* One request moves on and the others stay as they are.                   *)
(***************************************************************************)
LEMMA FeedbackCallMoves ==
  ASSUME FeedbackInv, NEW c \in FeedbackCalls, NEW next \in FeedbackCall,
         feedbackCall' = [feedbackCall EXCEPT ![c] = next], Sound(next)
  PROVE  /\ feedbackCall' \in [FeedbackCalls -> FeedbackCall]
         /\ DeletionsCounted'
<1>1. /\ feedbackCall' \in [FeedbackCalls -> FeedbackCall]
      /\ feedbackCall'[c] = next
      /\ \A d \in FeedbackCalls \ {c} : feedbackCall'[d] = feedbackCall[d]
  BY DEF FeedbackInv, FeedbackTypeOK
<1>2. DeletionsCounted'
  BY <1>1 DEF FeedbackInv, DeletionsCounted
<1> QED
  BY <1>1, <1>2

LEMMA LeavesMoves ==
  ASSUME FeedbackInv, NEW c \in FeedbackCalls, NEW p, Leaves(c, p)
  PROVE  feedbackCall' \in [FeedbackCalls -> FeedbackCall] /\ DeletionsCounted'
  BY FeedbackCallMoves, DoneType DEF Leaves, Sound

(***************************************************************************)
(* The request that takes a thread's last comment has counted just that.   *)
(***************************************************************************)
LEMMA LastIsOwn ==
  ASSUME FeedbackInv, NEW c \in FeedbackCalls,
         feedbackCall[c].phase = "deleting", IsLast(feedbackCall[c].remaining)
  PROVE  feedbackCall[c].seen = {feedbackCall[c].comment}
<1> DEFINE x == feedbackCall[c]
<1>1. /\ x.seen \in SUBSET Comments
      /\ x.comment \in x.seen
      /\ x.remaining = Cardinality(x.seen) - 1
  BY DEF FeedbackInv, FeedbackTypeOK, FeedbackCall, DeletionsCounted, Sound
<1> HIDE DEF x
<1>2. IsFiniteSet(x.seen)
  BY <1>1, FS_Subset
<1>3. Cardinality(x.seen) \in Nat
  BY <1>2, FS_CardinalityType
<1>4. Cardinality(x.seen) <= 1
  BY <1>1, <1>3 DEF IsLast, x
<1>5. Cardinality(x.seen) # 0
  BY <1>1, <1>2, FS_EmptySet
<1>6. Cardinality(x.seen) = 1
  BY <1>3, <1>4, <1>5
<1>7. PICK y : x.seen = {y}
  BY <1>2, <1>6, FS_Singleton
<1> QED
  BY <1>1, <1>7 DEF x

-----------------------------------------------------------------------------
LEMMA OpenStep ==
  ASSUME FeedbackInv, NEW t \in Topics, NEW m \in Comments, NEW a \in Clients,
         OpenTopic(t, m, a)
  PROVE  FeedbackInv'
<1>1. /\ topic' = [topic EXCEPT ![t].status = "OPEN"]
      /\ comment' = [comment EXCEPT ![m] = Row(t, a)]
      /\ UNCHANGED <<feedbackCall, emptied>>
  BY DEF OpenTopic
<1>2. Row(t, a) \in CommentRow
  BY DEF Row, CommentRow
<1>3. comment' \in [Comments -> CommentRow]
  BY <1>1, <1>2 DEF FeedbackInv, FeedbackTypeOK, CommentRow
<1>4. topic' \in [Topics -> Topic]
  BY <1>1 DEF FeedbackInv, FeedbackTypeOK, Topic
<1>5. DeletionsCounted'
  BY <1>1 DEF FeedbackInv, DeletionsCounted
<1> QED
  BY <1>1, <1>3, <1>4, <1>5 DEF FeedbackInv, FeedbackTypeOK, CommentRow

(***************************************************************************)
(* A request that reads a thread or a comment changes no row.              *)
(***************************************************************************)
LEMMA FeedbackTakeStep ==
  ASSUME FeedbackInv, NEW c \in FeedbackCalls, NEW next \in FeedbackCall, Takes(c, next), Sound(next)
  PROVE  FeedbackInv'
<1>1. /\ feedbackCall' = [feedbackCall EXCEPT ![c] = next]
      /\ UNCHANGED <<topic, comment, emptied>>
  BY DEF Takes
<1>2. feedbackCall' \in [FeedbackCalls -> FeedbackCall] /\ DeletionsCounted'
  BY <1>1, FeedbackCallMoves
<1> QED
  BY <1>1, <1>2 DEF FeedbackInv, FeedbackTypeOK

LEMMA FeedbackAskStep ==
  ASSUME FeedbackInv, NEW c \in FeedbackCalls, NEW t \in Topics,
         NEW s \in {"OPEN", "RESOLVED"}, AskStatus(c, t, s)
  PROVE  FeedbackInv'
<1> DEFINE next == [Done EXCEPT !.phase = "deciding", !.topic = t, !.status = s]
<1>1. next \in FeedbackCall /\ Sound(next)
  BY DoneType DEF Done, FeedbackCall, Sound
<1>2. Takes(c, next)
  BY DEF AskStatus
<1> HIDE DEF next
<1> QED
  BY <1>1, <1>2, FeedbackTakeStep

LEMMA FeedbackReadStep ==
  ASSUME FeedbackInv, NEW c \in FeedbackCalls, NEW t \in Topics, NEW m \in Comments,
         NEW a \in Clients, ReadTopic(c, t, m, a)
  PROVE  FeedbackInv'
<1> DEFINE next == [Done EXCEPT !.phase = "adding", !.topic = t, !.comment = m, !.by = a]
<1>1. next \in FeedbackCall /\ Sound(next)
  BY DoneType DEF Done, FeedbackCall, Sound
<1>2. Takes(c, next)
  BY DEF ReadTopic
<1> HIDE DEF next
<1> QED
  BY <1>1, <1>2, FeedbackTakeStep

LEMMA EditStep ==
  ASSUME FeedbackInv, NEW c \in FeedbackCalls, NEW m \in Comments, NEW a \in Clients,
         EditComment(c, m, a)
  PROVE  FeedbackInv'
<1> DEFINE next == [Done EXCEPT !.phase = "editing", !.comment = m, !.by = a]
<1>1. next \in FeedbackCall /\ Sound(next)
  BY DoneType DEF Done, FeedbackCall, Sound
<1>2. Takes(c, next)
  BY DEF EditComment
<1> HIDE DEF next
<1> QED
  BY <1>1, <1>2, FeedbackTakeStep

LEMMA CountStep ==
  ASSUME FeedbackInv, NEW c \in FeedbackCalls, NEW m \in Comments, NEW a \in Clients,
         CountComments(c, m, a)
  PROVE  FeedbackInv'
<1> DEFINE t == comment[m].of
           next == [Done EXCEPT !.phase = "deleting", !.topic = t, !.comment = m,
                                !.by = a, !.remaining = Cardinality(In(t)) - 1,
                                !.seen = In(t)]
<1>1. t \in Topics /\ Takes(c, next)
  BY DEF CountComments, FeedbackInv, FeedbackTypeOK
<1>2. In(t) \in SUBSET Comments /\ m \in In(t)
  BY DEF In
<1>3. IsFiniteSet(In(t)) /\ Cardinality(In(t)) <= Cardinality(Comments)
  BY <1>2, FS_Subset
<1>4. Cardinality(In(t)) \in Nat /\ Cardinality(Comments) \in Nat
  BY <1>3, FS_CardinalityType
<1>5. Cardinality(In(t)) # 0
  BY <1>2, <1>3, FS_EmptySet
<1>6. Cardinality(In(t)) - 1 \in 0..Cardinality(Comments)
  BY <1>3, <1>4, <1>5
<1>7. next \in FeedbackCall /\ Sound(next)
  <2> HIDE DEF t
  <2> QED
    BY <1>1, <1>2, <1>6, DoneType DEF Done, FeedbackCall, Sound
<1> HIDE DEF next
<1> QED
  BY <1>1, <1>7, FeedbackTakeStep

-----------------------------------------------------------------------------
LEMMA AddStep ==
  ASSUME FeedbackInv, NEW c \in FeedbackCalls, AddComment(c)
  PROVE  FeedbackInv'
<1> DEFINE x == feedbackCall[c]
<1>1. /\ Leaves(c, "adding")
      /\ comment' = IF IsOpen(x.topic) /\ ~comment[x.comment].used
                    THEN [comment EXCEPT ![x.comment] = Row(x.topic, x.by)] ELSE comment
      /\ UNCHANGED <<topic, emptied>>
  BY DEF AddComment
<1>2. x \in FeedbackCall
  BY DEF FeedbackInv, FeedbackTypeOK
<1>3. Row(x.topic, x.by) \in CommentRow
  BY <1>2 DEF Row, CommentRow, FeedbackCall
<1> HIDE DEF x
<1>4. comment' \in [Comments -> CommentRow]
  BY <1>1, <1>3 DEF FeedbackInv, FeedbackTypeOK, CommentRow
<1>5. feedbackCall' \in [FeedbackCalls -> FeedbackCall] /\ DeletionsCounted'
  BY <1>1, LeavesMoves
<1> QED
  BY <1>1, <1>4, <1>5 DEF FeedbackInv, FeedbackTypeOK, CommentRow

LEMMA UpdateStep ==
  ASSUME FeedbackInv, NEW c \in FeedbackCalls, UpdateTopic(c)
  PROVE  FeedbackInv'
<1> DEFINE x == feedbackCall[c]
           row == [status |-> x.status, resolved |-> x.status = "RESOLVED"]
<1>1. /\ Leaves(c, "deciding")
      /\ topic' = IF IsOpen(x.topic)
                  THEN [topic EXCEPT ![x.topic].status = x.status,
                                     ![x.topic].resolved = (x.status = "RESOLVED")]
                  ELSE topic
      /\ UNCHANGED <<comment, emptied>>
  BY DEF UpdateTopic
<1>2. x.status \in {"OPEN", "RESOLVED"}
  BY DEF FeedbackInv, FeedbackTypeOK, FeedbackCall
<1>3. topic' \in [Topics -> Topic]
  <2> HIDE DEF x
  <2> QED
    BY ZenonT(30), <1>1, <1>2 DEF FeedbackInv, FeedbackTypeOK, Topic
<1>4. feedbackCall' \in [FeedbackCalls -> FeedbackCall] /\ DeletionsCounted'
  BY <1>1, LeavesMoves
<1> QED
  BY <1>1, <1>3, <1>4 DEF FeedbackInv, FeedbackTypeOK

LEMMA DeleteStep ==
  ASSUME FeedbackInv, NEW c \in FeedbackCalls, DeleteComment(c)
  PROVE  FeedbackInv' /\ DeletedOnRequest
<1> DEFINE x == feedbackCall[c]
           gone == IF IsLast(x.remaining) THEN In(x.topic) ELSE {x.comment}
<1>1. /\ Leaves(c, "deleting")
      /\ comment' = [m \in Comments |->
           IF m \in gone THEN [comment[m] EXCEPT !.of = NoTopic] ELSE comment[m]]
      /\ topic' = IF IsLast(x.remaining) THEN [topic EXCEPT ![x.topic].status = "DELETED"]
                  ELSE topic
      /\ emptied' = IF In(x.topic) # x.seen THEN emptied \cup {x.topic} ELSE emptied
  BY DEF DeleteComment
<1>2. x \in FeedbackCall /\ x.phase = "deleting"
  BY <1>1 DEF FeedbackInv, FeedbackTypeOK, Leaves
<1>3. x.topic \in Topics /\ (IsLast(x.remaining) => x.seen = {x.comment})
  BY <1>2, LastIsOwn DEF FeedbackInv, DeletionsCounted, Sound
<1>4. comment' \in [Comments -> CommentRow]
  <2> HIDE DEF gone
  <2>1. \A m \in Comments : comment[m] \in CommentRow
    BY DEF FeedbackInv, FeedbackTypeOK, CommentRow
  <2>2. \A m \in Comments : [comment[m] EXCEPT !.of = NoTopic] \in CommentRow
    BY <2>1 DEF CommentRow
  <2> QED
    BY <1>1, <2>1, <2>2
<1>5. topic' \in [Topics -> Topic] /\ emptied' \subseteq Topics
  <2> HIDE DEF x
  <2> QED
    BY <1>1, <1>3 DEF FeedbackInv, FeedbackTypeOK, Topic
<1>6. feedbackCall' \in [FeedbackCalls -> FeedbackCall] /\ DeletionsCounted'
  BY <1>1, LeavesMoves
<1>7. FeedbackInv'
  BY <1>4, <1>5, <1>6 DEF FeedbackInv, FeedbackTypeOK, CommentRow
<1>8. feedbackCall'[c].phase = "idle"
  BY <1>1, DoneType DEF Leaves, FeedbackInv, FeedbackTypeOK
<1>9. DeletedOnRequest
  <2> SUFFICES ASSUME NEW m \in Comments, comment[m].of # NoTopic, comment'[m].of = NoTopic
               PROVE  x.comment = m \/ m \notin x.seen
    BY <1>2, <1>8 DEF DeletedOnRequest
  <2>1. m \in gone
    BY <1>1
  <2>2. CASE IsLast(x.remaining)
    BY <2>2, <1>3
  <2>3. CASE ~IsLast(x.remaining)
    BY <2>1, <2>3
  <2> QED
    BY <2>2, <2>3
<1> QED
  BY <1>7, <1>9

\* A request that ends without its statement changes nothing else
LEMMA EndStep ==
  ASSUME FeedbackInv, NEW c \in FeedbackCalls, EditDone(c) \/ FeedbackCallFails(c)
  PROVE  FeedbackInv'
<1>1. /\ feedbackCall' \in [FeedbackCalls -> FeedbackCall] /\ DeletionsCounted'
      /\ UNCHANGED <<topic, comment, emptied>>
  BY LeavesMoves DEF EditDone, FeedbackCallFails
<1> QED
  BY <1>1 DEF FeedbackInv, FeedbackTypeOK

(***************************************************************************)
(* Steps that write no comment, or write one into a thread, take none away.*)
(***************************************************************************)
LEMMA NoneTaken ==
  ASSUME \A m \in Comments : comment'[m] = comment[m] \/ comment'[m].of \in Topics
  PROVE  DeletedOnRequest
  BY DEF DeletedOnRequest

LEMMA OpenTakesNone ==
  ASSUME FeedbackInv, NEW t \in Topics, NEW m \in Comments, NEW a \in Clients,
         OpenTopic(t, m, a)
  PROVE  DeletedOnRequest
<1>1. /\ comment' = [comment EXCEPT ![m] = Row(t, a)]
      /\ comment \in [Comments -> CommentRow]
  BY DEF OpenTopic, FeedbackInv, FeedbackTypeOK, CommentRow
<1>2. \A n \in Comments : comment'[n] = comment[n] \/ comment'[n].of \in Topics
  BY <1>1 DEF Row
<1> QED
  BY <1>2, NoneTaken

LEMMA AddTakesNone ==
  ASSUME FeedbackInv, NEW c \in FeedbackCalls, AddComment(c)
  PROVE  DeletedOnRequest
<1> DEFINE x == feedbackCall[c]
<1>1. /\ comment' = IF IsOpen(x.topic) /\ ~comment[x.comment].used
                    THEN [comment EXCEPT ![x.comment] = Row(x.topic, x.by)] ELSE comment
      /\ x.topic \in Topics
      /\ comment \in [Comments -> CommentRow]
  BY DEF AddComment, Leaves, FeedbackInv, FeedbackTypeOK, CommentRow, DeletionsCounted, Sound
<1> HIDE DEF x
<1>2. \A n \in Comments : comment'[n] = comment[n] \/ comment'[n].of \in Topics
  BY <1>1 DEF Row
<1> QED
  BY <1>2, NoneTaken

-----------------------------------------------------------------------------
LEMMA StepKeeps ==
  FeedbackInv /\ [FeedbackNext]_feedbackVars =>
    FeedbackInv' /\ (DeletedOnRequest \/ UNCHANGED feedbackVars)
<1> SUFFICES ASSUME FeedbackInv, [FeedbackNext]_feedbackVars
             PROVE  FeedbackInv' /\ (DeletedOnRequest \/ UNCHANGED feedbackVars)
  OBVIOUS
<1>1. ASSUME NEW t \in Topics, NEW m \in Comments, NEW a \in Clients, OpenTopic(t, m, a)
      PROVE  FeedbackInv' /\ DeletedOnRequest
  BY <1>1, OpenStep, OpenTakesNone
<1>2. ASSUME NEW c \in FeedbackCalls,
             \/ \E t \in Topics, s \in {"OPEN", "RESOLVED"} : AskStatus(c, t, s)
             \/ \E m \in Comments, a \in Clients :
                  \/ EditComment(c, m, a) \/ CountComments(c, m, a)
                  \/ \E t \in Topics : ReadTopic(c, t, m, a)
             \/ UpdateTopic(c) \/ EditDone(c) \/ FeedbackCallFails(c)
      PROVE  FeedbackInv' /\ DeletedOnRequest
  <2>1. FeedbackInv'
    BY <1>2, FeedbackAskStep, EditStep, CountStep, FeedbackReadStep, UpdateStep, EndStep
  <2>2. UNCHANGED comment
    BY <1>2 DEF AskStatus, EditComment, CountComments, ReadTopic, Takes, UpdateTopic,
                EditDone, FeedbackCallFails
  <2> QED
    BY <2>1, <2>2, NoneTaken
<1>3. ASSUME NEW c \in FeedbackCalls, AddComment(c)
      PROVE  FeedbackInv' /\ DeletedOnRequest
  BY <1>3, AddStep, AddTakesNone
<1>4. ASSUME NEW c \in FeedbackCalls, DeleteComment(c)
      PROVE  FeedbackInv' /\ DeletedOnRequest
  BY <1>4, DeleteStep
<1>5. CASE UNCHANGED feedbackVars
  BY <1>5 DEF feedbackVars, FeedbackInv, FeedbackTypeOK, DeletionsCounted, Sound
<1> QED
  BY <1>1, <1>2, <1>3, <1>4, <1>5 DEF FeedbackNext

LEMMA FeedbackInvariant == FeedbackSpec => []FeedbackInv
<1>1. FeedbackInv /\ [FeedbackNext]_feedbackVars => FeedbackInv'
  BY StepKeeps
<1> QED
  BY FeedbackInitInv, <1>1, PTL DEF FeedbackSpec

(***************************************************************************)
(* Whoever deletes a comment, or a thread with its last comment, takes     *)
(* away nothing that others wrote before it counted (deleteComment).       *)
(***************************************************************************)
THEOREM NothingElseDeleted == FeedbackSpec => CommentsOfOthersKept
<1>1. FeedbackInv /\ [FeedbackNext]_feedbackVars => [DeletedOnRequest]_feedbackVars
  BY StepKeeps
<1> QED
  BY FeedbackInvariant, <1>1, PTL DEF FeedbackSpec, CommentsOfOthersKept

-----------------------------------------------------------------------------
(***************************************************************************)
(* The daily limit of feature attempts, for every limit and any number of  *)
(* attempts and requests.  A count protects the limit only as long as      *)
(* nobody adds to it, and a settled attempt is not settled again only as   *)
(* long as nobody else has read it: that is what the invariant says.       *)
(***************************************************************************)

HIDE FeedbackAssumption
USE FeaturesAssumption

Within == CountedAttempts \ exceeded

RoomIsLeft ==
  \A c \in FeatureCalls :
    featureCall[c].phase = "adding" /\ ~featureCall[c].stale =>
      Cardinality(Within) < Limit

StillReserved ==
  \A c \in FeatureCalls :
    featureCall[c].phase = "settling" =>
      /\ featureCall[c].of \in Attempts
      /\ featureCall[c].status \in {"COMMITTED", "FAILED"}
      /\ ~featureCall[c].stale => attempt[featureCall[c].of].status = "RESERVED"

FeaturesInv == FeaturesTypeOK /\ AttemptsBounded /\ RoomIsLeft /\ StillReserved

-----------------------------------------------------------------------------
LEMMA WithinFinite ==
  ASSUME FeaturesTypeOK
  PROVE  /\ IsFiniteSet(CountedAttempts) /\ IsFiniteSet(Within)
         /\ Cardinality(Within) \in Nat
         /\ Cardinality(Within) <= Cardinality(CountedAttempts)
<1>1. CountedAttempts \in SUBSET Attempts /\ Within \in SUBSET CountedAttempts
  BY DEF CountedAttempts, Within
<1>2. IsFiniteSet(CountedAttempts)
  BY <1>1, FS_Subset
<1> QED
  BY <1>1, <1>2, FS_Subset, FS_CardinalityType

(***************************************************************************)
(* A step that counts no further attempt keeps the limit and the room.     *)
(***************************************************************************)
LEMMA FewerCounted ==
  ASSUME FeaturesTypeOK, Within' \subseteq Within
  PROVE  /\ Cardinality(Within') \in Nat
         /\ Cardinality(Within') <= Cardinality(Within)
  BY WithinFinite, FS_Subset, FS_CardinalityType

LEMMA RowWritten ==
  ASSUME FeaturesTypeOK, NEW a \in Attempts,
         NEW row \in AttemptRow, attempt' = [attempt EXCEPT ![a] = row]
  PROVE  /\ attempt' \in [Attempts -> AttemptRow]
         /\ attempt'[a] = row
         /\ \A b \in Attempts \ {a} : attempt'[b] = attempt[b]
  BY DEF FeaturesTypeOK

LEMMA FeaturesInitInv == FeaturesInit => FeaturesInv
<1> SUFFICES ASSUME FeaturesInit PROVE FeaturesInv
  OBVIOUS
<1> USE DEF FeaturesInit
<1>1. FeaturesTypeOK
  BY DEF FeaturesTypeOK, AttemptRow, FeatureCall, NoFeatureCall
<1>2. CountedAttempts \ exceeded = {}
  BY DEF CountedAttempts
<1>3. AttemptsBounded
  BY <1>2, FS_EmptySet DEF AttemptsBounded
<1>4. RoomIsLeft /\ StillReserved
  BY DEF RoomIsLeft, StillReserved, NoFeatureCall
<1> QED
  BY <1>1, <1>3, <1>4 DEF FeaturesInv

LEMMA FeaturesCountStep ==
  ASSUME FeaturesInv, NEW c \in FeatureCalls, CountAttempts(c)
  PROVE  FeaturesInv'
<1> USE DEF FeaturesInv
<1>1. /\ UNCHANGED <<attempt, exceeded>>
      /\ featureCall' = [featureCall EXCEPT ![c] = [NoFeatureCall EXCEPT !.phase = "adding"]]
      /\ Cardinality(CountedAttempts) < Limit
  BY DEF CountAttempts, Goes
<1>2. FeaturesTypeOK'
  BY <1>1 DEF FeaturesTypeOK, FeatureCall, NoFeatureCall
<1>3. Within' = Within /\ AttemptsBounded'
  BY <1>1 DEF Within, CountedAttempts, AttemptsBounded
<1>4. Cardinality(CountedAttempts) \in Nat /\ Cardinality(Within) < Limit
  BY <1>1, WithinFinite, FS_CardinalityType
<1>5. RoomIsLeft'
  BY <1>3, <1>4 DEF RoomIsLeft
<1>6. StillReserved'
  BY <1>1 DEF StillReserved, FeaturesTypeOK, NoFeatureCall
<1> QED
  BY <1>2, <1>3, <1>5, <1>6

(***************************************************************************)
(* Of the requests that had counted only the first one's count still       *)
(* holds: the attempts of the others are among the exceeded.               *)
(***************************************************************************)
LEMMA FeaturesAddStep ==
  ASSUME FeaturesInv, NEW c \in FeatureCalls, AddAttempt(c)
  PROVE  FeaturesInv'
<1> USE DEF FeaturesInv
<1> DEFINE row == [status |-> "RESERVED", recent |-> TRUE]
<1>0. /\ featureCall[c].phase = "adding"
      /\ featureCall' = [d \in FeatureCalls |->
           IF d = c THEN NoFeatureCall
           ELSE [featureCall[d] EXCEPT !.stale = @ \/ d \in Adding]]
  BY DEF AddAttempt, Precedes, Adding
<1> PICK a \in Attempts :
      /\ attempt[a].status = "NONE"
      /\ attempt' = [attempt EXCEPT ![a] = row]
      /\ exceeded' = IF featureCall[c].stale THEN exceeded \cup {a} ELSE exceeded
  BY DEF AddAttempt
<1>1. row \in AttemptRow
  BY DEF AttemptRow
<1>2. /\ attempt' \in [Attempts -> AttemptRow]
      /\ attempt'[a] = row
      /\ \A b \in Attempts \ {a} : attempt'[b] = attempt[b]
  BY <1>1, RowWritten
<1>3. \A d \in FeatureCalls :
        /\ featureCall'[d] \in FeatureCall
        /\ d # c => /\ featureCall'[d].phase = featureCall[d].phase
                    /\ featureCall'[d].of = featureCall[d].of
                    /\ featureCall'[d].status = featureCall[d].status
                    /\ featureCall'[d].phase = "adding" => featureCall'[d].stale
                    /\ featureCall[d].stale => featureCall'[d].stale
  BY ZenonT(30), <1>0 DEF FeaturesTypeOK, FeatureCall, NoFeatureCall, Adding
<1>4. FeaturesTypeOK'
  BY <1>0, <1>2, <1>3 DEF FeaturesTypeOK
<1>5. featureCall'[c].phase = "idle"
  BY <1>0 DEF NoFeatureCall
<1>6. RoomIsLeft'
  BY <1>3, <1>5 DEF RoomIsLeft
<1>7. StillReserved'
  BY <1>2, <1>3, <1>5 DEF StillReserved
<1>8. AttemptsBounded'
  <2>1. CASE featureCall[c].stale
    <3>1. Within' \subseteq Within
      BY <1>2, <2>1 DEF Within, CountedAttempts
    <3> QED
      BY <3>1, FewerCounted, WithinFinite DEF AttemptsBounded, Within
  <2>2. CASE ~featureCall[c].stale
    <3>1. Within' \in SUBSET (Within \cup {a})
      BY <1>2, <2>2 DEF Within, CountedAttempts
    <3>2. Cardinality(Within) < Limit
      BY <1>0, <2>2 DEF RoomIsLeft
    <3>3. /\ IsFiniteSet(Within \cup {a})
          /\ Cardinality(Within \cup {a}) \in Nat
          /\ Cardinality(Within \cup {a}) <= Cardinality(Within) + 1
      <4> HIDE DEF Within
      <4>1. IsFiniteSet(Within) /\ Cardinality(Within) \in Nat
        BY WithinFinite
      <4>2. /\ IsFiniteSet(Within \cup {a})
            /\ Cardinality(Within \cup {a}) =
                 IF a \in Within THEN Cardinality(Within) ELSE Cardinality(Within) + 1
        BY <4>1, FS_AddElement
      <4> QED
        BY <4>1, <4>2, FS_CardinalityType
    <3>4. /\ Cardinality(Within') \in Nat
          /\ Cardinality(Within') <= Cardinality(Within \cup {a})
      BY <3>1, <3>3, FS_Subset, FS_CardinalityType
    <3> QED
      BY <3>2, <3>3, <3>4, WithinFinite DEF AttemptsBounded, Within
  <2> QED
    BY <2>1, <2>2 DEF FeaturesTypeOK
<1> QED
  BY <1>4, <1>6, <1>7, <1>8

LEMMA FeaturesReadStep ==
  ASSUME FeaturesInv, NEW c \in FeatureCalls, NEW a \in Attempts,
         NEW s \in {"COMMITTED", "FAILED"}, ReadAttempt(c, a, s)
  PROVE  FeaturesInv'
<1> USE DEF FeaturesInv
<1>1. /\ UNCHANGED <<attempt, exceeded>>
      /\ featureCall' = [featureCall EXCEPT ![c] =
           [phase |-> "settling", of |-> a, status |-> s, stale |-> FALSE]]
      /\ attempt[a].status = "RESERVED"
  BY DEF ReadAttempt, Goes, MaySettle
<1>2. FeaturesTypeOK'
  BY <1>1 DEF FeaturesTypeOK, FeatureCall
<1>3. Within' = Within /\ AttemptsBounded'
  BY <1>1 DEF Within, CountedAttempts, AttemptsBounded
<1>4. RoomIsLeft'
  BY <1>1, <1>3 DEF RoomIsLeft, FeaturesTypeOK
<1>5. StillReserved'
  BY <1>1 DEF StillReserved, FeaturesTypeOK
<1> QED
  BY <1>2, <1>3, <1>4, <1>5

(***************************************************************************)
(* Settling an attempt that is still reserved adds nothing to the count;   *)
(* one that was settled meanwhile is among the exceeded.                   *)
(***************************************************************************)
LEMMA SettleStep ==
  ASSUME FeaturesInv, NEW c \in FeatureCalls, SettleAttempt(c)
  PROVE  FeaturesInv'
<1> USE DEF FeaturesInv
<1> DEFINE x == featureCall[c]
           row == [attempt[x.of] EXCEPT !.status = x.status]
<1>0. /\ x.phase = "settling"
      /\ x.of \in Attempts
      /\ x.status \in {"COMMITTED", "FAILED"}
      /\ x.stale \in BOOLEAN
      /\ ~x.stale => attempt[x.of].status = "RESERVED"
  BY DEF SettleAttempt, StillReserved, FeaturesTypeOK, FeatureCall
<1>1. /\ attempt' = [attempt EXCEPT ![x.of] = row]
      /\ exceeded' = IF x.stale THEN exceeded \cup {x.of} ELSE exceeded
  BY DEF SettleAttempt
<1>2. /\ row \in AttemptRow
      /\ row.status = x.status
      /\ row.recent = attempt[x.of].recent
  BY <1>0 DEF FeaturesTypeOK, AttemptRow
<1>3. /\ attempt' \in [Attempts -> AttemptRow]
      /\ attempt'[x.of] = row
      /\ \A b \in Attempts \ {x.of} : attempt'[b] = attempt[b]
  <2> HIDE DEF row, x
  <2> QED
    BY <1>0, <1>1, <1>2, RowWritten
<1>4. featureCall' = [d \in FeatureCalls |->
        IF d = c THEN NoFeatureCall
        ELSE [featureCall[d] EXCEPT !.stale = @ \/
                d \in Settling(x.of) \cup
                  (IF x.status = "COMMITTED" /\ x.of \notin CountedAttempts
                   THEN Adding ELSE {})]]
  BY DEF SettleAttempt, Precedes
<1>5. \A d \in FeatureCalls :
        /\ featureCall'[d] \in FeatureCall
        /\ d # c => /\ featureCall'[d].phase = featureCall[d].phase
                    /\ featureCall'[d].of = featureCall[d].of
                    /\ featureCall'[d].status = featureCall[d].status
                    /\ featureCall'[d].phase = "settling" /\ featureCall[d].of = x.of
                         => featureCall'[d].stale
                    /\ featureCall[d].stale => featureCall'[d].stale
  BY <1>4 DEF FeaturesTypeOK, FeatureCall, NoFeatureCall, Settling
<1>6. FeaturesTypeOK'
  BY <1>0, <1>1, <1>3, <1>4, <1>5 DEF FeaturesTypeOK
<1>7. featureCall'[c].phase = "idle"
  BY <1>4 DEF NoFeatureCall
<1>8. Within' \subseteq Within
  <2> HIDE DEF row, x
  <2> QED
    BY <1>0, <1>1, <1>2, <1>3 DEF Within, CountedAttempts
<1>9. AttemptsBounded'
  BY <1>8, FewerCounted, WithinFinite DEF AttemptsBounded, Within
<1>10. RoomIsLeft'
  BY <1>5, <1>7, <1>8, FewerCounted, WithinFinite DEF RoomIsLeft
<1>11. StillReserved'
  BY <1>3, <1>5, <1>7 DEF StillReserved
<1> QED
  BY <1>6, <1>9, <1>10, <1>11

LEMMA FeaturesFailStep ==
  ASSUME FeaturesInv, NEW c \in FeatureCalls, FeatureCallFails(c)
  PROVE  FeaturesInv'
<1> USE DEF FeaturesInv
<1>1. /\ UNCHANGED <<attempt, exceeded>>
      /\ featureCall' = [featureCall EXCEPT ![c] = NoFeatureCall]
  BY DEF FeatureCallFails, Goes
<1>2. FeaturesTypeOK'
  BY <1>1 DEF FeaturesTypeOK, FeatureCall, NoFeatureCall
<1>3. Within' = Within /\ AttemptsBounded'
  BY <1>1 DEF Within, CountedAttempts, AttemptsBounded
<1>4. RoomIsLeft' /\ StillReserved'
  BY <1>1, <1>3 DEF RoomIsLeft, StillReserved, FeaturesTypeOK, NoFeatureCall
<1> QED
  BY <1>2, <1>3, <1>4

LEMMA DayStep ==
  ASSUME FeaturesInv, NEW a \in Attempts, DayPasses(a)
  PROVE  FeaturesInv'
<1> USE DEF FeaturesInv
<1> DEFINE row == [attempt[a] EXCEPT !.recent = FALSE]
<1>1. /\ UNCHANGED <<featureCall, exceeded>>
      /\ attempt' = [attempt EXCEPT ![a] = row]
  BY DEF DayPasses
<1>2. row \in AttemptRow /\ row.status = attempt[a].status /\ ~row.recent
  BY DEF FeaturesTypeOK, AttemptRow
<1>3. /\ attempt' \in [Attempts -> AttemptRow]
      /\ attempt'[a] = row
      /\ \A b \in Attempts \ {a} : attempt'[b] = attempt[b]
  <2> HIDE DEF row
  <2> QED
    BY <1>1, <1>2, RowWritten
<1>4. FeaturesTypeOK'
  BY <1>1, <1>3 DEF FeaturesTypeOK
<1>5. Within' \subseteq Within
  <2> HIDE DEF row
  <2> QED
    BY <1>1, <1>2, <1>3 DEF Within, CountedAttempts
<1>6. AttemptsBounded' /\ RoomIsLeft'
  BY <1>1, <1>5, FewerCounted, WithinFinite DEF AttemptsBounded, RoomIsLeft, Within
<1>7. StillReserved'
  BY <1>1, <1>2, <1>3 DEF StillReserved
<1> QED
  BY <1>4, <1>6, <1>7

-----------------------------------------------------------------------------
LEMMA FeaturesInvariant == FeaturesSpec => []FeaturesInv
<1>1. FeaturesInv /\ [FeaturesNext]_featureVars => FeaturesInv'
  <2> SUFFICES ASSUME FeaturesInv, [FeaturesNext]_featureVars PROVE FeaturesInv'
    OBVIOUS
  <2>1. CASE FeaturesNext
    BY <2>1, FeaturesCountStep, FeaturesAddStep, FeaturesReadStep, SettleStep, FeaturesFailStep, DayStep
       DEF FeaturesNext
  <2>2. CASE UNCHANGED featureVars
    BY <2>2 DEF featureVars, FeaturesInv, FeaturesTypeOK, AttemptsBounded, Within,
                CountedAttempts, RoomIsLeft, StillReserved
  <2> QED
    BY <2>1, <2>2
<1> QED
  BY FeaturesInitInv, <1>1, PTL DEF FeaturesSpec

(***************************************************************************)
(* At most Limit attempts of a day count, but for those reserved while     *)
(* another was, or settled twice (reserveFeatureAttempt,                   *)
(* updateOwnFeatureAttempt).                                               *)
(***************************************************************************)
THEOREM LimitHolds == FeaturesSpec => []AttemptsBounded
<1>1. FeaturesInv => AttemptsBounded
  BY DEF FeaturesInv
<1> QED
  BY FeaturesInvariant, <1>1, PTL

-----------------------------------------------------------------------------
(***************************************************************************)
(* The current release of a channel, for any rows and requests.  A request *)
(* that is not stale has found, or is about to write, every row that is    *)
(* current: other requests have only made fewer of them current since.     *)
(***************************************************************************)

HIDE FeaturesAssumption
USE ReleasesAssumption

\* A request about to write has cleared, or writes, whatever is current
ClearedAll ==
  \A c \in ReleaseCalls :
    LET x == releaseCall[c] IN
    x.phase = "writing" /\ x.current = "yes" /\ ~x.stale =>
      Current \subseteq x.cleared \cup {x.row}

OneIsCurrent == ~doubled => \A r, s \in Current : r = s

ReleasesInv == ReleasesTypeOK /\ ClearedAll /\ OneIsCurrent

LEMMA FinishedType == Finished \in ReleaseCall /\ Finished.phase = "idle"
  BY DEF Finished, ReleaseCall, Flags

LEMMA ReleasesInitInv == ReleasesInit => ReleasesInv
<1> SUFFICES ASSUME ReleasesInit PROVE ReleasesInv
  OBVIOUS
<1>1. ReleasesTypeOK
  BY FinishedType DEF ReleasesInit, ReleasesTypeOK, NoRelease
<1>2. Current = {}
  BY DEF ReleasesInit, Current, NoRelease
<1> QED
  BY <1>1, <1>2 DEF ReleasesInv, ClearedAll, OneIsCurrent

\* A step of a request that writes nothing
LEMMA ReleaseCallMoves ==
  ASSUME ReleasesInv, NEW c \in ReleaseCalls, NEW from, NEW record \in ReleaseCall,
         Continues(c, from, record),
         record.phase = "writing" /\ record.current = "yes" =>
           Current \subseteq record.cleared \cup {record.row}
  PROVE  ReleasesInv'
<1> USE DEF ReleasesInv, Continues
<1>1. ReleasesTypeOK'
  BY DEF ReleasesTypeOK
<1>2. Current' = Current
  BY DEF Current
<1>3. ASSUME NEW d \in ReleaseCalls
      PROVE  releaseCall'[d] = IF d = c THEN record ELSE releaseCall[d]
  BY DEF ReleasesTypeOK
<1>4. ClearedAll'
  BY <1>2, <1>3 DEF ClearedAll
<1> QED
  BY <1>1, <1>2, <1>4 DEF OneIsCurrent

LEMMA PublishStep ==
  ASSUME ReleasesInv, NEW c \in ReleaseCalls, NEW b \in Builds, AskPublish(c, b)
  PROVE  ReleasesInv'
<1> DEFINE x == [Finished EXCEPT !.phase = "writing", !.build = b, !.current = "yes",
                                 !.active = "yes", !.cleared = Current]
<1>1. x \in ReleaseCall /\ x.cleared = Current
  BY DEF Finished, ReleaseCall, Flags, Current
<1> QED
  BY <1>1, ReleaseCallMoves DEF AskPublish

LEMMA ReviseStep ==
  ASSUME ReleasesInv, NEW c \in ReleaseCalls, NEW r \in Rows, NEW b \in Builds \cup {0},
         NEW current \in Flags, NEW live \in Flags, AskRevise(c, r, b, current, live)
  PROVE  ReleasesInv'
<1> DEFINE x == [Finished EXCEPT
       !.phase = IF current = "yes" THEN "clearing" ELSE "writing",
       !.row = r, !.build = b, !.current = current, !.active = live]
<1>1. x \in ReleaseCall /\ (x.current = "yes" => x.phase = "clearing")
  BY DEF Finished, ReleaseCall, Flags
<1> QED
  BY <1>1, ReleaseCallMoves DEF AskRevise

LEMMA ClearStep ==
  ASSUME ReleasesInv, NEW c \in ReleaseCalls, ClearOthers(c)
  PROVE  ReleasesInv'
<1> DEFINE x == [releaseCall[c] EXCEPT !.phase = "writing",
                                       !.cleared = Others(releaseCall[c].row)]
<1>1. releaseCall[c] \in ReleaseCall
  BY DEF ReleasesInv, ReleasesTypeOK
<1>2. /\ x \in ReleaseCall
      /\ Current \subseteq x.cleared \cup {x.row}
  BY <1>1 DEF ReleaseCall, Others, Current
<1> QED
  BY <1>2, ReleaseCallMoves DEF ClearOthers

LEMMA ReleaseFails ==
  ASSUME ReleasesInv, NEW c \in ReleaseCalls, ReleaseCallFails(c)
  PROVE  ReleasesInv'
  BY FinishedType, ReleaseCallMoves DEF ReleaseCallFails

LEMMA WriteStep ==
  ASSUME ReleasesInv, NEW c \in ReleaseCalls, WriteRelease(c)
  PROVE  ReleasesInv'
<1> DEFINE x == releaseCall[c]
           clears == x.current = "yes"
           written(r) == [build |-> IF x.build = 0 THEN release[r].build ELSE x.build,
                          current |-> Said(x.current, release[r].current),
                          active |-> Said(x.active, release[r].active)]
<1>1. PICK target \in Target(x) :
        release' = [r \in Rows |->
            IF r = target THEN written(r)
            ELSE [release[r] EXCEPT !.current = @ /\ r \notin x.cleared]]
  BY DEF WriteRelease
<1>2. /\ x \in ReleaseCall /\ x.phase = "writing"
      /\ doubled' = IF clears THEN x.stale ELSE doubled
      /\ \A r \in Rows : release[r] \in [build : Builds \cup {0}, current : BOOLEAN,
                                         active : BOOLEAN]
  BY DEF WriteRelease, ReleasesInv, ReleasesTypeOK
<1>3. target \in Rows /\ (x.row # NoRow => target = x.row)
  BY <1>2 DEF Target, With, ReleaseCall
<1>4. ASSUME NEW d \in ReleaseCalls
      PROVE  /\ releaseCall'[d] \in ReleaseCall
             /\ releaseCall'[d] =
                  IF d = c THEN Finished
                  ELSE [releaseCall[d] EXCEPT !.stale =
                          @ \/ (releaseCall[d].phase = "writing" /\ clears)]
  <2>1. releaseCall[d] \in ReleaseCall
    BY DEF ReleasesInv, ReleasesTypeOK
  <2>2. releaseCall'[d] =
                  IF d = c THEN Finished
                  ELSE [releaseCall[d] EXCEPT !.stale =
                          @ \/ (releaseCall[d].phase = "writing" /\ clears)]
    BY DEF WriteRelease
  <2> QED
    BY <2>1, <2>2, FinishedType DEF ReleaseCall
<1>5. ReleasesTypeOK'
  <2>1. \A r \in Rows : written(r) \in [build : Builds \cup {0}, current : BOOLEAN,
                                        active : BOOLEAN]
    BY <1>2 DEF ReleaseCall, Said, Flags
  <2>2. \A r \in Rows : [release[r] EXCEPT !.current = @ /\ r \notin x.cleared]
                          \in [build : Builds \cup {0}, current : BOOLEAN, active : BOOLEAN]
    BY <1>2
  <2>3. release' \in [Rows -> [build : Builds \cup {0}, current : BOOLEAN, active : BOOLEAN]]
    BY <1>1, <2>1, <2>2
  <2>4. releaseCall' \in [ReleaseCalls -> ReleaseCall]
    BY <1>4 DEF WriteRelease
  <2>5. doubled' \in BOOLEAN
    BY <1>2 DEF ReleasesInv, ReleasesTypeOK, ReleaseCall
  <2> QED
    BY <2>3, <2>4, <2>5 DEF ReleasesTypeOK
<1>6. CASE clears
  <2>1. ASSUME NEW d \in ReleaseCalls \ {c}, releaseCall'[d].phase = "writing"
        PROVE  releaseCall'[d].stale
    <3>1. releaseCall[d] \in ReleaseCall
      BY DEF ReleasesInv, ReleasesTypeOK
    <3>2. releaseCall'[d] = [releaseCall[d] EXCEPT !.stale = @ \/ releaseCall[d].phase = "writing"]
      BY <1>4, <1>6
    <3> QED
      BY <3>1, <3>2, <2>1 DEF ReleaseCall
  <2>2. ClearedAll'
    BY <2>1, <1>4, FinishedType DEF ClearedAll
  <2>3. OneIsCurrent'
    <3> SUFFICES ASSUME ~x.stale PROVE Current' \subseteq {target}
      BY <1>2, <1>6 DEF OneIsCurrent
    <3>1. Current \subseteq x.cleared \cup {x.row}
      BY <1>2, <1>6 DEF ReleasesInv, ClearedAll
    <3>2. ASSUME NEW r \in Rows, r # target PROVE ~release'[r].current
      <4>1. release'[r] = [release[r] EXCEPT !.current = @ /\ r \notin x.cleared]
        BY <1>1, <3>2
      <4>2. release'[r].current = (release[r].current /\ r \notin x.cleared)
        BY <4>1, <1>2
      <4>3. r # x.row
        BY <1>3, <3>2
      <4> QED
        BY <4>2, <4>3, <3>1 DEF Current
    <3> QED
      BY <3>2 DEF Current
  <2> QED
    BY <1>5, <2>2, <2>3 DEF ReleasesInv
<1>7. CASE ~clears
  <2>1. Current' \subseteq Current
    <3> SUFFICES ASSUME NEW r \in Rows, release'[r].current PROVE release[r].current
      BY DEF Current
    <3>1. CASE r = target
      <4>1. release'[r].current = Said(x.current, release[r].current)
        BY <1>1, <3>1
      <4> QED
        BY <4>1, <1>7, <1>2 DEF Said
    <3>2. CASE r # target
      <4>1. release'[r] = [release[r] EXCEPT !.current = @ /\ r \notin x.cleared]
        BY <1>1, <3>2
      <4> QED
        BY <4>1, <1>2
    <3> QED
      BY <3>1, <3>2
  <2>2. ASSUME NEW d \in ReleaseCalls \ {c}
        PROVE  releaseCall'[d] = releaseCall[d]
    BY <1>4, <1>7 DEF ReleasesInv, ReleasesTypeOK, ReleaseCall
  <2>3. ClearedAll'
    BY <2>1, <2>2, <1>4, FinishedType DEF ReleasesInv, ClearedAll
  <2>4. OneIsCurrent'
    BY <2>1, <1>2, <1>7 DEF ReleasesInv, OneIsCurrent
  <2> QED
    BY <1>5, <2>3, <2>4 DEF ReleasesInv
<1> QED
  BY <1>6, <1>7

LEMMA ReleasesInvariant == ReleasesSpec => []ReleasesInv
<1>1. ReleasesInv /\ [ReleasesNext]_releaseVars => ReleasesInv'
  <2> SUFFICES ASSUME ReleasesInv, [ReleasesNext]_releaseVars PROVE ReleasesInv'
    OBVIOUS
  <2>1. CASE UNCHANGED releaseVars
    BY <2>1 DEF releaseVars, ReleasesInv, ReleasesTypeOK, ClearedAll, OneIsCurrent, Current
  <2>2. CASE ReleasesNext
    BY <2>2, PublishStep, ReviseStep, ClearStep, WriteStep, ReleaseFails DEF ReleasesNext
  <2> QED
    BY <2>1, <2>2
<1> QED
  BY <1>1, ReleasesInitInv, PTL DEF ReleasesSpec

\* A channel has at most one current release but for those published at once:
\* whatever is current when a release is written was cleared by its first
\* statement (publishFullRelease, updateRelease).
THEOREM OneRelease == ReleasesSpec => []OneCurrentRelease
<1>1. ReleasesInv => OneCurrentRelease
  <2> SUFFICES ASSUME ReleasesInv, ~doubled PROVE Cardinality(Current) <= 1
    BY DEF OneCurrentRelease
  <2>1. CASE Current = {}
    BY <2>1, FS_EmptySet
  <2>2. CASE Current # {}
    <3>1. PICK r : Current = {r}
      BY <2>2 DEF ReleasesInv, OneIsCurrent
    <3> QED
      BY <3>1, FS_Singleton
  <2> QED
    BY <2>1, <2>2
<1> QED
  BY <1>1, ReleasesInvariant, PTL

-----------------------------------------------------------------------------
\* Threads, feedback, releases and attempts, and the requests that write them,
\* have their types, for any number of each.
THEOREM OfficeTypes ==
  /\ SupportSpec => []SupportTypeOK
  /\ FeedbackSpec => []FeedbackTypeOK
  /\ FeaturesSpec => []FeaturesTypeOK
  /\ ReleasesSpec => []ReleasesTypeOK
<1>1. SupportInv => SupportTypeOK
  BY DEF SupportInv
<1>2. FeedbackInv => FeedbackTypeOK
  BY DEF FeedbackInv
<1>3. FeaturesInv => FeaturesTypeOK
  BY DEF FeaturesInv
<1>4. ReleasesInv => ReleasesTypeOK
  BY DEF ReleasesInv
<1> QED
  BY <1>1, <1>2, <1>3, <1>4, SupportInvariant, FeedbackInvariant, FeaturesInvariant,
     ReleasesInvariant, PTL
=============================================================================
