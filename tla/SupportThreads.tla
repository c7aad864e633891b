--------------------------- MODULE SupportThreads ---------------------------
(***************************************************************************)
(* Support threads of one organization (support.service.ts).  A reply      *)
(* writes the status it read before, an action is applied first and        *)
(* recorded afterwards.  Mails go by tasks nobody waits for, and one that  *)
(* fails is only logged: what counts is whom a request meant to tell.      *)
(***************************************************************************)
EXTENDS FiniteSets

CONSTANTS
  Threads,        \* rows of support_threads, those not opened yet included
  SuperAdmins,
  OrgAdmins,      \* the organization's administrators
  NoThread,
  Nobody,
  SupportCalls    \* requests in flight

Staff == SuperAdmins \cup OrgAdmins

ASSUME SupportAssumption ==
  SuperAdmins \cap OrgAdmins = {} /\ Nobody \notin Staff /\ NoThread \notin Threads

VARIABLES
  thread,         \* the rows of support_threads, with their last message
  decided,        \* history: the status last decided on, and the action whose
                  \* record is the organization's last
  notice,         \* mails about the last message: <<thread, to>>
  active,         \* the organization's status
  supportCall,    \* the local state of each request
  drifted         \* history: what requests wrote from stale reads, or lost

supportVars == <<thread, decided, notice, active, supportCall, drifted>>

Statuses == {"OPEN", "IN_PROGRESS", "RESOLVED", "CLOSED"}

Thread == [opener : Staff \cup {Nobody},
           status : Statuses,
           priority : {"NORMAL", "HIGH"},
           resolved : BOOLEAN,             \* resolvedAt
           author : Staff \cup {Nobody},   \* of the last message
           message : {"none", "opening", "reply", "action"}]

NoThreadRow == [opener |-> Nobody, status |-> "OPEN", priority |-> "NORMAL",
          resolved |-> FALSE, author |-> Nobody, message |-> "none"]

Actions == {"disable_org", "enable_org"}

SupportCall == [phase : {"idle", "replying", "acting", "recording"},
                of : Threads \cup {NoThread},
                by : Staff \cup {Nobody},
                seen : Statuses,
                kind : Actions \cup {"none"},
                resolves : BOOLEAN,
                stale : BOOLEAN]   \* history: what it read was changed since

AtRest == [phase |-> "idle", of |-> NoThread, by |-> Nobody, seen |-> "OPEN",
           kind |-> "none", resolves |-> FALSE, stale |-> FALSE]

SupportTypeOK ==
  /\ thread \in [Threads -> Thread]
  /\ decided \in [Threads -> [status : Statuses, action : Actions \cup {"none"}]]
  /\ notice \subseteq Threads \X {"opener", "supers"}
  /\ active \in BOOLEAN
  /\ supportCall \in [SupportCalls -> SupportCall]
  /\ drifted \subseteq (Threads \cup {NoThread}) \X {"status", "action"}

SupportInit ==
  /\ thread = [h \in Threads |-> NoThreadRow]
  /\ decided = [h \in Threads |-> [status |-> "OPEN", action |-> "none"]]
  /\ notice = {}
  /\ active = TRUE
  /\ supportCall = [c \in SupportCalls |-> AtRest]
  /\ drifted = {}

-----------------------------------------------------------------------------
Opened(h) == thread[h].opener # Nobody

\* Others that read the thread's status before it was written
Overtakes(h, c, next) ==
  [d \in SupportCalls |->
     IF d = c THEN next
     ELSE [supportCall[d] EXCEPT !.stale =
             @ \/ (supportCall[d].phase = "replying" /\ supportCall[d].of = h)]]

OthersOvertaken(h) ==
  [d \in SupportCalls |->
     [supportCall[d] EXCEPT !.stale =
        @ \/ (supportCall[d].phase = "replying" /\ supportCall[d].of = h)]]

\* notifyThreadOpened, notifyReply; mails about earlier messages no longer matter
Mails(h, to) ==
  notice' = {n \in notice : n[1] # h} \cup {<<h, to>>}

CreateThread(h, a, priority) ==
  /\ ~Opened(h)
  /\ thread' = [thread EXCEPT ![h] = [NoThreadRow EXCEPT
       !.opener = a, !.priority = priority, !.author = a, !.message = "opening"]]
  /\ Mails(h, "supers")
  /\ UNCHANGED <<decided, active, supportCall, drifted>>

-----------------------------------------------------------------------------
\* addMessage: the status is read and checked before the transaction
ReadThread(c, h, a) ==
  /\ supportCall[c].phase = "idle"
  /\ Opened(h) /\ thread[h].status # "CLOSED"
  /\ supportCall' = [supportCall EXCEPT ![c] =
       [AtRest EXCEPT !.phase = "replying", !.of = h, !.by = a,
                      !.seen = thread[h].status]]
  /\ UNCHANGED <<thread, decided, notice, active, drifted>>

StatusOfReplyReopening(seen, a) ==
  IF a \in SuperAdmins THEN "IN_PROGRESS" ELSE seen

StatusOfReply(seen, a) ==
  IF seen = "OPEN" /\ a \in SuperAdmins THEN "IN_PROGRESS" ELSE seen

NoticeToOpener(h, a) == "opener"

NoticeOfReply(h, a) == IF a = thread[h].opener THEN "supers" ELSE "opener"

AddMessage(c) ==
  LET x == supportCall[c]
      h == x.of
      status == StatusOfReply(x.seen, x.by)
  IN /\ x.phase = "replying"
     /\ thread' = [thread EXCEPT ![h].status = status,
                                 ![h].author = x.by, ![h].message = "reply"]
     /\ decided' = IF decided[h].status = "OPEN" /\ x.by \in SuperAdmins
                  THEN [decided EXCEPT ![h].status = "IN_PROGRESS"] ELSE decided
     /\ Mails(h, NoticeOfReply(h, x.by))
     /\ drifted' = IF x.stale THEN drifted \cup {<<h, "status">>} ELSE drifted
     /\ supportCall' = IF status = thread[h].status
                       THEN [supportCall EXCEPT ![c] = AtRest]
                       ELSE Overtakes(h, c, AtRest)
     /\ UNCHANGED active

\* updateStatus: only the status that is left is read before the transaction
UpdateStatus(h, a, next) ==
  /\ Opened(h)
  /\ next \in {"RESOLVED", "IN_PROGRESS"} => a \in SuperAdmins
  /\ next = "CLOSED" => a \in SuperAdmins \cup {thread[h].opener}
  /\ thread' = [thread EXCEPT ![h].status = next,
                              ![h].resolved = @ \/ next = "RESOLVED"]
  /\ decided' = [decided EXCEPT ![h].status = next]
  /\ drifted' = drifted \ {<<h, "status">>}
  /\ supportCall' = OthersOvertaken(h)
  /\ UNCHANGED <<notice, active>>

SetPriority(h, priority) ==
  /\ Opened(h) /\ thread[h].priority # priority
  /\ thread' = [thread EXCEPT ![h].priority = priority]
  /\ UNCHANGED <<decided, notice, active, supportCall, drifted>>

-----------------------------------------------------------------------------
(***************************************************************************)
(* applyAction: the administrators' operation first, then the record.  A   *)
(* change of the organization's status stands for all kinds of action.     *)
(***************************************************************************)
AskAction(c, h, a, kind, resolves) ==
  /\ supportCall[c].phase = "idle"
  /\ Opened(h)
  /\ supportCall' = [supportCall EXCEPT ![c] =
       [AtRest EXCEPT !.phase = "acting", !.of = h, !.by = a, !.kind = kind,
                      !.resolves = resolves]]
  /\ UNCHANGED <<thread, decided, notice, active, drifted>>

Recording(d) == supportCall[d].phase = "recording"

\* What others have yet to record is no longer what the organization is
Act(c) ==
  /\ supportCall[c].phase = "acting"
  /\ active' = (supportCall[c].kind = "enable_org")
  /\ supportCall' = [d \in SupportCalls |->
       IF d = c THEN [supportCall[c] EXCEPT !.phase = "recording"]
       ELSE [supportCall[d] EXCEPT !.stale = @ \/ Recording(d)]]
  /\ drifted' = drifted \ {<<NoThread, "action">>}
  /\ UNCHANGED <<thread, decided, notice>>

ActRecordingRefusals(c) ==
  /\ supportCall[c].phase = "acting"
  /\ supportCall' = [supportCall EXCEPT ![c].phase = "recording"]
  /\ UNCHANGED <<thread, decided, notice, active, drifted>>

\* The operation is refused, for its input or for what the organization lacks
ActFails(c) ==
  /\ supportCall[c].phase = "acting"
  /\ supportCall' = [supportCall EXCEPT ![c] = AtRest]
  /\ UNCHANGED <<thread, decided, notice, active, drifted>>

StatusOfAction(resolves) == IF resolves THEN "RESOLVED" ELSE "IN_PROGRESS"

RecordAction(c) ==
  LET x == supportCall[c]
      h == x.of
      status == StatusOfAction(x.resolves)
  IN /\ x.phase = "recording"
     /\ thread' = [thread EXCEPT ![h].status = status, ![h].resolved = x.resolves,
                                 ![h].author = x.by, ![h].message = "action"]
     /\ decided' = [k \in Threads |->
          IF k = h THEN [status |-> status, action |-> x.kind]
          ELSE [decided[k] EXCEPT !.action = "none"]]
     \* nobody is told of the message, only of a resolution
     /\ notice' = {n \in notice : n[1] # h}
     /\ drifted' = (drifted \ {<<h, "status">>}) \cup
                     (IF x.stale THEN {<<NoThread, "action">>} ELSE {})
     /\ supportCall' = Overtakes(h, c, AtRest)
     /\ UNCHANGED active

\* Administrators also change the organization elsewhere (updateOrganization)
SetOrganization(b) ==
  /\ active # b
  /\ active' = b
  /\ drifted' = drifted \cup {<<NoThread, "action">>}
  /\ UNCHANGED <<thread, decided, notice, supportCall>>

\* The process dies or a statement fails
SupportCallFails(c) ==
  /\ supportCall[c].phase # "idle"
  /\ drifted' = IF Recording(c) THEN drifted \cup {<<NoThread, "action">>} ELSE drifted
  /\ supportCall' = [supportCall EXCEPT ![c] = AtRest]
  /\ UNCHANGED <<thread, decided, notice, active>>

-----------------------------------------------------------------------------
ThreadStep ==
  \/ \E h \in Threads :
       \/ \E a \in Staff, p \in {"NORMAL", "HIGH"} : CreateThread(h, a, p)
       \/ \E a \in Staff, next \in Statuses : UpdateStatus(h, a, next)
       \/ \E p \in {"NORMAL", "HIGH"} : SetPriority(h, p)
       \/ \E c \in SupportCalls, a \in Staff : ReadThread(c, h, a)
  \/ \E c \in SupportCalls : AddMessage(c)

ActionStep ==
  \/ \E b \in BOOLEAN : SetOrganization(b)
  \/ \E c \in SupportCalls :
       \/ \E h \in Threads, a \in SuperAdmins, k \in Actions, b \in BOOLEAN :
            AskAction(c, h, a, k, b)
       \/ Act(c) \/ ActFails(c) \/ RecordAction(c) \/ SupportCallFails(c)

SupportNext == ThreadStep \/ ActionStep

SupportSpec == SupportInit /\ [][SupportNext]_supportVars

-----------------------------------------------------------------------------
\* A thread has the status last decided on, unless a reply wrote back one that
\* had changed since it was read (addMessage, updateStatus, applyAction); a
\* resolved one then says when.
StatusAsDecided ==
  \A h \in Threads :
    <<h, "status">> \notin drifted =>
      /\ thread[h].status = decided[h].status
      /\ thread[h].status = "RESOLVED" => thread[h].resolved

\* Whoever has not answered the last message of a thread is mailed about it
\* (getUnreadCount, notifyReply).
\* Messages of actions are not mailed, nor is what a second administrator of the
\* organization writes mailed to the super administrators.
UnreadIsNotified ==
  \A h \in Threads :
    LET told == {n[2] : n \in {m \in notice : m[1] = h}}
        x == thread[h]
    IN /\ Opened(h) /\ x.author = x.opener /\ x.author \notin SuperAdmins
            => "supers" \in told
       /\ x.message = "reply" /\ x.author # x.opener => "opener" \in told

\* The organization is in the state that the last recorded action put it in, once
\* none is under way, unless two were applied at once or a record was lost.
ActionIsRecorded ==
  (\A c \in SupportCalls : ~Recording(c)) /\ <<NoThread, "action">> \notin drifted =>
    \A h \in Threads : decided[h].action # "none" => active = (decided[h].action = "enable_org")
=============================================================================
