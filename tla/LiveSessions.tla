---------------------------- MODULE LiveSessions ----------------------------
(***************************************************************************)
(* Live sessions on a whiteboard (live-session.service.ts) and the sockets *)
(* of their participants (sockets/index.ts).  Students get in by the       *)
(* session's code or by a personal invite; from then on the participants   *)
(* table is what lets them in again, and into everything the session       *)
(* records.                                                                *)
(***************************************************************************)
EXTENDS Naturals, FiniteSets, Sequences

CONSTANTS
  Lives,       \* live sessions, those not created yet included
  Canvases,    \* whiteboards
  Hosts,       \* the teachers and admins who may manage every session here
  Students,    \* users whose role is STUDENT
  Others,      \* users of other roles, such as another teacher who is invited
  Codes,       \* join codes
  NoCode,      \* a session without a code
  Invites,     \* rows of the invites table
  NoInvite,    \* a join by the session's own code
  LiveCalls,   \* requests and socket events in flight
  Nobody,      \* the actor of an event that has no account
  FeedTake,    \* events a classroom page reads: take 1000 in the code
  SessionsTake, \* sessions a list of them has at most: take 100 in the code
  MaxLog       \* bound: events the log is followed for

ASSUME LiveAssumption ==
  /\ NoCode \notin Codes
  /\ NoInvite \notin Invites
  /\ Hosts \cap Students = {} /\ Hosts \cap Others = {} /\ Students \cap Others = {}
  /\ Nobody \notin Hosts \cup Students \cup Others
  /\ FeedTake \in Nat /\ SessionsTake \in Nat /\ MaxLog \in Nat
  /\ Lives # {} /\ Canvases # {} /\ Hosts # {}

VARIABLES
  live,      \* the rows of the live_sessions table
  roster,    \* per session and user: no row, leftAt null, or leftAt set
  invite,    \* the rows of the invites table
  room,      \* the socket.io rooms: users whose socket is in a session's room
  log,       \* the events of all sessions, oldest first
  liveCall,  \* the local state of each request
  admitted,  \* history: students a code has let in, with the whiteboard
  entries    \* history: how often each invite has let somebody in

liveVars == <<live, roster, invite, room, log, liveCall, admitted, entries>>

Participants == Hosts \cup Students \cup Others

LiveRow == [status : {"NONE", "SCHEDULED", "LIVE", "ENDED"},
            canvas : Canvases,
            code : Codes \cup {NoCode},
            fresh : BOOLEAN]   \* joinCodeExpiresAt is in the future

NoLive == [status |-> "NONE", canvas |-> CHOOSE k \in Canvases : TRUE,
           code |-> NoCode, fresh |-> FALSE]

InviteRow == [state : {"none", "open", "over", "used"},
              of : Lives, user : Participants, code : Codes \cup {NoCode}]

\* ref is the place of the event that this one answers, 0 when there is none.
\* An event stands for the row it announces, a message or a recording, too.
Event == [type : {"message", "media", "recording", "hand", "resolved", "quiz",
                  "answer", "controls", "guest", "other"},
          of : Lives, by : Participants \cup {Nobody}, ref : 0..MaxLog]

LiveCall == [phase : {"idle", "coding", "clearing", "entering", "marking",
                      "sitting", "joining", "leaving"},
             user : Participants, of : Lives, by : Invites \cup {NoInvite},
             forced : BOOLEAN,   \* forceRefresh
             stale : BOOLEAN]    \* history: the code has changed since its read

Resting == [phase |-> "idle", user |-> CHOOSE u \in Participants : TRUE,
            of |-> CHOOSE l \in Lives : TRUE, by |-> NoInvite,
            forced |-> FALSE, stale |-> FALSE]

LiveTypeOK ==
  /\ live \in [Lives -> LiveRow]
  /\ roster \in [Lives -> [Participants -> {"never", "in", "left"}]]
  /\ invite \in [Invites -> InviteRow]
  /\ room \subseteq Lives \X Participants
  /\ log \in Seq(Event) /\ Len(log) <= MaxLog
  /\ liveCall \in [LiveCalls -> LiveCall]
  /\ admitted \subseteq Students \X Canvases
  /\ entries \in [Invites -> {"unused", "used", "reused", "excused"}]

LiveInit ==
  /\ live = [l \in Lives |-> NoLive]
  /\ roster = [l \in Lives |-> [u \in Participants |-> "never"]]
  /\ invite = [i \in Invites |-> [state |-> "none", of |-> CHOOSE l \in Lives : TRUE,
                                  user |-> CHOOSE u \in Participants : TRUE,
                                  code |-> NoCode]]
  /\ room = {}
  /\ log = <<>>
  /\ liveCall = [c \in LiveCalls |-> Resting]
  /\ admitted = {}
  /\ entries = [i \in Invites |-> "unused"]

-----------------------------------------------------------------------------
(***************************************************************************)
(* Who may do what.  A student's invite does not open the session by       *)
(* itself: the student has to come with the code.                          *)
(***************************************************************************)
Exists(l) == live[l].status # "NONE"

Participates(u, l) == roster[l][u] # "never"

Invited(u, l) == \E i \in Invites : /\ invite[i].state # "none"
                                    /\ invite[i].of = l /\ invite[i].user = u

HasAccessWhenInvited(u, l) ==
  /\ Exists(l)
  /\ u \in Hosts \/ Participates(u, l) \/ Invited(u, l)

\* ensureSessionAccess
HasAccess(u, l) ==
  /\ Exists(l)
  /\ u \in Hosts \/ Participates(u, l) \/ (u \notin Students /\ Invited(u, l))

\* canvasReadWhere: a student reads the whiteboards of the sessions it has
\* participated in
ReadsCanvas(u, k) ==
  \/ u \in Hosts
  \/ u \in Students /\ \E l \in Lives : live[l].canvas = k /\ Participates(u, l)

Begins(c, phase, u, l, i) ==
  /\ liveCall[c].phase = "idle"
  /\ liveCall' = [liveCall EXCEPT ![c] = [Resting EXCEPT
       !.phase = phase, !.user = u, !.of = l, !.by = i]]

Rests(c) == liveCall' = [liveCall EXCEPT ![c] = Resting]

-----------------------------------------------------------------------------
(***************************************************************************)
(* The host: creating, starting (again) and ending a session, its code.    *)
(***************************************************************************)
CreateLive(u, l, k) ==
  /\ u \in Hosts
  /\ ~Exists(l)
  /\ live' = [live EXCEPT ![l] = [NoLive EXCEPT !.status = "SCHEDULED", !.canvas = k]]
  /\ UNCHANGED <<roster, invite, room, log, liveCall, admitted, entries>>

StartLive(u, l) ==
  /\ u \in Hosts
  /\ Exists(l)
  /\ live' = [live EXCEPT ![l].status = "LIVE"]
  /\ UNCHANGED <<roster, invite, room, log, liveCall, admitted, entries>>

EndLive(c, u, l) ==
  /\ u \in Hosts
  /\ Exists(l)
  /\ live' = [live EXCEPT ![l].status = "ENDED"]
  /\ Begins(c, "clearing", u, l, NoInvite)
  /\ UNCHANGED <<roster, invite, room, log, admitted, entries>>

ClearRoster(c) ==
  LET l == liveCall[c].of IN
  /\ liveCall[c].phase = "clearing"
  /\ roster' = [roster EXCEPT ![l] = [u \in Participants |->
                  IF roster[l][u] = "in" THEN "left" ELSE roster[l][u]]]
  /\ Rests(c)
  /\ UNCHANGED <<live, invite, room, log, admitted, entries>>

NeedsCodeAlways(l, force) == TRUE

\* generateSessionJoinCode returns the code there is while it lasts
NeedsCode(l, force) == force \/ live[l].code = NoCode \/ ~live[l].fresh

AskCode(c, u, l, force) ==
  /\ u \in Hosts
  /\ Exists(l)
  /\ NeedsCode(l, force)
  /\ liveCall[c].phase = "idle"
  /\ liveCall' = [liveCall EXCEPT ![c] = [Resting EXCEPT
       !.phase = "coding", !.user = u, !.of = l, !.forced = force]]
  /\ UNCHANGED <<live, roster, invite, room, log, admitted, entries>>

WriteCode(c, k) ==
  LET l == liveCall[c].of IN
  /\ liveCall[c].phase = "coding"
  /\ live' = [live EXCEPT ![l].code = k, ![l].fresh = TRUE]
  /\ liveCall' = [d \in LiveCalls |->
       IF d = c THEN Resting
       ELSE IF liveCall[d].phase = "coding" /\ liveCall[d].of = l
       THEN [liveCall[d] EXCEPT !.stale = TRUE] ELSE liveCall[d]]
  /\ UNCHANGED <<roster, invite, room, log, admitted, entries>>

CodeEnds(l) ==
  /\ live[l].fresh
  /\ live' = [live EXCEPT ![l].fresh = FALSE]
  /\ UNCHANGED <<roster, invite, room, log, liveCall, admitted, entries>>

\* inviteStudent, for any e-mail: the account it finds keeps its role
Invite(h, l, i, u, k) ==
  /\ h \in Hosts
  /\ Exists(l)
  /\ invite[i].state = "none"
  /\ invite' = [invite EXCEPT ![i] = [state |-> "open", of |-> l, user |-> u, code |-> k]]
  /\ UNCHANGED <<live, roster, room, log, liveCall, admitted, entries>>

InviteEnds(i) ==
  /\ invite[i].state = "open"
  /\ invite' = [invite EXCEPT ![i].state = "over"]
  /\ UNCHANGED <<live, roster, room, log, liveCall, admitted, entries>>

-----------------------------------------------------------------------------
(***************************************************************************)
(* Joining by code: the session whose code it is, else the open invite;    *)
(* then the participant's row; then the invite is marked.                  *)
(***************************************************************************)
Joinable(l, k) == live[l].code = k /\ live[l].fresh
                  /\ live[l].status \in {"SCHEDULED", "LIVE"}

OpenFor(u, i, k) == /\ invite[i].state = "open" /\ invite[i].code = k
                    /\ u \in Students => invite[i].user = u

LetsIn(u, l) == admitted' = IF u \in Students
                            THEN admitted \cup {<<u, live[l].canvas>>} ELSE admitted

JoinBySession(c, u, k, l) ==
  /\ Joinable(l, k)
  /\ Begins(c, "entering", u, l, NoInvite)
  /\ LetsIn(u, l)
  /\ UNCHANGED <<live, roster, invite, room, log, entries>>

Holding(i) == {c \in LiveCalls : liveCall[c].by = i}

JoinByInvite(c, u, k, i) ==
  /\ \A l \in Lives : ~Joinable(l, k)
  /\ OpenFor(u, i, k)
  /\ Begins(c, "entering", u, invite[i].of, i)
  /\ LetsIn(u, invite[i].of)
  /\ entries' = IF Holding(i) # {} THEN [entries EXCEPT ![i] = "excused"] ELSE entries
  /\ UNCHANGED <<live, roster, invite, room, log>>

Enter(c) ==
  LET x == liveCall[c] IN
  /\ x.phase = "entering"
  /\ roster' = [roster EXCEPT ![x.of][x.user] = "in"]
  /\ IF x.by = NoInvite THEN Rests(c) /\ UNCHANGED entries
     ELSE /\ liveCall' = [liveCall EXCEPT ![c].phase = "marking"]
          /\ entries' = [entries EXCEPT ![x.by] =
               CASE @ = "unused" -> "used" [] @ = "used" -> "reused" [] OTHER -> @]
  /\ UNCHANGED <<live, invite, room, log, admitted>>

MarkInviteOfStudents(c) ==
  LET x == liveCall[c] IN
  /\ x.phase = "marking"
  /\ invite' = IF x.user = invite[x.by].user
               THEN [invite EXCEPT ![x.by].state = "used"] ELSE invite
  /\ Rests(c)
  /\ UNCHANGED <<live, roster, room, log, admitted, entries>>

\* The invite now names whoever used it
MarkInvite(c) ==
  LET x == liveCall[c] IN
  /\ x.phase = "marking"
  /\ invite' = [invite EXCEPT ![x.by].state = "used", ![x.by].user = x.user]
  /\ Rests(c)
  /\ UNCHANGED <<live, roster, room, log, admitted, entries>>

-----------------------------------------------------------------------------
(***************************************************************************)
(* The sockets.  live-session:join asks for access to the session;         *)
(* join-live-session, the older event, for access to the whiteboard, and   *)
(* lets a host create the session on the way.  Leaving writes the row and  *)
(* then leaves the room; a disconnection only leaves the room.             *)
(***************************************************************************)
JoinRoom(c, u, l) ==
  /\ HasAccess(u, l)
  /\ Begins(c, "sitting", u, l, NoInvite)
  /\ UNCHANGED <<live, roster, invite, room, log, admitted, entries>>

JoinByCanvas(c, u, l, k) ==
  /\ ReadsCanvas(u, k)
  /\ \/ Exists(l) /\ live[l].canvas = k /\ UNCHANGED live
     \/ /\ ~Exists(l) /\ u \in Hosts
        /\ live' = [live EXCEPT ![l] = [NoLive EXCEPT !.status = "SCHEDULED",
                                                      !.canvas = k]]
  /\ Begins(c, "sitting", u, l, NoInvite)
  /\ UNCHANGED <<roster, invite, room, log, admitted, entries>>

Sit(c) ==
  LET x == liveCall[c] IN
  /\ x.phase = "sitting"
  /\ roster' = [roster EXCEPT ![x.of][x.user] = "in"]
  /\ liveCall' = [liveCall EXCEPT ![c].phase = "joining"]
  /\ UNCHANGED <<live, invite, room, log, admitted, entries>>

EnterRoom(c) ==
  LET x == liveCall[c] IN
  /\ x.phase = "joining"
  /\ room' = room \cup {<<x.of, x.user>>}
  /\ Rests(c)
  /\ UNCHANGED <<live, roster, invite, log, admitted, entries>>

Leave(c, u, l) ==
  /\ roster' = [roster EXCEPT ![l][u] = IF @ = "in" THEN "left" ELSE @]
  /\ Begins(c, "leaving", u, l, NoInvite)
  /\ UNCHANGED <<live, invite, room, log, admitted, entries>>

LeaveRoom(c) ==
  LET x == liveCall[c] IN
  /\ x.phase = "leaving"
  /\ room' = room \ {<<x.of, x.user>>}
  /\ Rests(c)
  /\ UNCHANGED <<live, roster, invite, log, admitted, entries>>

Disconnect(u) ==
  /\ \E l \in Lives : <<l, u>> \in room
  /\ room' = {x \in room : x[2] # u}
  /\ UNCHANGED <<live, roster, invite, log, liveCall, admitted, entries>>

\* A failed statement or a killed handler
LiveCallLost(c) ==
  LET x == liveCall[c] IN
  /\ x.phase # "idle"
  /\ entries' = IF x.phase = "marking" THEN [entries EXCEPT ![x.by] = "excused"]
                ELSE entries
  /\ Rests(c)
  /\ UNCHANGED <<live, roster, invite, room, log, admitted>>

-----------------------------------------------------------------------------
(***************************************************************************)
(* What a session records, by REST or by socket (writeEvent).              *)
(***************************************************************************)
Writes(type, u, l, i) ==
  /\ Len(log) < MaxLog
  /\ log' = Append(log, [type |-> type, of |-> l, by |-> u, ref |-> i])
  /\ UNCHANGED <<live, roster, invite, room, liveCall, admitted, entries>>

SendMessage(u, l) == HasAccess(u, l) /\ Writes("message", u, l, 0)

CreateMedia(u, l) == /\ HasAccess(u, l) /\ u \notin Students
                     /\ Writes("media", u, l, 0)

CreateRecording(u, l) == u \in Hosts /\ Exists(l) /\ Writes("recording", u, l, 0)

RaiseHand(u, l) == HasAccess(u, l) /\ Writes("hand", u, l, 0)

Answers(l, type) == {i \in DOMAIN log : log[i].of = l /\ log[i].type = type}

ResolveHand(u, l) == /\ u \in Hosts /\ Exists(l)
                     /\ \E i \in Answers(l, "hand") : Writes("resolved", u, l, i)

UpdateControls(u, l) == u \in Hosts /\ Exists(l) /\ Writes("controls", u, l, 0)

LaunchQuiz(u, l) == u \in Hosts /\ Exists(l) /\ Writes("quiz", u, l, 0)

AnswerQuiz(u, l) == /\ HasAccess(u, l)
                    /\ \E i \in Answers(l, "quiz") : Writes("answer", u, l, i)

\* board:event, screen-share:state and recording:started ask for no access
SocketEvent(u, l) == Exists(l) /\ Writes("other", u, l, 0)

\* joinSessionOnlyByCode: a guest has a row of its own, which nothing ends
GuestJoins(k, l) == Joinable(l, k) /\ Writes("guest", Nobody, l, 0)

Records(u, l) ==
  \/ SendMessage(u, l) \/ CreateMedia(u, l) \/ CreateRecording(u, l)
  \/ RaiseHand(u, l) \/ ResolveHand(u, l) \/ UpdateControls(u, l)
  \/ LaunchQuiz(u, l) \/ AnswerQuiz(u, l) \/ SocketEvent(u, l)

-----------------------------------------------------------------------------
(***************************************************************************)
(* The classroom page (classroom.service.ts getMe): the sessions listed    *)
(* for the user, the first FeedTake of all their events, and what it makes *)
(* of them.                                                                *)
(***************************************************************************)
\* listSessions: being a participant counts for students only
SessionsOf(u) == {l \in Lives : /\ Exists(l)
                                /\ u \in Hosts \/ (u \in Students /\ Participates(u, l))}

StatusOrder(l) == CASE live[l].status = "SCHEDULED" -> 1
                    [] live[l].status = "LIVE" -> 2
                    [] OTHER -> 3

\* The lists that listSessions can return: SessionsTake sessions or all there
\* are, in the order of their status; of those with the same status the ones
\* written last, which may be any
Listings(u) ==
  {some \in SUBSET SessionsOf(u) :
     /\ some = SessionsOf(u) \/ Cardinality(some) = SessionsTake
     /\ Cardinality(some) <= SessionsTake
     /\ \A l \in some, m \in SessionsOf(u) \ some : StatusOrder(l) <= StatusOrder(m)}

EventsOf(listed) == {i \in DOMAIN log : log[i].of \in listed}

Feed(listed) == {i \in EventsOf(listed) :
                   Cardinality({j \in EventsOf(listed) : j < i}) < FeedTake}

FeedOf(listed, type) == {i \in Feed(listed) : log[i].type = type}

RaisedHandsIncludingResolved(listed) == FeedOf(listed, "hand")

\* raisedHandsFrom
RaisedHands(listed) == {i \in FeedOf(listed, "hand") :
                          ~\E j \in FeedOf(listed, "resolved") : log[j].ref = i}

\* quizzesFrom: the answerCount of each quiz
AnswerCounts(listed) == [i \in FeedOf(listed, "quiz") |->
                           Cardinality({j \in FeedOf(listed, "answer") : log[j].ref = i})]

\* latestPayload, of the sessions together
LatestControls(listed) == {i \in FeedOf(listed, "controls") :
                             \A j \in FeedOf(listed, "controls") : j <= i}

-----------------------------------------------------------------------------
HostStep ==
  \E u \in Hosts, l \in Lives :
    \/ \E k \in Canvases : CreateLive(u, l, k)
    \/ StartLive(u, l)
    \/ \E i \in Invites, v \in Participants, k \in Codes : Invite(u, l, i, v, k)
    \/ \E c \in LiveCalls :
         EndLive(c, u, l) \/ \E force \in BOOLEAN : AskCode(c, u, l, force)

JoinStep ==
  \E c \in LiveCalls, u \in Participants :
    \/ \E k \in Codes : \/ \E l \in Lives : JoinBySession(c, u, k, l)
                        \/ \E i \in Invites : JoinByInvite(c, u, k, i)
    \/ \E l \in Lives : \/ JoinRoom(c, u, l) \/ Leave(c, u, l)
                        \/ \E k \in Canvases : JoinByCanvas(c, u, l, k)

LiveCallStep ==
  \E c \in LiveCalls :
    \/ ClearRoster(c) \/ (\E k \in Codes : WriteCode(c, k)) \/ Enter(c)
    \/ MarkInvite(c) \/ Sit(c) \/ EnterRoom(c) \/ LeaveRoom(c) \/ LiveCallLost(c)

LiveNext ==
  \/ HostStep \/ JoinStep \/ LiveCallStep
  \/ \E u \in Participants : Disconnect(u) \/ \E l \in Lives : Records(u, l)
  \/ \E k \in Codes, l \in Lives : GuestJoins(k, l)
  \/ \E l \in Lives : CodeEnds(l)
  \/ \E i \in Invites : InviteEnds(i)

LiveSpec == LiveInit /\ [][LiveNext]_liveVars

-----------------------------------------------------------------------------
(***************************************************************************)
(* Properties.                                                             *)
(***************************************************************************)
Contributed(u, l) == \E i \in DOMAIN log : /\ log[i].of = l /\ log[i].by = u
                                          /\ log[i].type # "other"

\* A student is on a session's roster, in its room or in what it recorded only
\* if a code has let the student into a session of the same whiteboard: an
\* invite alone opens nothing (ensureSessionAccess), and neither do rejoining,
\* the sockets or the older join event, whatever they overlap with.
StudentsComeByCode ==
  \A u \in Students, l \in Lives :
    Participates(u, l) \/ <<l, u>> \in room \/ Contributed(u, l)
      => <<u, live[l].canvas>> \in admitted

\* Whichever sessions the page lists, while they have no more events than it
\* reads, a hand raised in one of them is on it exactly while the log has it
\* unresolved, each of their quizzes has its answers counted, and their controls
\* are the last ones set (getMe).  A session beyond the list is not on the page.
FeedIsCurrent ==
  \A u \in Participants : \A listed \in Listings(u) :
    Cardinality(EventsOf(listed)) <= FeedTake =>
      /\ \A i \in EventsOf(listed) :
           log[i].type = "hand" =>
             (i \in RaisedHands(listed) <=> ~\E j \in DOMAIN log : /\ log[j].type = "resolved"
                                                                  /\ log[j].ref = i)
      /\ \A i \in EventsOf(listed) :
           log[i].type = "controls" => \E j \in LatestControls(listed) : j >= i
      /\ \A i \in EventsOf(listed) :
           log[i].type = "answer" => AnswerCounts(listed)[log[i].ref] > 0

\* An invite lets in one request, unless two were using it at the same time or
\* one was lost before it had marked it (joinByCode).
InviteUsedOnce == \A i \in Invites : entries[i] # "reused"

\* A code that was handed out and has not run out is replaced only on demand,
\* or by a request that had found none before it was written
\* (generateSessionJoinCode).
CodeReplacedForAReason ==
  [][\A l \in Lives :
       live[l].fresh /\ live'[l].code # live[l].code =>
         \E c \in LiveCalls : /\ liveCall[c].phase = "coding"
                              /\ liveCall[c].of = l
                              /\ liveCall[c].forced \/ liveCall[c].stale]_liveVars
=============================================================================
