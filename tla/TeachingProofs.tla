--------------------------- MODULE TeachingProofs ---------------------------
(***************************************************************************)
(* Live sessions and whiteboards: what joins, socket events, invites and   *)
(* edits of slides keep true however they overlap, and the theorems that   *)
(* follow.                                                                 *)
(***************************************************************************)
EXTENDS LiveSessions, Whiteboards, FiniteSetTheorems, WellFoundedInduction, TLAPS

-----------------------------------------------------------------------------
(***************************************************************************)
(* Live sessions.                                                          *)
(***************************************************************************)
USE LiveAssumption

\* What a session is known by, and who has participated in it
SessionRight(l) ==
  /\ ~Exists(l) => ~live[l].fresh
  /\ live[l].fresh => live[l].code # NoCode
  /\ \A u \in Participants : Participates(u, l) =>
       Exists(l) /\ (u \in Students => <<u, live[l].canvas>> \in admitted)

RoomRight ==
  \A l \in Lives, u \in Students : <<l, u>> \in room => Participates(u, l)

\* What a request in flight was admitted to, and what it knows of the code
CallRight(c) ==
  LET x == liveCall[c] IN
  /\ x.phase \notin {"idle", "leaving"} => Exists(x.of)
  /\ x.user \in Students /\ x.phase \in {"entering", "sitting"} =>
       <<x.user, live[x.of].canvas>> \in admitted
  /\ x.user \in Students /\ x.phase = "joining" => Participates(x.user, x.of)
  /\ x.phase = "coding" /\ ~x.forced /\ ~x.stale =>
       live[x.of].code = NoCode \/ ~live[x.of].fresh
  /\ x.by \in Invites =>
       /\ invite[x.by].state # "none"
       /\ \/ x.phase = "entering" /\ entries[x.by] \in {"unused", "excused"}
          \/ x.phase = "marking" /\ entries[x.by] \in {"used", "excused"}
  /\ x.phase = "marking" => x.by \in Invites

\* Two requests use an invite at the same time
InvitesShared ==
  \A c, d \in LiveCalls :
    c # d /\ liveCall[c].by = liveCall[d].by /\ liveCall[c].by \in Invites =>
      entries[liveCall[c].by] = "excused"

InviteRight(i) ==
  /\ invite[i].state # "none" => Exists(invite[i].of)
  /\ entries[i] # "reused"
  /\ entries[i] = "used" =>
       \/ invite[i].state = "used"
       \/ \E c \in LiveCalls : liveCall[c].phase = "marking" /\ liveCall[c].by = i

Answered(type) == IF type = "resolved" THEN "hand" ELSE "quiz"

EventRight(i) ==
  /\ log[i].by \in Students /\ log[i].type # "other" => Participates(log[i].by, log[i].of)
  /\ log[i].type \in {"resolved", "answer"} =>
       /\ log[i].ref \in DOMAIN log
       /\ log[log[i].ref].of = log[i].of
       /\ log[log[i].ref].type = Answered(log[i].type)

ControlsIn(S) == {i \in DOMAIN log : log[i].type = "controls" /\ log[i].of \in S}

\* Of the controls set in some sessions one is the last
LastControls ==
  \A S \in SUBSET Lives : ControlsIn(S) # {} =>
    \E j \in ControlsIn(S) : \A i \in ControlsIn(S) : i <= j

LiveInv ==
  /\ LiveTypeOK
  /\ \A l \in Lives : SessionRight(l)
  /\ RoomRight
  /\ \A c \in LiveCalls : CallRight(c)
  /\ InvitesShared
  /\ \A i \in Invites : InviteRight(i)
  /\ \A i \in DOMAIN log : EventRight(i)
  /\ LastControls

LEMMA LiveRows ==
  ASSUME LiveTypeOK
  PROVE  /\ live \in [Lives -> LiveRow]
         /\ roster \in [Lives -> [Participants -> {"never", "in", "left"}]]
         /\ invite \in [Invites -> InviteRow]
         /\ room \subseteq Lives \X Participants
         /\ log \in Seq(Event) /\ Len(log) \in 0..MaxLog /\ DOMAIN log = 1..Len(log)
         /\ liveCall \in [LiveCalls -> LiveCall]
         /\ admitted \subseteq Students \X Canvases
         /\ entries \in [Invites -> {"unused", "used", "reused", "excused"}]
         /\ \A c \in LiveCalls : /\ liveCall[c].of \in Lives
                                 /\ liveCall[c].user \in Participants
                                 /\ liveCall[c].by \in Invites \cup {NoInvite}
         /\ \A i \in Invites : invite[i].of \in Lives /\ invite[i].user \in Participants
         /\ \A i \in DOMAIN log : log[i] \in Event
<1>1. Len(log) \in 0..MaxLog /\ DOMAIN log = 1..Len(log)
  BY DEF LiveTypeOK
<1> QED
  BY <1>1 DEF LiveTypeOK, LiveCall, InviteRow

LEMMA RestingTyped ==
  /\ Resting \in LiveCall /\ Resting.phase = "idle" /\ Resting.by = NoInvite
  /\ Hosts \subseteq Participants /\ Students \subseteq Participants
  /\ \A k \in Canvases :
       LET row == [NoLive EXCEPT !.status = "SCHEDULED", !.canvas = k] IN
       row \in LiveRow /\ row.status # "NONE" /\ ~row.fresh
  /\ NoLive \in LiveRow /\ NoLive.status = "NONE" /\ ~NoLive.fresh
<1>1. (CHOOSE u \in Participants : TRUE) \in Participants
  BY DEF Participants
<1>2. (CHOOSE l \in Lives : TRUE) \in Lives
  OBVIOUS
<1>3. (CHOOSE k \in Canvases : TRUE) \in Canvases
  OBVIOUS
<1> QED
  BY <1>1, <1>2, <1>3 DEF Resting, LiveCall, NoLive, LiveRow, Participants

Begun == {"clearing", "entering", "sitting", "leaving"}

LEMMA BegunTyped ==
  ASSUME NEW phase \in Begun, NEW u \in Participants,
         NEW l \in Lives, NEW i \in Invites \cup {NoInvite}
  PROVE  LET x == [Resting EXCEPT !.phase = phase, !.user = u, !.of = l, !.by = i] IN
         /\ x \in LiveCall /\ x.phase = phase /\ x.user = u /\ x.of = l /\ x.by = i
BY RestingTyped DEF Resting, LiveCall, Begun

\* Sessions and invites are not taken back, nor is what lets somebody in
Steady ==
  /\ \A l \in Lives : Exists(l) => Exists(l)' /\ live'[l].canvas = live[l].canvas
  /\ \A l \in Lives, u \in Participants : Participates(u, l) => Participates(u, l)'
  /\ admitted \subseteq admitted'
  /\ \A i \in Invites :
       invite[i].state # "none" => invite'[i].state # "none" /\ invite'[i].of = invite[i].of
  /\ log' = log

CodesSteady ==
  \A l \in Lives : Exists(l) => /\ live'[l].code = live[l].code
                                /\ live'[l].fresh => live[l].fresh

LEMMA EventsKept ==
  ASSUME LiveInv, Steady
  PROVE  (\A i \in DOMAIN log : EventRight(i))' /\ LastControls'
<1>1. LastControls'
  BY DEF LiveInv, Steady, LastControls, ControlsIn
<1>2. ASSUME NEW i \in DOMAIN log PROVE EventRight(i)'
  <2>1. EventRight(i) /\ log[i] \in Event
    BY LiveRows DEF LiveInv
  <2>2. log[i].of \in Lives /\ Students \subseteq Participants
    BY <2>1 DEF Event, Participants
  <2> QED
    BY <2>1, <2>2 DEF EventRight, Steady, Answered
<1> QED
  BY <1>1, <1>2 DEF Steady

LEMMA CallKept ==
  ASSUME LiveInv, Steady, CodesSteady, NEW d \in LiveCalls, liveCall'[d] = liveCall[d],
         liveCall[d].by \in Invites =>
           entries'[liveCall[d].by] \in {entries[liveCall[d].by], "excused"}
  PROVE  CallRight(d)'
<1>1. CallRight(d) /\ liveCall[d].of \in Lives /\ liveCall[d].user \in Participants
  BY LiveRows DEF LiveInv
<1> QED
  BY <1>1 DEF CallRight, Steady, CodesSteady

\* One request moves; it does not come to an invite nor leave one
LEMMA CallMoves ==
  ASSUME LiveInv, Steady, CodesSteady, UNCHANGED entries,
         NEW c \in LiveCalls, NEW x \in LiveCall, liveCall' = [liveCall EXCEPT ![c] = x],
         CallRight(c)', x.by = NoInvite, liveCall[c].phase # "marking"
  PROVE  /\ liveCall' \in [LiveCalls -> LiveCall]
         /\ (\A d \in LiveCalls : CallRight(d))' /\ InvitesShared'
         /\ \A i \in Invites : InviteRight(i) => entries'[i] # "reused"
              /\ (entries'[i] = "used" => invite[i].state = "used" \/
                    \E d \in LiveCalls : liveCall'[d].phase = "marking" /\ liveCall'[d].by = i)
<1>1. /\ liveCall \in [LiveCalls -> LiveCall] /\ liveCall' \in [LiveCalls -> LiveCall]
      /\ liveCall'[c] = x /\ \A d \in LiveCalls \ {c} : liveCall'[d] = liveCall[d]
  BY LiveRows DEF LiveInv
<1>2. ASSUME NEW d \in LiveCalls, d # c PROVE CallRight(d)'
  <2>1. CallRight(d) /\ liveCall[d].of \in Lives /\ liveCall[d].user \in Participants
    BY LiveRows DEF LiveInv
  <2>2. liveCall'[d] = liveCall[d]
    BY <1>1, <1>2
  <2> QED
    BY <2>1, <2>2 DEF CallRight, Steady, CodesSteady
<1>3. InvitesShared'
  BY <1>1 DEF LiveInv, InvitesShared
<1>4. ASSUME NEW i \in Invites, InviteRight(i)
      PROVE  /\ entries'[i] # "reused"
             /\ entries'[i] = "used" => invite[i].state = "used" \/
                    \E d \in LiveCalls : liveCall'[d].phase = "marking" /\ liveCall'[d].by = i
  BY <1>1, <1>4 DEF InviteRight
<1> QED
  BY <1>1, <1>2, <1>3, <1>4

LEMMA CallsKept ==
  ASSUME LiveInv, Steady, CodesSteady, UNCHANGED <<entries, liveCall>>
  PROVE  /\ liveCall' \in [LiveCalls -> LiveCall]
         /\ (\A d \in LiveCalls : CallRight(d))' /\ InvitesShared'
<1>1. liveCall' \in [LiveCalls -> LiveCall]
  BY LiveRows DEF LiveInv
<1>2. ASSUME NEW d \in LiveCalls PROVE CallRight(d)'
  <2>1. CallRight(d) /\ liveCall[d].of \in Lives /\ liveCall[d].user \in Participants
    BY LiveRows DEF LiveInv
  <2> QED
    BY <2>1 DEF CallRight, Steady, CodesSteady
<1>3. InvitesShared'
  BY DEF LiveInv, InvitesShared
<1> QED
  BY <1>1, <1>2, <1>3

LEMMA InvitesKept ==
  ASSUME LiveInv, Steady, UNCHANGED invite,
         \A i \in Invites : InviteRight(i) => entries'[i] # "reused"
              /\ (entries'[i] = "used" => invite[i].state = "used" \/
                    \E d \in LiveCalls : liveCall'[d].phase = "marking" /\ liveCall'[d].by = i)
  PROVE  (\A i \in Invites : InviteRight(i))'
<1> SUFFICES ASSUME NEW i \in Invites PROVE InviteRight(i)'
  OBVIOUS
<1>1. InviteRight(i) /\ invite[i].of \in Lives
  BY LiveRows DEF LiveInv
<1> QED
  BY <1>1 DEF InviteRight, Steady

LEMMA SessionsKept ==
  ASSUME LiveInv, Steady, UNCHANGED live,
         \A l \in Lives, u \in Participants :
           Participates(u, l)' /\ ~Participates(u, l) =>
             Exists(l) /\ (u \in Students => <<u, live[l].canvas>> \in admitted)
  PROVE  (\A l \in Lives : SessionRight(l))'
<1> SUFFICES ASSUME NEW l \in Lives PROVE SessionRight(l)'
  OBVIOUS
<1>1. SessionRight(l)
  BY DEF LiveInv
<1> QED
  BY <1>1 DEF SessionRight, Steady, Exists

LEMMA RoomKept ==
  ASSUME LiveInv, Steady, room' \subseteq room
  PROVE  RoomRight'
BY RestingTyped DEF LiveInv, RoomRight, Steady

-----------------------------------------------------------------------------
\* The host's steps

LEMMA LiveRowMoves ==
  ASSUME LiveInv, NEW l \in Lives, NEW row \in LiveRow, live' = [live EXCEPT ![l] = row],
         UNCHANGED <<roster, invite, log, admitted>>,
         Exists(l) => /\ row.status # "NONE" /\ row.canvas = live[l].canvas
                      /\ row.code = live[l].code /\ (row.fresh => live[l].fresh),
         ~Exists(l) => ~row.fresh
  PROVE  /\ Steady /\ CodesSteady /\ live' \in [Lives -> LiveRow]
         /\ (\A m \in Lives : SessionRight(m))'
<1>1. /\ live \in [Lives -> LiveRow] /\ live' \in [Lives -> LiveRow]
      /\ live'[l] = row /\ \A m \in Lives \ {l} : live'[m] = live[m]
  BY LiveRows DEF LiveInv
<1>2. Steady /\ CodesSteady
  BY <1>1 DEF Steady, CodesSteady, Exists, Participates
<1>3. ASSUME NEW m \in Lives PROVE SessionRight(m)'
  <2>1. SessionRight(m)
    BY DEF LiveInv
  <2>2. CASE m # l
    BY <1>1, <2>1, <2>2 DEF SessionRight, Exists, Participates
  <2>3. CASE m = l
    BY <1>1, <2>1, <2>3 DEF SessionRight, Exists, Participates
  <2> QED
    BY <2>2, <2>3
<1> QED
  BY <1>1, <1>2, <1>3

LEMMA HostRow ==
  ASSUME LiveInv, NEW l \in Lives,
         NEW row \in {[live[l] EXCEPT !.status = "LIVE"], [live[l] EXCEPT !.status = "ENDED"],
                      [live[l] EXCEPT !.fresh = FALSE]}
  PROVE  /\ row \in LiveRow /\ row.canvas = live[l].canvas /\ row.code = live[l].code
         /\ row.fresh => live[l].fresh
         /\ Exists(l) => row.status # "NONE"
<1>1. live[l] \in LiveRow
  BY LiveRows DEF LiveInv
<1>2. CASE row = [live[l] EXCEPT !.status = "LIVE"]
  BY <1>1, <1>2 DEF LiveRow
<1>3. CASE row = [live[l] EXCEPT !.status = "ENDED"]
  BY <1>1, <1>3 DEF LiveRow
<1>4. CASE row = [live[l] EXCEPT !.fresh = FALSE]
  BY <1>1, <1>4 DEF LiveRow, Exists
<1> QED
  BY <1>2, <1>3, <1>4

\* Sessions, with no request on the way
LEMMA HostSteps ==
  ASSUME LiveInv, NEW u \in Participants, NEW l \in Lives,
         (\E k \in Canvases : CreateLive(u, l, k)) \/ StartLive(u, l) \/ CodeEnds(l)
  PROVE  LiveInv'
<1>1. UNCHANGED <<roster, invite, room, log, liveCall, admitted, entries>>
  BY DEF CreateLive, StartLive, CodeEnds
<1>2. PICK row \in LiveRow :
        /\ live' = [live EXCEPT ![l] = row]
        /\ Exists(l) => /\ row.status # "NONE" /\ row.canvas = live[l].canvas
                        /\ row.code = live[l].code /\ (row.fresh => live[l].fresh)
        /\ ~Exists(l) => ~row.fresh
  <2>1. ASSUME NEW k \in Canvases, CreateLive(u, l, k)
        PROVE  LET row == [NoLive EXCEPT !.status = "SCHEDULED", !.canvas = k] IN
               live' = [live EXCEPT ![l] = row] /\ row \in LiveRow /\ ~row.fresh /\ ~Exists(l)
    BY <2>1, RestingTyped DEF CreateLive
  <2>2. ASSUME StartLive(u, l)
        PROVE  Exists(l) /\ live' = [live EXCEPT ![l] = [live[l] EXCEPT !.status = "LIVE"]]
    BY <2>2 DEF StartLive
  <2>3. ASSUME CodeEnds(l)
        PROVE  /\ live' = [live EXCEPT ![l] = [live[l] EXCEPT !.fresh = FALSE]]
               /\ ~Exists(l) => ~live[l].fresh
    BY <2>3 DEF CodeEnds, LiveInv, SessionRight
  <2> QED
    BY <2>1, <2>2, <2>3, HostRow
<1>3. Steady /\ CodesSteady /\ live' \in [Lives -> LiveRow] /\ (\A m \in Lives : SessionRight(m))'
  BY <1>1, <1>2, LiveRowMoves
<1>4. LiveTypeOK'
  BY <1>1, <1>3 DEF LiveInv, LiveTypeOK
<1>5. (\A i \in Invites : InviteRight(i))'
  BY <1>1, <1>3, InvitesKept DEF LiveInv, InviteRight
<1> QED
  BY <1>1, <1>3, <1>4, <1>5, EventsKept, CallsKept, RoomKept DEF LiveInv

\* A request that begins or goes on, and the session it is for
LEMMA RequestMoves ==
  ASSUME LiveInv, Steady, CodesSteady, UNCHANGED <<invite, entries>>,
         live' \in [Lives -> LiveRow], (\A m \in Lives : SessionRight(m))',
         roster' \in [Lives -> [Participants -> {"never", "in", "left"}]],
         admitted' \subseteq Students \X Canvases,
         room' \subseteq Lives \X Participants, RoomRight',
         NEW c \in LiveCalls, NEW x \in LiveCall, liveCall' = [liveCall EXCEPT ![c] = x],
         CallRight(c)', x.by = NoInvite, liveCall[c].phase # "marking"
  PROVE  LiveInv'
<1>1. LiveTypeOK
  BY DEF LiveInv
<1>2. /\ liveCall' \in [LiveCalls -> LiveCall]
      /\ (\A d \in LiveCalls : CallRight(d))' /\ InvitesShared'
      /\ \A i \in Invites : InviteRight(i) => entries'[i] # "reused"
              /\ (entries'[i] = "used" => invite[i].state = "used" \/
                    \E d \in LiveCalls : liveCall'[d].phase = "marking" /\ liveCall'[d].by = i)
  BY CallMoves
<1>3. LiveTypeOK'
  BY <1>1, <1>2 DEF LiveTypeOK, Steady
<1> QED
  BY <1>2, <1>3, EventsKept, InvitesKept DEF LiveInv

LEMMA EndStep ==
  ASSUME LiveInv, NEW c \in LiveCalls, NEW u \in Hosts, NEW l \in Lives, EndLive(c, u, l)
  PROVE  LiveInv'
<1> DEFINE x == [Resting EXCEPT !.phase = "clearing", !.user = u, !.of = l, !.by = NoInvite]
           row == [live[l] EXCEPT !.status = "ENDED"]
<1>1. UNCHANGED <<roster, invite, room, log, admitted, entries>>
  BY DEF EndLive
<1>2. /\ x \in LiveCall /\ x.phase = "clearing" /\ x.user = u /\ x.of = l /\ x.by = NoInvite
      /\ u \notin Students
  <2>1. /\ u \in Participants /\ u \notin Students /\ "clearing" \in Begun
        /\ NoInvite \in Invites \cup {NoInvite}
    BY DEF Participants, Begun
  <2> QED
    BY <2>1, RestingTyped DEF Resting, LiveCall, Begun
<1>3. /\ live' = [live EXCEPT ![l] = row] /\ liveCall' = [liveCall EXCEPT ![c] = x]
      /\ Exists(l) /\ liveCall[c].phase = "idle"
  BY DEF EndLive, Begins
<1> HIDE DEF x, row
<1>4. /\ row \in LiveRow /\ row.canvas = live[l].canvas /\ row.code = live[l].code
      /\ row.fresh => live[l].fresh
      /\ row.status # "NONE"
  BY <1>3, HostRow DEF row
<1>5. Steady /\ CodesSteady /\ live' \in [Lives -> LiveRow] /\ (\A m \in Lives : SessionRight(m))'
  BY <1>1, <1>3, <1>4, LiveRowMoves
<1>6. liveCall'[c] = x
  BY <1>3, LiveRows DEF LiveInv
<1>7. Exists(l)'
  BY <1>3, <1>5 DEF Steady
<1>8. CallRight(c)'
  BY <1>2, <1>6, <1>7 DEF CallRight
<1>9. RoomRight' /\ room' \subseteq Lives \X Participants
  BY <1>1, <1>5, RoomKept, LiveRows DEF LiveInv
<1>10. /\ roster' \in [Lives -> [Participants -> {"never", "in", "left"}]]
       /\ admitted' \subseteq Students \X Canvases
  BY <1>1, LiveRows DEF LiveInv
<1> QED
  BY <1>1, <1>2, <1>3, <1>5, <1>8, <1>9, <1>10, RequestMoves

\* A step of a request that leaves the sessions alone
LEMMA QuietMoves ==
  ASSUME LiveInv, UNCHANGED <<live, roster, invite, log, entries>>,
         admitted \subseteq admitted', admitted' \subseteq Students \X Canvases,
         room' \subseteq Lives \X Participants, RoomRight',
         NEW c \in LiveCalls, NEW x \in LiveCall, liveCall' = [liveCall EXCEPT ![c] = x],
         CallRight(c)', x.by = NoInvite, liveCall[c].phase # "marking"
  PROVE  LiveInv'
<1>1. Steady /\ CodesSteady
  BY DEF Steady, CodesSteady, Exists, Participates
<1>2. (\A m \in Lives : SessionRight(m))'
  BY <1>1, SessionsKept DEF Participates
<1>3. /\ live' \in [Lives -> LiveRow]
      /\ roster' \in [Lives -> [Participants -> {"never", "in", "left"}]]
  BY LiveRows DEF LiveInv
<1> QED
  BY <1>1, <1>2, <1>3, RequestMoves

LEMMA AskStep ==
  ASSUME LiveInv, NEW c \in LiveCalls, NEW u \in Hosts, NEW l \in Lives, NEW force \in BOOLEAN,
         AskCode(c, u, l, force)
  PROVE  LiveInv'
<1> DEFINE x == [Resting EXCEPT !.phase = "coding", !.user = u, !.of = l, !.forced = force]
<1>1. UNCHANGED <<live, roster, invite, room, log, admitted, entries>>
  BY DEF AskCode
<1>2. /\ x \in LiveCall /\ x.phase = "coding" /\ x.user = u /\ x.of = l /\ x.by = NoInvite
      /\ u \notin Students
  BY RestingTyped DEF Resting, LiveCall
<1>3. x.forced = force
  BY RestingTyped, Zenon DEF Resting
<1>4. /\ liveCall' = [liveCall EXCEPT ![c] = x] /\ liveCall[c].phase = "idle"
      /\ Exists(l) /\ NeedsCode(l, force)
  BY DEF AskCode
<1> HIDE DEF x
<1>5. liveCall'[c] = x
  BY <1>4, LiveRows DEF LiveInv
<1>6. ~x.forced => live[l].code = NoCode \/ ~live[l].fresh
  BY <1>3, <1>4 DEF NeedsCode
<1>7. CallRight(c)'
  BY <1>1, <1>2, <1>4, <1>5, <1>6 DEF CallRight, Exists
<1>8. /\ admitted \subseteq admitted' /\ admitted' \subseteq Students \X Canvases
      /\ room' \subseteq Lives \X Participants /\ RoomRight'
  BY <1>1, LiveRows DEF LiveInv, RoomRight, Participates
<1> QED
  BY <1>1, <1>2, <1>4, <1>7, <1>8, QuietMoves

LEMMA WriteCodeStep ==
  ASSUME LiveInv, NEW c \in LiveCalls, NEW k \in Codes, WriteCode(c, k)
  PROVE  LiveInv'
<1>0. PICK l \in Lives : l = liveCall[c].of
  BY LiveRows DEF LiveInv
<1> DEFINE row == [live[l] EXCEPT !.code = k, !.fresh = TRUE]
<1>1. /\ UNCHANGED <<roster, invite, room, log, admitted, entries>>
      /\ liveCall[c].phase = "coding" /\ l \in Lives /\ Exists(l) /\ k # NoCode
      /\ liveCall[c].by \notin Invites
  BY <1>0, LiveRows DEF WriteCode, LiveInv, CallRight
<1>2. live' = [live EXCEPT ![l] = row]
  BY <1>0 DEF WriteCode
<1>3. /\ row \in LiveRow /\ row.status = live[l].status /\ row.canvas = live[l].canvas
      /\ row.code = k
  <2>1. live[l] \in LiveRow
    BY LiveRows DEF LiveInv
  <2> QED
    BY <2>1 DEF LiveRow
<1> HIDE DEF row
<1>4. /\ live' \in [Lives -> LiveRow] /\ live'[l] = row
      /\ \A m \in Lives \ {l} : live'[m] = live[m]
  BY <1>1, <1>2, <1>3, LiveRows DEF LiveInv
<1>5. Steady
  BY <1>1, <1>3, <1>4 DEF Steady, Exists, Participates
<1>6. \A m \in Lives : Exists(m)' <=> Exists(m)
  BY <1>3, <1>4 DEF Exists
<1>7. (\A m \in Lives : SessionRight(m))'
  <2> SUFFICES ASSUME NEW m \in Lives PROVE SessionRight(m)'
    OBVIOUS
  <2>1. SessionRight(m) /\ live'[m].canvas = live[m].canvas
    BY <1>3, <1>4 DEF LiveInv
  <2>2. /\ m = l => Exists(m)' /\ live'[m].code # NoCode
        /\ m # l => live'[m] = live[m]
    BY <1>1, <1>3, <1>4, <1>6
  <2> QED
    BY <1>1, <1>6, <2>1, <2>2 DEF SessionRight, Participates
<1>8. ASSUME NEW d \in LiveCalls
      PROVE  /\ liveCall'[d] \in LiveCall
             /\ d = c => liveCall'[d] = Resting
             /\ d # c => /\ liveCall'[d].phase = liveCall[d].phase
                         /\ liveCall'[d].of = liveCall[d].of
                         /\ liveCall'[d].user = liveCall[d].user
                         /\ liveCall'[d].by = liveCall[d].by
                         /\ liveCall[d].of # l => liveCall'[d] = liveCall[d]
             /\ d # c /\ liveCall[d].phase = "coding" /\ liveCall[d].of = l => liveCall'[d].stale
  <2>1. liveCall[d] \in LiveCall
    BY LiveRows DEF LiveInv
  <2>2. liveCall'[d] =
          IF d = c THEN Resting
          ELSE IF liveCall[d].phase = "coding" /\ liveCall[d].of = l
          THEN [liveCall[d] EXCEPT !.stale = TRUE] ELSE liveCall[d]
    BY <1>0 DEF WriteCode
  <2>3. LET y == [liveCall[d] EXCEPT !.stale = TRUE] IN
        /\ y \in LiveCall /\ y.stale /\ y.phase = liveCall[d].phase /\ y.of = liveCall[d].of
        /\ y.user = liveCall[d].user /\ y.by = liveCall[d].by
    BY <2>1 DEF LiveCall
  <2> QED
    BY <2>1, <2>2, <2>3, RestingTyped
<1>9. liveCall' \in [LiveCalls -> LiveCall]
  <2>1. liveCall' = [d \in LiveCalls |-> liveCall'[d]]
    BY DEF WriteCode
  <2> QED
    BY <1>8, <2>1
<1>10. ASSUME NEW d \in LiveCalls PROVE CallRight(d)'
  <2>1. CallRight(d) /\ liveCall[d].of \in Lives /\ liveCall[d].user \in Participants
    BY LiveRows DEF LiveInv
  <2>2. CASE d = c
    BY <1>8, <2>2, RestingTyped DEF CallRight
  <2>3. CASE d # c /\ liveCall[d].of # l
    <3>1. liveCall'[d] = liveCall[d] /\ live'[liveCall[d].of] = live[liveCall[d].of]
      BY <1>4, <1>8, <2>1, <2>3
    <3> QED
      BY <1>1, <2>1, <3>1 DEF CallRight, Exists, Participates
  <2>4. CASE d # c /\ liveCall[d].of = l
    <3>1. live'[l].canvas = live[l].canvas /\ Exists(l)'
      BY <1>1, <1>3, <1>4, <1>6
    <3> QED
      BY <1>1, <1>8, <2>1, <2>4, <3>1 DEF CallRight, Participates
  <2> QED
    BY <2>2, <2>3, <2>4
<1>11. InvitesShared'
  <2> SUFFICES ASSUME NEW d \in LiveCalls, NEW e \in LiveCalls, d # e,
                      liveCall'[d].by = liveCall'[e].by, liveCall'[d].by \in Invites
               PROVE  entries'[liveCall'[d].by] = "excused"
    BY DEF InvitesShared
  <2>1. d # c /\ e # c
    BY <1>8, RestingTyped
  <2>2. liveCall'[d].by = liveCall[d].by /\ liveCall'[e].by = liveCall[e].by
    BY <1>8, <2>1
  <2>3. InvitesShared
    BY DEF LiveInv
  <2> QED
    BY <1>1, <2>2, <2>3 DEF InvitesShared
<1>12. \A i \in Invites : InviteRight(i) => entries'[i] # "reused"
              /\ (entries'[i] = "used" => invite[i].state = "used" \/
                    \E d \in LiveCalls : liveCall'[d].phase = "marking" /\ liveCall'[d].by = i)
  BY <1>1, <1>8 DEF InviteRight
<1>13. LiveTypeOK'
  BY <1>1, <1>4, <1>9 DEF LiveInv, LiveTypeOK
<1> QED
  BY <1>1, <1>5, <1>7, <1>10, <1>11, <1>12, <1>13, EventsKept, InvitesKept, RoomKept DEF LiveInv

-----------------------------------------------------------------------------
\* Participants and rooms

\* A request puts down who participates
LEMMA RosterMoves ==
  ASSUME LiveInv, UNCHANGED <<live, invite, log, entries, admitted>>,
         roster' \in [Lives -> [Participants -> {"never", "in", "left"}]],
         \A m \in Lives, v \in Participants : Participates(v, m) => Participates(v, m)',
         \A m \in Lives, v \in Participants : Participates(v, m)' /\ ~Participates(v, m) =>
           Exists(m) /\ (v \in Students => <<v, live[m].canvas>> \in admitted),
         room' \subseteq room,
         NEW c \in LiveCalls, NEW x \in LiveCall, liveCall' = [liveCall EXCEPT ![c] = x],
         CallRight(c)', x.by = NoInvite, liveCall[c].phase # "marking"
  PROVE  LiveInv'
<1>1. Steady /\ CodesSteady
  BY DEF Steady, CodesSteady, Exists
<1>2. (\A m \in Lives : SessionRight(m))' /\ RoomRight'
  BY <1>1, SessionsKept, RoomKept
<1>3. /\ live' \in [Lives -> LiveRow] /\ admitted' \subseteq Students \X Canvases
      /\ room' \subseteq Lives \X Participants
  BY LiveRows DEF LiveInv
<1> QED
  BY <1>1, <1>2, <1>3, RequestMoves

LEMMA RosterTyped ==
  ASSUME LiveInv, NEW l \in Lives, NEW u \in Participants,
         NEW p \in {"in", "left"}, p = "left" => roster[l][u] # "never",
         roster' = [roster EXCEPT ![l][u] = p]
  PROVE  /\ roster' \in [Lives -> [Participants -> {"never", "in", "left"}]]
         /\ Participates(u, l)'
         /\ \A m \in Lives, v \in Participants : Participates(v, m) => Participates(v, m)'
         /\ \A m \in Lives, v \in Participants :
              Participates(v, m)' /\ ~Participates(v, m) => m = l /\ v = u
<1>1. roster \in [Lives -> [Participants -> {"never", "in", "left"}]]
  BY LiveRows DEF LiveInv
<1>2. /\ roster' \in [Lives -> [Participants -> {"never", "in", "left"}]]
      /\ \A m \in Lives, v \in Participants :
           roster'[m][v] = IF m = l /\ v = u THEN p ELSE roster[m][v]
  BY <1>1
<1> QED
  BY <1>2 DEF Participates

LEMMA ClearStep ==
  ASSUME LiveInv, NEW c \in LiveCalls, ClearRoster(c)
  PROVE  LiveInv'
<1> DEFINE l == liveCall[c].of
           cleared == [u \in Participants |->
                         IF roster[l][u] = "in" THEN "left" ELSE roster[l][u]]
<1>1. /\ UNCHANGED <<live, invite, room, log, admitted, entries>>
      /\ liveCall[c].phase = "clearing" /\ roster' = [roster EXCEPT ![l] = cleared]
      /\ liveCall' = [liveCall EXCEPT ![c] = Resting]
  BY DEF ClearRoster, Rests
<1>2. /\ roster \in [Lives -> [Participants -> {"never", "in", "left"}]] /\ l \in Lives
      /\ liveCall \in [LiveCalls -> LiveCall]
  BY LiveRows DEF LiveInv
<1>3. cleared \in [Participants -> {"never", "in", "left"}]
      /\ \A u \in Participants : cleared[u] = "never" <=> roster[l][u] = "never"
  BY <1>2
<1> HIDE DEF cleared
<1>4. /\ roster' \in [Lives -> [Participants -> {"never", "in", "left"}]]
      /\ \A m \in Lives : roster'[m] = IF m = l THEN cleared ELSE roster[m]
  BY <1>1, <1>2, <1>3
<1>5. \A m \in Lives, v \in Participants : Participates(v, m)' <=> Participates(v, m)
  BY <1>3, <1>4 DEF Participates
<1>6. CallRight(c)'
  BY <1>1, <1>2, RestingTyped DEF CallRight
<1> QED
  BY <1>1, <1>4, <1>5, <1>6, RestingTyped, RosterMoves

LEMMA SitStep ==
  ASSUME LiveInv, NEW c \in LiveCalls, Sit(c)
  PROVE  LiveInv'
<1>0. PICK l \in Lives, u \in Participants : l = liveCall[c].of /\ u = liveCall[c].user
  BY LiveRows DEF LiveInv
<1> DEFINE x == [liveCall[c] EXCEPT !.phase = "joining"]
<1>1. /\ liveCall \in [LiveCalls -> LiveCall] /\ liveCall[c] \in LiveCall
      /\ l \in Lives /\ u \in Participants /\ CallRight(c) /\ liveCall[c].by \in Invites \cup {NoInvite}
  BY LiveRows DEF LiveInv
<1>2. /\ UNCHANGED <<live, invite, room, log, admitted, entries>>
      /\ liveCall[c].phase = "sitting" /\ roster' = [roster EXCEPT ![l][u] = "in"]
      /\ liveCall' = [liveCall EXCEPT ![c] = x]
  BY <1>0 DEF Sit
<1>3. x \in LiveCall /\ x.phase = "joining" /\ x.of = l /\ x.user = u /\ x.by = liveCall[c].by
  BY <1>0, <1>1 DEF LiveCall
<1> HIDE DEF x
<1>4. x.by = NoInvite /\ x.by \notin Invites
  BY <1>1, <1>2, <1>3 DEF CallRight
<1>5. Exists(l) /\ (u \in Students => <<u, live[l].canvas>> \in admitted)
  BY <1>0, <1>1, <1>2 DEF CallRight
<1>6. /\ roster' \in [Lives -> [Participants -> {"never", "in", "left"}]]
      /\ Participates(u, l)'
      /\ \A m \in Lives, v \in Participants : Participates(v, m) => Participates(v, m)'
      /\ \A m \in Lives, v \in Participants :
              Participates(v, m)' /\ ~Participates(v, m) => m = l /\ v = u
  BY <1>1, <1>2, RosterTyped
<1>7. liveCall'[c] = x
  BY <1>1, <1>2
<1>8. CallRight(c)'
  BY <1>2, <1>3, <1>4, <1>5, <1>6, <1>7 DEF CallRight, Exists
<1> QED
  BY <1>2, <1>3, <1>4, <1>5, <1>6, <1>8, RosterMoves

LEMMA LeaveStep ==
  ASSUME LiveInv, NEW c \in LiveCalls, NEW u \in Participants, NEW l \in Lives, Leave(c, u, l)
  PROVE  LiveInv'
<1> DEFINE x == [Resting EXCEPT !.phase = "leaving", !.user = u, !.of = l, !.by = NoInvite]
           p == IF roster[l][u] = "in" THEN "left" ELSE roster[l][u]
<1>1. /\ UNCHANGED <<live, invite, room, log, admitted, entries>>
      /\ roster' = [roster EXCEPT ![l][u] = p] /\ liveCall[c].phase = "idle"
      /\ liveCall' = [liveCall EXCEPT ![c] = x]
  BY DEF Leave, Begins
<1>2. x \in LiveCall /\ x.phase = "leaving" /\ x.by = NoInvite
  <2>1. "leaving" \in Begun /\ NoInvite \in Invites \cup {NoInvite}
    BY DEF Begun
  <2> QED
    BY <2>1, RestingTyped DEF Resting, LiveCall, Begun
<1> HIDE DEF x
<1>3. /\ roster \in [Lives -> [Participants -> {"never", "in", "left"}]]
      /\ liveCall \in [LiveCalls -> LiveCall]
  BY LiveRows DEF LiveInv
<1>4. p \in {"never", "in", "left"} /\ (p = "never" <=> roster[l][u] = "never")
  BY <1>3
<1> HIDE DEF p
<1>5. /\ roster' \in [Lives -> [Participants -> {"never", "in", "left"}]]
      /\ \A m \in Lives, v \in Participants :
           roster'[m][v] = IF m = l /\ v = u THEN p ELSE roster[m][v]
  BY <1>1, <1>3, <1>4
<1>6. \A m \in Lives, v \in Participants : Participates(v, m)' <=> Participates(v, m)
  BY <1>4, <1>5 DEF Participates
<1>7. liveCall'[c] = x
  BY <1>1, <1>3
<1>8. CallRight(c)'
  BY <1>2, <1>7 DEF CallRight
<1> QED
  BY <1>1, <1>2, <1>5, <1>6, <1>8, RosterMoves

\* A request that only ends, and leaves rooms or none
LEMMA EndsQuietly ==
  ASSUME LiveInv, UNCHANGED <<live, roster, invite, log, entries, admitted>>,
         room' \subseteq room, NEW c \in LiveCalls, Rests(c), liveCall[c].phase # "marking"
  PROVE  LiveInv'
<1>1. Resting \in LiveCall /\ liveCall' = [liveCall EXCEPT ![c] = Resting] /\ liveCall'[c] = Resting
  BY RestingTyped, LiveRows DEF Rests, LiveInv
<1>2. CallRight(c)'
  BY <1>1, RestingTyped DEF CallRight
<1>3. RoomRight' /\ room' \subseteq Lives \X Participants /\ admitted' \subseteq Students \X Canvases
  BY LiveRows, RestingTyped DEF LiveInv, RoomRight, Participates
<1> QED
  BY <1>1, <1>2, <1>3, RestingTyped, QuietMoves

LEMMA RoomSteps ==
  ASSUME LiveInv, NEW c \in LiveCalls, EnterRoom(c) \/ LeaveRoom(c)
  PROVE  LiveInv'
<1>1. UNCHANGED <<live, roster, invite, log, entries, admitted>> /\ Rests(c)
      /\ liveCall[c].phase # "marking"
  BY DEF EnterRoom, LeaveRoom
<1>2. CASE LeaveRoom(c)
  BY <1>1, <1>2, EndsQuietly DEF LeaveRoom
<1>3. CASE EnterRoom(c)
  <2> DEFINE l == liveCall[c].of
             u == liveCall[c].user
  <2>1. l \in Lives /\ u \in Participants /\ CallRight(c) /\ liveCall[c].phase = "joining"
        /\ room' = room \cup {<<l, u>>}
    BY <1>3, LiveRows DEF LiveInv, EnterRoom
  <2>2. u \in Students => Participates(u, l)
    BY <2>1 DEF CallRight
  <2>3. RoomRight' /\ room' \subseteq Lives \X Participants
        /\ admitted' \subseteq Students \X Canvases /\ admitted \subseteq admitted'
    BY <1>1, <2>1, <2>2, LiveRows DEF LiveInv, RoomRight, Participates
  <2>4. Resting \in LiveCall /\ liveCall' = [liveCall EXCEPT ![c] = Resting]
        /\ liveCall'[c] = Resting
    BY <1>1, RestingTyped, LiveRows DEF Rests, LiveInv
  <2>5. CallRight(c)'
    BY <2>4, RestingTyped DEF CallRight
  <2> QED
    BY <1>1, <2>3, <2>4, <2>5, RestingTyped, QuietMoves
<1> QED
  BY <1>2, <1>3

-----------------------------------------------------------------------------
\* Coming in

LEMMA JoinBySessionStep ==
  ASSUME LiveInv, NEW c \in LiveCalls, NEW u \in Participants, NEW k \in Codes, NEW l \in Lives,
         JoinBySession(c, u, k, l)
  PROVE  LiveInv'
<1> DEFINE x == [Resting EXCEPT !.phase = "entering", !.user = u, !.of = l, !.by = NoInvite]
<1>1. /\ UNCHANGED <<live, roster, invite, room, log, entries>>
      /\ liveCall[c].phase = "idle" /\ liveCall' = [liveCall EXCEPT ![c] = x]
      /\ Exists(l)
      /\ admitted' = IF u \in Students THEN admitted \cup {<<u, live[l].canvas>>} ELSE admitted
  BY DEF JoinBySession, Begins, LetsIn, Joinable, Exists
<1>2. x \in LiveCall /\ x.phase = "entering" /\ x.user = u /\ x.of = l /\ x.by = NoInvite
  BY RestingTyped DEF Resting, LiveCall
<1> HIDE DEF x
<1>3. live[l].canvas \in Canvases /\ liveCall'[c] = x
  BY <1>1, LiveRows DEF LiveInv, LiveRow
<1>4. admitted \subseteq admitted' /\ admitted' \subseteq Students \X Canvases
      /\ (u \in Students => <<u, live[l].canvas>> \in admitted')
  BY <1>1, <1>3, LiveRows DEF LiveInv
<1>5. RoomRight' /\ room' \subseteq Lives \X Participants
  BY <1>1, LiveRows DEF LiveInv, RoomRight, Participates
<1>6. CallRight(c)'
  BY <1>1, <1>2, <1>3, <1>4 DEF CallRight, Exists
<1> QED
  BY <1>1, <1>2, <1>4, <1>5, <1>6, QuietMoves

LEMMA JoinRoomStep ==
  ASSUME LiveInv, NEW c \in LiveCalls, NEW u \in Participants, NEW l \in Lives, JoinRoom(c, u, l)
  PROVE  LiveInv'
<1> DEFINE x == [Resting EXCEPT !.phase = "sitting", !.user = u, !.of = l, !.by = NoInvite]
<1>1. /\ UNCHANGED <<live, roster, invite, room, log, admitted, entries>>
      /\ liveCall[c].phase = "idle" /\ liveCall' = [liveCall EXCEPT ![c] = x]
      /\ Exists(l) /\ (u \in Students => Participates(u, l))
  BY DEF JoinRoom, Begins, HasAccess
<1>2. x \in LiveCall /\ x.phase = "sitting" /\ x.user = u /\ x.of = l /\ x.by = NoInvite
  BY RestingTyped DEF Resting, LiveCall
<1> HIDE DEF x
<1>3. liveCall'[c] = x
  BY <1>1, LiveRows DEF LiveInv
<1>4. u \in Students => <<u, live[l].canvas>> \in admitted
  BY <1>1 DEF LiveInv, SessionRight
<1>5. /\ admitted \subseteq admitted' /\ admitted' \subseteq Students \X Canvases
      /\ room' \subseteq Lives \X Participants /\ RoomRight'
  BY <1>1, LiveRows DEF LiveInv, RoomRight, Participates
<1>6. CallRight(c)'
  BY <1>1, <1>2, <1>3, <1>4 DEF CallRight, Exists
<1> QED
  BY <1>1, <1>2, <1>5, <1>6, QuietMoves

LEMMA JoinByCanvasStep ==
  ASSUME LiveInv, NEW c \in LiveCalls, NEW u \in Participants, NEW l \in Lives,
         NEW k \in Canvases, JoinByCanvas(c, u, l, k)
  PROVE  LiveInv'
<1> DEFINE x == [Resting EXCEPT !.phase = "sitting", !.user = u, !.of = l, !.by = NoInvite]
           row == IF Exists(l) THEN live[l]
                  ELSE [NoLive EXCEPT !.status = "SCHEDULED", !.canvas = k]
<1>1. /\ UNCHANGED <<roster, invite, room, log, admitted, entries>>
      /\ liveCall[c].phase = "idle" /\ liveCall' = [liveCall EXCEPT ![c] = x]
      /\ ReadsCanvas(u, k)
      /\ Exists(l) => live[l].canvas = k
      /\ ~Exists(l) => u \in Hosts
  BY DEF JoinByCanvas, Begins
<1>2. x \in LiveCall /\ x.phase = "sitting" /\ x.user = u /\ x.of = l /\ x.by = NoInvite
  BY RestingTyped DEF Resting, LiveCall
<1>3. live' = [live EXCEPT ![l] = row]
  BY LiveRows DEF JoinByCanvas, LiveInv
<1>4. /\ row \in LiveRow /\ row.status # "NONE"
      /\ ~Exists(l) => ~row.fresh
      /\ Exists(l) => row = live[l]
  BY RestingTyped, LiveRows DEF LiveInv, Exists
<1> HIDE DEF x, row
<1>5. Steady /\ CodesSteady /\ live' \in [Lives -> LiveRow] /\ (\A m \in Lives : SessionRight(m))'
  BY <1>1, <1>3, <1>4, LiveRowMoves
<1>6. liveCall'[c] = x /\ live'[l] = row
  BY <1>1, <1>3, LiveRows DEF LiveInv
<1>7. u \in Students => <<u, live[l].canvas>> \in admitted /\ Exists(l)
  BY <1>1 DEF ReadsCanvas, LiveInv, SessionRight
<1>8. CallRight(c)'
  BY <1>1, <1>2, <1>4, <1>6, <1>7 DEF CallRight, Exists
<1>9. RoomRight' /\ room' \subseteq Lives \X Participants
  BY <1>1, <1>5, RoomKept, LiveRows DEF LiveInv
<1>10. /\ roster' \in [Lives -> [Participants -> {"never", "in", "left"}]]
       /\ admitted' \subseteq Students \X Canvases
  BY <1>1, LiveRows DEF LiveInv
<1> QED
  BY <1>1, <1>2, <1>5, <1>8, <1>9, <1>10, RequestMoves

-----------------------------------------------------------------------------
\* Invites

LEMMA JoinByInviteStep ==
  ASSUME LiveInv, NEW c \in LiveCalls, NEW u \in Participants, NEW k \in Codes, NEW i \in Invites,
         JoinByInvite(c, u, k, i)
  PROVE  LiveInv'
<1>1. PICK l \in Lives : l = invite[i].of
  BY LiveRows DEF LiveInv
<1> DEFINE x == [Resting EXCEPT !.phase = "entering", !.user = u, !.of = l, !.by = i]
<1>2. /\ UNCHANGED <<live, roster, invite, room, log>>
      /\ liveCall[c].phase = "idle" /\ liveCall' = [liveCall EXCEPT ![c] = x]
      /\ invite[i].state = "open"
      /\ admitted' = IF u \in Students THEN admitted \cup {<<u, live[l].canvas>>} ELSE admitted
      /\ entries' = IF Holding(i) # {} THEN [entries EXCEPT ![i] = "excused"] ELSE entries
  BY <1>1 DEF JoinByInvite, Begins, LetsIn, OpenFor
<1>3. x \in LiveCall /\ x.phase = "entering" /\ x.user = u /\ x.of = l /\ x.by = i
  BY RestingTyped DEF Resting, LiveCall
<1> HIDE DEF x
<1>4. /\ liveCall \in [LiveCalls -> LiveCall] /\ liveCall' \in [LiveCalls -> LiveCall]
      /\ liveCall'[c] = x /\ \A d \in LiveCalls \ {c} : liveCall'[d] = liveCall[d]
      /\ live[l].canvas \in Canvases
      /\ entries \in [Invites -> {"unused", "used", "reused", "excused"}]
  BY <1>2, <1>3, LiveRows DEF LiveInv, LiveRow
<1>5. /\ entries' \in [Invites -> {"unused", "used", "reused", "excused"}]
      /\ \A j \in Invites : entries'[j] = IF j = i /\ Holding(i) # {} THEN "excused" ELSE entries[j]
  BY <1>2, <1>4
<1>6. /\ admitted \subseteq admitted' /\ admitted' \subseteq Students \X Canvases
      /\ u \in Students => <<u, live[l].canvas>> \in admitted'
  BY <1>2, <1>4, LiveRows DEF LiveInv
<1>7. Steady /\ CodesSteady
  BY <1>2, <1>6 DEF Steady, CodesSteady, Exists, Participates
<1>8. InviteRight(i) /\ Exists(l)
  BY <1>1, <1>2 DEF LiveInv, InviteRight
<1>9. entries'[i] \in {"unused", "excused"}
  <2>1. CASE Holding(i) # {}
    BY <1>5, <2>1
  <2>2. CASE Holding(i) = {}
    <3>1. \A d \in LiveCalls : liveCall[d].by # i
      BY <2>2 DEF Holding
    <3>2. entries[i] \notin {"used", "reused"}
      BY <1>2, <1>8, <3>1 DEF InviteRight
    <3> QED
      BY <1>4, <1>5, <2>2, <3>2
  <2> QED
    BY <2>1, <2>2
<1>10. ASSUME NEW d \in LiveCalls PROVE CallRight(d)'
  <2>1. CASE d = c
    BY <1>2, <1>3, <1>4, <1>6, <1>8, <1>9, <2>1 DEF CallRight, Exists
  <2>2. CASE d # c
    <3>1. CallRight(d) /\ liveCall[d].of \in Lives /\ liveCall[d].user \in Participants
          /\ liveCall'[d] = liveCall[d]
      BY <1>4, <2>2, LiveRows DEF LiveInv
    <3> QED
      BY <1>2, <1>5, <1>6, <3>1 DEF CallRight, Exists, Participates
  <2> QED
    BY <2>1, <2>2
<1>11. InvitesShared'
  <2> SUFFICES ASSUME NEW d \in LiveCalls, NEW e \in LiveCalls, d # e,
                      liveCall'[d].by = liveCall'[e].by, liveCall'[d].by \in Invites
               PROVE  entries'[liveCall'[d].by] = "excused"
    BY DEF InvitesShared
  <2>1. CASE d = c \/ e = c
    <3>1. liveCall'[d].by = i /\ \E f \in LiveCalls : liveCall[f].by = i
      BY <1>3, <1>4, <2>1
    <3>2. Holding(i) # {}
      BY <3>1 DEF Holding
    <3> QED
      BY <1>5, <3>1, <3>2
  <2>2. CASE d # c /\ e # c
    BY <1>4, <1>5, <2>2 DEF LiveInv, InvitesShared
  <2> QED
    BY <2>1, <2>2
<1>12. \A j \in Invites : InviteRight(j) => entries'[j] # "reused"
              /\ (entries'[j] = "used" => invite[j].state = "used" \/
                    \E d \in LiveCalls : liveCall'[d].phase = "marking" /\ liveCall'[d].by = j)
  BY <1>2, <1>4, <1>5 DEF InviteRight
<1>13. (\A m \in Lives : SessionRight(m))' /\ RoomRight'
  BY <1>2, <1>7, SessionsKept, RoomKept DEF Participates
<1>14. LiveTypeOK'
  BY <1>2, <1>4, <1>5, <1>6 DEF LiveInv, LiveTypeOK
<1> QED
  BY <1>2, <1>7, <1>10, <1>11, <1>12, <1>13, <1>14, EventsKept, InvitesKept DEF LiveInv

LEMMA EnterStep ==
  ASSUME LiveInv, NEW c \in LiveCalls, Enter(c)
  PROVE  LiveInv'
<1>1. PICK l \in Lives, u \in Participants, i \in Invites \cup {NoInvite} :
        l = liveCall[c].of /\ u = liveCall[c].user /\ i = liveCall[c].by
  BY LiveRows DEF LiveInv
<1>2. /\ UNCHANGED <<live, invite, room, log, admitted>>
      /\ liveCall[c].phase = "entering" /\ roster' = [roster EXCEPT ![l][u] = "in"]
  BY <1>1 DEF Enter
<1>3. Exists(l) /\ (u \in Students => <<u, live[l].canvas>> \in admitted)
  BY <1>1, <1>2 DEF LiveInv, CallRight
<1>4. /\ roster' \in [Lives -> [Participants -> {"never", "in", "left"}]]
      /\ \A m \in Lives, v \in Participants : Participates(v, m) => Participates(v, m)'
      /\ \A m \in Lives, v \in Participants :
              Participates(v, m)' /\ ~Participates(v, m) => m = l /\ v = u
  BY <1>2, RosterTyped
<1>5. Steady /\ CodesSteady
  BY <1>2, <1>4 DEF Steady, CodesSteady, Exists
<1>6. CASE i = NoInvite
  <2>1. /\ UNCHANGED entries /\ liveCall' = [liveCall EXCEPT ![c] = Resting]
        /\ liveCall'[c] = Resting
    BY <1>1, <1>6, LiveRows DEF Enter, Rests, LiveInv
  <2>2. CallRight(c)'
    BY <2>1, RestingTyped DEF CallRight
  <2> QED
    BY <1>2, <1>3, <1>4, <2>1, <2>2, RestingTyped, RosterMoves
<1>7. CASE i \in Invites
  <2> DEFINE x == [liveCall[c] EXCEPT !.phase = "marking"]
             e == CASE entries[i] = "unused" -> "used" [] entries[i] = "used" -> "reused"
                    [] OTHER -> entries[i]
  <2>1. liveCall' = [liveCall EXCEPT ![c] = x] /\ entries' = [entries EXCEPT ![i] = e]
    BY <1>1, <1>7 DEF Enter
  <2>2. liveCall[c] \in LiveCall /\ entries[i] \in {"unused", "excused"} /\ CallRight(c)
        /\ invite[i].state # "none"
    BY <1>1, <1>2, <1>7, LiveRows DEF LiveInv, CallRight
  <2>3. x \in LiveCall /\ x.phase = "marking" /\ x.of = l /\ x.user = u /\ x.by = i
    BY <1>1, <2>2 DEF LiveCall
  <2>4. e = (IF entries[i] = "unused" THEN "used" ELSE "excused")
    BY <2>2
  <2> HIDE DEF x, e
  <2>5. /\ liveCall \in [LiveCalls -> LiveCall] /\ liveCall' \in [LiveCalls -> LiveCall]
        /\ liveCall'[c] = x /\ \A d \in LiveCalls \ {c} : liveCall'[d] = liveCall[d]
        /\ entries \in [Invites -> {"unused", "used", "reused", "excused"}]
    BY <2>1, <2>3, LiveRows DEF LiveInv
  <2>6. /\ entries' \in [Invites -> {"unused", "used", "reused", "excused"}]
        /\ \A j \in Invites : entries'[j] = IF j = i THEN e ELSE entries[j]
    BY <2>1, <2>4, <2>5
  <2>7. ASSUME NEW d \in LiveCalls, d # c, liveCall[d].by \in Invites
        PROVE  entries'[liveCall[d].by] = entries[liveCall[d].by]
    <3>1. liveCall[d].by = i => entries[i] = "excused"
      BY <1>1, <1>7, <2>7 DEF LiveInv, InvitesShared
    <3> QED
      BY <2>4, <2>6, <2>7, <3>1
  <2>8. ASSUME NEW d \in LiveCalls PROVE CallRight(d)'
    <3>1. CASE d = c
      <4>1. liveCall'[d] = x /\ x.phase = "marking" /\ x.of = l /\ x.by = i /\ Exists(l)'
        BY <1>2, <1>3, <2>3, <2>5, <3>1 DEF Exists
      <4>2. invite'[i].state # "none" /\ entries'[i] \in {"used", "excused"}
        BY <1>2, <1>7, <2>2, <2>4, <2>6
      <4> QED
        BY <1>7, <4>1, <4>2 DEF CallRight
    <3>2. CASE d # c
      <4>1. liveCall'[d] = liveCall[d]
        BY <2>5, <3>2
      <4>2. liveCall[d].by \in Invites => entries'[liveCall[d].by] = entries[liveCall[d].by]
        BY <2>7, <3>2
      <4>3. liveCall[d].by \in Invites =>
              entries'[liveCall[d].by] \in {entries[liveCall[d].by], "excused"}
        BY <4>2
      <4> QED
        BY <1>5, <4>1, <4>3, CallKept, Zenon
    <3> QED
      BY <3>1, <3>2
  <2>9. InvitesShared'
    <3> SUFFICES ASSUME NEW d \in LiveCalls, NEW f \in LiveCalls, d # f,
                        liveCall'[d].by = liveCall'[f].by, liveCall'[d].by \in Invites
                 PROVE  entries'[liveCall'[d].by] = "excused"
      BY DEF InvitesShared
    <3>1. liveCall'[d].by = liveCall[d].by /\ liveCall'[f].by = liveCall[f].by
      BY <1>1, <2>3, <2>5
    <3>2. entries[liveCall[d].by] = "excused"
      BY <3>1 DEF LiveInv, InvitesShared
    <3> QED
      BY <2>4, <2>6, <3>1, <3>2
  <2>10. \A j \in Invites : InviteRight(j) => entries'[j] # "reused"
              /\ (entries'[j] = "used" => invite[j].state = "used" \/
                    \E d \in LiveCalls : liveCall'[d].phase = "marking" /\ liveCall'[d].by = j)
    <3> SUFFICES ASSUME NEW j \in Invites, InviteRight(j)
                 PROVE  /\ entries'[j] # "reused"
                        /\ entries'[j] = "used" => invite[j].state = "used" \/
                             \E d \in LiveCalls : liveCall'[d].phase = "marking" /\ liveCall'[d].by = j
      OBVIOUS
    <3>1. CASE j = i
      BY <2>3, <2>4, <2>5, <2>6, <3>1
    <3>2. CASE j # i
      <4>1. entries'[j] = entries[j]
        BY <2>6, <3>2
      <4>2. \A d \in LiveCalls : liveCall[d].by = j => liveCall'[d] = liveCall[d]
        BY <1>1, <2>5, <3>2
      <4> QED
        BY <4>1, <4>2 DEF InviteRight
    <3> QED
      BY <3>1, <3>2
  <2>11. (\A m \in Lives : SessionRight(m))' /\ RoomRight'
    BY <1>2, <1>3, <1>4, <1>5, SessionsKept, RoomKept
  <2>12. LiveTypeOK'
    BY <1>2, <1>4, <2>5, <2>6 DEF LiveInv, LiveTypeOK
  <2> QED
    BY <1>2, <1>5, <2>8, <2>9, <2>10, <2>11, <2>12, EventsKept, InvitesKept DEF LiveInv
<1> QED
  BY <1>6, <1>7

LEMMA InviteRowMoves ==
  ASSUME LiveInv, UNCHANGED <<live, roster, room, log, admitted, entries>>,
         NEW i \in Invites, NEW row \in InviteRow, invite' = [invite EXCEPT ![i] = row],
         row.state # "none", Exists(row.of),
         invite[i].state # "none" => row.of = invite[i].of,
         invite[i].state = "used" => row.state = "used"
  PROVE  /\ Steady /\ CodesSteady /\ invite' \in [Invites -> InviteRow]
         /\ (\A m \in Lives : SessionRight(m))' /\ RoomRight'
         /\ \A j \in Invites : /\ j # i => invite'[j] = invite[j]
                               /\ j = i => invite'[j] = row
<1>1. /\ invite \in [Invites -> InviteRow] /\ invite' \in [Invites -> InviteRow]
      /\ invite'[i] = row /\ \A j \in Invites \ {i} : invite'[j] = invite[j]
  BY LiveRows DEF LiveInv
<1>2. Steady /\ CodesSteady
  BY <1>1 DEF Steady, CodesSteady, Exists, Participates
<1>3. (\A m \in Lives : SessionRight(m))' /\ RoomRight'
  BY <1>2, SessionsKept, RoomKept DEF Participates
<1> QED
  BY <1>1, <1>2, <1>3

LEMMA InviteSteps ==
  ASSUME LiveInv, NEW i \in Invites,
         InviteEnds(i) \/ \E h \in Hosts, l \in Lives, u \in Participants, k \in Codes :
                            Invite(h, l, i, u, k)
  PROVE  LiveInv'
<1>1. UNCHANGED <<live, roster, room, log, liveCall, admitted, entries>>
  BY DEF InviteEnds, Invite
<1>2. /\ invite \in [Invites -> InviteRow] /\ invite[i] \in InviteRow /\ invite[i].of \in Lives
      /\ InviteRight(i) /\ invite[i].state # "used"
  BY LiveRows DEF LiveInv, InviteEnds, Invite
<1>3. PICK row \in InviteRow :
        /\ invite' = [invite EXCEPT ![i] = row] /\ row.state # "none" /\ Exists(row.of)
        /\ invite[i].state # "none" => row.of = invite[i].of
  <2>1. CASE InviteEnds(i)
    <3> DEFINE over == [invite[i] EXCEPT !.state = "over"]
    <3>1. over \in InviteRow /\ over.state = "over" /\ over.of = invite[i].of
      BY <1>2 DEF InviteRow
    <3>2. invite' = [invite EXCEPT ![i] = over] /\ invite[i].state = "open"
      BY <2>1 DEF InviteEnds
    <3>3. Exists(invite[i].of)
      BY <1>2, <3>2 DEF InviteRight
    <3> QED
      BY <3>1, <3>2, <3>3
  <2>2. CASE ~InviteEnds(i)
    <3>1. PICK l \in Lives, u \in Participants, k \in Codes :
            /\ Exists(l) /\ invite[i].state = "none"
            /\ invite' = [invite EXCEPT ![i] = [state |-> "open", of |-> l, user |-> u, code |-> k]]
      BY <2>2 DEF Invite
    <3> DEFINE row == [state |-> "open", of |-> l, user |-> u, code |-> k]
    <3>2. row \in InviteRow /\ row.state = "open" /\ row.of = l
      BY DEF InviteRow
    <3> QED
      BY <3>1, <3>2
  <2> QED
    BY <2>1, <2>2
<1>4. /\ Steady /\ CodesSteady /\ invite' \in [Invites -> InviteRow]
      /\ (\A m \in Lives : SessionRight(m))' /\ RoomRight'
      /\ \A j \in Invites : /\ j # i => invite'[j] = invite[j]
                            /\ j = i => invite'[j] = row
  BY <1>1, <1>2, <1>3, InviteRowMoves
<1>5. ASSUME NEW j \in Invites PROVE InviteRight(j)'
  <2>1. InviteRight(j)
    BY DEF LiveInv
  <2>2. CASE j = i
    BY <1>1, <1>2, <1>3, <1>4, <2>1, <2>2 DEF InviteRight, Exists
  <2>3. CASE j # i
    BY <1>1, <1>4, <2>1, <2>3 DEF InviteRight, Exists
  <2> QED
    BY <2>2, <2>3
<1>6. LiveTypeOK'
  BY <1>1, <1>4 DEF LiveInv, LiveTypeOK
<1> QED
  BY <1>1, <1>4, <1>5, <1>6, EventsKept, CallsKept DEF LiveInv

\* A request that used an invite is over
LEMMA UseEnds ==
  ASSUME LiveInv, Steady, CodesSteady, NEW c \in LiveCalls, Rests(c),
         liveCall[c].by \in Invites => entries'[liveCall[c].by] \in {entries[liveCall[c].by], "excused"},
         \A i \in Invites : i # liveCall[c].by => entries'[i] = entries[i]
  PROVE  /\ liveCall' \in [LiveCalls -> LiveCall]
         /\ (\A d \in LiveCalls : CallRight(d))' /\ InvitesShared'
         /\ \A d \in LiveCalls : d # c => liveCall'[d] = liveCall[d]
<1>1. /\ liveCall \in [LiveCalls -> LiveCall] /\ liveCall' \in [LiveCalls -> LiveCall]
      /\ liveCall'[c] = Resting /\ \A d \in LiveCalls \ {c} : liveCall'[d] = liveCall[d]
  BY RestingTyped, LiveRows DEF LiveInv, Rests
<1>2. \A i \in Invites : entries'[i] \in {entries[i], "excused"}
  BY LiveRows DEF LiveInv
<1>3. ASSUME NEW d \in LiveCalls PROVE CallRight(d)'
  <2>1. CASE d = c
    BY <1>1, <2>1, RestingTyped DEF CallRight
  <2>2. CASE d # c
    <3>1. CallRight(d) /\ liveCall[d].of \in Lives /\ liveCall[d].user \in Participants
          /\ liveCall'[d] = liveCall[d]
      BY <1>1, <2>2, LiveRows DEF LiveInv
    <3>2. liveCall[d].by \in Invites =>
            entries'[liveCall[d].by] \in {entries[liveCall[d].by], "excused"}
      BY <1>2
    <3> QED
      BY <3>1, <3>2 DEF CallRight, Steady, CodesSteady
  <2> QED
    BY <2>1, <2>2
<1>4. InvitesShared'
  <2> SUFFICES ASSUME NEW d \in LiveCalls, NEW e \in LiveCalls, d # e,
                      liveCall'[d].by = liveCall'[e].by, liveCall'[d].by \in Invites
               PROVE  entries'[liveCall'[d].by] = "excused"
    BY DEF InvitesShared
  <2>1. d # c /\ e # c
    BY <1>1, RestingTyped
  <2>2. entries[liveCall[d].by] = "excused" /\ liveCall'[d] = liveCall[d]
    BY <1>1, <2>1 DEF LiveInv, InvitesShared
  <2> QED
    BY <1>2, <2>2
<1> QED
  BY <1>1, <1>3, <1>4

LEMMA MarkStep ==
  ASSUME LiveInv, NEW c \in LiveCalls, MarkInvite(c)
  PROVE  LiveInv'
<1>1. PICK i \in Invites : i = liveCall[c].by
  BY DEF LiveInv, CallRight, MarkInvite
<1> DEFINE row == [invite[i] EXCEPT !.state = "used", !.user = liveCall[c].user]
<1>2. /\ UNCHANGED <<live, roster, room, log, admitted, entries>> /\ Rests(c)
      /\ liveCall[c].phase = "marking"
  BY DEF MarkInvite
<1>3. invite' = [invite EXCEPT ![i] = row]
  BY <1>1 DEF MarkInvite
<1>4. /\ invite[i] \in InviteRow /\ liveCall[c].user \in Participants
      /\ invite[i].state # "none" /\ Exists(invite[i].of)
  BY <1>1, LiveRows DEF LiveInv, CallRight, InviteRight
<1>5. row \in InviteRow /\ row.state = "used" /\ row.of = invite[i].of
  BY <1>4 DEF InviteRow
<1> HIDE DEF row
<1>6. /\ Steady /\ CodesSteady /\ invite' \in [Invites -> InviteRow]
      /\ (\A m \in Lives : SessionRight(m))' /\ RoomRight'
      /\ \A j \in Invites : /\ j # i => invite'[j] = invite[j]
                            /\ j = i => invite'[j] = row
  BY <1>2, <1>3, <1>4, <1>5, InviteRowMoves
<1>7. /\ liveCall' \in [LiveCalls -> LiveCall]
      /\ (\A d \in LiveCalls : CallRight(d))' /\ InvitesShared'
      /\ \A d \in LiveCalls : d # c => liveCall'[d] = liveCall[d]
  BY <1>2, <1>6, UseEnds
<1>8. ASSUME NEW j \in Invites PROVE InviteRight(j)'
  <2>1. InviteRight(j)
    BY DEF LiveInv
  <2>2. CASE j = i
    BY <1>2, <1>4, <1>5, <1>6, <2>1, <2>2 DEF InviteRight, Exists
  <2>3. CASE j # i
    BY <1>1, <1>2, <1>6, <1>7, <2>1, <2>3 DEF InviteRight, Exists
  <2> QED
    BY <2>2, <2>3
<1>9. LiveTypeOK'
  BY <1>2, <1>6, <1>7 DEF LiveInv, LiveTypeOK
<1> QED
  BY <1>2, <1>6, <1>7, <1>8, <1>9, EventsKept DEF LiveInv

LEMMA LostStep ==
  ASSUME LiveInv, NEW c \in LiveCalls, LiveCallLost(c)
  PROVE  LiveInv'
<1>1. /\ UNCHANGED <<live, roster, invite, room, log, admitted>> /\ Rests(c)
      /\ entries' = IF liveCall[c].phase = "marking"
                    THEN [entries EXCEPT ![liveCall[c].by] = "excused"] ELSE entries
  BY DEF LiveCallLost
<1>2. CASE liveCall[c].phase # "marking"
  BY <1>1, <1>2, EndsQuietly
<1>3. CASE liveCall[c].phase = "marking"
  <2>1. PICK i \in Invites : i = liveCall[c].by
    BY <1>3 DEF LiveInv, CallRight
  <2>2. /\ entries' \in [Invites -> {"unused", "used", "reused", "excused"}]
        /\ \A j \in Invites : entries'[j] = IF j = i THEN "excused" ELSE entries[j]
    BY <1>1, <1>3, <2>1, LiveRows DEF LiveInv
  <2>3. Steady /\ CodesSteady
    BY <1>1 DEF Steady, CodesSteady, Exists, Participates
  <2>4. /\ liveCall' \in [LiveCalls -> LiveCall]
        /\ (\A d \in LiveCalls : CallRight(d))' /\ InvitesShared'
        /\ \A d \in LiveCalls : d # c => liveCall'[d] = liveCall[d]
    BY <1>1, <2>1, <2>2, <2>3, UseEnds
  <2>5. \A j \in Invites : InviteRight(j) => entries'[j] # "reused"
              /\ (entries'[j] = "used" => invite[j].state = "used" \/
                    \E d \in LiveCalls : liveCall'[d].phase = "marking" /\ liveCall'[d].by = j)
    BY <2>1, <2>2, <2>4 DEF InviteRight
  <2>6. (\A m \in Lives : SessionRight(m))' /\ RoomRight'
    BY <1>1, <2>3, SessionsKept, RoomKept DEF Participates
  <2>7. LiveTypeOK'
    BY <1>1, <2>2, <2>4 DEF LiveInv, LiveTypeOK
  <2> QED
    BY <1>1, <2>3, <2>4, <2>5, <2>6, <2>7, EventsKept, InvitesKept DEF LiveInv
<1> QED
  BY <1>2, <1>3

LEMMA DisconnectStep ==
  ASSUME LiveInv, NEW u \in Participants, Disconnect(u)
  PROVE  LiveInv'
<1>1. /\ UNCHANGED <<live, roster, invite, log, liveCall, admitted, entries>>
      /\ room' \subseteq room
  BY DEF Disconnect
<1>2. Steady /\ CodesSteady
  BY <1>1 DEF Steady, CodesSteady, Exists, Participates
<1>3. (\A m \in Lives : SessionRight(m))' /\ RoomRight'
  BY <1>1, <1>2, SessionsKept, RoomKept DEF Participates
<1>4. (\A i \in Invites : InviteRight(i))'
  BY <1>1, <1>2, InvitesKept DEF LiveInv, InviteRight
<1>5. LiveTypeOK'
  BY <1>1 DEF LiveInv, LiveTypeOK
<1> QED
  BY <1>1, <1>2, <1>3, <1>4, <1>5, EventsKept, CallsKept DEF LiveInv

-----------------------------------------------------------------------------
\* What is recorded

LEMMA WritesStep ==
  ASSUME LiveInv,
         NEW type \in {"message", "media", "recording", "hand", "resolved", "quiz", "answer",
                       "controls", "guest", "other"},
         NEW u \in Participants \cup {Nobody}, NEW l \in Lives, NEW r \in 0..MaxLog,
         Writes(type, u, l, r),
         u \in Students /\ type # "other" => Participates(u, l),
         type \in {"resolved", "answer"} => r \in Answers(l, Answered(type))
  PROVE  LiveInv'
<1> DEFINE event == [type |-> type, of |-> l, by |-> u, ref |-> r]
           n == Len(log) + 1
<1>1. /\ UNCHANGED <<live, roster, invite, room, liveCall, admitted, entries>>
      /\ log' = Append(log, event) /\ Len(log) < MaxLog
  BY DEF Writes
<1>2. /\ log \in Seq(Event) /\ Len(log) \in 0..MaxLog /\ DOMAIN log = 1..Len(log)
      /\ \A i \in DOMAIN log : log[i] \in Event
  BY LiveRows DEF LiveInv
<1>3. event \in Event
  BY DEF Event
<1>4. event.type = type /\ event.of = l /\ event.by = u /\ event.ref = r
  OBVIOUS
<1> HIDE DEF event
<1>5. /\ log' \in Seq(Event) /\ Len(log') = n /\ n \in 1..MaxLog /\ DOMAIN log' = 1..n
      /\ log'[n] = event /\ \A i \in 1..Len(log) : log'[i] = log[i]
  BY <1>1, <1>2, <1>3
<1>6. LiveTypeOK'
  BY <1>1, <1>5 DEF LiveInv, LiveTypeOK
<1>7. ASSUME NEW i \in 1..n PROVE EventRight(i)'
  <2>1. CASE i = n
    <3>1. u \in Students /\ type # "other" => Participates(u, l)'
      BY <1>1 DEF Participates
    <3>2. ASSUME type \in {"resolved", "answer"}
          PROVE  r \in 1..Len(log) /\ log[r].of = l /\ log[r].type = Answered(type)
      BY <1>2, <3>2 DEF Answers
    <3> QED
      BY <1>4, <1>5, <2>1, <3>1, <3>2 DEF EventRight, Participates, Answered
  <2>2. CASE i # n
    <3>1. i \in 1..Len(log) /\ EventRight(i) /\ log'[i] = log[i]
      BY <1>2, <1>5, <2>2 DEF LiveInv
    <3>2. ASSUME log[i].type \in {"resolved", "answer"}
          PROVE  /\ log[i].ref \in 1..Len(log) /\ log'[log[i].ref] = log[log[i].ref]
                 /\ log[log[i].ref].of = log[i].of
                 /\ log[log[i].ref].type = Answered(log[i].type)
      BY <1>2, <1>5, <3>1, <3>2 DEF EventRight
    <3> QED
      BY <1>1, <1>5, <3>1, <3>2 DEF EventRight, Participates, Answered
  <2> QED
    BY <2>1, <2>2
<1>8. LastControls'
  <2> SUFFICES ASSUME NEW S \in SUBSET Lives, ControlsIn(S)' # {}
               PROVE  \E j \in ControlsIn(S)' : \A i \in ControlsIn(S)' : i <= j
    BY DEF LastControls
  <2>1. ControlsIn(S)' = ControlsIn(S) \cup (IF type = "controls" /\ l \in S THEN {n} ELSE {})
    BY <1>2, <1>4, <1>5 DEF ControlsIn
  <2>2. ControlsIn(S) \subseteq 1..Len(log)
    BY <1>2 DEF ControlsIn
  <2>3. CASE type = "controls" /\ l \in S
    <3>1. \A i \in ControlsIn(S)' : i <= n
      BY <1>2, <2>1, <2>2
    <3> QED
      BY <2>1, <2>3, <3>1
  <2>4. CASE ~(type = "controls" /\ l \in S)
    BY <2>1, <2>4 DEF LiveInv, LastControls
  <2> QED
    BY <2>3, <2>4
<1>9. (\A m \in Lives : SessionRight(m))' /\ RoomRight'
  BY <1>1 DEF LiveInv, SessionRight, RoomRight, Exists, Participates
<1>10. (\A c \in LiveCalls : CallRight(c))'
  BY <1>1 DEF LiveInv, CallRight, Exists, Participates
<1>11. InvitesShared' /\ (\A i \in Invites : InviteRight(i))'
  BY <1>1 DEF LiveInv, InvitesShared, InviteRight, Exists
<1> QED
  BY <1>5, <1>6, <1>7, <1>8, <1>9, <1>10, <1>11 DEF LiveInv

LEMMA RecordStep ==
  ASSUME LiveInv, NEW u \in Participants, NEW l \in Lives, Records(u, l)
  PROVE  LiveInv'
<1>1. /\ Len(log) \in 0..MaxLog /\ DOMAIN log = 1..Len(log) /\ 0 \in 0..MaxLog
      /\ u \in Participants \cup {Nobody}
  BY LiveRows DEF LiveInv
<1>2. HasAccess(u, l) /\ u \in Students => Participates(u, l)
  BY DEF HasAccess
<1>3. u \in Hosts => u \notin Students
  OBVIOUS
<1>4. CASE SendMessage(u, l)
  BY <1>1, <1>2, <1>4, WritesStep DEF SendMessage
<1>5. CASE CreateMedia(u, l)
  BY <1>1, <1>2, <1>5, WritesStep DEF CreateMedia
<1>6. CASE CreateRecording(u, l)
  BY <1>1, <1>3, <1>6, WritesStep DEF CreateRecording
<1>7. CASE RaiseHand(u, l)
  BY <1>1, <1>2, <1>7, WritesStep DEF RaiseHand
<1>8. CASE ResolveHand(u, l)
  <2>1. PICK i \in Answers(l, "hand") : Writes("resolved", u, l, i)
    BY <1>8 DEF ResolveHand
  <2>2. i \in 0..MaxLog /\ u \notin Students
    BY <1>1, <1>3, <1>8 DEF Answers, ResolveHand
  <2> QED
    BY <1>1, <2>1, <2>2, WritesStep DEF Answered
<1>9. CASE UpdateControls(u, l)
  BY <1>1, <1>3, <1>9, WritesStep DEF UpdateControls
<1>10. CASE LaunchQuiz(u, l)
  BY <1>1, <1>3, <1>10, WritesStep DEF LaunchQuiz
<1>11. CASE AnswerQuiz(u, l)
  <2>1. PICK i \in Answers(l, "quiz") : Writes("answer", u, l, i)
    BY <1>11 DEF AnswerQuiz
  <2>2. i \in 0..MaxLog /\ (u \in Students => Participates(u, l))
    BY <1>1, <1>2, <1>11 DEF Answers, AnswerQuiz
  <2> QED
    BY <1>1, <2>1, <2>2, WritesStep DEF Answered
<1>12. CASE SocketEvent(u, l)
  BY <1>1, <1>12, WritesStep DEF SocketEvent
<1> QED
  BY <1>4, <1>5, <1>6, <1>7, <1>8, <1>9, <1>10, <1>11, <1>12 DEF Records

LEMMA GuestStep ==
  ASSUME LiveInv, NEW k \in Codes, NEW l \in Lives, GuestJoins(k, l)
  PROVE  LiveInv'
<1>1. 0 \in 0..MaxLog /\ Nobody \in Participants \cup {Nobody} /\ Nobody \notin Students
  OBVIOUS
<1> QED
  BY <1>1, WritesStep DEF GuestJoins

-----------------------------------------------------------------------------
LEMMA LiveStarts == LiveInit => LiveInv
<1> SUFFICES ASSUME LiveInit PROVE LiveInv
  OBVIOUS
<1>1. /\ \A c \in LiveCalls : liveCall[c] = Resting
      /\ \A l \in Lives : live[l] = NoLive
      /\ \A l \in Lives, u \in Participants : ~Participates(u, l)
      /\ \A i \in Invites : invite[i].state = "none" /\ entries[i] = "unused"
      /\ room = {} /\ log = <<>> /\ DOMAIN log = {}
  BY DEF LiveInit, Participates
<1>2. /\ (CHOOSE l \in Lives : TRUE) \in Lives
      /\ (CHOOSE u \in Participants : TRUE) \in Participants
  BY RestingTyped
<1>3. invite \in [Invites -> InviteRow]
  BY <1>2 DEF LiveInit, InviteRow
<1>4. LiveTypeOK
  <2>1. roster \in [Lives -> [Participants -> {"never", "in", "left"}]]
    BY DEF LiveInit
  <2>2. live \in [Lives -> LiveRow] /\ liveCall \in [LiveCalls -> LiveCall]
    BY RestingTyped DEF LiveInit
  <2>3. log \in Seq(Event) /\ Len(log) <= MaxLog
    BY <1>1
  <2> QED
    BY <1>3, <2>1, <2>2, <2>3 DEF LiveInit, LiveTypeOK
<1>5. \A c \in LiveCalls : CallRight(c)
  BY <1>1, RestingTyped DEF CallRight
<1>6. InvitesShared
  BY <1>1, RestingTyped DEF InvitesShared
<1>7. LastControls
  BY <1>1 DEF LastControls, ControlsIn
<1>8. \A l \in Lives : SessionRight(l)
  BY <1>1, RestingTyped DEF SessionRight, Exists
<1> QED
  BY <1>1, <1>4, <1>5, <1>6, <1>7, <1>8 DEF LiveInv, RoomRight, InviteRight

LEMMA LiveSteps == LiveInv /\ [LiveNext]_liveVars => LiveInv'
<1> SUFFICES ASSUME LiveInv, [LiveNext]_liveVars PROVE LiveInv'
  OBVIOUS
<1>1. Hosts \subseteq Participants
  BY DEF Participants
<1>2. CASE HostStep
  BY <1>1, <1>2, HostSteps, EndStep, AskStep, InviteSteps DEF HostStep
<1>3. CASE JoinStep
  BY <1>3, JoinBySessionStep, JoinByInviteStep, JoinRoomStep, LeaveStep, JoinByCanvasStep
  DEF JoinStep
<1>4. CASE LiveCallStep
  BY <1>4, ClearStep, WriteCodeStep, EnterStep, MarkStep, SitStep, RoomSteps, LostStep
  DEF LiveCallStep
<1>5. CASE UNCHANGED liveVars
  <2>1. Steady /\ CodesSteady
    BY <1>5 DEF liveVars, Steady, CodesSteady, Exists, Participates
  <2>2. (\A l \in Lives : SessionRight(l))' /\ RoomRight'
    BY <1>5, <2>1, SessionsKept, RoomKept DEF liveVars, Participates
  <2>3. (\A i \in Invites : InviteRight(i))'
    BY <1>5, <2>1, InvitesKept DEF liveVars, LiveInv, InviteRight
  <2>4. LiveTypeOK'
    BY <1>5 DEF liveVars, LiveInv, LiveTypeOK
  <2> QED
    BY <1>5, <2>1, <2>2, <2>3, <2>4, EventsKept, CallsKept DEF liveVars, LiveInv
<1>6. ASSUME NEW l \in Lives, CodeEnds(l) PROVE LiveInv'
  <2>1. PICK u \in Participants : TRUE
    BY <1>1
  <2> QED
    BY <1>6, HostSteps
<1> QED
  BY <1>2, <1>3, <1>4, <1>5, <1>6, DisconnectStep, RecordStep, GuestStep, InviteSteps DEF LiveNext

LEMMA LiveInvariant == LiveSpec => []LiveInv
BY LiveStarts, LiveSteps, PTL DEF LiveSpec

\* Whatever joins, socket events, invites and endings overlap, a student is on the
\* roster of a session, in its room or in what it recorded only if a code has let
\* the student into a session of the same whiteboard (ensureSessionAccess,
\* joinByCode, sockets/index.ts).
THEOREM StudentsCameByCode == LiveSpec => []StudentsComeByCode
<1>1. LiveInv => StudentsComeByCode
  <2> SUFFICES ASSUME LiveInv, NEW u \in Students, NEW l \in Lives,
                      Participates(u, l) \/ <<l, u>> \in room \/ Contributed(u, l)
               PROVE  <<u, live[l].canvas>> \in admitted
    BY DEF StudentsComeByCode
  <2>1. Participates(u, l)
    BY DEF LiveInv, RoomRight, EventRight, Contributed
  <2> QED
    BY <2>1, RestingTyped DEF LiveInv, SessionRight
<1> QED
  BY <1>1, LiveInvariant, PTL

\* An invite lets in one request, unless two held it at the same time or one was
\* lost before it had marked it (joinByCode).
THEOREM InvitesUsedOnce == LiveSpec => []InviteUsedOnce
<1>1. LiveInv => InviteUsedOnce
  BY DEF LiveInv, InviteRight, InviteUsedOnce
<1> QED
  BY <1>1, LiveInvariant, PTL

CodeReplaced ==
  \A l \in Lives :
    live[l].fresh /\ live'[l].code # live[l].code =>
      \E c \in LiveCalls : /\ liveCall[c].phase = "coding"
                           /\ liveCall[c].of = l
                           /\ liveCall[c].forced \/ liveCall[c].stale

LEMMA CodeStep ==
  ASSUME LiveInv, LiveNext
  PROVE  CodeReplaced
<1> SUFFICES ASSUME NEW l \in Lives, live[l].fresh, live'[l].code # live[l].code
             PROVE  \E c \in LiveCalls : /\ liveCall[c].phase = "coding" /\ liveCall[c].of = l
                                         /\ liveCall[c].forced \/ liveCall[c].stale
  BY DEF CodeReplaced
<1>1. live \in [Lives -> LiveRow] /\ live[l] \in LiveRow /\ Exists(l) /\ live[l].code # NoCode
      /\ live' # live
  BY LiveRows DEF LiveInv, SessionRight
<1>2. ASSUME NEW u \in Hosts, NEW m \in Lives, NEW k \in Canvases, CreateLive(u, m, k) PROVE FALSE
  BY <1>1, <1>2 DEF CreateLive
<1>3. ASSUME NEW m \in Lives, NEW row \in {[live[m] EXCEPT !.status = "LIVE"],
                                           [live[m] EXCEPT !.status = "ENDED"],
                                           [live[m] EXCEPT !.fresh = FALSE]},
             live' = [live EXCEPT ![m] = row]
      PROVE  FALSE
  <2>1. row.code = live[m].code
    BY <1>3, HostRow
  <2> QED
    BY <1>1, <1>3, <2>1
<1>4. ASSUME NEW u \in Hosts, NEW m \in Lives, StartLive(u, m) PROVE FALSE
  BY <1>3, <1>4 DEF StartLive
<1>5. ASSUME NEW c \in LiveCalls, NEW u \in Hosts, NEW m \in Lives, EndLive(c, u, m) PROVE FALSE
  BY <1>3, <1>5 DEF EndLive
<1>6. ASSUME NEW m \in Lives, CodeEnds(m) PROVE FALSE
  BY <1>3, <1>6 DEF CodeEnds
<1>7. ASSUME NEW c \in LiveCalls, NEW u \in Participants, NEW m \in Lives, NEW k \in Canvases,
             JoinByCanvas(c, u, m, k)
      PROVE  FALSE
  BY <1>1, <1>7 DEF JoinByCanvas
<1>8. ASSUME NEW c \in LiveCalls, NEW k \in Codes, WriteCode(c, k)
      PROVE  /\ liveCall[c].phase = "coding" /\ liveCall[c].of = l
             /\ liveCall[c].forced \/ liveCall[c].stale
  <2>1. liveCall[c].phase = "coding" /\ liveCall[c].of = l
    BY <1>1, <1>8, LiveRows DEF WriteCode, LiveInv
  <2> QED
    BY <1>1, <2>1 DEF LiveInv, CallRight
<1>9. CASE HostStep
  BY <1>1, <1>2, <1>4, <1>5, <1>9 DEF HostStep, Invite, AskCode
<1>10. CASE JoinStep
  BY <1>1, <1>7, <1>10 DEF JoinStep, JoinBySession, JoinByInvite, JoinRoom, Leave
<1>11. CASE LiveCallStep
  BY <1>1, <1>8, <1>11 DEF LiveCallStep, ClearRoster, Enter, MarkInvite, Sit, EnterRoom, LeaveRoom,
     LiveCallLost
<1>12. ASSUME NEW u \in Participants, Disconnect(u) \/ \E m \in Lives : Records(u, m) PROVE FALSE
  BY <1>1, <1>12 DEF Disconnect, Records, SendMessage, CreateMedia, CreateRecording, RaiseHand,
     ResolveHand, UpdateControls, LaunchQuiz, AnswerQuiz, SocketEvent, Writes
<1>13. ASSUME NEW k \in Codes, NEW m \in Lives, GuestJoins(k, m) PROVE FALSE
  BY <1>1, <1>13 DEF GuestJoins, Writes
<1>14. ASSUME NEW i \in Invites, InviteEnds(i) PROVE FALSE
  BY <1>1, <1>14 DEF InviteEnds
<1> QED
  BY <1>6, <1>9, <1>10, <1>11, <1>12, <1>13, <1>14 DEF LiveNext

\* A code in force is replaced only on demand, or by a request that had found none
\* before it was written, whatever else hosts and students do meanwhile
\* (generateSessionJoinCode).
THEOREM CodesReplacedForAReason == LiveSpec => CodeReplacedForAReason
<1>1. LiveInv /\ [LiveNext]_liveVars => [CodeReplaced]_liveVars
  BY CodeStep
<1> QED
  BY <1>1, LiveInvariant, PTL DEF LiveSpec, CodeReplacedForAReason, CodeReplaced

\* Whichever of a user's sessions the page lists, while it reads every event of
\* them it shows exactly the hands still raised in them, the answers given and the
\* controls last set (classroom getMe, listSessions).
THEOREM FeedsAreCurrent == LiveSpec => []FeedIsCurrent
<1>1. ASSUME LiveInv, NEW u \in Participants, NEW listed \in Listings(u),
             Cardinality(EventsOf(listed)) <= FeedTake
      PROVE  /\ \A i \in EventsOf(listed) :
                  log[i].type = "hand" =>
                    (i \in RaisedHands(listed) <=> ~\E j \in DOMAIN log : /\ log[j].type = "resolved"
                                                                    /\ log[j].ref = i)
             /\ \A i \in EventsOf(listed) :
                  log[i].type = "controls" => \E j \in LatestControls(listed) : j >= i
             /\ \A i \in EventsOf(listed) :
                  log[i].type = "answer" => AnswerCounts(listed)[log[i].ref] > 0
  <2>1. DOMAIN log = 1..Len(log) /\ Len(log) \in Nat /\ \A i \in DOMAIN log : EventRight(i)
    BY <1>1, LiveRows DEF LiveInv
  <2>2. EventsOf(listed) \subseteq 1..Len(log) /\ IsFiniteSet(EventsOf(listed))
    <3>1. EventsOf(listed) \subseteq 1..Len(log)
      BY <2>1 DEF EventsOf
    <3>2. IsFiniteSet(1..Len(log))
      BY <2>1, FS_Interval
    <3> QED
      BY <3>1, <3>2, FS_Subset
  <2>3. Feed(listed) = EventsOf(listed)
    <3> SUFFICES ASSUME NEW i \in EventsOf(listed)
                 PROVE  Cardinality({j \in EventsOf(listed) : j < i}) < FeedTake
      BY DEF Feed
    <3> DEFINE before == {j \in EventsOf(listed) : j < i}
    <3>1. before \subseteq EventsOf(listed) /\ before # EventsOf(listed)
      BY <2>2
    <3>2. Cardinality(before) < Cardinality(EventsOf(listed))
      <4>1. Cardinality(before) <= Cardinality(EventsOf(listed))
            /\ (Cardinality(before) = Cardinality(EventsOf(listed)) => before = EventsOf(listed))
            /\ IsFiniteSet(before)
        BY <2>2, <3>1, FS_Subset
      <4> QED
        BY <2>2, <3>1, <4>1, FS_CardinalityType
    <3>3. Cardinality(before) \in Nat /\ Cardinality(EventsOf(listed)) \in Nat
      BY <2>2, <3>1, FS_Subset, FS_CardinalityType
    <3> QED
      BY <1>1, <3>2, <3>3
  <2>4. ASSUME NEW i \in EventsOf(listed), log[i].type = "hand"
        PROVE  i \in RaisedHands(listed) <=> ~\E j \in DOMAIN log : /\ log[j].type = "resolved"
                                                               /\ log[j].ref = i
    <3>1. \A j \in DOMAIN log : log[j].type = "resolved" /\ log[j].ref = i => j \in EventsOf(listed)
      BY <2>1, <2>4 DEF EventRight, EventsOf
    <3> QED
      BY <2>3, <2>4, <3>1 DEF RaisedHands, FeedOf, EventsOf
  <2>5. ASSUME NEW i \in EventsOf(listed), log[i].type = "controls"
        PROVE  \E j \in LatestControls(listed) : j >= i
    <3>1. listed \in SUBSET Lives /\ i \in ControlsIn(listed)
      BY <1>1, <2>5 DEF Listings, SessionsOf, EventsOf, ControlsIn
    <3>2. PICK j \in ControlsIn(listed) : \A k \in ControlsIn(listed) : k <= j
      BY <1>1, <3>1 DEF LiveInv, LastControls
    <3>3. FeedOf(listed, "controls") = ControlsIn(listed)
      BY <2>3 DEF FeedOf, EventsOf, ControlsIn
    <3>4. j \in LatestControls(listed) /\ i <= j /\ i \in 1..Len(log) /\ j \in 1..Len(log)
      BY <2>1, <3>1, <3>2, <3>3 DEF LatestControls, ControlsIn
    <3> QED
      BY <3>4
  <2>6. ASSUME NEW i \in EventsOf(listed), log[i].type = "answer"
        PROVE  AnswerCounts(listed)[log[i].ref] > 0
    <3> DEFINE q == log[i].ref
               answers == {j \in FeedOf(listed, "answer") : log[j].ref = q}
    <3>1. q \in DOMAIN log /\ log[q].of = log[i].of /\ log[q].type = "quiz"
      BY <2>1, <2>6 DEF EventRight, Answered, EventsOf
    <3>2. q \in FeedOf(listed, "quiz") /\ i \in answers
      BY <2>3, <2>6, <3>1 DEF FeedOf, EventsOf
    <3>3. answers \subseteq EventsOf(listed)
      BY <2>3 DEF FeedOf
    <3>4. IsFiniteSet(answers) /\ answers # {}
      BY <2>2, <3>2, <3>3, FS_Subset
    <3>5. Cardinality(answers) > 0
      BY <3>4, FS_EmptySet, FS_CardinalityType
    <3>6. AnswerCounts(listed)[q] = Cardinality(answers)
      BY <3>2 DEF AnswerCounts
    <3> QED
      BY <3>5, <3>6
  <2> QED
    BY <2>4, <2>5, <2>6
<1>2. LiveInv => FeedIsCurrent
  BY <1>1 DEF FeedIsCurrent
<1> QED
  BY <1>2, LiveInvariant, PTL

-----------------------------------------------------------------------------
(***************************************************************************)
(* Whiteboards and their slides.                                           *)
(***************************************************************************)
USE WhiteboardAssumption

LEMMA LeastThere ==
  ASSUME NEW T \in SUBSET Nat, T # {}
  PROVE  \E n \in T : \A m \in T : n <= m
<1> DEFINE R == OpToRel(<, Nat)
<1>1. IsWellFoundedOn(R, Nat)
  BY NatLessThanWellFounded, Zenon
<1>2. \A x, y \in Nat : x < y => <<x, y>> \in R
  BY SMT DEF OpToRel
<1> HIDE DEF R
<1>3. PICK x \in T : \A y \in T : ~(<<y, x>> \in R)
  BY <1>1, WFMin, Zenon
<1>4. \A y \in T : ~(y < x)
  BY <1>2, <1>3
<1> QED
  BY <1>4

LEMMA GreatestThere ==
  ASSUME NEW b \in Nat, NEW T \in SUBSET (0..b), T # {}
  PROVE  \E n \in T : \A m \in T : m <= n
<1> DEFINE U == {m \in 0..b : b - m \in T}
<1>1. U \in SUBSET Nat
  OBVIOUS
<1>2. \A t \in T : b - t \in U
  OBVIOUS
<1>3. U # {}
  BY <1>2
<1> HIDE DEF U
<1>4. PICK u \in U : \A m \in U : u <= m
  BY <1>1, <1>3, LeastThere
<1>5. u \in 0..b /\ b - u \in T
  BY DEF U
<1>6. \A t \in T : t \in 0..b /\ u <= b - t
  BY <1>2, <1>4
<1>7. \A t \in T : t <= b - u
  BY <1>5, <1>6
<1> QED
  BY <1>5, <1>7

SlideRow == [state : {"none", "there", "gone"}, order : 0..(LastOrder + 1)]

OrdersFollowed == \A s \in Present : slide[s].order <= LastOrder

\* What a request knows of the slides, unless another has written since it read
ReadRight(e) ==
  LET x == edit[e] IN
  /\ x.phase = "creating" => x.order <= LastOrder
  /\ x.phase = "creating" /\ ~x.stale => \A s \in Present : slide[s].order < x.order
  /\ x.phase = "reordering" /\ ~x.stale => Present \subseteq x.seen
  /\ x.phase = "deleting" => \E s \in Slides : x.seen = {s}
  /\ board = "none" => x.phase = "idle"

BoardInv ==
  /\ BoardTypeOK
  /\ OrdersFollowed
  /\ \A e \in Edits : ReadRight(e)
  /\ board = "none" => Present = {}
  /\ PlacesDistinct

LEMMA BoardRows ==
  ASSUME BoardTypeOK
  PROVE  /\ board \in {"none", "open", "deleted"}
         /\ slide \in [Slides -> SlideRow]
         /\ edit \in [Edits -> Edit]
         /\ overtaken \subseteq Slides
         /\ \A s \in Slides : slide[s].order \in 0..(LastOrder + 1)
         /\ \A e \in Edits : edit[e].seen \subseteq Slides
BY DEF BoardTypeOK, SlideRow, Edit

LEMMA PlacesTyped ==
  /\ NoEdit \in Edit /\ NoEdit.phase = "idle"
  /\ NoSlide \in SlideRow
  /\ \A n \in 0..(LastOrder + 1) : At(n) \in SlideRow /\ At(n).state = "there" /\ At(n).order = n
BY DEF NoEdit, Edit, NoSlide, SlideRow, At

LEMMA CheckedTyped ==
  LET x == [NoEdit EXCEPT !.phase = "checked"] IN x \in Edit /\ x.phase = "checked"
<1>1. 0 \in 0..(LastOrder + 1)
  OBVIOUS
<1> QED
  BY <1>1 DEF NoEdit, Edit

Phases == {"idle", "checked", "creating", "reordering", "deleting"}

LEMMA DraftTyped ==
  ASSUME NEW phase \in Phases, NEW seen \in SUBSET Slides
  PROVE  LET x == [NoEdit EXCEPT !.phase = phase, !.seen = seen] IN
         x \in Edit /\ x.phase = phase /\ x.seen = seen
<1>1. 0 \in 0..(LastOrder + 1)
  OBVIOUS
<1> QED
  BY <1>1 DEF NoEdit, Edit, Phases

LEMMA NextOrderThere ==
  ASSUME BoardTypeOK, OrdersFollowed
  PROVE  /\ NextOrder \in 0..(LastOrder + 1)
         /\ \A s \in Present : slide[s].order < NextOrder
<1> DEFINE T == {slide[s].order : s \in Present}
           P(n) == /\ \A s \in Present : slide[s].order < n
                   /\ n = 0 \/ \E s \in Present : slide[s].order + 1 = n
<1>1. \A s \in Present : slide[s].order \in 0..LastOrder
  BY BoardRows DEF OrdersFollowed, Present
<1>2. \E n \in 0..(LastOrder + 1) : P(n)
  <2>1. CASE Present = {}
    BY <2>1
  <2>2. CASE Present # {}
    <3>1. T \in SUBSET (0..LastOrder) /\ T # {}
      BY <1>1, <2>2
    <3>2. \A s \in Present : slide[s].order \in T
      OBVIOUS
    <3>3. \A t \in T : \E s \in Present : slide[s].order = t
      OBVIOUS
    <3> HIDE DEF T
    <3>4. PICK n \in T : \A m \in T : m <= n
      BY <3>1, GreatestThere
    <3>5. n \in 0..LastOrder
      BY <3>1
    <3>6. PICK t \in Present : slide[t].order = n
      BY <3>3
    <3>7. \A s \in Present : slide[s].order < n + 1
      BY <1>1, <3>2, <3>4, <3>5
    <3>8. P(n + 1)
      BY <3>6, <3>7
    <3> QED
      BY <3>5, <3>8
  <2> QED
    BY <2>1, <2>2
<1>3. NextOrder = CHOOSE n \in 0..(LastOrder + 1) : P(n)
  BY DEF NextOrder
<1> HIDE DEF P
<1>4. NextOrder \in 0..(LastOrder + 1) /\ P(NextOrder)
  BY <1>2, <1>3
<1> QED
  BY <1>4 DEF P

LEMMA BoardStarts == BoardInit => BoardInv
<1> SUFFICES ASSUME BoardInit PROVE BoardInv
  OBVIOUS
<1>1. Present = {}
  BY DEF BoardInit, Present, NoSlide
<1>2. BoardTypeOK
  BY PlacesTyped DEF BoardInit, BoardTypeOK, SlideRow
<1>3. \A e \in Edits : ReadRight(e)
  BY PlacesTyped DEF BoardInit, ReadRight
<1> QED
  BY <1>1, <1>2, <1>3 DEF BoardInv, OrdersFollowed, PlacesDistinct

\* A request that reads, ends or deletes the whiteboard leaves the slides alone
LEMMA ReadKeeps ==
  ASSUME BoardInv, UNCHANGED <<slide, overtaken>>,
         board' \in {"open", "deleted"},
         NEW e \in Edits, NEW x \in Edit, edit' = [edit EXCEPT ![e] = x],
         ReadRight(e)'
  PROVE  BoardInv'
<1>1. Present' = Present /\ PlacesDistinct' /\ OrdersFollowed'
  BY DEF BoardInv, Present, PlacesDistinct, OrdersFollowed
<1>2. BoardTypeOK'
  BY DEF BoardInv, BoardTypeOK
<1>3. ASSUME NEW d \in Edits, d # e PROVE ReadRight(d)'
  <2>1. edit'[d] = edit[d] /\ ReadRight(d)
    BY <1>3, BoardRows DEF BoardInv
  <2> QED
    BY <1>1, <2>1 DEF ReadRight
<1> QED
  BY <1>1, <1>2, <1>3 DEF BoardInv

LEMMA EditOvertaken ==
  ASSUME NEW x \in Edit
  PROVE  LET y == [x EXCEPT !.stale = @ \/ x.phase \notin {"idle", "checked"}] IN
         /\ y \in Edit /\ y.phase = x.phase /\ y.order = x.order /\ y.seen = x.seen
         /\ x.phase \notin {"idle", "checked"} => y.stale
<1>1. CASE x.phase \in {"idle", "checked"}
  BY <1>1 DEF Edit
<1>2. CASE x.phase \notin {"idle", "checked"}
  <2> DEFINE y == [x EXCEPT !.stale = @ \/ x.phase \notin {"idle", "checked"}]
  <2>1. y = [x EXCEPT !.stale = TRUE]
    BY <1>2, Zenon
  <2>2. [x EXCEPT !.stale = TRUE].stale = TRUE
    BY DEF Edit
  <2> QED
    BY <1>2, <2>1, <2>2 DEF Edit
<1> QED
  BY <1>1, <1>2

\* Every other request that had read something is overtaken
LEMMA WriteOvertakes ==
  ASSUME BoardInv, NEW e \in Edits, Committed(e), board' = board, board # "none"
  PROVE  edit' \in [Edits -> Edit] /\ \A d \in Edits : ReadRight(d)'
<1>1. \A d \in Edits : edit[d] \in Edit /\ ReadRight(d)
  BY BoardRows DEF BoardInv
<1>2. \A d \in Edits : edit'[d] =
        IF d = e THEN NoEdit
        ELSE [edit[d] EXCEPT !.stale = @ \/ edit[d].phase \notin {"idle", "checked"}]
  BY DEF Committed
<1>3. ASSUME NEW d \in Edits, d # e
      PROVE  /\ edit'[d] \in Edit
             /\ edit'[d].phase = edit[d].phase /\ edit'[d].order = edit[d].order
             /\ edit'[d].seen = edit[d].seen
             /\ edit[d].phase \notin {"idle", "checked"} => edit'[d].stale
  <2> DEFINE x == edit[d]
             y == [x EXCEPT !.stale = @ \/ x.phase \notin {"idle", "checked"}]
  <2>1. edit'[d] = y
    BY <1>2, <1>3, Zenon
  <2>2. x \in Edit
    BY <1>1
  <2>3. /\ y \in Edit /\ y.phase = x.phase /\ y.order = x.order /\ y.seen = x.seen
        /\ x.phase \notin {"idle", "checked"} => y.stale
    <3> HIDE DEF x
    <3> QED
      BY <2>2, EditOvertaken, Zenon
  <2> HIDE DEF y
  <2> QED
    BY <2>1, <2>3
<1>4. edit' = [d \in Edits |-> edit'[d]]
  BY DEF Committed
<1>5. edit' \in [Edits -> Edit]
  BY <1>2, <1>3, <1>4, PlacesTyped
<1>6. ASSUME NEW d \in Edits PROVE ReadRight(d)'
  <2>1. CASE d = e
    BY <1>2, <2>1, PlacesTyped DEF ReadRight
  <2>2. CASE d # e
    BY <1>1, <1>3, <2>2 DEF ReadRight
  <2> QED
    BY <2>1, <2>2
<1> QED
  BY <1>5, <1>6

LEMMA CreateStep ==
  ASSUME BoardInv, NEW e \in Edits, NEW s \in Slides, CreateSlide(e, s)
  PROVE  BoardInv'
<1>1. BoardTypeOK /\ ReadRight(e) /\ edit[e].phase = "creating" /\ board # "none"
  BY DEF BoardInv, CreateSlide, ReadRight
<1> DEFINE n == edit[e].order
<1>2. n \in 0..LastOrder
  BY <1>1, BoardRows DEF ReadRight, Edit
<1>3. slide' \in [Slides -> SlideRow] /\ slide'[s].order = n /\ slide'[s].state = "there"
      /\ \A t \in Slides \ {s} : slide'[t] = slide[t]
  BY <1>1, <1>2, BoardRows, PlacesTyped DEF CreateSlide
<1>4. Present' = Present \cup {s} /\ s \notin Present
  BY <1>3 DEF CreateSlide, Present
<1>5. overtaken' \subseteq Slides /\ overtaken \subseteq overtaken'
      /\ (edit[e].stale => s \in overtaken')
  BY <1>1, BoardRows DEF CreateSlide
<1>6. edit' \in [Edits -> Edit] /\ \A d \in Edits : ReadRight(d)'
  BY <1>1, WriteOvertakes DEF CreateSlide
<1>7. \A t \in Present : t \in Slides /\ t # s /\ slide'[t] = slide[t]
  BY <1>3, <1>4 DEF Present
<1>8. BoardTypeOK'
  BY <1>1, <1>3, <1>5, <1>6 DEF BoardTypeOK, CreateSlide, SlideRow
<1>9. OrdersFollowed'
  BY <1>2, <1>3, <1>4, <1>7 DEF BoardInv, OrdersFollowed
<1>10. edit[e].stale \/ \A t \in Present : slide[t].order < n
  BY <1>1 DEF ReadRight
<1>11. \A t \in Present : slide[t].order \in Nat
  BY <1>1, BoardRows DEF Present
<1>12. PlacesDistinct'
  BY <1>2, <1>3, <1>4, <1>5, <1>7, <1>10, <1>11 DEF BoardInv, PlacesDistinct
<1> QED
  BY <1>1, <1>6, <1>8, <1>9, <1>12 DEF BoardInv, CreateSlide

LEMMA DeleteStep ==
  ASSUME BoardInv, NEW e \in Edits, DeleteSlide(e)
  PROVE  BoardInv'
<1>1. BoardTypeOK /\ ReadRight(e) /\ edit[e].phase = "deleting" /\ board # "none"
  BY DEF BoardInv, DeleteSlide, ReadRight
<1>2. PICK s \in Slides : edit[e].seen = {s}
  BY <1>1 DEF ReadRight
<1> DEFINE gone == [NoSlide EXCEPT !.state = "gone"]
<1>3. gone \in SlideRow /\ gone.state = "gone"
  BY DEF NoSlide, SlideRow
<1> HIDE DEF gone
<1>4. slide' \in [Slides -> SlideRow] /\ slide'[s] = gone
      /\ \A t \in Slides \ {s} : slide'[t] = slide[t]
  BY <1>1, <1>2, <1>3, BoardRows DEF DeleteSlide, gone
<1>5. Present' = Present \ {s}
  BY <1>3, <1>4 DEF Present
<1>6. overtaken' = overtaken \ {s}
  BY <1>2 DEF DeleteSlide
<1>7. \A t \in Present' : t \in Present /\ t # s /\ slide'[t] = slide[t]
  BY <1>4, <1>5 DEF Present
<1>8. edit' \in [Edits -> Edit] /\ \A d \in Edits : ReadRight(d)'
  <2>1. CASE s \in Present
    BY <1>1, <1>2, <2>1, WriteOvertakes DEF DeleteSlide
  <2>2. CASE s \notin Present
    <3>1. edit' = [edit EXCEPT ![e] = NoEdit] /\ board' = board
      BY <1>2, <2>2 DEF DeleteSlide
    <3>2. ASSUME NEW d \in Edits PROVE ReadRight(d)'
      <4>1. d # e => edit'[d] = edit[d]
        BY <1>1, <3>1, BoardRows
      <4>2. ReadRight(d)
        BY DEF BoardInv
      <4>3. edit'[e] = NoEdit
        BY <1>1, <3>1, BoardRows
      <4>4. \A t \in Present' : t \in Present /\ slide'[t] = slide[t]
        BY <1>7
      <4> QED
        BY <3>1, <4>1, <4>2, <4>3, <4>4, PlacesTyped DEF ReadRight
    <3> QED
      BY <1>1, <3>1, <3>2, BoardRows, PlacesTyped
  <2> QED
    BY <2>1, <2>2
<1>9. BoardTypeOK'
  BY <1>1, <1>4, <1>6, <1>8 DEF BoardTypeOK, DeleteSlide, SlideRow
<1>10. OrdersFollowed' /\ PlacesDistinct'
  BY <1>6, <1>7 DEF BoardInv, OrdersFollowed, PlacesDistinct
<1> QED
  BY <1>1, <1>5, <1>8, <1>9, <1>10 DEF BoardInv, DeleteSlide

LEMMA ReorderStep ==
  ASSUME BoardInv, NEW e \in Edits, NEW places \in Places(edit[e].seen),
         ReorderSlides(e, places)
  PROVE  BoardInv'
<1> DEFINE seen == edit[e].seen
<1>1. BoardTypeOK /\ ReadRight(e) /\ edit[e].phase = "reordering" /\ board # "none"
  BY DEF BoardInv, ReorderSlides, ReadRight
<1>2. seen \subseteq Present /\ seen \subseteq Slides /\ (edit[e].stale \/ Present = seen)
  BY <1>1, BoardRows DEF ReorderSlides, Reorderable, ReadRight
<1>3. IsFiniteSet(seen) /\ Cardinality(seen) <= LastOrder + 1 /\ Cardinality(seen) \in Nat
  <2>1. IsFiniteSet(seen) /\ Cardinality(seen) <= Cardinality(Slides)
    BY <1>2, FS_Subset
  <2> QED
    BY <2>1, FS_CardinalityType
<1>4. /\ \A s \in seen : places[s] \in 0..(Cardinality(seen) - 1)
      /\ \A s, t \in seen : places[s] = places[t] => s = t
  BY DEF Places, Bijection, Injection, Surjection, IsInjective
<1>5. \A s \in seen : places[s] \in 0..LastOrder
  BY <1>3, <1>4
<1>6. \A s \in Slides : slide'[s] = IF s \in seen THEN At(places[s]) ELSE slide[s]
  BY DEF ReorderSlides
<1>7. \A s \in seen : slide'[s] \in SlideRow /\ slide'[s].state = "there"
                     /\ slide'[s].order = places[s]
  BY <1>2, <1>5, <1>6, PlacesTyped
<1>8. slide' \in [Slides -> SlideRow]
  BY <1>1, <1>6, <1>7, BoardRows DEF ReorderSlides
<1>9. Present' = Present
  BY <1>2, <1>6, <1>7 DEF Present
<1>10. overtaken' \subseteq Slides
       /\ (edit[e].stale => overtaken' = overtaken \cup seen)
  BY <1>1, <1>2, BoardRows DEF ReorderSlides
<1>11. edit' \in [Edits -> Edit] /\ \A d \in Edits : ReadRight(d)'
  BY <1>1, WriteOvertakes DEF ReorderSlides
<1>12. \A t \in Present \ seen : t \in Slides /\ slide'[t] = slide[t]
  BY <1>6 DEF Present
<1> HIDE DEF seen
<1>13. BoardTypeOK'
  BY <1>1, <1>8, <1>10, <1>11 DEF BoardTypeOK, ReorderSlides, SlideRow
<1>14. OrdersFollowed'
  BY <1>5, <1>7, <1>9, <1>12 DEF BoardInv, OrdersFollowed
<1>15. PlacesDistinct'
  <2> SUFFICES ASSUME NEW s \in Present, NEW t \in Present, s # t,
                      slide'[s].order = slide'[t].order
               PROVE  {s, t} \cap overtaken' # {}
    BY <1>9 DEF PlacesDistinct
  <2>1. CASE s \in seen /\ t \in seen
    BY <1>4, <1>7, <2>1
  <2>2. CASE s \notin seen /\ t \notin seen
    BY <1>2, <1>10, <1>12, <2>2 DEF BoardInv, PlacesDistinct
  <2>3. CASE ~(s \in seen <=> t \in seen)
    BY <1>2, <1>10, <2>3
  <2> QED
    BY <2>1, <2>2, <2>3
<1> QED
  BY <1>1, <1>9, <1>11, <1>13, <1>14, <1>15 DEF BoardInv, ReorderSlides

LEMMA BoardSteps == BoardInv /\ [BoardNext]_boardVars => BoardInv'
<1> SUFFICES ASSUME BoardInv, [BoardNext]_boardVars PROVE BoardInv'
  OBVIOUS
<1>1. BoardTypeOK /\ OrdersFollowed
  BY DEF BoardInv
<1>2. ASSUME NEW s \in Slides, CreateBoard(s) PROVE BoardInv'
  <2>1. board = "none" /\ Present = {} /\ board' = "open"
    BY <1>2 DEF CreateBoard, BoardInv
  <2>2. slide' \in [Slides -> SlideRow] /\ slide'[s].order = 0 /\ slide'[s].state = "there"
        /\ \A t \in Slides \ {s} : slide'[t] = slide[t]
    BY <1>1, <1>2, BoardRows, PlacesTyped DEF CreateBoard
  <2>3. Present' = {s}
    BY <2>1, <2>2 DEF Present
  <2>4. \A e \in Edits : ReadRight(e)'
    BY <1>2, <2>1 DEF BoardInv, ReadRight, CreateBoard
  <2>5. BoardTypeOK'
    BY <1>1, <1>2, <2>1, <2>2 DEF BoardTypeOK, SlideRow, CreateBoard
  <2>6. OrdersFollowed' /\ PlacesDistinct'
    BY <2>2, <2>3 DEF OrdersFollowed, PlacesDistinct
  <2> QED
    BY <2>1, <2>4, <2>5, <2>6 DEF BoardInv
<1>3. ASSUME NEW e \in Edits,
             CheckBoard(e) \/ DeleteBoard(e) \/ ReadOrder(e) \/ ReadSlides(e) \/ EditFails(e)
               \/ \E s \in Slides : FindSlide(e, s)
      PROVE  BoardInv'
  <2>1. /\ edit[e].phase # "idle" => board # "none"
        /\ board \in {"none", "open", "deleted"}
    BY <1>1, BoardRows DEF BoardInv, ReadRight
  <2>2. edit \in [Edits -> Edit] /\ Present \subseteq Slides
    BY <1>1, BoardRows DEF Present
  <2>3. UNCHANGED <<slide, overtaken>> /\ board' \in {"open", "deleted"} /\ Present' = Present
    BY <1>3, <2>1 DEF CheckBoard, DeleteBoard, ReadOrder, ReadSlides, EditFails, FindSlide,
       Goes, Present
  <2>4. CASE CheckBoard(e) \/ DeleteBoard(e) \/ EditFails(e)
    <3>1. PICK x \in {NoEdit, [NoEdit EXCEPT !.phase = "checked"]} :
            edit' = [edit EXCEPT ![e] = x]
      BY <2>4 DEF CheckBoard, DeleteBoard, EditFails, Goes
    <3>2. x \in Edit /\ x.phase \in {"idle", "checked"}
      BY <3>1, PlacesTyped, CheckedTyped
    <3>3. ReadRight(e)'
      BY <2>2, <2>3, <3>1, <3>2 DEF ReadRight
    <3> QED
      BY <2>3, <3>1, <3>2, <3>3, ReadKeeps
  <2>5. CASE ReadOrder(e)
    <3> DEFINE x == [NoEdit EXCEPT !.phase = "creating", !.order = NextOrder]
    <3>1. /\ NextOrder \in 0..(LastOrder + 1) /\ NextOrder <= LastOrder
          /\ \A s \in Present : slide[s].order < NextOrder
      BY <1>1, <2>5, NextOrderThere DEF ReadOrder
    <3>2. x \in Edit /\ x.phase = "creating" /\ x.order = NextOrder
      BY <3>1 DEF NoEdit, Edit
    <3>3. edit' = [edit EXCEPT ![e] = x]
      BY <2>5 DEF ReadOrder, Goes
    <3> HIDE DEF x
    <3>4. edit'[e] = x
      BY <2>2, <3>3
    <3>5. \A s \in Present' : slide'[s].order < x.order
      BY <2>3, <3>1, <3>2
    <3>6. ReadRight(e)'
      BY <2>3, <3>1, <3>2, <3>4, <3>5 DEF ReadRight
    <3> QED
      BY <2>3, <3>2, <3>3, <3>6, ReadKeeps
  <2>6. CASE ReadSlides(e)
    <3> DEFINE x == [NoEdit EXCEPT !.phase = "reordering", !.seen = Present]
    <3>1. x \in Edit /\ x.phase = "reordering" /\ x.seen = Present
      <4>1. Present \in SUBSET Slides /\ "reordering" \in Phases
        BY <2>2 DEF Phases
      <4> QED
        BY <4>1, DraftTyped, Zenon
    <3>2. edit' = [edit EXCEPT ![e] = x]
      BY <2>6 DEF ReadSlides, Goes
    <3> HIDE DEF x
    <3>3. ReadRight(e)'
      BY <2>2, <2>3, <3>1, <3>2 DEF ReadRight
    <3> QED
      BY <2>3, <3>1, <3>2, <3>3, ReadKeeps
  <2>7. ASSUME NEW s \in Slides, FindSlide(e, s) PROVE BoardInv'
    <3> DEFINE x == [NoEdit EXCEPT !.phase = "deleting", !.seen = {s}]
    <3>1. x \in Edit /\ x.phase = "deleting" /\ x.seen = {s}
      <4>1. {s} \in SUBSET Slides /\ "deleting" \in Phases
        BY DEF Phases
      <4> QED
        BY <4>1, DraftTyped, Zenon
    <3>2. edit' = [edit EXCEPT ![e] = x]
      BY <2>7 DEF FindSlide, Goes
    <3> HIDE DEF x
    <3>3. ReadRight(e)'
      BY <2>2, <2>3, <3>1, <3>2 DEF ReadRight
    <3> QED
      BY <2>3, <3>1, <3>2, <3>3, ReadKeeps
  <2> QED
    BY <1>3, <2>4, <2>5, <2>6, <2>7
<1>4. CASE UNCHANGED boardVars
  <2>1. Present' = Present /\ BoardTypeOK' /\ OrdersFollowed' /\ PlacesDistinct'
    BY <1>4 DEF BoardInv, boardVars, Present, BoardTypeOK, OrdersFollowed, PlacesDistinct
  <2>2. \A e \in Edits : ReadRight(e)'
    BY <1>4, <2>1 DEF BoardInv, boardVars, ReadRight
  <2> QED
    BY <1>4, <2>1, <2>2 DEF BoardInv, boardVars
<1> QED
  BY <1>2, <1>3, <1>4, CreateStep, DeleteStep, ReorderStep DEF BoardNext

\* However requests that create, delete and reorder slides overlap, two slides
\* have the same place only when one of them was written by a request that had
\* been overtaken since it read the slides (slides.controller.ts).
THEOREM PlacesStayDistinct == BoardSpec => []PlacesDistinct
<1>1. BoardInv => PlacesDistinct
  BY DEF BoardInv
<1> QED
  BY <1>1, BoardStarts, BoardSteps, PTL DEF BoardSpec

-----------------------------------------------------------------------------
\* Sessions, rosters, invites, events and requests, and slides and the requests
\* that write them, have their types, for any number of each.
THEOREM TeachingTypes ==
  /\ LiveSpec => []LiveTypeOK
  /\ BoardSpec => []BoardTypeOK
<1>1. LiveInv => LiveTypeOK
  BY DEF LiveInv
<1>2. BoardInv => BoardTypeOK
  BY DEF BoardInv
<1>3. BoardSpec => []BoardInv
  BY BoardStarts, BoardSteps, PTL DEF BoardSpec
<1> QED
  BY <1>1, <1>2, <1>3, LiveInvariant, PTL
=============================================================================
