----------------------------- MODULE MCTeaching -----------------------------
(***************************************************************************)
(* Whiteboards and live sessions, for TLC.  part says which of them a      *)
(* behaviour moves (see MCAccess).  The live sessions take three parts, as *)
(* their interesting cases need different bounds:                          *)
(*   codes    one session with its codes and invites, two requests at once,*)
(*            no sockets                                                   *)
(*   rooms    two sessions of a whiteboard, one of them with a code        *)
(*   records  one session and what it records, once it has been set up, and *)
(*            another, of the host alone, with its controls                *)
(***************************************************************************)
EXTENDS LiveSessions, Whiteboards, TLC

CONSTANTS MainLive

VARIABLE part

Init == LiveInit /\ BoardInit /\ part \in {"codes", "rooms", "records", "slides"}

OneLive == \A l \in Lives \ {MainLive} :
  /\ live'[l] = NoLive
  /\ \A c \in LiveCalls : liveCall'[c].phase = "idle" \/ liveCall'[c].of # l

OneCall == Cardinality({c \in LiveCalls : liveCall'[c].phase # "idle"}) <= 1

NoInvites == \A i \in Invites : invite'[i].state = "none"

OneCode == \A l \in Lives \ {MainLive} : live'[l].code = NoCode

\* The host's other sessions stay scheduled; their controls are set
HostAlone ==
  \A l \in Lives \ {MainLive} :
    /\ live'[l].status \in {"NONE", "SCHEDULED"} /\ live'[l].code = NoCode
    /\ \A u \in Participants : roster'[l][u] = "never"
    /\ \A c \in LiveCalls : liveCall'[c].phase = "idle" \/ liveCall'[c].of # l
    /\ \A i \in DOMAIN log' : log'[i].of = l => log'[i].type = "controls"

\* Events are recorded in sessions that were set up and stay as they are
Settled == /\ room' = {}
           /\ \A l \in Lives, u \in Participants : roster'[l][u] # "left"
           /\ log' # <<>> => live'[MainLive].fresh
           /\ log # <<>> => UNCHANGED live /\ log' # log

Next ==
  /\ UNCHANGED part
  /\ \/ /\ part = "codes" /\ LiveNext /\ OneLive
        /\ UNCHANGED <<room, log, boardVars>>
     \/ /\ part = "rooms" /\ LiveNext /\ OneCall /\ NoInvites /\ OneCode
        /\ UNCHANGED <<log, boardVars>>
     \/ /\ part = "records" /\ LiveNext /\ HostAlone /\ OneCall /\ NoInvites /\ Settled
        /\ UNCHANGED boardVars
     \/ part = "slides" /\ BoardNext /\ UNCHANGED liveVars

Spec == Init /\ [][Next]_<<liveVars, boardVars, part>>

\* The requests to slides are model values of LiveCalls
Interchangeable == Permutations(LiveCalls) \cup Permutations(Codes)
=============================================================================
