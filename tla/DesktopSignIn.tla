--------------------------- MODULE DesktopSignIn ---------------------------
(***************************************************************************)
(* Signing in to the desktop application through the browser               *)
(* (src/src/modules/auth/auth.service.ts): the application starts an       *)
(* attempt and polls it; Google sends the browser back with the attempt's  *)
(* state, the callback signs in and stores the session with the attempt,   *)
(* and the next poll takes it.  Every handler reads the attempt first and  *)
(* then writes it by its id, whatever has happened to it meanwhile.        *)
(***************************************************************************)
EXTENDS Naturals, FiniteSets

CONSTANTS
  Attempts,    \* rows of the attempts table
  Logins,      \* login sessions Google sign-in can create
  NoLogin,     \* no session payload
  Callbacks,   \* browser callbacks in flight
  Polls        \* polls in flight

ASSUME DesktopAssumption == NoLogin \notin Logins /\ Attempts # {}

VARIABLES
  attempt,    \* the rows of the attempts table
  callback,   \* the local state of each callback
  poll,       \* the local state of each poll
  made,       \* history: the logins created for each attempt
  given       \* history: the logins polls were answered with

desktopVars == <<attempt, callback, poll, made, given>>

AttemptRow == [status : {"NONE", "PENDING", "COMPLETED", "FAILED", "EXPIRED"},
               over : BOOLEAN,       \* expiresAt is in the past
               payload : Logins \cup {NoLogin},
               consumed : BOOLEAN]   \* consumedAt is set

NoAttempt == [status |-> "NONE", over |-> FALSE, payload |-> NoLogin,
              consumed |-> FALSE]

Callback == [phase : {"idle", "expiring", "exchanging", "storing", "failing"},
             of : Attempts, login : Logins \cup {NoLogin}]

Poll == [phase : {"idle", "expiring", "consuming", "answering"},
         of : Attempts, login : Logins \cup {NoLogin}]

AtRest == [phase |-> "idle", of |-> CHOOSE a \in Attempts : TRUE,
           login |-> NoLogin]

DesktopTypeOK ==
  /\ attempt \in [Attempts -> AttemptRow]
  /\ callback \in [Callbacks -> Callback]
  /\ poll \in [Polls -> Poll]
  /\ made \in [Attempts -> SUBSET Logins]
  /\ given \subseteq Attempts \X Logins

DesktopInit ==
  /\ attempt = [a \in Attempts |-> NoAttempt]
  /\ callback = [c \in Callbacks |-> AtRest]
  /\ poll = [p \in Polls |-> AtRest]
  /\ made = [a \in Attempts |-> {}]
  /\ given = {}

-----------------------------------------------------------------------------
\* startDesktopGoogleSignIn
StartAttempt(a) ==
  /\ attempt[a].status = "NONE"
  /\ attempt' = [attempt EXCEPT ![a].status = "PENDING"]
  /\ UNCHANGED <<callback, poll, made, given>>

AttemptTimesOut(a) ==
  /\ attempt[a].status # "NONE"
  /\ ~attempt[a].over
  /\ attempt' = [attempt EXCEPT ![a].over = TRUE]
  /\ UNCHANGED <<callback, poll, made, given>>

\* expireAttemptIfNeeded, on the row as it was read
Overdue(a) == attempt[a].status = "PENDING" /\ attempt[a].over

-----------------------------------------------------------------------------
(***************************************************************************)
(* handleDesktopGoogleCallback.  Only an overdue attempt is turned away: a *)
(* callback for one that has failed, expired or completed goes on.         *)
(***************************************************************************)
CallbackArrives(c, a, answer) ==
  /\ callback[c].phase = "idle"
  /\ attempt[a].status # "NONE"
  /\ callback' = [callback EXCEPT ![c] =
       [phase |-> IF Overdue(a) THEN "expiring"
                  ELSE IF answer = "code" THEN "exchanging" ELSE "failing",
        of |-> a, login |-> NoLogin]]
  /\ UNCHANGED <<attempt, poll, made, given>>

\* exchangeGoogleCodeForIdToken and googleSignIn, which creates a session
CallbackSignsIn(c, s) ==
  LET a == callback[c].of IN
  /\ callback[c].phase = "exchanging"
  /\ \A b \in Attempts : s \notin made[b]
  /\ made' = [made EXCEPT ![a] = @ \cup {s}]
  /\ callback' = [callback EXCEPT ![c].phase = "storing", ![c].login = s]
  /\ UNCHANGED <<attempt, poll, given>>

CallbackIsRefused(c) ==
  /\ callback[c].phase = "exchanging"
  /\ callback' = [callback EXCEPT ![c].phase = "failing"]
  /\ UNCHANGED <<attempt, poll, made, given>>

CallbackWrites(c) ==
  LET a == callback[c].of IN
  /\ callback[c].phase \in {"storing", "failing", "expiring"}
  /\ attempt' =
       CASE callback[c].phase = "storing" ->
              [attempt EXCEPT ![a].status = "COMPLETED",
                              ![a].payload = callback[c].login]
         [] callback[c].phase = "failing" ->
              [attempt EXCEPT ![a].status = "FAILED"]
         [] OTHER -> [attempt EXCEPT ![a].status = "EXPIRED"]
  /\ callback' = [callback EXCEPT ![c] = AtRest]
  /\ UNCHANGED <<poll, made, given>>

\* The handler is killed
CallbackLost(c) ==
  /\ callback[c].phase # "idle"
  /\ callback' = [callback EXCEPT ![c] = AtRest]
  /\ UNCHANGED <<attempt, poll, made, given>>

-----------------------------------------------------------------------------
(***************************************************************************)
(* getDesktopGoogleSignInStatus.                                           *)
(***************************************************************************)
PollReads(p, a) ==
  /\ poll[p].phase = "idle"
  /\ attempt[a].status # "NONE"
  /\ \/ /\ Overdue(a)
        /\ poll' = [poll EXCEPT ![p] =
             [phase |-> "expiring", of |-> a, login |-> NoLogin]]
     \/ /\ attempt[a].status = "COMPLETED"
        /\ ~attempt[a].consumed
        /\ poll' = [poll EXCEPT ![p] =
             [phase |-> "consuming", of |-> a, login |-> attempt[a].payload]]
  /\ UNCHANGED <<attempt, callback, made, given>>

PollExpires(p) ==
  /\ poll[p].phase = "expiring"
  /\ attempt' = [attempt EXCEPT ![poll[p].of].status = "EXPIRED"]
  /\ poll' = [poll EXCEPT ![p] = AtRest]
  /\ UNCHANGED <<callback, made, given>>

ConsumableIfCompleted(row) == row.status = "COMPLETED"

\* consumeGoogleDesktopAuthAttempt: one updateMany whose condition is that
\* consumedAt is null
Consumable(row) == ~row.consumed

PollConsumes(p) ==
  LET a == poll[p].of IN
  /\ poll[p].phase = "consuming"
  /\ IF Consumable(attempt[a])
     THEN /\ attempt' = [attempt EXCEPT ![a].consumed = TRUE]
          /\ poll' = [poll EXCEPT ![p].phase = "answering"]
     ELSE /\ poll' = [poll EXCEPT ![p] = AtRest]
          /\ UNCHANGED attempt
  /\ UNCHANGED <<callback, made, given>>

PollAnswers(p) ==
  /\ poll[p].phase = "answering"
  /\ given' = given \cup {<<poll[p].of, poll[p].login>>}
  /\ poll' = [poll EXCEPT ![p] = AtRest]
  /\ UNCHANGED <<attempt, callback, made>>

PollLost(p) ==
  /\ poll[p].phase # "idle"
  /\ poll' = [poll EXCEPT ![p] = AtRest]
  /\ UNCHANGED <<attempt, callback, made, given>>

-----------------------------------------------------------------------------
DesktopNext ==
  \/ \E a \in Attempts : StartAttempt(a) \/ AttemptTimesOut(a)
  \/ \E c \in Callbacks :
       \/ \E a \in Attempts, x \in {"code", "error"} : CallbackArrives(c, a, x)
       \/ \E s \in Logins : CallbackSignsIn(c, s)
       \/ CallbackIsRefused(c) \/ CallbackWrites(c) \/ CallbackLost(c)
  \/ \E p \in Polls :
       \/ \E a \in Attempts : PollReads(p, a)
       \/ PollExpires(p) \/ PollConsumes(p) \/ PollAnswers(p) \/ PollLost(p)

DesktopSpec == DesktopInit /\ [][DesktopNext]_desktopVars

-----------------------------------------------------------------------------
\* The desktop sign-in implements the promise of HandOver: whichever callbacks
\* and polls overlap, an attempt gives at most one session, once, and one made
\* for it (consumeGoogleDesktopAuthAttempt).
Promise == INSTANCE HandOver WITH made <- made, given <- given

HandsOverOnce == Promise!HandOverSpec
=============================================================================
