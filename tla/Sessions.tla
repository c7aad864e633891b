------------------------------ MODULE Sessions ------------------------------
(***************************************************************************)
(* The login sessions of users (src/src/modules/auth/auth.service.ts and   *)
(* auth.repository.ts): signing in, rotating refresh tokens, heartbeats,   *)
(* signing out and revoking.  Every request ends in touchOwnSession, which *)
(* reads the session of a token and the session of a client and then       *)
(* writes one of them: nothing holds the rows between the reads and the    *)
(* write, so requests of one user overlap.                                 *)
(***************************************************************************)
EXTENDS Naturals, FiniteSets

CONSTANTS
  Users,      \* accounts
  Clients,    \* client session ids, one per installed application
  NoClient,   \* a request that names no client session
  Tokens,     \* refresh tokens, those not minted yet included
  NoToken,    \* a null refreshToken
  Rows,       \* rows of the sessions table, those not created yet included
  NoRow,      \* no session found
  Calls       \* requests in flight

ASSUME SessionsAssumption ==
  /\ Users # {}
  /\ NoClient \notin Clients
  /\ NoToken \notin Tokens
  /\ NoRow \notin Rows

VARIABLES
  session,    \* the rows of the sessions table
  call,       \* the local state of each request
  owner,      \* the user a minted token names; minted tokens are its domain
  handed,     \* tokens a client has received
  account     \* the status of each user's account

sessionVars == <<session, call, owner, handed, account>>

SessionRow == [state : {"free", "kept", "erased"},
               user : Users,
               token : Tokens \cup {NoToken},
               client : Clients \cup {NoClient},
               revoked : BOOLEAN]   \* revokedAt is set

FreeRow == [state |-> "free", user |-> CHOOSE u \in Users : TRUE,
            token |-> NoToken, client |-> NoClient, revoked |-> FALSE]

Request == [phase : {"idle", "touching", "merging", "writing",
                     "revoking"},
            op : {"none", "signIn", "refresh", "heartbeat", "revoke"},
            user : Users,
            client : Clients \cup {NoClient},
            shown : Tokens \cup {NoToken},     \* currentRefreshToken
            next : Tokens \cup {NoToken},      \* nextRefreshToken
            byToken : Rows \cup {NoRow},       \* tokenSession
            byClient : Rows \cup {NoRow},      \* clientSession
            checked : BOOLEAN, \* its header named the client, whose session the
                               \* middleware has looked at
            stale : BOOLEAN]   \* history: a session of the user, or the one of
                               \* the token shown, has changed since it began

Idle == [phase |-> "idle", op |-> "none",
         user |-> CHOOSE u \in Users : TRUE, client |-> NoClient,
         shown |-> NoToken, next |-> NoToken, byToken |-> NoRow,
         byClient |-> NoRow, checked |-> FALSE, stale |-> FALSE]

SessionsTypeOK ==
  /\ session \in [Rows -> SessionRow]
  /\ call \in [Calls -> Request]
  /\ DOMAIN owner \subseteq Tokens
  /\ \A t \in DOMAIN owner : owner[t] \in Users
  /\ handed \subseteq DOMAIN owner
  /\ account \in [Users -> {"ACTIVE", "DISABLED", "DELETED"}]

SessionsInit ==
  /\ session = [r \in Rows |-> FreeRow]
  /\ call = [c \in Calls |-> Idle]
  /\ owner = [t \in {} |-> CHOOSE u \in Users : TRUE]
  /\ handed = {}
  /\ account = [u \in Users |-> "ACTIVE"]

-----------------------------------------------------------------------------
(***************************************************************************)
(* The repository's queries.                                               *)
(***************************************************************************)
Kept(r) == session[r].state = "kept"

\* findSessionByToken: refreshToken is unique
SessionByToken(t) ==
  IF t # NoToken /\ \E r \in Rows : Kept(r) /\ session[r].token = t
  THEN CHOOSE r \in Rows : Kept(r) /\ session[r].token = t
  ELSE NoRow

\* findUserSessionByClientSessionId: (userId, clientSessionId) is unique
SessionByClient(u, k) ==
  IF k # NoClient
     /\ \E r \in Rows : Kept(r) /\ session[r].user = u /\ session[r].client = k
  THEN CHOOSE r \in Rows : Kept(r) /\ session[r].user = u /\ session[r].client = k
  ELSE NoRow

Live(r) == Kept(r) /\ ~session[r].revoked

LiveOf(u) == {r \in Rows : Live(r) /\ session[r].user = u}

\* deleteSession, deleteSessionByToken, deleteAllUserSessions and
\* deleteOtherUserSessions all write this
Revoked(row) == [row EXCEPT !.token = NoToken, !.revoked = TRUE]

RevokedRows(S) == [r \in Rows |-> IF r \in S THEN Revoked(session[r])
                                             ELSE session[r]]

Touching == {"touching", "merging", "writing"}

\* The requests in flight that have read one of the sessions S of a user, which
\* change, or a session that had a token of theirs
Overtaken(calls, S, u) ==
  [c \in Calls |-> IF /\ calls[c].phase \in Touching
                      /\ \/ calls[c].user = u
                         \/ calls[c].shown \in {session[r].token : r \in S} \ {NoToken}
                   THEN [calls[c] EXCEPT !.stale = TRUE] ELSE calls[c]]

\* The statement that ends the sessions of S, seen by the requests in flight
EndsSessions(S, u) ==
  /\ session' = RevokedRows(S)
  /\ call' = Overtaken(call, S, u)

-----------------------------------------------------------------------------
(***************************************************************************)
(* The beginnings of the requests.  Expired signatures and rows and an     *)
(* organization that is closed (Licensing) can refuse any of them at any   *)
(* time: a request refused before it writes does not begin, and a Google   *)
(* sign-in, which asks for the organization last, gets no answer.          *)
(***************************************************************************)
Fresh(t) == t \in Tokens \ DOMAIN owner

Mint(t, u) == owner' = [s \in DOMAIN owner \cup {t} |->
                          IF s = t THEN u ELSE owner[s]]

SignIn(c, u, k, t) ==
  /\ call[c].phase = "idle"
  /\ Fresh(t)
  /\ account[u] = "ACTIVE"
  /\ Mint(t, u)
  /\ call' = [call EXCEPT ![c] = [Idle EXCEPT
       !.phase = "touching", !.op = "signIn", !.user = u, !.client = k, !.shown = t]]
  /\ UNCHANGED <<session, handed, account>>

\* refreshToken up to its call of touchOwnSession
Refresh(c, t, k, next) ==
  LET r == SessionByToken(t) IN
  /\ call[c].phase = "idle"
  /\ t \in handed
  /\ r # NoRow
  /\ account[owner[t]] = "ACTIVE"
  /\ Fresh(next)
  /\ Mint(next, owner[t])
  /\ call' = [call EXCEPT ![c] = [Idle EXCEPT
       !.phase = "touching", !.op = "refresh", !.user = owner[t],
       !.client = IF k = NoClient THEN session[r].client ELSE k,
       !.shown = t, !.next = next]]
  /\ UNCHANGED <<session, handed, account>>

\* refreshToken after the row's time ends the session
RefreshExpired(t) ==
  LET r == SessionByToken(t) IN
  /\ t \in handed
  /\ r # NoRow
  /\ EndsSessions({r}, session[r].user)
  /\ UNCHANGED <<owner, handed, account>>

\* assertClientSessionActive, for the routes that allow a missing session
ClientAdmitted(u, k) ==
  LET r == SessionByClient(u, k)
  IN r # NoRow => ~session[r].revoked

\* The middleware looks at the client of the header only.  One that the body
\* names instead (clientSessionIdFrom of the controller) is not looked at.
ClientChecked(u, k, checked) ==
  checked => k # NoClient /\ ClientAdmitted(u, k)

Entered(u) == \E t \in handed : owner[t] = u

\* heartbeatOwnSession, and the touch listOwnSessions begins with
Heartbeat(c, u, t, k, checked) ==
  /\ call[c].phase = "idle"
  /\ Entered(u)
  /\ t = NoToken \/ t \in handed
  /\ t # NoToken \/ k # NoClient
  /\ ClientChecked(u, k, checked)
  /\ call' = [call EXCEPT ![c] = [Idle EXCEPT
       !.phase = "touching", !.op = "heartbeat", !.user = u, !.client = k,
       !.shown = t, !.checked = checked]]
  /\ UNCHANGED <<session, owner, handed, account>>

-----------------------------------------------------------------------------
(***************************************************************************)
(* touchOwnSession: two reads, the end of the token's session when the     *)
(* client has another one, and the write.                                  *)
(***************************************************************************)
Target(c) == IF call[c].byClient # NoRow THEN call[c].byClient
                                         ELSE call[c].byToken

OfUser(r, u) == r # NoRow => session[r].user = u

TouchAllowedOnRevoked(rt, rk, u) == OfUser(rt, u)

\* A revoked session is not touched by a request that shows a token in force
TouchAllowed(rt, rk, u) ==
  LET r == IF rk # NoRow THEN rk ELSE rt IN
  /\ OfUser(rt, u)
  /\ rt # NoRow => ~session[r].revoked

TouchRead(c) ==
  LET rt == SessionByToken(call[c].shown)
      rk == SessionByClient(call[c].user, call[c].client)
  IN
  /\ call[c].phase = "touching"
  /\ call' = [call EXCEPT ![c] =
       IF TouchAllowed(rt, rk, call[c].user)
       THEN [@ EXCEPT !.phase = IF NoRow \notin {rt, rk} /\ rt # rk
                                THEN "merging" ELSE "writing",
                      !.byToken = rt, !.byClient = rk]
       ELSE Idle]
  /\ UNCHANGED <<session, owner, handed, account>>

TouchMerge(c) ==
  LET r == call[c].byToken IN
  /\ call[c].phase = "merging"
  /\ Kept(r)
  /\ session' = RevokedRows({r})
  /\ call' = [Overtaken(call, {r}, call[c].user)
                EXCEPT ![c] = [call[c] EXCEPT !.phase = "writing",
                                              !.byToken = NoRow]]
  /\ UNCHANGED <<owner, handed, account>>

TokenAfterUnguarded(row, next, shown) ==
  IF next # NoToken THEN next ELSE shown

\* data.refreshToken: the next token, or the one shown, or none to write
TokenAfter(row, next, shown) ==
  IF next # NoToken THEN next ELSE IF shown # NoToken THEN shown ELSE row.token

Touched(row, x) ==
  [state |-> "kept", user |-> x.user,
   token |-> TokenAfter(row, x.next, x.shown),
   client |-> IF x.client = NoClient THEN row.client ELSE x.client,
   revoked |-> FALSE]

\* The unique indexes on refreshToken and on (userId, clientSessionId)
Unique(r, row) ==
  \A q \in Rows \ {r} : Kept(q) =>
    /\ row.token = NoToken \/ session[q].token # row.token
    /\ row.client = NoClient \/ session[q].client # row.client
         \/ session[q].user # row.user

AnswerOfRefresh(x) == {x.next}

\* The tokens a sign-in or a refresh answers with.  Between the write and the
\* response there are only reads, which may refuse (a deleted user; for Google,
\* the organization): the client then gets none.
Answer(x) == {IF x.next # NoToken THEN x.next ELSE x.shown} \ {NoToken}

TouchWrite(c) ==
  \E r \in IF Target(c) = NoRow THEN {q \in Rows : session[q].state = "free"}
                                ELSE {Target(c)} :
    LET row == Touched(session[r], call[c]) IN
    /\ call[c].phase = "writing"
    /\ Target(c) # NoRow => Kept(r)
    /\ Unique(r, row)
    /\ session' = [session EXCEPT ![r] = row]
    /\ call' = [Overtaken(call, {r}, call[c].user) EXCEPT ![c] = Idle]
    /\ handed' \in {handed, handed \cup Answer(call[c])}
    /\ UNCHANGED <<owner, account>>

\* A statement that fails (a row that is gone, a unique index), a refusal, a
\* killed handler: the request ends where it is
Fails(c) ==
  /\ call[c].phase # "idle"
  /\ call' = [call EXCEPT ![c] = Idle]
  /\ UNCHANGED <<session, owner, handed, account>>

-----------------------------------------------------------------------------
(***************************************************************************)
(* Ending sessions: signing out, revoking one of one's own sessions (two   *)
(* statements), signing a user out everywhere or everywhere else (after a  *)
(* password change, by an administrator, by the subscription sweep), and   *)
(* deleting the user.                                                      *)
(***************************************************************************)
Logout(t) ==
  LET r == SessionByToken(t) IN
  /\ t \in handed
  /\ r # NoRow
  /\ EndsSessions({r}, session[r].user)
  /\ UNCHANGED <<owner, handed, account>>

RevokeRead(c, u, r, t, k, checked) ==
  /\ call[c].phase = "idle"
  /\ Entered(u)
  /\ ClientChecked(u, k, checked)
  /\ checked => SessionByClient(u, k) # NoRow
  /\ r \in LiveOf(u)
  /\ t = NoToken \/ session[r].token # t
  /\ k = NoClient \/ session[r].client # k
  /\ call' = [call EXCEPT ![c] = [Idle EXCEPT
       !.phase = "revoking", !.op = "revoke", !.user = u, !.byToken = r]]
  /\ UNCHANGED <<session, owner, handed, account>>

RevokeWrite(c) ==
  LET r == call[c].byToken IN
  /\ call[c].phase = "revoking"
  /\ Kept(r)
  /\ session' = RevokedRows({r})
  /\ call' = [Overtaken(call, {r}, session[r].user) EXCEPT ![c] = Idle]
  /\ UNCHANGED <<owner, handed, account>>

RevokeAll(u) ==
  /\ LiveOf(u) # {}
  /\ EndsSessions(LiveOf(u), u)
  /\ UNCHANGED <<owner, handed, account>>

Others(u, t) == {r \in LiveOf(u) : session[r].token # t}

RevokeOthers(u, t) ==
  /\ Entered(u)
  /\ t \in handed
  /\ EndsSessions(Others(u, t), u)
  /\ UNCHANGED <<owner, handed, account>>

DeleteUser(u) ==
  LET S == {r \in Rows : Kept(r) /\ session[r].user = u} IN
  /\ account[u] # "DELETED"
  /\ account' = [account EXCEPT ![u] = "DELETED"]
  /\ session' = [r \in Rows |-> IF r \in S
       THEN [FreeRow EXCEPT !.state = "erased"] ELSE session[r]]
  /\ call' = Overtaken(call, S, u)
  /\ UNCHANGED <<owner, handed>>

\* deleteMe: the sessions stay, and refuse the next refresh
DeleteMe(u) ==
  /\ account[u] # "DELETED"
  /\ Entered(u)
  /\ account' = [account EXCEPT ![u] = "DELETED"]
  /\ UNCHANGED <<session, call, owner, handed>>

-----------------------------------------------------------------------------
\* updateUser suspends and reactivates accounts
SetAccount(u) ==
  /\ account[u] # "DELETED"
  /\ \E s \in {"ACTIVE", "DISABLED"} : account' = [account EXCEPT ![u] = s]
  /\ UNCHANGED <<session, call, owner, handed>>

-----------------------------------------------------------------------------
TouchStep(c) == TouchRead(c) \/ TouchMerge(c) \/ TouchWrite(c)

SessionsNext ==
  \/ \E c \in Calls :
       \/ TouchStep(c) \/ RevokeWrite(c) \/ Fails(c)
       \/ \E u \in Users, k \in Clients \cup {NoClient} :
            \/ \E t \in Tokens : SignIn(c, u, k, t)
            \/ \E t \in Tokens \cup {NoToken}, checked \in BOOLEAN :
                 \/ Heartbeat(c, u, t, k, checked)
                 \/ \E r \in Rows : RevokeRead(c, u, r, t, k, checked)
       \/ \E t, next \in Tokens, k \in Clients \cup {NoClient} :
            Refresh(c, t, k, next)
  \/ \E t \in Tokens : Logout(t) \/ RefreshExpired(t)
  \/ \E u \in Users : \/ RevokeAll(u) \/ DeleteUser(u) \/ DeleteMe(u) \/ SetAccount(u)
                      \/ \E t \in Tokens : RevokeOthers(u, t)

SessionsSpec == SessionsInit /\ [][SessionsNext]_sessionVars

-----------------------------------------------------------------------------
(***************************************************************************)
(* Properties.                                                             *)
(***************************************************************************)
Writes(c) == call[c].phase = "writing" /\ session' # session
             /\ call'[c].phase # "writing"

\* A session that was revoked -- signed out, revoked from another device, ended
\* by a password change or an administrator -- is in force again only after a
\* new sign-in on its client, whatever refreshes and heartbeats arrive, unless
\* one of them had begun before it was revoked, or is a heartbeat that shows no
\* token in force and names the client where the middleware does not look, in
\* its body (touchOwnSession, clientSessionIdFrom).
RevivesUnchecked(c) ==
  call[c].op = "heartbeat" /\ ~call[c].checked /\ call[c].byToken = NoRow

RevokedStaysOut ==
  [][\A r \in Rows :
       /\ session[r].revoked
       /\ session'[r].state = "kept"
       /\ ~session'[r].revoked
       => \E c \in Calls :
            /\ Writes(c)
            /\ call[c].op = "signIn" \/ call[c].stale \/ RevivesUnchecked(c)]_sessionVars

\* A token in force stops being so only because its session ended, its own
\* refresh replaced it, its client signed in again or took over another session
\* of the user, a heartbeat showed another one, or a request whose reads had
\* become stale wrote the row: in particular a heartbeat that shows no token
\* keeps it (data.refreshToken).
TokenLostForAReason ==
  [][\A r \in Rows :
       LET t == session[r].token IN
       t # NoToken /\ session'[r].token # t =>
         \/ session'[r].revoked
         \/ session'[r].state = "erased"
         \/ \E c \in Calls :
              /\ Writes(c)
              /\ \/ call[c].op = "signIn"
                 \/ call[c].op = "refresh" /\ (call[c].shown = t \/ call[c].byToken = NoRow)
                 \/ call[c].op = "heartbeat" /\ call[c].shown \notin {NoToken, t}
                 \/ call[c].stale]_sessionVars
=============================================================================
