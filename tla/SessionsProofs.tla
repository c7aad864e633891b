--------------------------- MODULE SessionsProofs ---------------------------
(***************************************************************************)
(* Login sessions: what requests that read two sessions and then write one *)
(* keep true however they overlap, for any number of users, and the        *)
(* theorems that follow.                                                   *)
(***************************************************************************)
EXTENDS Sessions, TLAPS

USE SessionsAssumption

\* Rows that are not kept say nothing, and a revoked session has no token
RowRight(r) ==
  /\ ~Kept(r) => session[r].token = NoToken /\ ~session[r].revoked
  /\ session[r].revoked => session[r].token = NoToken

\* What the unique indexes say
RowsUnique ==
  \A r, q \in Rows : r # q /\ Kept(r) /\ Kept(q) =>
    /\ session[r].token = NoToken \/ session[q].token # session[r].token
    /\ \/ session[r].client = NoClient
       \/ session[q].client # session[r].client
       \/ session[q].user # session[r].user

\* The operations that touch a session, and the tokens they bring
OpRight(c) ==
  LET x == call[c] IN
  x.phase \in Touching =>
    /\ x.op \in {"signIn", "refresh", "heartbeat"}
    /\ x.op = "heartbeat" => x.next = NoToken
    /\ x.op = "refresh" => x.shown # NoToken

\* A refresh has found the session of its token, and a heartbeat whose client was
\* checked was let in by a session that is not revoked
AdmittedRight(c) ==
  LET x == call[c] IN
  x.phase = "touching" /\ ~x.stale =>
    /\ x.op = "refresh" => \E r \in Rows : Kept(r) /\ session[r].token = x.shown
    /\ x.op = "heartbeat" /\ x.checked =>
         \A r \in Rows : Kept(r) /\ session[r].user = x.user /\ session[r].client = x.client =>
                           ~session[r].revoked

\* The sessions that were read are the user's, and unless what was read is stale
\* the one of the token has it and the one to write is not revoked, unless nobody
\* looked at it
ReadRight(c) ==
  LET x == call[c] IN
  x.phase \in {"merging", "writing"} =>
    /\ \A r \in {x.byToken, x.byClient} \ {NoRow} :
         session[r].state # "free" /\ (Kept(r) => session[r].user = x.user)
    /\ ~x.stale /\ x.op # "signIn" /\ ~RevivesUnchecked(c) /\ Target(c) # NoRow =>
         ~session[Target(c)].revoked
    /\ ~x.stale /\ x.byToken # NoRow =>
         session[x.byToken].token = x.shown /\ x.shown # NoToken

\* A request writes one session: the token's has been merged into the client's
MergeRight(c) ==
  LET x == call[c] IN
  /\ x.phase = "writing" => NoRow \in {x.byToken, x.byClient} \/ x.byToken = x.byClient
  /\ x.phase = "merging" => NoRow \notin {x.byToken, x.byClient} /\ x.byToken # x.byClient
  /\ x.phase = "revoking" => x.byToken # NoRow

\* Requests bring minted tokens
MintedRight(c) == {call[c].shown, call[c].next} \ {NoToken} \subseteq DOMAIN owner

CallRight(c) ==
  OpRight(c) /\ AdmittedRight(c) /\ ReadRight(c) /\ MergeRight(c) /\ MintedRight(c)

RowsRight == RowsUnique /\ \A r \in Rows : RowRight(r)

SessionsRight ==
  /\ SessionsTypeOK
  /\ RowsRight
  /\ \A c \in Calls : CallRight(c)

-----------------------------------------------------------------------------
(***************************************************************************)
(* The queries.                                                            *)
(***************************************************************************)
LEMMA FoundByToken ==
  ASSUME NEW t
  PROVE  /\ SessionByToken(t) \in Rows \cup {NoRow}
         /\ SessionByToken(t) # NoRow =>
              Kept(SessionByToken(t)) /\ session[SessionByToken(t)].token = t /\ t # NoToken
         /\ SessionByToken(t) = NoRow /\ t # NoToken =>
              \A r \in Rows : ~(Kept(r) /\ session[r].token = t)
  <1>1. CASE t # NoToken /\ \E r \in Rows : Kept(r) /\ session[r].token = t
    <2> DEFINE P(r) == Kept(r) /\ session[r].token = t
    <2>1. SessionByToken(t) = CHOOSE r \in Rows : P(r)
      BY <1>1 DEF SessionByToken
    <2>2. \E r \in Rows : P(r)
      BY <1>1
    <2> HIDE DEF P
    <2>3. SessionByToken(t) \in Rows /\ P(SessionByToken(t))
      BY <2>1, <2>2
    <2> QED  BY <1>1, <2>3 DEF P
  <1>2. CASE ~(t # NoToken /\ \E r \in Rows : Kept(r) /\ session[r].token = t)
    BY <1>2 DEF SessionByToken
  <1> QED  BY <1>1, <1>2

LEMMA FoundByClient ==
  ASSUME NEW u, NEW k
  PROVE  /\ SessionByClient(u, k) \in Rows \cup {NoRow}
         /\ SessionByClient(u, k) # NoRow =>
              /\ Kept(SessionByClient(u, k)) /\ k # NoClient
              /\ session[SessionByClient(u, k)].user = u
              /\ session[SessionByClient(u, k)].client = k
         /\ SessionByClient(u, k) = NoRow /\ k # NoClient =>
              \A r \in Rows : ~(Kept(r) /\ session[r].user = u /\ session[r].client = k)
  <1>1. CASE k # NoClient
             /\ \E r \in Rows : Kept(r) /\ session[r].user = u /\ session[r].client = k
    <2> DEFINE P(r) == Kept(r) /\ session[r].user = u /\ session[r].client = k
    <2>1. SessionByClient(u, k) = CHOOSE r \in Rows : P(r)
      BY <1>1 DEF SessionByClient
    <2>2. \E r \in Rows : P(r)
      BY <1>1
    <2> HIDE DEF P
    <2>3. SessionByClient(u, k) \in Rows /\ P(SessionByClient(u, k))
      BY <2>1, <2>2
    <2> QED  BY <1>1, <2>3 DEF P
  <1>2. CASE ~(k # NoClient
               /\ \E r \in Rows : Kept(r) /\ session[r].user = u /\ session[r].client = k)
    BY <1>2 DEF SessionByClient
  <1> QED  BY <1>1, <1>2

\* By the unique index: the session of a client is the only one.
LEMMA AdmittedByAll ==
  ASSUME RowsRight, NEW u, NEW k, k # NoClient, ClientAdmitted(u, k),
         NEW r \in Rows, Kept(r), session[r].user = u, session[r].client = k
  PROVE  ~session[r].revoked
  <1> DEFINE q == SessionByClient(u, k)
  <1>1. q \in Rows /\ Kept(q) /\ session[q].user = u /\ session[q].client = k
    BY FoundByClient
  <1>2. q = r
    BY <1>1 DEF RowsRight, RowsUnique
  <1> QED  BY <1>1, <1>2 DEF ClientAdmitted

-----------------------------------------------------------------------------
(***************************************************************************)
(* What a change of sessions leaves right.                                 *)
(***************************************************************************)
TokensIn(S) == {session[r].token : r \in S} \ {NoToken}

\* A request that another one may have overtaken
Follows(d, S, u) ==
  LET x == call[d] IN
  /\ call'[d] \in {x, [x EXCEPT !.stale = TRUE]}
  /\ x.phase \in Touching /\ (x.user = u \/ x.shown \in TokensIn(S)) => call'[d].stale

LEMMA OvertakenFollows ==
  ASSUME SessionsTypeOK, NEW S, NEW u, NEW d \in Calls
  PROVE  /\ Overtaken(call, S, u)[d] \in {call[d], [call[d] EXCEPT !.stale = TRUE]}
         /\ call[d].phase \in Touching /\ (call[d].user = u \/ call[d].shown \in TokensIn(S)) =>
              Overtaken(call, S, u)[d].stale
         /\ Overtaken(call, S, u)[d] \in Request
  <1>1. call[d] \in Request
    BY DEF SessionsTypeOK
  <1>2. [call[d] EXCEPT !.stale = TRUE] \in Request /\ [call[d] EXCEPT !.stale = TRUE].stale
    BY <1>1 DEF Request
  <1>3. Overtaken(call, S, u)[d] =
          IF call[d].phase \in Touching /\ (call[d].user = u \/ call[d].shown \in TokensIn(S))
          THEN [call[d] EXCEPT !.stale = TRUE] ELSE call[d]
    BY DEF Overtaken, TokensIn
  <1> QED  BY <1>1, <1>2, <1>3

LEMMA OvertakenTyped ==
  ASSUME SessionsTypeOK, NEW S, NEW u
  PROVE  Overtaken(call, S, u) \in [Calls -> Request]
  <1>1. \A d \in Calls : Overtaken(call, S, u)[d] \in Request
    BY OvertakenFollows
  <1> DEFINE after == Overtaken(call, S, u)
  <1>2. after = [d \in Calls |-> after[d]]
    BY DEF Overtaken
  <1> HIDE DEF after
  <1>3. \A d \in Calls : after[d] \in Request
    BY <1>1 DEF after
  <1>4. after \in [Calls -> Request]
    BY <1>2, <1>3
  <1> QED  BY <1>4 DEF after

\* Sessions of one user change, and requests that have read them are stale.
LEMMA CallKept ==
  ASSUME SessionsRight, NEW S \in SUBSET Rows, NEW u, NEW d \in Calls,
         \A r \in Rows \ S : session'[r] = session[r],
         \A r \in S : /\ session[r].state = "free" \/ (Kept(r) /\ session[r].user = u)
                      /\ session'[r].state # "free"
                      /\ Kept(r)' => session'[r].user = u,
         Follows(d, S, u),
         DOMAIN owner \subseteq DOMAIN owner'
  PROVE  CallRight(d)'
  <1> DEFINE x == call[d]
             y == call'[d]
  <1>1. CallRight(d) /\ x \in Request
    BY DEF SessionsRight, SessionsTypeOK
  <1>2. /\ y.phase = x.phase /\ y.op = x.op /\ y.user = x.user /\ y.client = x.client
        /\ y.shown = x.shown /\ y.next = x.next /\ y.checked = x.checked
        /\ y.byToken = x.byToken /\ y.byClient = x.byClient
        /\ x.stale => y.stale
    BY <1>1 DEF Follows, Request
  <1>3. x.phase \in Touching /\ ~y.stale => x.user # u /\ x.shown \notin TokensIn(S)
    BY DEF Follows
  <1> HIDE DEF x, y
  <1>4. OpRight(d)'
    BY <1>1, <1>2 DEF CallRight, OpRight, x, y
  <1>5. AdmittedRight(d)'
    <2>1. ASSUME x.phase = "touching", ~y.stale, x.op = "refresh"
          PROVE  \E r \in Rows : Kept(r)' /\ session'[r].token = x.shown
      <3>1. PICK r \in Rows : Kept(r) /\ session[r].token = x.shown
        BY <1>1, <1>2, <2>1 DEF CallRight, AdmittedRight, x
      <3>2. x.shown # NoToken
        BY <1>1, <2>1 DEF CallRight, OpRight, Touching, x
      <3>3. r \notin S
        BY <1>3, <2>1, <3>1, <3>2 DEF TokensIn, Touching
      <3> QED  BY <3>1, <3>3 DEF Kept
    <2>2. ASSUME x.phase = "touching", ~y.stale, x.op = "heartbeat", x.checked,
                 NEW r \in Rows, Kept(r)', session'[r].user = x.user, session'[r].client = x.client
          PROVE  ~session'[r].revoked
      <3>1. r \notin S
        BY <1>3, <2>2 DEF Touching
      <3>2. session'[r] = session[r]
        BY <3>1
      <3> QED  BY <1>1, <1>2, <2>2, <3>2 DEF CallRight, AdmittedRight, Kept, x
    <2> QED  BY <1>2, <2>1, <2>2 DEF AdmittedRight, x, y
  <1>6. ReadRight(d)'
    <2> SUFFICES ASSUME x.phase \in {"merging", "writing"}
                 PROVE  /\ \A r \in {x.byToken, x.byClient} \ {NoRow} :
                             session'[r].state # "free" /\ (Kept(r)' => session'[r].user = x.user)
                        /\ ~y.stale /\ x.op # "signIn" /\ ~RevivesUnchecked(d) /\ Target(d) # NoRow =>
                             ~session'[Target(d)].revoked
                        /\ ~y.stale /\ x.byToken # NoRow =>
                             session'[x.byToken].token = x.shown /\ x.shown # NoToken
      <3>1. Target(d)' = Target(d) /\ (RevivesUnchecked(d)' <=> RevivesUnchecked(d))
        BY <1>2 DEF Target, RevivesUnchecked, x, y
      <3> QED  BY <1>2, <3>1 DEF ReadRight, x, y
    <2>1. x.byToken \in Rows \cup {NoRow} /\ x.byClient \in Rows \cup {NoRow}
      BY <1>1 DEF Request
    <2>2. ReadRight(d)
      BY <1>1 DEF CallRight
    <2>3. ASSUME NEW r \in {x.byToken, x.byClient} \ {NoRow}
          PROVE  /\ session'[r].state # "free" /\ (Kept(r)' => session'[r].user = x.user)
                 /\ ~y.stale => session'[r] = session[r]
      <3>1. r \in Rows /\ session[r].state # "free" /\ (Kept(r) => session[r].user = x.user)
        BY <2>1, <2>2, <2>3 DEF ReadRight, x
      <3>2. CASE r \in S
        BY <1>3, <3>1, <3>2 DEF Touching
      <3>3. CASE r \notin S
        BY <3>1, <3>3 DEF Kept
      <3> QED  BY <3>2, <3>3
    <2>4. Target(d) # NoRow => Target(d) \in {x.byToken, x.byClient} \ {NoRow}
      BY DEF Target, x
    <2> QED  BY <1>2, <2>2, <2>3, <2>4 DEF ReadRight, x, y
  <1>7. MergeRight(d)'
    BY <1>1, <1>2 DEF CallRight, MergeRight, x, y
  <1>8. MintedRight(d)'
    BY <1>1, <1>2 DEF CallRight, MintedRight, x, y
  <1> QED  BY <1>4, <1>5, <1>6, <1>7, <1>8 DEF CallRight

LEMMA IdleIsRight ==
  /\ Idle \in Request
  /\ \A c \in Calls : call'[c] = Idle => CallRight(c)'
  <1>1. /\ Idle \in Request /\ Idle.phase = "idle"
        /\ Idle.shown = NoToken /\ Idle.next = NoToken
    <2>1. (CHOOSE u \in Users : TRUE) \in Users
      OBVIOUS
    <2> QED  BY <2>1 DEF Idle, Request
  <1>2. \A c \in Calls : call'[c] = Idle => CallRight(c)'
    BY <1>1 DEF CallRight, OpRight, AdmittedRight, ReadRight, MergeRight, MintedRight,
                Touching
  <1> QED  BY <1>1, <1>2

-----------------------------------------------------------------------------
(***************************************************************************)
(* The kinds of step: a request that begins or ends and changes no         *)
(* session, and statements that end sessions of one user.                  *)
(***************************************************************************)
LEMMA OneCallChanges ==
  ASSUME SessionsRight, NEW c \in Calls, NEW y \in Request,
         call' = [call EXCEPT ![c] = y], session' = session,
         DOMAIN owner' \subseteq Tokens, \A t \in DOMAIN owner' : owner'[t] \in Users,
         DOMAIN owner \subseteq DOMAIN owner', handed' = handed,
         account' \in [Users -> {"ACTIVE", "DISABLED", "DELETED"}],
         CallRight(c)'
  PROVE  SessionsRight'
  <1>1. SessionsTypeOK'
    BY DEF SessionsRight, SessionsTypeOK
  <1>2. RowsRight'
    BY DEF SessionsRight, RowsRight, RowsUnique, RowRight, Kept
  <1>3. ASSUME NEW d \in Calls
        PROVE  CallRight(d)'
    <2>1. CASE d = c
      BY <2>1
    <2>2. CASE d # c
      <3>1. PICK u : u \notin Users
        BY NoSetContainsEverything
      <3>2. call'[d] = call[d] /\ call[d].user \in Users
        BY <2>2 DEF SessionsRight, SessionsTypeOK, Request
      <3>3. Follows(d, {}, u)
        BY <3>1, <3>2 DEF Follows, TokensIn
      <3> QED  BY <3>3, CallKept
    <2> QED  BY <2>1, <2>2
  <1> QED  BY <1>1, <1>2, <1>3 DEF SessionsRight

LEMMA RevokedAreRight ==
  ASSUME SessionsRight, NEW S \in SUBSET Rows, \A r \in S : Kept(r),
         session' = RevokedRows(S)
  PROVE  /\ session' \in [Rows -> SessionRow]
         /\ \A r \in Rows \ S : session'[r] = session[r]
         /\ \A r \in S : /\ Kept(r)' /\ session'[r].user = session[r].user
                         /\ session'[r].token = NoToken /\ session'[r].revoked
         /\ RowsRight'
  <1>1. session \in [Rows -> SessionRow]
    BY DEF SessionsRight, SessionsTypeOK
  <1>2. \A r \in Rows \ S : session'[r] = session[r]
    BY DEF RevokedRows
  <1>3. ASSUME NEW r \in S
        PROVE  /\ Kept(r)' /\ session'[r].user = session[r].user
               /\ session'[r].token = NoToken /\ session'[r].revoked
               /\ session'[r].client = session[r].client
               /\ session'[r] \in SessionRow
    <2>1. session'[r] = Revoked(session[r]) /\ session[r] \in SessionRow /\ Kept(r)
      BY <1>1 DEF RevokedRows
    <2> QED  BY <2>1 DEF Revoked, SessionRow, Kept
  <1>4. session' \in [Rows -> SessionRow]
    <2>1. \A r \in Rows : session'[r] \in SessionRow
      BY <1>1, <1>2, <1>3
    <2>2. session' = [r \in Rows |-> session'[r]]
      BY DEF RevokedRows
    <2> QED  BY <2>1, <2>2
  <1>5. RowsRight'
    <2>1. \A r \in Rows : RowRight(r)'
      BY <1>2, <1>3 DEF SessionsRight, RowsRight, RowRight, Kept
    <2>2. \A r \in Rows : /\ Kept(r)' => Kept(r)
                          /\ session'[r].user = session[r].user
                          /\ session'[r].client = session[r].client
                          /\ session'[r].token \in {session[r].token, NoToken}
      BY <1>2, <1>3 DEF Kept
    <2>3. RowsUnique
      BY DEF SessionsRight, RowsRight
    <2>4. RowsUnique'
      BY <2>2, <2>3 DEF RowsUnique
    <2> QED  BY <2>1, <2>4 DEF RowsRight
  <1> QED  BY <1>2, <1>3, <1>4, <1>5

LEMMA EndingIsRight ==
  ASSUME SessionsRight, NEW S \in SUBSET Rows, NEW u,
         \A r \in S : Kept(r) /\ session[r].user = u,
         EndsSessions(S, u), UNCHANGED <<owner, handed, account>>
  PROVE  SessionsRight'
  <1>1. session' = RevokedRows(S) /\ call' = Overtaken(call, S, u)
    BY DEF EndsSessions
  <1>2. /\ session' \in [Rows -> SessionRow] /\ RowsRight'
        /\ \A r \in Rows \ S : session'[r] = session[r]
        /\ \A r \in S : Kept(r)' /\ session'[r].user = u
    BY <1>1, RevokedAreRight
  <1>3. SessionsTypeOK
    BY DEF SessionsRight
  <1>4. call' \in [Calls -> Request]
    BY <1>1, <1>3, OvertakenTyped
  <1>5. SessionsTypeOK'
    BY <1>2, <1>3, <1>4 DEF SessionsTypeOK
  <1>6. ASSUME NEW d \in Calls
        PROVE  CallRight(d)'
    <2>1. Follows(d, S, u)
      BY <1>1, <1>3, OvertakenFollows DEF Follows
    <2> QED  BY <1>2, <2>1, CallKept DEF Kept
  <1> QED  BY <1>2, <1>5, <1>6 DEF SessionsRight

\* The same for the statement of a request, which goes on or ends.
LEMMA EndingByRequest ==
  ASSUME SessionsRight, NEW S \in SUBSET Rows, NEW u, NEW c \in Calls, NEW y \in Request,
         \A r \in S : Kept(r) /\ session[r].user = u,
         session' = RevokedRows(S),
         call' = [Overtaken(call, S, u) EXCEPT ![c] = y],
         UNCHANGED <<owner, handed, account>>,
         CallRight(c)'
  PROVE  SessionsRight'
  <1>2. /\ session' \in [Rows -> SessionRow] /\ RowsRight'
        /\ \A r \in Rows \ S : session'[r] = session[r]
        /\ \A r \in S : Kept(r)' /\ session'[r].user = u
    BY RevokedAreRight
  <1>3. SessionsTypeOK
    BY DEF SessionsRight
  <1>4. Overtaken(call, S, u) \in [Calls -> Request]
    BY <1>3, OvertakenTyped
  <1>5. SessionsTypeOK'
    BY <1>2, <1>3, <1>4 DEF SessionsTypeOK
  <1>6. ASSUME NEW d \in Calls, d # c
        PROVE  CallRight(d)'
    <2>1. call'[d] = Overtaken(call, S, u)[d]
      BY <1>4, <1>6
    <2>2. Follows(d, S, u)
      BY <1>3, <2>1, OvertakenFollows DEF Follows
    <2> QED  BY <1>2, <2>2, CallKept DEF Kept
  <1> QED  BY <1>2, <1>5, <1>6 DEF SessionsRight

-----------------------------------------------------------------------------
(***************************************************************************)
(* The actions.                                                            *)
(***************************************************************************)
LEMMA SessionsStartRight == SessionsInit => SessionsRight
  <1> SUFFICES ASSUME SessionsInit PROVE SessionsRight
    OBVIOUS
  <1>1. FreeRow \in SessionRow /\ FreeRow.state = "free" /\ ~FreeRow.revoked
        /\ FreeRow.token = NoToken
    <2>1. (CHOOSE u \in Users : TRUE) \in Users
      OBVIOUS
    <2> QED  BY <2>1 DEF FreeRow, SessionRow
  <1>2. SessionsTypeOK
    BY <1>1, IdleIsRight DEF SessionsInit, SessionsTypeOK
  <1>3. RowsRight
    BY <1>1 DEF SessionsInit, RowsRight, RowsUnique, RowRight, Kept
  <1>4. ASSUME NEW c \in Calls PROVE CallRight(c)
    <2>1. call[c].phase = "idle" /\ call[c].shown = NoToken /\ call[c].next = NoToken
      BY DEF SessionsInit, Idle
    <2> QED  BY <2>1 DEF CallRight, OpRight, AdmittedRight, ReadRight, MergeRight,
                         MintedRight, Touching
  <1> QED  BY <1>2, <1>3, <1>4 DEF SessionsRight

\* A token that is minted
LEMMA MintedOnce ==
  ASSUME SessionsTypeOK, NEW t, NEW u \in Users, Fresh(t), Mint(t, u)
  PROVE  /\ DOMAIN owner' = DOMAIN owner \cup {t} /\ DOMAIN owner' \subseteq Tokens
         /\ \A s \in DOMAIN owner' : owner'[s] \in Users
         /\ t \in Tokens
  BY DEF Fresh, Mint, SessionsTypeOK

\* A request that has not read any session yet
LEMMA BeginningIsRight ==
  ASSUME SessionsRight, NEW c \in Calls, NEW y \in Request,
         call' = [call EXCEPT ![c] = y], session' = session,
         DOMAIN owner' \subseteq Tokens, \A t \in DOMAIN owner' : owner'[t] \in Users,
         DOMAIN owner \subseteq DOMAIN owner', UNCHANGED <<handed, account>>,
         y.phase = "touching", y.op \in {"signIn", "refresh", "heartbeat"},
         y.op = "heartbeat" => y.next = NoToken,
         y.op = "refresh" => /\ y.shown # NoToken
                             /\ \E r \in Rows : Kept(r) /\ session[r].token = y.shown,
         y.op = "heartbeat" => ClientChecked(y.user, y.client, y.checked),
         {y.shown, y.next} \ {NoToken} \subseteq DOMAIN owner'
  PROVE  SessionsRight'
  <1>1. call'[c] = y /\ y.phase \notin {"merging", "writing", "revoking"}
    BY DEF SessionsRight, SessionsTypeOK
  <1>2. OpRight(c)' /\ ReadRight(c)' /\ MergeRight(c)' /\ MintedRight(c)'
    BY <1>1 DEF OpRight, ReadRight, MergeRight, MintedRight, Touching
  <1>3. AdmittedRight(c)'
    <2>1. ASSUME y.op = "heartbeat", y.checked,
                 NEW r \in Rows, Kept(r), session[r].user = y.user, session[r].client = y.client
          PROVE  ~session[r].revoked
      BY <2>1, AdmittedByAll DEF SessionsRight, ClientChecked
    <2>2. \A r \in Rows : Kept(r)' <=> Kept(r)
      BY DEF Kept
    <2> QED  BY <1>1, <2>1, <2>2 DEF AdmittedRight
  <1>4. account' \in [Users -> {"ACTIVE", "DISABLED", "DELETED"}]
    BY DEF SessionsRight, SessionsTypeOK
  <1> QED  BY <1>2, <1>3, <1>4, OneCallChanges DEF CallRight

LEMMA SignInRight ==
  ASSUME SessionsRight, NEW c \in Calls, NEW u \in Users, NEW k \in Clients \cup {NoClient},
         NEW t \in Tokens, SignIn(c, u, k, t)
  PROVE  SessionsRight'
  <1> DEFINE y == [Idle EXCEPT !.phase = "touching", !.op = "signIn", !.user = u,
                               !.client = k, !.shown = t]
  <1>1. /\ y \in Request /\ y.phase = "touching" /\ y.op = "signIn" /\ y.shown = t
        /\ y.next = NoToken
    <2>1. Idle \in Request /\ Idle.next = NoToken
      BY IdleIsRight DEF Idle
    <2> QED  BY <2>1 DEF Request
  <1>2. call' = [call EXCEPT ![c] = y] /\ UNCHANGED <<session, handed, account>>
    BY DEF SignIn
  <1>3. /\ DOMAIN owner' = DOMAIN owner \cup {t} /\ DOMAIN owner' \subseteq Tokens
        /\ \A s \in DOMAIN owner' : owner'[s] \in Users
    BY MintedOnce DEF SignIn, SessionsRight
  <1> HIDE DEF y
  <1> QED  BY <1>1, <1>2, <1>3, BeginningIsRight

LEMMA RefreshRight ==
  ASSUME SessionsRight, NEW c \in Calls, NEW t \in Tokens, NEW next \in Tokens,
         NEW k \in Clients \cup {NoClient}, Refresh(c, t, k, next)
  PROVE  SessionsRight'
  <1> DEFINE r == SessionByToken(t)
             y == [Idle EXCEPT !.phase = "touching", !.op = "refresh", !.user = owner[t],
                               !.client = IF k = NoClient THEN session[r].client ELSE k,
                               !.shown = t, !.next = next]
  <1>1. r \in Rows /\ Kept(r) /\ session[r].token = t
    BY FoundByToken DEF Refresh
  <1>2. owner[t] \in Users /\ t \in DOMAIN owner /\ session[r].client \in Clients \cup {NoClient}
    BY <1>1 DEF Refresh, SessionsRight, SessionsTypeOK, SessionRow
  <1>3. /\ y \in Request /\ y.phase = "touching" /\ y.op = "refresh" /\ y.shown = t
        /\ y.next = next
    <2>1. Idle \in Request
      BY IdleIsRight
    <2>2. (IF k = NoClient THEN session[r].client ELSE k) \in Clients \cup {NoClient}
      BY <1>2
    <2> QED  BY <1>2, <2>1, <2>2 DEF Request
  <1>4. call' = [call EXCEPT ![c] = y] /\ UNCHANGED <<session, handed, account>>
    BY DEF Refresh
  <1>5. /\ DOMAIN owner' = DOMAIN owner \cup {next} /\ DOMAIN owner' \subseteq Tokens
        /\ \A s \in DOMAIN owner' : owner'[s] \in Users
    <2>1. PICK u \in Users : u = owner[t]
      BY <1>2
    <2>2. Fresh(next) /\ Mint(next, u)
      BY <2>1 DEF Refresh
    <2> QED  BY <2>2, MintedOnce DEF SessionsRight
  <1>6. {y.shown, y.next} \ {NoToken} \subseteq DOMAIN owner'
    BY <1>2, <1>3, <1>5
  <1>7. t # NoToken
    OBVIOUS
  <1> HIDE DEF y, r
  <1> QED  BY <1>1, <1>3, <1>4, <1>5, <1>6, <1>7, BeginningIsRight

LEMMA HeartbeatRight ==
  ASSUME SessionsRight, NEW c \in Calls, NEW u \in Users, NEW k \in Clients \cup {NoClient},
         NEW t \in Tokens \cup {NoToken}, NEW checked \in BOOLEAN, Heartbeat(c, u, t, k, checked)
  PROVE  SessionsRight'
  <1> DEFINE y == [Idle EXCEPT !.phase = "touching", !.op = "heartbeat", !.user = u,
                               !.client = k, !.shown = t, !.checked = checked]
  <1>1. /\ y \in Request /\ y.phase = "touching" /\ y.op = "heartbeat" /\ y.shown = t
        /\ y.next = NoToken /\ y.user = u /\ y.client = k /\ y.checked = checked
    <2>1. Idle \in Request /\ Idle.next = NoToken
      BY IdleIsRight DEF Idle
    <2> QED  BY <2>1 DEF Request
  <1>2. /\ call' = [call EXCEPT ![c] = y] /\ UNCHANGED <<session, owner, handed, account>>
        /\ ClientChecked(u, k, checked) /\ {t} \ {NoToken} \subseteq handed
    BY DEF Heartbeat
  <1>3. /\ DOMAIN owner' \subseteq Tokens /\ \A s \in DOMAIN owner' : owner'[s] \in Users
        /\ DOMAIN owner \subseteq DOMAIN owner'
        /\ {y.shown, y.next} \ {NoToken} \subseteq DOMAIN owner'
    BY <1>1, <1>2 DEF SessionsRight, SessionsTypeOK
  <1> HIDE DEF y
  <1> QED  BY <1>1, <1>2, <1>3, BeginningIsRight

LEMMA RevokeReadRight ==
  ASSUME SessionsRight, NEW c \in Calls, NEW u \in Users, NEW k \in Clients \cup {NoClient},
         NEW t \in Tokens \cup {NoToken}, NEW r \in Rows, NEW checked \in BOOLEAN,
         RevokeRead(c, u, r, t, k, checked)
  PROVE  SessionsRight'
  <1> DEFINE y == [Idle EXCEPT !.phase = "revoking", !.op = "revoke", !.user = u, !.byToken = r]
  <1>1. /\ y \in Request /\ y.phase = "revoking" /\ y.shown = NoToken /\ y.next = NoToken
        /\ y.byToken = r
    <2>1. Idle \in Request /\ Idle.next = NoToken /\ Idle.shown = NoToken
      BY IdleIsRight DEF Idle
    <2> QED  BY <2>1 DEF Request
  <1>2. call' = [call EXCEPT ![c] = y] /\ UNCHANGED <<session, owner, handed, account>>
    BY DEF RevokeRead
  <1>3. call'[c] = y
    BY <1>2 DEF SessionsRight, SessionsTypeOK
  <1> HIDE DEF y
  <1>4. CallRight(c)'
    BY <1>1, <1>3 DEF CallRight, OpRight, AdmittedRight, ReadRight, MergeRight, MintedRight,
                      Touching
  <1>5. /\ DOMAIN owner' \subseteq Tokens /\ \A s \in DOMAIN owner' : owner'[s] \in Users
        /\ account' \in [Users -> {"ACTIVE", "DISABLED", "DELETED"}]
    BY <1>2 DEF SessionsRight, SessionsTypeOK
  <1> QED  BY <1>1, <1>2, <1>4, <1>5, OneCallChanges

LEMMA FailsRight ==
  ASSUME SessionsRight, NEW c \in Calls, Fails(c)
  PROVE  SessionsRight'
  <1>1. call' = [call EXCEPT ![c] = Idle] /\ UNCHANGED <<session, owner, handed, account>>
    BY DEF Fails
  <1>2. CallRight(c)'
    BY <1>1, IdleIsRight DEF SessionsRight, SessionsTypeOK
  <1>3. /\ DOMAIN owner' \subseteq Tokens /\ \A s \in DOMAIN owner' : owner'[s] \in Users
        /\ account' \in [Users -> {"ACTIVE", "DISABLED", "DELETED"}]
    BY <1>1 DEF SessionsRight, SessionsTypeOK
  <1> QED  BY <1>1, <1>2, <1>3, IdleIsRight, OneCallChanges

LEMMA TouchReadRight ==
  ASSUME SessionsRight, NEW c \in Calls, TouchRead(c)
  PROVE  SessionsRight'
  <1> DEFINE x == call[c]
             rt == SessionByToken(x.shown)
             rk == SessionByClient(x.user, x.client)
             ok == TouchAllowed(rt, rk, x.user)
             y == [x EXCEPT !.phase = IF NoRow \notin {rt, rk} /\ rt # rk
                                      THEN "merging" ELSE "writing",
                            !.byToken = rt, !.byClient = rk]
             z == IF ok THEN y ELSE Idle
  <1>1. x \in Request /\ CallRight(c) /\ x.phase = "touching"
    BY DEF SessionsRight, SessionsTypeOK, TouchRead
  <1>2. call' = [call EXCEPT ![c] = z] /\ UNCHANGED <<session, owner, handed, account>>
    BY DEF TouchRead
  <1>3. /\ rt \in Rows \cup {NoRow}
        /\ rt # NoRow => Kept(rt) /\ session[rt].token = x.shown /\ x.shown # NoToken
        /\ rt = NoRow /\ x.shown # NoToken => \A r \in Rows : ~(Kept(r) /\ session[r].token = x.shown)
    BY FoundByToken
  <1>4. /\ rk \in Rows \cup {NoRow}
        /\ rk # NoRow => /\ Kept(rk) /\ x.client # NoClient
                         /\ session[rk].user = x.user /\ session[rk].client = x.client
    BY FoundByClient
  <1>5. call'[c] = z
    BY <1>2 DEF SessionsRight, SessionsTypeOK
  <1>6. /\ y \in Request /\ y.op = x.op /\ y.user = x.user /\ y.shown = x.shown
        /\ y.next = x.next /\ y.byToken = rt /\ y.byClient = rk /\ y.stale = x.stale
        /\ y.checked = x.checked
        /\ y.phase = IF NoRow \notin {rt, rk} /\ rt # rk THEN "merging" ELSE "writing"
    BY <1>1, <1>3, <1>4 DEF Request
  <1>7. ok => (rt # NoRow => session[rt].user = x.user /\ ~session[IF rk # NoRow THEN rk ELSE rt].revoked)
    BY DEF TouchAllowed, OfUser
  <1>8. z \in Request
    BY <1>6, IdleIsRight
  <1> HIDE DEF x, rt, rk, ok, y
  <1>9. CallRight(c)'
    <2>1. CASE ~ok
      BY <1>5, <2>1, IdleIsRight
    <2>2. CASE ok
      <3>1. call'[c] = y /\ y.phase \in {"merging", "writing"}
        BY <1>5, <1>6, <2>2
      <3>2. OpRight(c)' /\ MintedRight(c)' /\ AdmittedRight(c)' /\ MergeRight(c)'
        BY <1>1, <1>2, <1>6, <3>1 DEF CallRight, OpRight, MintedRight, AdmittedRight, MergeRight,
                                      Touching, x
      <3>3. \A r \in {rt, rk} \ {NoRow} :
              session[r].state # "free" /\ session[r].user = x.user
        BY <1>3, <1>4, <1>7, <2>2 DEF Kept
      <3>4. ASSUME ~x.stale, x.op # "signIn", x.op = "heartbeat" => x.checked, rk # NoRow, rt = NoRow
            PROVE  ~session[rk].revoked
        <4>1. x.op \in {"refresh", "heartbeat"} /\ (x.op = "refresh" => x.shown # NoToken)
          BY <1>1, <3>4 DEF CallRight, OpRight, Touching, x
        <4>2. x.op # "refresh"
          BY <1>1, <1>3, <3>4, <4>1 DEF CallRight, AdmittedRight, x
        <4>3. rk \in Rows
          BY <1>4, <3>4
        <4> QED  BY <1>1, <1>4, <3>4, <4>1, <4>2, <4>3 DEF CallRight, AdmittedRight, x
      <3>5. Target(c)' = IF rk # NoRow THEN rk ELSE rt
        BY <1>6, <3>1 DEF Target
      <3>6. ~x.stale /\ x.op # "signIn" /\ ~RevivesUnchecked(c)' /\ Target(c)' # NoRow =>
              ~session[Target(c)'].revoked
        <4>1. RevivesUnchecked(c)' <=> x.op = "heartbeat" /\ ~x.checked /\ rt = NoRow
          BY <1>6, <3>1 DEF RevivesUnchecked
        <4> QED  BY <1>7, <2>2, <3>4, <3>5, <4>1
      <3>7. ReadRight(c)'
        BY <1>2, <1>3, <1>6, <3>1, <3>3, <3>6 DEF ReadRight
      <3> QED  BY <3>2, <3>7 DEF CallRight
    <2> QED  BY <2>1, <2>2
  <1>10. /\ DOMAIN owner' \subseteq Tokens /\ \A s \in DOMAIN owner' : owner'[s] \in Users
         /\ account' \in [Users -> {"ACTIVE", "DISABLED", "DELETED"}]
    BY <1>2 DEF SessionsRight, SessionsTypeOK
  <1> HIDE DEF z
  <1> QED  BY <1>2, <1>8, <1>9, <1>10, OneCallChanges

LEMMA TouchMergeRight ==
  ASSUME SessionsRight, NEW c \in Calls, TouchMerge(c)
  PROVE  SessionsRight'
  <1> DEFINE x == call[c]
             y == [x EXCEPT !.phase = "writing", !.byToken = NoRow]
  <1>1. x \in Request /\ CallRight(c) /\ x.phase = "merging" /\ Kept(x.byToken)
    BY DEF SessionsRight, SessionsTypeOK, TouchMerge
  <1>2. x.byToken \in Rows /\ x.byClient \in Rows /\ x.byToken # x.byClient
    BY <1>1 DEF CallRight, MergeRight, Request
  <1>3. PICK b \in Rows : b = x.byToken
    BY <1>2
  <1>4. PICK u \in Users : u = x.user
    BY <1>1 DEF Request
  <1>5. /\ session' = RevokedRows({b})
        /\ call' = [Overtaken(call, {b}, u) EXCEPT ![c] = y]
        /\ UNCHANGED <<owner, handed, account>>
    BY <1>3, <1>4 DEF TouchMerge
  <1>6. Kept(b) /\ session[b].user = u
    BY <1>1, <1>3, <1>4 DEF CallRight, ReadRight
  <1>7. /\ y \in Request /\ y.phase = "writing" /\ y.op = x.op /\ y.user = x.user
        /\ y.shown = x.shown /\ y.next = x.next /\ y.byToken = NoRow
        /\ y.byClient = x.byClient /\ y.stale = x.stale /\ y.checked = x.checked
    BY <1>1 DEF Request
  <1>8. call'[c] = y
    <2>1. c \in DOMAIN Overtaken(call, {b}, u)
      BY DEF Overtaken
    <2> QED  BY <1>5, <2>1
  <1>9. session'[x.byClient] = session[x.byClient]
    BY <1>2, <1>3, <1>5 DEF RevokedRows
  <1> HIDE DEF x, y
  <1>10. CallRight(c)'
    <2>1. OpRight(c)' /\ MintedRight(c)' /\ AdmittedRight(c)' /\ MergeRight(c)'
      BY <1>1, <1>5, <1>7, <1>8 DEF CallRight, OpRight, MintedRight, AdmittedRight, MergeRight,
                                    Touching, x
    <2>2. Target(c)' = x.byClient /\ Target(c) = x.byClient
      BY <1>2, <1>7, <1>8 DEF Target, x
    <2>3. ReadRight(c)
      BY <1>1 DEF CallRight
    <2>4. \A r \in {y.byToken, y.byClient} \ {NoRow} :
            session'[r].state # "free" /\ (Kept(r)' => session'[r].user = y.user)
      BY <1>1, <1>2, <1>7, <1>9, <2>3 DEF ReadRight, Kept, x
    <2>5. ~y.stale /\ y.op # "signIn" => ~session'[x.byClient].revoked
      <3>1. ~RevivesUnchecked(c)
        BY <1>2 DEF RevivesUnchecked, x
      <3> QED  BY <1>1, <1>2, <1>7, <1>9, <2>2, <2>3, <3>1 DEF ReadRight, x
    <2>6. ReadRight(c)'
      BY <1>7, <1>8, <2>2, <2>4, <2>5 DEF ReadRight
    <2> QED  BY <2>1, <2>6 DEF CallRight
  <1>11. {b} \in SUBSET Rows /\ \A r \in {b} : Kept(r) /\ session[r].user = u
    BY <1>6
  <1> QED  BY <1>5, <1>7, <1>10, <1>11, EndingByRequest

\* What the write of a request writes: a session in force, and nobody else's
LEMMA WriteFacts ==
  ASSUME SessionsRight, NEW c \in Calls,
         NEW r \in IF Target(c) = NoRow THEN {q \in Rows : session[q].state = "free"}
                                        ELSE {Target(c)},
         call[c].phase = "writing", Target(c) # NoRow => Kept(r)
  PROVE  /\ r \in Rows /\ call[c] \in Request /\ session[r] \in SessionRow
         /\ session[r].state = "free" \/ (Kept(r) /\ session[r].user = call[c].user /\ r = Target(c))
         /\ Touched(session[r], call[c]) \in SessionRow
         /\ Touched(session[r], call[c]).state = "kept"
         /\ Touched(session[r], call[c]).user = call[c].user
         /\ ~Touched(session[r], call[c]).revoked
         /\ Touched(session[r], call[c]).token =
              TokenAfter(session[r], call[c].next, call[c].shown)
  <1>1. call[c] \in Request /\ CallRight(c) /\ session \in [Rows -> SessionRow]
    BY DEF SessionsRight, SessionsTypeOK
  <1>2. Target(c) \in Rows \cup {NoRow} /\ Target(c) \in {call[c].byToken, call[c].byClient}
    BY <1>1 DEF Target, Request
  <1>3. r \in Rows /\ session[r] \in SessionRow
    BY <1>1, <1>2
  <1>4. session[r].state = "free" \/ (Kept(r) /\ session[r].user = call[c].user /\ r = Target(c))
    BY <1>1, <1>2 DEF CallRight, ReadRight
  <1>5. TokenAfter(session[r], call[c].next, call[c].shown) \in Tokens \cup {NoToken}
    BY <1>1, <1>3 DEF TokenAfter, Request, SessionRow
  <1>6. (IF call[c].client = NoClient THEN session[r].client ELSE call[c].client)
           \in Clients \cup {NoClient}
    BY <1>1, <1>3 DEF Request, SessionRow
  <1>7. call[c].user \in Users
    BY <1>1 DEF Request
  <1> QED  BY <1>1, <1>3, <1>4, <1>5, <1>6, <1>7 DEF Touched, SessionRow

LEMMA TouchWriteRight ==
  ASSUME SessionsRight, NEW c \in Calls, TouchWrite(c)
  PROVE  SessionsRight'
  <1>1. PICK r \in IF Target(c) = NoRow THEN {q \in Rows : session[q].state = "free"}
                                        ELSE {Target(c)} :
          /\ call[c].phase = "writing"
          /\ Target(c) # NoRow => Kept(r)
          /\ Unique(r, Touched(session[r], call[c]))
          /\ session' = [session EXCEPT ![r] = Touched(session[r], call[c])]
          /\ call' = [Overtaken(call, {r}, call[c].user) EXCEPT ![c] = Idle]
          /\ handed' \in {handed, handed \cup Answer(call[c])}
          /\ UNCHANGED <<owner, account>>
    BY DEF TouchWrite
  <1> DEFINE x == call[c]
             row == Touched(session[r], x)
  <1>2. /\ r \in Rows /\ x \in Request /\ row \in SessionRow
        /\ session[r].state = "free" \/ (Kept(r) /\ session[r].user = x.user)
        /\ row.state = "kept" /\ row.user = x.user /\ ~row.revoked
    BY <1>1, WriteFacts
  <1>3. PICK u \in Users : u = x.user
    BY <1>2 DEF Request
  <1>4. SessionsTypeOK /\ RowsRight /\ CallRight(c)
    BY DEF SessionsRight
  <1>5. session'[r] = row /\ \A q \in Rows \ {r} : session'[q] = session[q]
    BY <1>1, <1>2, <1>4 DEF SessionsTypeOK
  <1>6. call' = [Overtaken(call, {r}, u) EXCEPT ![c] = Idle]
    BY <1>1, <1>3
  <1>7. Unique(r, row)
    BY <1>1
  <1>8. session' \in [Rows -> SessionRow]
    BY <1>1, <1>2, <1>4 DEF SessionsTypeOK
  <1>9. x.phase = "writing" /\ handed' \in {handed, handed \cup Answer(x)}
        /\ UNCHANGED <<owner, account>>
    BY <1>1
  <1> HIDE DEF x, row
  <1>10. Overtaken(call, {r}, u) \in [Calls -> Request]
    BY <1>4, OvertakenTyped
  <1>11. handed' \subseteq DOMAIN owner
    BY <1>4, <1>9 DEF CallRight, MintedRight, Answer, SessionsTypeOK, x
  <1>12. SessionsTypeOK'
    BY <1>4, <1>6, <1>8, <1>9, <1>10, <1>11, IdleIsRight DEF SessionsTypeOK
  <1>13. RowsRight'
    <2>1. ASSUME NEW q \in Rows PROVE RowRight(q)'
      BY <1>2, <1>4, <1>5 DEF RowsRight, RowRight, Kept
    <2>2. ASSUME NEW p \in Rows, NEW q \in Rows, p # q, Kept(p)', Kept(q)'
          PROVE  /\ session'[p].token = NoToken \/ session'[q].token # session'[p].token
                 /\ \/ session'[p].client = NoClient
                    \/ session'[q].client # session'[p].client
                    \/ session'[q].user # session'[p].user
      <3>1. CASE p = r
        BY <1>5, <1>7, <2>2, <3>1 DEF Unique, Kept
      <3>2. CASE q = r
        BY <1>5, <1>7, <2>2, <3>2 DEF Unique, Kept
      <3>3. CASE p # r /\ q # r
        BY <1>4, <1>5, <2>2, <3>3 DEF RowsRight, RowsUnique, Kept
      <3> QED  BY <3>1, <3>2, <3>3
    <2> QED  BY <2>1, <2>2 DEF RowsRight, RowsUnique
  <1>14. ASSUME NEW d \in Calls PROVE CallRight(d)'
    <2>1. CASE d = c
      BY <1>6, <1>10, <2>1, IdleIsRight
    <2>2. CASE d # c
      <3>1. call'[d] = Overtaken(call, {r}, u)[d]
        BY <1>6, <1>10, <2>2
      <3>2. Follows(d, {r}, u)
        BY <1>4, <3>1, OvertakenFollows DEF Follows
      <3>3. \A q \in {r} : /\ session[q].state = "free" \/ (Kept(q) /\ session[q].user = u)
                           /\ session'[q].state # "free"
                           /\ Kept(q)' => session'[q].user = u
        BY <1>2, <1>3, <1>5
      <3>4. {r} \in SUBSET Rows /\ DOMAIN owner \subseteq DOMAIN owner'
        BY <1>2, <1>9
      <3> QED  BY <1>5, <3>2, <3>3, <3>4, CallKept
    <2> QED  BY <2>1, <2>2
  <1> QED  BY <1>12, <1>13, <1>14 DEF SessionsRight

LEMMA RevokeWriteRight ==
  ASSUME SessionsRight, NEW c \in Calls, RevokeWrite(c)
  PROVE  SessionsRight'
  <1>1. call[c] \in Request /\ CallRight(c) /\ call[c].phase = "revoking"
    BY DEF SessionsRight, SessionsTypeOK, RevokeWrite
  <1>2. PICK b \in Rows : b = call[c].byToken
    BY <1>1 DEF CallRight, MergeRight, Request
  <1>3. PICK u \in Users : u = session[b].user
    BY DEF SessionsRight, SessionsTypeOK, SessionRow
  <1>4. /\ session' = RevokedRows({b}) /\ Kept(b)
        /\ call' = [Overtaken(call, {b}, u) EXCEPT ![c] = Idle]
        /\ UNCHANGED <<owner, handed, account>>
    BY <1>2, <1>3 DEF RevokeWrite
  <1>5. CallRight(c)'
    <2>1. c \in DOMAIN Overtaken(call, {b}, u)
      BY DEF Overtaken
    <2>2. call'[c] = Idle
      BY <1>4, <2>1
    <2> QED  BY <2>2, IdleIsRight
  <1>6. {b} \in SUBSET Rows /\ \A r \in {b} : Kept(r) /\ session[r].user = u
    BY <1>3, <1>4
  <1> QED  BY <1>4, <1>5, <1>6, IdleIsRight, EndingByRequest

LEMMA OneEndRight ==
  ASSUME SessionsRight, NEW t \in Tokens, Logout(t) \/ RefreshExpired(t)
  PROVE  SessionsRight'
  <1>1. SessionByToken(t) \in Rows /\ Kept(SessionByToken(t))
    BY FoundByToken DEF Logout, RefreshExpired
  <1>2. PICK r \in Rows : r = SessionByToken(t)
    BY <1>1
  <1>3. PICK u \in Users : u = session[r].user
    BY DEF SessionsRight, SessionsTypeOK, SessionRow
  <1>4. EndsSessions({r}, u) /\ UNCHANGED <<owner, handed, account>>
    BY <1>2, <1>3 DEF Logout, RefreshExpired
  <1>5. \A q \in {r} : Kept(q) /\ session[q].user = u
    BY <1>1, <1>2, <1>3
  <1> QED  BY <1>4, <1>5, EndingIsRight

LEMMA EndsOfUserRight ==
  ASSUME SessionsRight, NEW u \in Users,
         RevokeAll(u) \/ \E t \in Tokens : RevokeOthers(u, t)
  PROVE  SessionsRight'
  <1>1. PICK S \in SUBSET LiveOf(u) : EndsSessions(S, u) /\ UNCHANGED <<owner, handed, account>>
    BY DEF RevokeAll, RevokeOthers, Others
  <1>2. S \in SUBSET Rows /\ \A r \in S : Kept(r) /\ session[r].user = u
    BY DEF LiveOf, Live
  <1> QED  BY <1>1, <1>2, EndingIsRight

LEMMA DeleteUserRight ==
  ASSUME SessionsRight, NEW u \in Users, DeleteUser(u)
  PROVE  SessionsRight'
  <1>1. PICK S \in SUBSET Rows : S = {r \in Rows : Kept(r) /\ session[r].user = u}
    OBVIOUS
  <1> DEFINE gone == [FreeRow EXCEPT !.state = "erased"]
  <1>2. /\ session' = [r \in Rows |-> IF r \in S THEN gone ELSE session[r]]
        /\ call' = Overtaken(call, S, u)
        /\ account' = [account EXCEPT ![u] = "DELETED"]
        /\ UNCHANGED <<owner, handed>>
    BY <1>1 DEF DeleteUser
  <1>3. gone \in SessionRow /\ gone.state = "erased" /\ gone.token = NoToken /\ ~gone.revoked
    <2>1. (CHOOSE v \in Users : TRUE) \in Users
      OBVIOUS
    <2> QED  BY <2>1 DEF FreeRow, SessionRow
  <1> HIDE DEF gone
  <1>4. SessionsTypeOK /\ RowsRight
    BY DEF SessionsRight
  <1>5. \A r \in Rows : session'[r] = IF r \in S THEN gone ELSE session[r]
    BY <1>2
  <1>6. session' \in [Rows -> SessionRow]
    <2>1. \A r \in Rows : (IF r \in S THEN gone ELSE session[r]) \in SessionRow
      BY <1>3, <1>4 DEF SessionsTypeOK
    <2> QED  BY <1>2, <2>1
  <1>7. call' \in [Calls -> Request]
    BY <1>2, <1>4, OvertakenTyped
  <1>8. SessionsTypeOK'
    BY <1>2, <1>4, <1>6, <1>7 DEF SessionsTypeOK
  <1>9. RowsRight'
    BY <1>3, <1>4, <1>5 DEF RowsRight, RowsUnique, RowRight, Kept
  <1>10. ASSUME NEW d \in Calls PROVE CallRight(d)'
    <2>1. Follows(d, S, u)
      BY <1>2, <1>4, OvertakenFollows DEF Follows
    <2>2. \A r \in Rows \ S : session'[r] = session[r]
      BY <1>5
    <2>3. \A r \in S : /\ session[r].state = "free" \/ (Kept(r) /\ session[r].user = u)
                       /\ session'[r].state # "free"
                       /\ Kept(r)' => session'[r].user = u
      BY <1>1, <1>3, <1>5 DEF Kept
    <2> QED  BY <1>2, <2>1, <2>2, <2>3, CallKept
  <1> QED  BY <1>8, <1>9, <1>10 DEF SessionsRight

LEMMA SetAccountRight ==
  ASSUME SessionsRight, NEW u \in Users, SetAccount(u) \/ DeleteMe(u)
  PROVE  SessionsRight'
  <1>1. account' \in [Users -> {"ACTIVE", "DISABLED", "DELETED"}]
    BY DEF SetAccount, DeleteMe, SessionsRight, SessionsTypeOK
  <1>2. UNCHANGED <<session, call, owner, handed>>
    BY DEF SetAccount, DeleteMe
  <1> QED  BY <1>1, <1>2 DEF SessionsRight, SessionsTypeOK, RowsRight, RowsUnique, RowRight, Kept,
              CallRight, OpRight, AdmittedRight, ReadRight, MergeRight, MintedRight, Target,
                RevivesUnchecked

LEMMA SessionsStepRight ==
  ASSUME SessionsRight, [SessionsNext]_sessionVars
  PROVE  SessionsRight'
  <1>1. CASE UNCHANGED sessionVars
    BY <1>1 DEF sessionVars, SessionsRight, SessionsTypeOK, RowsRight, RowsUnique, RowRight, Kept,
                CallRight, OpRight, AdmittedRight, ReadRight, MergeRight, MintedRight, Target,
                RevivesUnchecked
  <1>2. ASSUME NEW c \in Calls, TouchStep(c) \/ RevokeWrite(c) \/ Fails(c)
        PROVE  SessionsRight'
    BY <1>2, TouchReadRight, TouchMergeRight, TouchWriteRight, RevokeWriteRight, FailsRight
       DEF TouchStep
  <1>3. ASSUME NEW c \in Calls, NEW u \in Users, NEW k \in Clients \cup {NoClient},
               \/ \E t \in Tokens : SignIn(c, u, k, t)
               \/ \E t \in Tokens \cup {NoToken}, checked \in BOOLEAN :
                    \/ Heartbeat(c, u, t, k, checked)
                    \/ \E r \in Rows : RevokeRead(c, u, r, t, k, checked)
        PROVE  SessionsRight'
    BY <1>3, SignInRight, HeartbeatRight, RevokeReadRight
  <1>4. ASSUME NEW c \in Calls,
               \E t, next \in Tokens, k \in Clients \cup {NoClient} : Refresh(c, t, k, next)
        PROVE  SessionsRight'
    BY <1>4, RefreshRight
  <1>5. ASSUME \E t \in Tokens : Logout(t) \/ RefreshExpired(t)
        PROVE  SessionsRight'
    BY <1>5, OneEndRight
  <1>6. ASSUME NEW u \in Users,
               \/ RevokeAll(u) \/ DeleteUser(u) \/ DeleteMe(u) \/ SetAccount(u)
               \/ \E t \in Tokens : RevokeOthers(u, t)
        PROVE  SessionsRight'
    BY <1>6, EndsOfUserRight, DeleteUserRight, SetAccountRight
  <1>7. CASE SessionsNext
    BY <1>2, <1>3, <1>4, <1>5, <1>6, <1>7 DEF SessionsNext
  <1> QED  BY <1>1, <1>7

-----------------------------------------------------------------------------
(***************************************************************************)
(* What a step may do to a session in force or revoked.                    *)
(***************************************************************************)
\* The steps that change sessions: a write, and statements that end them.
LEMMA SessionChanges ==
  ASSUME SessionsRight, [SessionsNext]_sessionVars
  PROVE  \/ session' = session
         \/ \E S \in SUBSET Rows : session' = RevokedRows(S) /\ \A r \in S : Kept(r)
         \/ \E u \in Users : DeleteUser(u)
         \/ \E c \in Calls : TouchWrite(c)
  <1>1. CASE session' = session
    BY <1>1
  <1>2. ASSUME NEW c \in Calls, TouchMerge(c) \/ RevokeWrite(c)
        PROVE  \E S \in SUBSET Rows : session' = RevokedRows(S) /\ \A r \in S : Kept(r)
    <2>1. call[c] \in Request /\ CallRight(c) /\ call[c].phase \in {"merging", "revoking"}
      BY <1>2 DEF SessionsRight, SessionsTypeOK, TouchMerge, RevokeWrite
    <2>2. PICK b \in Rows : b = call[c].byToken
      BY <2>1 DEF CallRight, MergeRight, Request
    <2>3. session' = RevokedRows({b}) /\ Kept(b)
      BY <1>2, <2>2 DEF TouchMerge, RevokeWrite
    <2> QED  BY <2>3
  <1>3. ASSUME NEW t \in Tokens, Logout(t) \/ RefreshExpired(t)
        PROVE  \E S \in SUBSET Rows : session' = RevokedRows(S) /\ \A r \in S : Kept(r)
    <2>1. PICK b \in Rows : b = SessionByToken(t) /\ Kept(b)
      BY <1>3, FoundByToken DEF Logout, RefreshExpired
    <2>2. session' = RevokedRows({b})
      BY <1>3, <2>1 DEF Logout, RefreshExpired, EndsSessions
    <2> QED  BY <2>1, <2>2
  <1>4. ASSUME NEW u \in Users, RevokeAll(u) \/ \E t \in Tokens : RevokeOthers(u, t)
        PROVE  \E S \in SUBSET Rows : session' = RevokedRows(S) /\ \A r \in S : Kept(r)
    <2>1. PICK S \in SUBSET LiveOf(u) : session' = RevokedRows(S)
      BY <1>4 DEF RevokeAll, RevokeOthers, Others, EndsSessions
    <2>2. S \in SUBSET Rows /\ \A r \in S : Kept(r)
      BY DEF LiveOf, Live
    <2> QED  BY <2>1, <2>2
  <1>5. ASSUME NEW c \in Calls, session' # session
        PROVE  /\ ~TouchRead(c) /\ ~Fails(c)
               /\ \A u, k, t, r, next, checked :
                    /\ ~SignIn(c, u, k, t) /\ ~Heartbeat(c, u, t, k, checked)
                    /\ ~RevokeRead(c, u, r, t, k, checked) /\ ~Refresh(c, t, k, next)
    <2>1. ~TouchRead(c) /\ ~Fails(c)
      BY <1>5, Zenon DEF TouchRead, Fails
    <2>2. ASSUME NEW u, NEW k, NEW t, NEW r, NEW next, NEW checked
          PROVE  /\ ~SignIn(c, u, k, t) /\ ~Heartbeat(c, u, t, k, checked)
                 /\ ~RevokeRead(c, u, r, t, k, checked) /\ ~Refresh(c, t, k, next)
      BY <1>5, Zenon DEF SignIn, Heartbeat, RevokeRead, Refresh
    <2> QED  BY <2>1, <2>2
  <1>6. ASSUME session' # session
        PROVE  \A u : ~SetAccount(u) /\ ~DeleteMe(u)
    BY <1>6, Zenon DEF SetAccount, DeleteMe
  <1>7. CASE session' # session
    <2>1. SessionsNext
      BY <1>7 DEF sessionVars
    <2>2. \/ \E c \in Calls : TouchWrite(c) \/ TouchMerge(c) \/ RevokeWrite(c)
          \/ \E t \in Tokens : Logout(t) \/ RefreshExpired(t)
          \/ \E u \in Users : RevokeAll(u) \/ DeleteUser(u) \/ \E t \in Tokens : RevokeOthers(u, t)
      BY <1>5, <1>6, <1>7, <2>1, Zenon DEF SessionsNext, TouchStep
    <2> QED  BY <1>2, <1>3, <1>4, <2>2
  <1> QED  BY <1>1, <1>7

\* What a write changes, and why it may
LEMMA WriteIsAllowed ==
  ASSUME SessionsRight, NEW c \in Calls, TouchWrite(c), session' # session,
         NEW r \in Rows, session'[r] # session[r]
  PROVE  /\ Writes(c) /\ session'[r].state = "kept" /\ ~session'[r].revoked
         /\ session[r].state = "free" \/ (Kept(r) /\ r = Target(c))
         /\ session'[r].token = TokenAfter(session[r], call[c].next, call[c].shown)
  <1>1. PICK q \in IF Target(c) = NoRow THEN {p \in Rows : session[p].state = "free"}
                                        ELSE {Target(c)} :
          /\ call[c].phase = "writing"
          /\ Target(c) # NoRow => Kept(q)
          /\ session' = [session EXCEPT ![q] = Touched(session[q], call[c])]
          /\ call' = [Overtaken(call, {q}, call[c].user) EXCEPT ![c] = Idle]
    BY DEF TouchWrite
  <1>2. /\ session[q].state = "free" \/ (Kept(q) /\ q = Target(c))
        /\ q \in Rows
        /\ Touched(session[q], call[c]).state = "kept"
        /\ ~Touched(session[q], call[c]).revoked
        /\ Touched(session[q], call[c]).token =
              TokenAfter(session[q], call[c].next, call[c].shown)
    BY <1>1, WriteFacts
  <1>3. q = r
    BY <1>1, <1>2
  <1>4. session'[r] = Touched(session[q], call[c])
    BY <1>1, <1>2, <1>3 DEF SessionsRight, SessionsTypeOK
  <1>5. call'[c].phase = "idle"
    <2>1. c \in DOMAIN Overtaken(call, {q}, call[c].user) /\ Idle.phase = "idle"
      BY DEF Overtaken, Idle
    <2> QED  BY <1>1, <2>1
  <1>6. Writes(c)
    BY <1>1, <1>5 DEF Writes
  <1> QED  BY <1>2, <1>3, <1>4, <1>6

LEMMA RevokedStep ==
  ASSUME SessionsRight, [SessionsNext]_sessionVars
  PROVE  \A r \in Rows :
           /\ session[r].revoked
           /\ session'[r].state = "kept"
           /\ ~session'[r].revoked
           => \E c \in Calls :
                /\ Writes(c)
                /\ call[c].op = "signIn" \/ call[c].stale \/ RevivesUnchecked(c)
  <1> SUFFICES ASSUME NEW r \in Rows, session[r].revoked, session'[r].state = "kept",
                      ~session'[r].revoked
               PROVE  \E c \in Calls :
                        /\ Writes(c)
                        /\ call[c].op = "signIn" \/ call[c].stale \/ RevivesUnchecked(c)
    OBVIOUS
  <1>1. session' # session /\ session'[r] # session[r]
    OBVIOUS
  <1>2. ~\E S \in SUBSET Rows : session' = RevokedRows(S) /\ \A q \in S : Kept(q)
    BY RevokedAreRight
  <1>3. ~\E u \in Users : DeleteUser(u)
    <2> SUFFICES ASSUME NEW u \in Users, DeleteUser(u) PROVE FALSE
      OBVIOUS
    <2>1. session'[r] \in {[FreeRow EXCEPT !.state = "erased"], session[r]}
      BY DEF DeleteUser
    <2> QED  BY <1>1, <2>1 DEF FreeRow
  <1>4. PICK c \in Calls : TouchWrite(c)
    BY <1>1, <1>2, <1>3, SessionChanges
  <1>5. Writes(c) /\ (session[r].state = "free" \/ r = Target(c))
    BY <1>1, <1>4, WriteIsAllowed
  <1>6. RowRight(r) /\ CallRight(c) /\ call[c] \in Request
    BY DEF SessionsRight, SessionsTypeOK, RowsRight
  <1>7. r = Target(c)
    BY <1>5, <1>6 DEF RowRight, Kept
  <1>8. call[c].op = "signIn" \/ call[c].stale \/ RevivesUnchecked(c)
    BY <1>5, <1>6, <1>7 DEF CallRight, ReadRight, Writes
  <1> QED  BY <1>5, <1>8

LEMMA TokenStep ==
  ASSUME SessionsRight, [SessionsNext]_sessionVars
  PROVE  \A r \in Rows :
           LET t == session[r].token IN
           t # NoToken /\ session'[r].token # t =>
             \/ session'[r].revoked
             \/ session'[r].state = "erased"
             \/ \E c \in Calls :
                  /\ Writes(c)
                  /\ \/ call[c].op = "signIn"
                     \/ call[c].op = "refresh" /\ (call[c].shown = t \/ call[c].byToken = NoRow)
                     \/ call[c].op = "heartbeat" /\ call[c].shown \notin {NoToken, t}
                     \/ call[c].stale
  <1> SUFFICES ASSUME NEW r \in Rows, session[r].token # NoToken,
                      session'[r].token # session[r].token,
                      ~session'[r].revoked, session'[r].state # "erased"
               PROVE  \E c \in Calls :
                  /\ Writes(c)
                  /\ \/ call[c].op = "signIn"
                     \/ call[c].op = "refresh"
                        /\ (call[c].shown = session[r].token \/ call[c].byToken = NoRow)
                     \/ call[c].op = "heartbeat" /\ call[c].shown \notin {NoToken, session[r].token}
                     \/ call[c].stale
    OBVIOUS
  <1>1. session' # session /\ session'[r] # session[r]
    OBVIOUS
  <1>2. ~\E S \in SUBSET Rows : session' = RevokedRows(S) /\ \A q \in S : Kept(q)
    BY RevokedAreRight
  <1>3. ~\E u \in Users : DeleteUser(u)
    <2> SUFFICES ASSUME NEW u \in Users, DeleteUser(u) PROVE FALSE
      OBVIOUS
    <2>1. session'[r] \in {[FreeRow EXCEPT !.state = "erased"], session[r]}
      BY DEF DeleteUser
    <2> QED  BY <1>1, <2>1 DEF FreeRow
  <1>4. PICK c \in Calls : TouchWrite(c)
    BY <1>1, <1>2, <1>3, SessionChanges
  <1>5. /\ Writes(c) /\ (session[r].state = "free" \/ r = Target(c))
        /\ session'[r].token = TokenAfter(session[r], call[c].next, call[c].shown)
    BY <1>1, <1>4, WriteIsAllowed
  <1>6. RowRight(r) /\ CallRight(c) /\ call[c] \in Request
    BY DEF SessionsRight, SessionsTypeOK, RowsRight
  <1>7. r = Target(c) /\ call[c].phase = "writing"
    BY <1>5, <1>6 DEF RowRight, Kept, Writes
  <1>8. call[c].op \in {"signIn", "refresh", "heartbeat"}
    BY <1>6, <1>7 DEF CallRight, OpRight, Touching
  <1>9. CASE call[c].op = "refresh" /\ ~call[c].stale /\ call[c].byToken # NoRow
    <2>1. Target(c) = call[c].byToken
      BY <1>6, <1>7, <1>9 DEF CallRight, MergeRight, Target
    <2>2. call[c].shown = session[r].token
      BY <1>6, <1>7, <1>9, <2>1 DEF CallRight, ReadRight
    <2> QED  BY <1>5, <1>9, <2>2
  <1>10. CASE call[c].op = "heartbeat"
    <2>1. call[c].next = NoToken
      BY <1>6, <1>7, <1>10 DEF CallRight, OpRight, Touching
    <2>2. call[c].shown \notin {NoToken, session[r].token}
      BY <1>5, <2>1 DEF TokenAfter
    <2> QED  BY <1>5, <1>10, <2>2
  <1> QED  BY <1>5, <1>8, <1>9, <1>10

-----------------------------------------------------------------------------
(***************************************************************************)
(* The theorems.                                                           *)
(***************************************************************************)
\* However requests overlap, the sessions keep their unique tokens and clients, a
\* revoked session has no token (which is why refreshToken cannot find one), and a
\* request whose reads are still true, and whose client was checked, writes a
\* session of its user in force.
THEOREM SessionsStayRight == SessionsSpec => []SessionsRight
  <1>1. SessionsRight /\ [SessionsNext]_sessionVars => SessionsRight'
    BY SessionsStepRight
  <1> QED  BY SessionsStartRight, <1>1, PTL DEF SessionsSpec

\* A revoked session comes back only with a sign-in, with a request that had
\* begun before it was revoked, or with a heartbeat whose client nobody checked
\* (touchOwnSession), for any number of users.
THEOREM RevokedAreOut == SessionsSpec => RevokedStaysOut
  <1> DEFINE A == \A r \in Rows :
                    /\ session[r].revoked
                    /\ session'[r].state = "kept"
                    /\ ~session'[r].revoked
                    => \E c \in Calls :
                         /\ Writes(c)
                         /\ call[c].op = "signIn" \/ call[c].stale \/ RevivesUnchecked(c)
  <1>1. SessionsRight /\ [SessionsNext]_sessionVars => A
    BY RevokedStep
  <1>2. RevokedStaysOut <=> [][A]_sessionVars
    BY DEF RevokedStaysOut
  <1> HIDE DEF A
  <1> QED  BY SessionsStayRight, <1>1, <1>2, PTL DEF SessionsSpec

\* A token in force is lost only for the reasons touchOwnSession gives, for any
\* number of users and requests.
THEOREM TokensLostForAReason == SessionsSpec => TokenLostForAReason
  <1> DEFINE A == \A r \in Rows :
       LET t == session[r].token IN
       t # NoToken /\ session'[r].token # t =>
         \/ session'[r].revoked
         \/ session'[r].state = "erased"
         \/ \E c \in Calls :
              /\ Writes(c)
              /\ \/ call[c].op = "signIn"
                 \/ call[c].op = "refresh" /\ (call[c].shown = t \/ call[c].byToken = NoRow)
                 \/ call[c].op = "heartbeat" /\ call[c].shown \notin {NoToken, t}
                 \/ call[c].stale
  <1>1. SessionsRight /\ [SessionsNext]_sessionVars => A
    BY TokenStep
  <1>2. TokenLostForAReason <=> [][A]_sessionVars
    BY DEF TokenLostForAReason
  <1> HIDE DEF A
  <1> QED  BY SessionsStayRight, <1>1, <1>2, PTL DEF SessionsSpec
=============================================================================
