------------------------------- MODULE Members -------------------------------
(***************************************************************************)
(* The users of organizations and the seats of their subscriptions         *)
(* (admin.service.ts, licensing.service.ts).  A request checks that there  *)
(* is a seat, writes the user, and then counts the users anew: the count,  *)
(* the stored usage and the warning about it are statements of their own.  *)
(* Invitations to live sessions write users without any of it, and so does *)
(* whoever deletes his own account.  Of the subscriptions of an            *)
(* organization that are active the one written last is in force: it is    *)
(* its seats that users take and its usage that is counted.                *)
(***************************************************************************)
EXTENDS Naturals, FiniteSets

CONSTANTS
  Users,          \* rows of users, those not created yet included
  Orgs,           \* organizations
  Subs,           \* rows of their subscriptions, those not created yet included
  NoUser,
  NoOrg,
  NoSub,
  Limits,         \* seats a subscription may have
  Regulars,       \* active users of each organization that nobody writes
  MemberCalls     \* requests in flight

ASSUME MembersAssumption ==
  /\ IsFiniteSet(Users)
  /\ Limits \subseteq Nat \ {0} /\ Regulars \in Nat
  /\ NoUser \notin Users /\ NoOrg \notin Orgs /\ NoSub \notin Subs

VARIABLES
  user,           \* the rows of users
  member,         \* the rows of organization_memberships
  linked,         \* the rows of parent_student_links
  seats,          \* per organization, whether it is there, and whose seats it has
  sub,            \* the rows of subscriptions
  memberCall,     \* the local state of each request
  excused         \* history: what requests wrote from stale reads, or not at all

memberVars == <<user, member, linked, seats, sub, memberCall, excused>>

Licensed == {"STUDENT", "PARENT"}

Roles == Licensed \cup {"SUPER_ADMIN"}

User == [state : {"none", "active", "disabled"}, role : Roles,
         org : Orgs \cup {NoOrg}, deleted : BOOLEAN]

NewUser == [state |-> "none", role |-> "STUDENT", org |-> NoOrg, deleted |-> FALSE]

Tiers == {0, 90, 95, 100}    \* 0: none

\* TRIAL counts as active, EXPIRED and CANCELED as ended
TermStatuses == {"pending", "active", "ended"}

Subscription ==
  [org : Orgs \cup {NoOrg}, status : TermStatuses \cup {"none"}, limit : Limits \cup {0},
   usage : Nat,       \* seatUsage
   tier : Tiers,      \* seatAlertTier
   warned : Tiers]    \* history: the highest tier mailed since none was

NewSub == [org |-> NoOrg, status |-> "none", limit |-> 0, usage |-> 0, tier |-> 0, warned |-> 0]

Seats == [open : BOOLEAN,               \* the organization is not archived
          current : Subs \cup {NoSub}]  \* getActiveOrganizationSubscription

MemberCall ==
  [phase : {"idle", "writing", "deciding", "counting", "storing", "judging", "marking"},
   kind : {"create", "update", "delete", "archive", "count",
           "subscribe", "decide", "resize", "renew"},
   user : Users \cup {NoUser},
   state : {"active", "disabled", "unsaid"}, role : Licensed \cup {"unsaid"},
   org : Orgs \cup {NoOrg}, sub : Subs \cup {NoSub},
   limit : Limits \cup {0}, terms : TermStatuses \cup {"unsaid"},   \* as read, or to be
   links : BOOLEAN, students : SUBSET Users,   \* students to link a parent to
   pool : SUBSET Users,                        \* users to archive
   todo : SUBSET Orgs,                         \* organizations to count
   count : Nat, tier : Tiers,                  \* as counted, and as read
   stale : SUBSET {"seat", "count", "tier", "archive", "user"}]

NoCall == [phase |-> "idle", kind |-> "count", user |-> NoUser, state |-> "unsaid",
           role |-> "unsaid", org |-> NoOrg, sub |-> NoSub, limit |-> 0,
           terms |-> "unsaid", links |-> FALSE, students |-> {},
           pool |-> {}, todo |-> {}, count |-> 0, tier |-> 0, stale |-> {}]

Excuses == {"seats", "usage", "tier", "archive"}

MembersTypeOK ==
  /\ user \in [Users -> User]
  /\ member \subseteq Users \X Orgs
  /\ linked \subseteq Users \X Users \X Orgs
  /\ seats \in [Orgs -> Seats]
  /\ sub \in [Subs -> Subscription]
  /\ memberCall \in [MemberCalls -> MemberCall]
  /\ excused \subseteq Excuses \X (Orgs \cup Subs)

MembersInit ==
  /\ \E supers \in SUBSET Users :
       user = [u \in Users |-> IF u \in supers
                               THEN [NewUser EXCEPT !.state = "active", !.role = "SUPER_ADMIN"]
                               ELSE NewUser]
  /\ member = {}
  /\ linked = {}
  /\ \E first \in [Orgs -> Subs \cup {NoSub}], limit \in [Subs -> Limits] :
       /\ \A o, p \in Orgs : first[o] = first[p] => o = p \/ first[o] = NoSub
       /\ \A o \in Orgs : first[o] # NoSub => Regulars <= limit[first[o]]
       /\ seats = [o \in Orgs |-> [open |-> TRUE, current |-> first[o]]]
       /\ sub = [s \in Subs |->
            IF \E o \in Orgs : first[o] = s
            THEN [NewSub EXCEPT !.org = CHOOSE o \in Orgs : first[o] = s, !.status = "active",
                                !.limit = limit[s], !.usage = Regulars]
            ELSE NewSub]
  /\ memberCall = [c \in MemberCalls |-> NoCall]
  /\ excused = {}

-----------------------------------------------------------------------------
There(u) == user[u].state # "none" /\ ~user[u].deleted

HoldsSeat(u, o) ==
  user[u].state = "active" /\ ~user[u].deleted /\ user[u].role \in Licensed /\ user[u].org = o

Used(o) == Regulars + Cardinality({u \in Users : HoldsSeat(u, o)})

LimitOf(o) == sub[seats[o].current].limit

HasSeatOrIsFull(u, o) ==
  /\ o # NoOrg /\ seats[o].open /\ seats[o].current # NoSub
  /\ Regulars + Cardinality({v \in Users \ {u} : HoldsSeat(v, o)}) <= LimitOf(o)

\* assertCanActivateUserRole; the limits of single roles are checked alike
HasSeat(u, o) ==
  /\ o # NoOrg /\ seats[o].open /\ seats[o].current # NoSub
  /\ Regulars + Cardinality({v \in Users \ {u} : HoldsSeat(v, o)}) < LimitOf(o)

Activates(state, role, u, o) ==
  state = "active" /\ role \in Licensed => HasSeat(u, o)

Asks(c, record) ==
  /\ memberCall[c].phase = "idle"
  /\ memberCall' = [memberCall EXCEPT ![c] = record]
  /\ UNCHANGED <<user, member, linked, seats, sub, excused>>

\* resolveOrganizationForUser: an organization that is asked for is not archived
MayJoin(u, o) == o \in {NoOrg, user[u].org} \cup {p \in Orgs : seats[p].open}

AffectedNow(now, before) == {now} \ {NoOrg}

Affected(now, before) == {now, before} \ {NoOrg}

AskCreate(c, u, role, o, state) ==
  /\ user[u].state = "none"
  /\ MayJoin(u, o)
  /\ Activates(state, role, u, o)
  /\ Asks(c, [NoCall EXCEPT !.phase = "writing", !.kind = "create", !.user = u,
                !.state = state, !.role = role, !.org = o, !.todo = Affected(o, NoOrg)])

\* updateUser writes the organization it read, asked to or not
AskUpdate(c, u, role, o, state, links, students) ==
  LET nextRole == IF role = "unsaid" THEN user[u].role ELSE role
      nextState == IF state = "unsaid" THEN user[u].state ELSE state
  IN /\ There(u)
     /\ MayJoin(u, o)
     /\ Activates(nextState, nextRole, u, o)
     /\ Asks(c, [NoCall EXCEPT !.phase = "writing", !.kind = "update", !.user = u,
                   !.state = state, !.role = role, !.org = o,
                   !.todo = Affected(o, user[u].org),
                   !.links = links /\ nextRole = "PARENT", !.students = students])

\* The last super administrator may not be deleted
SupersBut(u) == {v \in Users \ {u} : user[v].role = "SUPER_ADMIN" /\ user[v].state = "active"
                                     /\ ~user[v].deleted}

OrgsOf(u) == {o \in Orgs : user[u].org = o \/ <<u, o>> \in member}

AskDelete(c, u) ==
  /\ There(u)
  /\ user[u].role = "SUPER_ADMIN" => SupersBut(u) # {}
  /\ Asks(c, [NoCall EXCEPT !.phase = "writing", !.kind = "delete", !.user = u,
                !.todo = OrgsOf(u)])

StudentsOf(o) == {u \in Users : There(u) /\ o \in OrgsOf(u) /\ user[u].role = "STUDENT"}

MembersOf(o) == {u \in Users : There(u) /\ o \in OrgsOf(u)}

AskArchive(c, o) ==
  /\ seats[o].open
  /\ Asks(c, [NoCall EXCEPT !.phase = "writing", !.kind = "archive", !.org = o,
                !.pool = MembersOf(o)])

\* recalculateOrganizationLicenseUsage, and whatever else counts anew
AskCount(c, o) ==
  Asks(c, [NoCall EXCEPT !.phase = "counting", !.todo = {o}])

-----------------------------------------------------------------------------
\* Requests about a subscription; an archived organization has none to give
Terms(kind, s, o, limit, terms, todo) ==
  [NoCall EXCEPT !.phase = "deciding", !.kind = kind, !.sub = s, !.org = o,
                 !.limit = limit, !.terms = terms, !.todo = todo]

\* Whoever is not super administrator gets a pending one
AskSubscribe(c, s, o, limit, terms) ==
  /\ sub[s].status = "none" /\ seats[o].open
  /\ Asks(c, Terms("subscribe", s, o, limit, terms, {o}))

\* approveSubscription, rejectSubscription: neither looks at the seats
AskDecide(c, s, terms) ==
  /\ sub[s].status = "pending"
  /\ Asks(c, Terms("decide", s, sub[s].org, 0, terms, IF terms = "active" THEN {sub[s].org} ELSE {}))

\* What is not said stays; deleting and restoring say nothing of the seats
AskResize(c, s, limit, terms) ==
  LET o == sub[s].org IN
  /\ sub[s].status # "none" /\ seats[o].open
  /\ limit # 0 => Used(o) <= limit
  /\ Asks(c, Terms("resize", s, o, limit, terms, {o}))

AskRenew(c, s) ==
  LET o == sub[s].org IN
  /\ sub[s].status # "none" /\ seats[o].open
  /\ Asks(c, Terms("renew", s, o, 0, "active", {o}))

-----------------------------------------------------------------------------
Changed(us) == {o \in Orgs : \E u \in us : user[u].org = o \/ user'[u].org = o}

\* What others have read of these users and of their organizations is no longer so
Stales(d, us) ==
  LET x == memberCall[d] IN
  (IF x.org \notin Changed(us) THEN {}
   ELSE CASE x.phase = "writing" -> {IF x.kind = "archive" THEN "archive" ELSE "seat"}
          [] x.phase = "storing" -> {"count"}
          [] x.phase = "deciding" -> {"seat"}
          [] OTHER -> {})
  \cup (IF x.user \in us THEN {"user"} ELSE {})

Overtaken(c, next, us) ==
  memberCall' = [d \in MemberCalls |->
    IF d = c THEN next
    ELSE [memberCall[d] EXCEPT !.stale = @ \cup Stales(d, us)]]

ThenCounts(c, orgs) ==
  IF orgs = {} THEN NoCall
  ELSE [NoCall EXCEPT !.phase = "counting", !.todo = orgs]

LinksOf(x, u) ==
  IF ~x.links THEN linked
  ELSE {l \in linked : l[1] # u} \cup {<<u, s, x.org>> : s \in x.students}

\* Parents can only be linked to students in the same organization
MayLink(x) ==
  x.links => /\ x.org # NoOrg
             /\ \A s \in x.students : There(s) /\ user[s].role = "STUDENT" /\ user[s].org = x.org

\* Only the organizations the user was read to be in are counted
NotCounted(x) == IF "user" \in x.stale THEN {"usage"} \X Changed({x.user}) ELSE {}

WriteUser(c) ==
  LET x == memberCall[c]
      u == x.user
      old == user[u]
  IN /\ x.phase = "writing" /\ x.kind \in {"create", "update"}
     /\ x.kind = "create" => old.state = "none"
     /\ MayLink(x)
     /\ user' = [user EXCEPT
          ![u].state = IF x.state = "unsaid" THEN @ ELSE x.state,
          ![u].role = IF x.role = "unsaid" THEN @ ELSE x.role,
          ![u].org = x.org]
     /\ member' = {m \in member : m[1] # u} \cup ({u} \X ({x.org} \ {NoOrg}))
     /\ linked' = LinksOf(x, u)
     /\ excused' = excused \cup
          {e \in Excuses \X ({x.org} \ {NoOrg}) :
             \/ e[1] = "seats" /\ {"seat", "user"} \cap x.stale # {}
             \/ e[1] = "archive" /\ "archive" \in x.stale}
          \cup NotCounted(x)
     /\ Overtaken(c, ThenCounts(c, x.todo), {u})
     /\ UNCHANGED <<seats, sub>>

Buried(u) == [user[u] EXCEPT !.state = "disabled", !.deleted = TRUE]

DeleteUser(c) ==
  LET x == memberCall[c]
      u == x.user
  IN /\ x.phase = "writing" /\ x.kind = "delete"
     /\ user' = [user EXCEPT ![u] = Buried(u)]
     /\ member' = {m \in member : m[1] # u}
     /\ linked' = {l \in linked : u \notin {l[1], l[2]}}
     /\ Overtaken(c, ThenCounts(c, x.todo), {u})
     /\ excused' = excused \cup NotCounted(x)
     /\ UNCHANGED <<seats, sub>>

ArchiveOrganization(c) ==
  LET x == memberCall[c]
      o == x.org
      gone == x.pool
  IN /\ x.phase = "writing" /\ x.kind = "archive"
     /\ user' = [u \in Users |-> IF u \in gone THEN Buried(u) ELSE user[u]]
     /\ member' = {m \in member : m[1] \notin gone /\ (gone = {} => m[2] # o)}
     /\ linked' = {l \in linked : l[3] # o /\ {l[1], l[2]} \cap gone = {}}
     /\ seats' = [seats EXCEPT ![o].open = FALSE, ![o].current = NoSub]
     /\ sub' = [s \in Subs |->
          IF sub[s].org # o THEN sub[s]
          ELSE [sub[s] EXCEPT !.status = IF @ = "active" THEN "ended" ELSE @, !.usage = 0]]
     /\ excused' = excused \cup ({"usage"} \X (Changed(gone) \ {o})) \cup
          (IF "archive" \in x.stale THEN {<<"archive", o>>} ELSE {})
     /\ memberCall' = [d \in MemberCalls |->
          IF d = c THEN NoCall
          ELSE [memberCall[d] EXCEPT !.stale = @ \cup Stales(d, gone) \cup
                  (IF memberCall[d].org = o THEN {"archive", "seat", "count"} ELSE {})]]

\* inviteStudent of live sessions: the account gets the host's organization
InviteStudent(u, o) ==
  /\ user[u].state = "none" \/ There(u)
  /\ user' = [user EXCEPT ![u].state = IF @ = "none" THEN "active" ELSE @, ![u].org = o]
  /\ member' = member \cup {<<u, o>>}
  /\ excused' = excused \cup ({"seats", "usage", "archive"} \X Changed({u}))
  /\ memberCall' = [d \in MemberCalls |->
       [memberCall[d] EXCEPT !.stale = @ \cup Stales(d, {u})]]
  /\ UNCHANGED <<linked, seats, sub>>

\* The account of the caller: nothing but the deletion is written, or counted
DeleteMe(u) ==
  /\ There(u)
  /\ user' = [user EXCEPT ![u].deleted = TRUE]
  /\ excused' = excused \cup ({"usage"} \X Changed({u}))
  /\ memberCall' = [d \in MemberCalls |->
       [memberCall[d] EXCEPT !.stale = @ \cup Stales(d, {u})]]
  /\ UNCHANGED <<member, linked, seats, sub>>

-----------------------------------------------------------------------------
(***************************************************************************)
(* Writes to subscriptions: an active row that is written is the one in    *)
(* force from then on (orderBy updatedAt), and when the one in force ends, *)
(* any other that is active may be the next.                               *)
(***************************************************************************)
OtherActive(o, s) == {t \in Subs \ {s} : sub[t].org = o /\ sub[t].status = "active"}

Successors(o, s, row) ==
  IF row.status = "active" THEN {s}
  ELSE IF seats[o].current # s THEN {seats[o].current}
  ELSE IF OtherActive(o, s) = {} THEN {NoSub} ELSE OtherActive(o, s)

Rewrites(o, s, row) ==
  /\ sub' = [sub EXCEPT ![s] = row]
  /\ \E t \in Successors(o, s, row) : seats' = [seats EXCEPT ![o].current = t]

Switches(o) == seats'[o].current # seats[o].current

LimitAfter(o) == sub'[seats'[o].current].limit

\* Others have read seats that are no longer those there are
Shifts(o) == Switches(o) \/ (seats[o].current # NoSub /\ LimitAfter(o) # LimitOf(o))

Fits(o) == seats'[o].current # NoSub => Used(o) <= LimitAfter(o)

\* Nobody asks whether the users have seats in what takes over, and unless the
\* request goes on to count nobody counts them there
Refit(o, e, counts) ==
  (IF ~Shifts(o) THEN e ELSE IF Fits(o) THEN e \ {<<"seats", o>>} ELSE e \cup {<<"seats", o>>})
  \cup (IF Switches(o) /\ ~counts THEN {<<"usage", o>>} ELSE {})

Telling == {"storing", "judging", "marking"}

TermStales(d, o, told) ==
  LET x == memberCall[d] IN
  (IF x.org # o THEN {}
   ELSE CASE x.phase = "writing" /\ Shifts(o) -> {"seat"}
          [] x.phase = "storing" /\ Switches(o) -> {"count"}
          [] OTHER -> {})
  \cup (IF x.phase \in Telling /\ x.sub \in told THEN {"tier"} ELSE {})

\* Those that have read a tier of told no longer know what was mailed
Contracted(c, next, o, told) ==
  memberCall' = [d \in MemberCalls |->
    IF d = c THEN next
    ELSE [memberCall[d] EXCEPT !.stale = @ \cup TermStales(d, o, told)]]

TermsOf(x) ==
  LET row == sub[x.sub] IN
  CASE x.kind = "subscribe" ->
         [NewSub EXCEPT !.org = x.org, !.status = x.terms, !.limit = x.limit]
    [] x.kind = "renew" -> [row EXCEPT !.status = x.terms, !.tier = 0, !.warned = 0]
    [] OTHER -> [row EXCEPT !.status = IF x.terms = "unsaid" THEN @ ELSE x.terms,
                            !.limit = IF x.limit = 0 THEN @ ELSE x.limit]

\* The users were counted, and still are as many
Fitted(x) == x.kind = "resize" /\ x.limit # 0 /\ "seat" \notin x.stale

WriteTerms(c) ==
  LET x == memberCall[c]
      o == x.org
  IN /\ x.phase = "deciding"
     /\ x.kind = "subscribe" => sub[x.sub].status = "none"
     /\ Rewrites(o, x.sub, TermsOf(x))
     /\ excused' = IF Fitted(x) /\ seats'[o].current = x.sub THEN excused \ {<<"seats", o>>}
                   ELSE Refit(o, excused, x.todo # {})
     /\ Contracted(c, ThenCounts(c, x.todo), o, IF x.kind = "renew" THEN {x.sub} ELSE {})
     /\ UNCHANGED <<user, member, linked>>

\* sweepSubscriptions ends a subscription, or notes that it mailed of its end
SweepSubscription(s, status) ==
  LET o == sub[s].org IN
  /\ sub[s].status = "active"
  /\ Rewrites(o, s, [sub[s] EXCEPT !.status = status])
  /\ excused' = Refit(o, excused, FALSE)
  /\ memberCall' = [d \in MemberCalls |->
       [memberCall[d] EXCEPT !.stale = @ \cup TermStales(d, o, {})]]
  /\ UNCHANGED <<user, member, linked>>

-----------------------------------------------------------------------------
(***************************************************************************)
(* recalculateLicenseUsage and maybeSendSeatUsageWarning.                  *)
(***************************************************************************)
Percent(used, limit) == (200 * used + limit) \div (2 * limit)

\* highestSeatTierCrossed
Crossed(used, limit) ==
  LET pct == Percent(used, limit) IN
  IF pct >= 100 THEN 100 ELSE IF pct >= 95 THEN 95 ELSE IF pct >= 90 THEN 90 ELSE 0

CrossedBy(x) == Crossed(x.count, x.limit)

Marking(d, s) == memberCall[d].phase = "marking" /\ memberCall[d].sub = s

Count(c) ==
  LET x == memberCall[c] IN
  /\ x.phase = "counting"
  /\ \E o \in x.todo :
       LET s == seats[o].current IN
       memberCall' = [memberCall EXCEPT ![c] =
         IF s = NoSub THEN ThenCounts(c, x.todo \ {o})
         ELSE [x EXCEPT !.phase = "storing", !.todo = @ \ {o}, !.org = o, !.sub = s,
                        !.limit = sub[s].limit, !.count = Used(o), !.tier = sub[s].tier,
                        !.stale = IF \E d \in MemberCalls : Marking(d, s) THEN {"tier"} ELSE {}]]
  /\ UNCHANGED <<user, member, linked, seats, sub, excused>>

Store(c) ==
  LET x == memberCall[c]
      o == x.org
  IN /\ x.phase = "storing"
     /\ Rewrites(o, x.sub, [sub[x.sub] EXCEPT !.usage = x.count])
     /\ excused' = IF "count" \in x.stale THEN Refit(o, excused \cup {<<"usage", o>>}, TRUE)
                   ELSE excused \ {<<"usage", o>>}
     /\ Contracted(c, [x EXCEPT !.phase = "judging"], o, {})
     /\ UNCHANGED <<user, member, linked>>

HigherOrSame(crossed, tier) == tier = 0 \/ crossed >= tier

Higher(crossed, tier) == tier = 0 \/ crossed > tier

Warns(x) == CrossedBy(x) # 0 /\ Higher(CrossedBy(x), x.tier)

Noted(x) == IF "tier" \in x.stale THEN excused \cup {<<"tier", x.sub>>} ELSE excused

Warn(c) ==
  LET x == memberCall[c] IN
  /\ x.phase = "judging" /\ Warns(x)
  /\ sub' = [sub EXCEPT ![x.sub].warned = CrossedBy(x)]
  /\ excused' = Noted(x)
  /\ UNCHANGED <<user, member, linked, seats>>
  /\ Contracted(c, [x EXCEPT !.phase = "marking"], x.org, {x.sub})

\* Nothing to mail
Passes(c) ==
  LET x == memberCall[c] IN
  /\ x.phase = "judging" /\ ~Warns(x) /\ (CrossedBy(x) = 0 => x.tier = 0)
  /\ memberCall' = [memberCall EXCEPT ![c] = ThenCounts(c, x.todo)]
  /\ UNCHANGED <<user, member, linked, seats, sub, excused>>

\* The tier is written, which may put the subscription back in force
NotesTier(c, row) ==
  LET x == memberCall[c] IN
  /\ Rewrites(x.org, x.sub, row)
  /\ excused' = Refit(x.org, Noted(x), FALSE)
  /\ Contracted(c, ThenCounts(c, x.todo), x.org, {x.sub})
  /\ UNCHANGED <<user, member, linked>>

\* Below the lowest tier: the next climb warns again
Reset(c) ==
  LET x == memberCall[c] IN
  /\ x.phase = "judging" /\ CrossedBy(x) = 0 /\ x.tier # 0
  /\ NotesTier(c, [sub[x.sub] EXCEPT !.tier = 0, !.warned = 0])

MarkTier(c) ==
  LET x == memberCall[c] IN
  /\ x.phase = "marking"
  /\ NotesTier(c, [sub[x.sub] EXCEPT !.tier = CrossedBy(x)])

\* A statement fails or the process dies.  What the warning runs into stays
\* there, the organizations that are left are then counted.
MemberCallFails(c) ==
  LET x == memberCall[c]
      uncounted == IF x.phase = "storing" THEN x.todo \cup {x.org} ELSE x.todo
  IN /\ x.phase # "idle"
     /\ \/ /\ excused' = excused \cup ({"usage"} \X (IF x.phase \in {"writing", "deciding"} THEN {} ELSE uncounted))
                \cup (IF x.phase \in {"judging", "marking"} THEN {<<"tier", x.sub>>} ELSE {})
           /\ memberCall' = [memberCall EXCEPT ![c] = NoCall]
        \/ /\ x.phase \in {"judging", "marking"}
           /\ excused' = excused \cup {<<"tier", x.sub>>}
           /\ memberCall' = [memberCall EXCEPT ![c] = ThenCounts(c, x.todo)]
     /\ UNCHANGED <<user, member, linked, seats, sub>>

-----------------------------------------------------------------------------
CountStep ==
  \E c \in MemberCalls :
    \/ \E o \in Orgs : AskCount(c, o)
    \/ Count(c) \/ Store(c) \/ Warn(c) \/ Passes(c) \/ Reset(c) \/ MarkTier(c)
    \/ MemberCallFails(c)

InviteStep == \E u \in Users, o \in Orgs : InviteStudent(u, o)

LeaveStep == \E u \in Users : DeleteMe(u)

TermsStep ==
  \/ \E c \in MemberCalls :
       \/ \E s \in Subs, o \in Orgs, limit \in Limits, terms \in TermStatuses :
            AskSubscribe(c, s, o, limit, terms)
       \/ \E s \in Subs, terms \in {"active", "ended"} : AskDecide(c, s, terms)
       \/ \E s \in Subs, limit \in Limits \cup {0}, terms \in TermStatuses \cup {"unsaid"} :
            AskResize(c, s, limit, terms)
       \/ \E s \in Subs : AskRenew(c, s)
       \/ WriteTerms(c)
  \/ \E s \in Subs, status \in {"active", "ended"} : SweepSubscription(s, status)

UserStep ==
  \E c \in MemberCalls :
    \/ \E u \in Users, role \in Licensed, o \in Orgs \cup {NoOrg},
          state \in {"active", "disabled"} : AskCreate(c, u, role, o, state)
    \/ \E u \in Users, role \in Licensed \cup {"unsaid"}, o \in Orgs \cup {NoOrg},
          state \in {"active", "disabled", "unsaid"}, links \in BOOLEAN,
          students \in SUBSET Users : AskUpdate(c, u, role, o, state, links, students)
    \/ \E u \in Users : AskDelete(c, u)
    \/ WriteUser(c) \/ DeleteUser(c)

ArchiveStep ==
  \E c \in MemberCalls : ArchiveOrganization(c) \/ \E o \in Orgs : AskArchive(c, o)

MembersNext ==
  CountStep \/ UserStep \/ InviteStep \/ LeaveStep \/ ArchiveStep \/ TermsStep

MembersSpec == MembersInit /\ [][MembersNext]_memberVars

-----------------------------------------------------------------------------
\* An organization has no more active users than its subscription has seats, unless
\* two were activated at once, one was activated while another request moved it or
\* changed the seats, one came by an invitation to a live session, or seats that
\* were too few took over without anyone asking, as an approval or the end of
\* another subscription lets them (assertCanActivateUserRole,
\* assertSubscriptionSeatCapacity).
UsersHaveSeats ==
  \A o \in Orgs :
    seats[o].current # NoSub /\ <<"seats", o>> \notin excused => Used(o) <= LimitOf(o)

\* The usage of a subscription in force is the number of active users, once every
\* organization a request changed is counted, unless the count was overtaken or
\* lost, someone deleted his own account, or the subscription came into force by
\* another's end, since when nobody counted (recalculateLicenseUsage).
Uncounted(o) == \E c \in MemberCalls :
  \/ memberCall[c].phase \notin {"writing", "deciding"} /\ o \in memberCall[c].todo
  \/ memberCall[c].phase = "storing" /\ memberCall[c].org = o

UsageIsCount ==
  \A o \in Orgs :
    seats[o].current # NoSub /\ ~Uncounted(o) /\ <<"usage", o>> \notin excused =>
      sub[seats[o].current].usage = Used(o)

\* "emails the organization's customer admins when a new, higher tier is crossed":
\* none is mailed again before the usage was below the lowest or the subscription
\* was renewed, unless two requests counted at once or one could not note what it
\* mailed (maybeSendSeatUsageWarning).
WarnsOnce ==
  [][\A c \in MemberCalls :
       memberCall[c].phase = "judging" /\ memberCall'[c].phase = "marking" =>
         LET x == memberCall[c] IN
         \/ CrossedBy(x) > sub[x.sub].warned
         \/ <<"tier", x.sub>> \in excused']_memberVars

\* An archived organization has no active user, unless one was written between
\* the check or the list of users and the archiving (deleteOrganization).
ArchivedIsEmpty ==
  \A o \in Orgs : ~seats[o].open /\ <<"archive", o>> \notin excused =>
    \A u \in Users : ~HoldsSeat(u, o)

=============================================================================
