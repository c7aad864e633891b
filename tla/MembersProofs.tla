--------------------------- MODULE MembersProofs ---------------------------
(***************************************************************************)
(* Users and seats: what requests that read, write and then count keep     *)
(* true however they overlap, and the theorems that follow.  Three         *)
(* invariants rest on the first, MembersRight: seats, usage and warnings.  *)
(***************************************************************************)
EXTENDS Members, FiniteSetTheorems, TLAPS

OrgOf(u) == {user[u].org} \ {NoOrg}

\* A request that writes a user counts the organization that user is in
ReadsUser(c) ==
  LET x == memberCall[c] IN
  x.phase = "writing" /\ x.kind # "archive" =>
    /\ x.user \in Users
    /\ "user" \notin x.stale => OrgOf(x.user) \subseteq x.todo

\* ... and the one it puts it in, which is not archived
ReadsOrg(c) ==
  LET x == memberCall[c] IN
  x.phase = "writing" /\ x.kind \in {"create", "update"} =>
    /\ {x.org} \ {NoOrg} \subseteq x.todo
    /\ x.org \in Orgs /\ "archive" \notin x.stale =>
         seats[x.org].open \/ <<"archive", x.org>> \in excused

\* A request that archives an organization has found everybody who is in it
ReadsMembers(c) ==
  LET x == memberCall[c] IN
  x.phase = "writing" /\ x.kind = "archive" =>
    /\ x.org \in Orgs
    /\ "archive" \notin x.stale =>
         \A u \in Users : There(u) /\ user[u].org = x.org => u \in x.pool

\* Whoever is written is there afterwards
Bears(c) ==
  LET x == memberCall[c] IN
  x.phase = "writing" =>
    /\ x.kind = "create" => x.state # "unsaid"
    /\ x.kind = "update" => user[x.user].state # "none"

Reads(c) == ReadsUser(c) /\ ReadsOrg(c) /\ ReadsMembers(c) /\ Bears(c)

\* A request about a subscription knows whose it is; a row that was created stays
ReadsSub(c) ==
  LET x == memberCall[c] IN
  /\ x.phase \in Telling \cup {"deciding"} => x.org \in Orgs /\ x.sub \in Subs
  /\ x.phase \in Telling \/ (x.phase = "deciding" /\ x.kind # "subscribe") =>
       sub[x.sub].status # "none" /\ sub[x.sub].org = x.org
  /\ x.phase = "deciding" /\ x.kind \in {"subscribe", "renew"} => x.terms # "unsaid"

\* Who has a subscription in force has an active one, and of its own
SubsRight ==
  /\ \A s \in Subs : sub[s].status # "none" => sub[s].org \in Orgs
  /\ \A o \in Orgs : LET s == seats[o].current IN
       s # NoSub => sub[s].status = "active" /\ sub[s].org = o

Unborn == \A u \in Users : user[u].state = "none" => user[u].org = NoOrg

\* Nobody, not even a disabled user, is left in an archived organization
ArchivedIsLeft ==
  \A o \in Orgs : ~seats[o].open /\ <<"archive", o>> \notin excused =>
    \A u \in Users : There(u) => user[u].org # o

MembersRight ==
  /\ MembersTypeOK
  /\ \A c \in MemberCalls : Reads(c) /\ ReadsSub(c)
  /\ SubsRight
  /\ Unborn
  /\ ArchivedIsLeft

-----------------------------------------------------------------------------
\* A request that is as it was, save that more of what it has read is stale
Same(x, y) ==
  /\ x.phase = y.phase /\ x.kind = y.kind /\ x.user = y.user /\ x.state = y.state
  /\ x.role = y.role /\ x.org = y.org /\ x.pool = y.pool /\ x.todo = y.todo
  /\ x.sub = y.sub /\ x.limit = y.limit /\ x.terms = y.terms
  /\ x.count = y.count /\ x.tier = y.tier /\ x.stale \subseteq y.stale

\* Rows of subscriptions stay, and stay with their organization
RowsKept == \A s \in Subs : sub[s].status # "none" =>
  sub'[s].status # "none" /\ sub'[s].org = sub[s].org

Whole == {"seat", "count", "tier", "archive", "user"}

\* Staleness that is added to a request leaves the rest of it alone.
LEMMA MoreStale ==
  ASSUME NEW x \in MemberCall, NEW s \in SUBSET Whole
  PROVE  LET y == [x EXCEPT !.stale = @ \cup s] IN
         y \in MemberCall /\ Same(x, y) /\ s \subseteq y.stale
  BY DEF MemberCall, Same, Whole

\* What others learn of a write is staleness.
LEMMA StalesWhole ==
  ASSUME NEW d, NEW us
  PROVE  Stales(d, us) \subseteq Whole
  BY DEF Stales, Whole

LEMMA ThenCountsTyped ==
  ASSUME NEW c, NEW orgs \in SUBSET Orgs
  PROVE  /\ ThenCounts(c, orgs) \in MemberCall
         /\ ThenCounts(c, orgs).phase \in {"idle", "counting"}
         /\ ThenCounts(c, orgs).todo = orgs
  <1>1. NoCall \in MemberCall
    BY DEF NoCall, MemberCall, Tiers
  <1> QED  BY <1>1 DEF ThenCounts, NoCall, MemberCall

\* What a request has read of a subscription stays so.
LEMMA ReadsSubKept ==
  ASSUME NEW d \in MemberCalls, Same(memberCall[d], memberCall'[d]), RowsKept, ReadsSub(d)
  PROVE  ReadsSub(d)'
  <1> DEFINE x == memberCall[d]
             y == memberCall'[d]
  <1>1. /\ y.phase = x.phase /\ y.kind = x.kind /\ y.org = x.org /\ y.sub = x.sub
        /\ y.terms = x.terms
    BY DEF Same
  <1>2. ASSUME x.phase \in Telling \/ (x.phase = "deciding" /\ x.kind # "subscribe")
        PROVE  sub'[x.sub].status # "none" /\ sub'[x.sub].org = x.org
    BY <1>2 DEF ReadsSub, RowsKept
  <1> QED  BY <1>1, <1>2 DEF ReadsSub, Telling

\* No subscription is written.
LEMMA SubsKept ==
  ASSUME MembersRight, seats' = seats, sub' = sub
  PROVE  RowsKept /\ SubsRight' /\ seats' \in [Orgs -> Seats] /\ sub' \in [Subs -> Subscription]
  BY DEF RowsKept, SubsRight, MembersRight, MembersTypeOK

\* A statement that changes no user keeps what requests have read of them.
LEMMA QuietKeeps ==
  ASSUME MembersRight, MembersTypeOK', user' = user,
         \A o \in Orgs : seats'[o].open = seats[o].open,
         \A o \in Orgs : <<"archive", o>> \in excused => <<"archive", o>> \in excused',
         \A d \in MemberCalls :
           \/ memberCall'[d].phase # "writing"
           \/ Same(memberCall[d], memberCall'[d])
           \/ Reads(d)',
         \A d \in MemberCalls : ReadsSub(d)', SubsRight'
  PROVE  MembersRight'
  <1>1. ASSUME NEW d \in MemberCalls PROVE Reads(d)'
    <2>1. CASE memberCall'[d].phase # "writing"
      BY <2>1 DEF Reads, ReadsUser, ReadsOrg, ReadsMembers, Bears
    <2>2. CASE Same(memberCall[d], memberCall'[d])
      <3> Reads(d)  BY DEF MembersRight
      <3>1. ReadsUser(d)'
        BY <2>2 DEF Reads, ReadsUser, OrgOf, Same
      <3>2. ReadsOrg(d)'
        BY <2>2 DEF Reads, ReadsOrg, Same
      <3>3. ReadsMembers(d)'
        BY <2>2 DEF Reads, ReadsMembers, Same, There
      <3>4. Bears(d)'
        BY <2>2 DEF Reads, Bears, Same
      <3> QED  BY <3>1, <3>2, <3>3, <3>4 DEF Reads
    <2> QED  BY <2>1, <2>2
  <1>2. Unborn'
    BY DEF MembersRight, Unborn
  <1>3. ArchivedIsLeft'
    BY DEF MembersRight, ArchivedIsLeft, There
  <1> QED  BY <1>1, <1>2, <1>3 DEF MembersRight

\* What a request has read stays right over a write to other users, and over one
\* that makes it stale.
LEMMA MoveKeeps ==
  ASSUME MembersRight, user' \in [Users -> User],
         NEW us \in SUBSET Users, NEW d \in MemberCalls,
         \A u \in Users \ us : user'[u] = user[u],
         \A u \in Users : user[u].state # "none" => user'[u].state # "none",
         \A o \in Orgs : seats[o].open => seats'[o].open \/ memberCall[d].org # o
                                          \/ "archive" \in memberCall'[d].stale,
         \A o \in Orgs : <<"archive", o>> \in excused => <<"archive", o>> \in excused',
         Same(memberCall[d], memberCall'[d]), RowsKept,
         Stales(d, us) \subseteq memberCall'[d].stale
  PROVE  Reads(d)' /\ ReadsSub(d)'
  <1> Reads(d) /\ ReadsSub(d)  BY DEF MembersRight
  <1> memberCall[d] \in MemberCall /\ user \in [Users -> User]
    BY DEF MembersRight, MembersTypeOK
  <1>1. memberCall[d].user \in us => "user" \in memberCall'[d].stale
    BY DEF Stales
  <1>2. ReadsUser(d)'
    BY <1>1 DEF Reads, ReadsUser, OrgOf, Same
  <1>3. ReadsOrg(d)'
    BY DEF Reads, ReadsOrg, Same
  <1>4. ReadsMembers(d)'
    <2> SUFFICES ASSUME memberCall[d].phase = "writing", memberCall[d].kind = "archive",
                        "archive" \notin memberCall'[d].stale
                 PROVE  \A u \in Users : (There(u) /\ user[u].org = memberCall[d].org)' =>
                                            u \in memberCall[d].pool
      BY DEF Reads, ReadsMembers, Same
    <2>1. memberCall[d].org \in Orgs
      BY DEF Reads, ReadsMembers
    <2>2. memberCall[d].org \notin Changed(us)
      BY DEF Stales
    <2>3. \A u \in us : user'[u].org # memberCall[d].org
      BY <2>1, <2>2 DEF Changed
    <2>4. memberCall'[d].org = memberCall[d].org /\ "archive" \notin memberCall[d].stale
      BY DEF Same
    <2> QED  BY <2>3, <2>4 DEF Reads, ReadsMembers, There
  <1>5. Bears(d)'
    <2>1. memberCall[d].phase = "writing" /\ memberCall[d].kind = "update" =>
            memberCall[d].user \in Users
      BY DEF Reads, ReadsUser
    <2> QED  BY <2>1 DEF Reads, Bears, Same
  <1>6. ReadsSub(d)'
    BY ReadsSubKept
  <1> QED  BY <1>2, <1>3, <1>4, <1>5, <1>6 DEF Reads

-----------------------------------------------------------------------------
\* Requests read what they are to write.
LEMMA AsksKeeps ==
  ASSUME MembersRight, NEW c \in MemberCalls, NEW record \in MemberCall,
         Asks(c, record), record.phase \in {"writing", "deciding", "counting"},
         record.phase = "writing" => Reads(c)',
         record.phase = "deciding" => ReadsSub(c)'
  PROVE  MembersRight'
  <1>1. memberCall' = [memberCall EXCEPT ![c] = record]
        /\ UNCHANGED <<user, member, linked, seats, sub, excused>>
    BY DEF Asks
  <1>2. memberCall \in [MemberCalls -> MemberCall]
    BY DEF MembersRight, MembersTypeOK
  <1>3. MembersTypeOK'
    BY <1>1, <1>2 DEF MembersRight, MembersTypeOK
  <1>4. memberCall'[c] = record /\ \A d \in MemberCalls \ {c} : memberCall'[d] = memberCall[d]
    BY <1>1, <1>2
  <1>5. \A d \in MemberCalls : \/ memberCall'[d].phase # "writing"
                               \/ Same(memberCall[d], memberCall'[d])
                               \/ Reads(d)'
    BY <1>4 DEF Same
  <1>6. ASSUME NEW d \in MemberCalls PROVE ReadsSub(d)'
    <2>1. CASE d = c
      BY <1>4, <2>1 DEF ReadsSub, Telling
    <2>2. CASE d # c
      BY <1>1, <1>4, <2>2 DEF ReadsSub, MembersRight
    <2> QED  BY <2>1, <2>2
  <1>7. SubsRight'
    BY <1>1, SubsKept
  <1> QED  BY <1>1, <1>3, <1>5, <1>6, <1>7, QuietKeeps

\* Requests about subscriptions read whose they are.
LEMMA TermsKeeps ==
  ASSUME MembersRight, NEW c \in MemberCalls,
         NEW kind \in {"subscribe", "decide", "resize", "renew"}, NEW s \in Subs,
         NEW o \in Orgs, NEW limit \in Limits \cup {0}, NEW terms \in TermStatuses \cup {"unsaid"},
         NEW todo \in SUBSET Orgs, Asks(c, Terms(kind, s, o, limit, terms, todo)),
         kind # "subscribe" => sub[s].status # "none" /\ sub[s].org = o,
         kind \in {"subscribe", "renew"} => terms # "unsaid"
  PROVE  MembersRight'
  <1> DEFINE x == Terms(kind, s, o, limit, terms, todo)
  <1>1. x \in MemberCall /\ x.phase = "deciding" /\ x.kind = kind /\ x.sub = s /\ x.org = o
        /\ x.terms = terms
    BY DEF Terms, NoCall, MemberCall, Tiers
  <1>2. memberCall'[c] = x /\ UNCHANGED <<seats, sub>>
    BY DEF Asks, MembersRight, MembersTypeOK
  <1> HIDE DEF x
  <1>3. ReadsSub(c)'
    BY <1>1, <1>2 DEF ReadsSub, Telling
  <1> QED  BY <1>1, <1>3, AsksKeeps DEF x

LEMMA AskTermsKeeps ==
  ASSUME MembersRight, NEW c \in MemberCalls, NEW s \in Subs,
         \/ \E o \in Orgs, limit \in Limits, terms \in TermStatuses :
              AskSubscribe(c, s, o, limit, terms)
         \/ \E terms \in {"active", "ended"} : AskDecide(c, s, terms)
         \/ \E limit \in Limits \cup {0}, terms \in TermStatuses \cup {"unsaid"} :
              AskResize(c, s, limit, terms)
         \/ AskRenew(c, s)
  PROVE  MembersRight'
  <1>0. sub[s].status # "none" => sub[s].org \in Orgs
    BY DEF MembersRight, SubsRight
  <1>1. ASSUME NEW o \in Orgs, NEW limit \in Limits, NEW terms \in TermStatuses,
               AskSubscribe(c, s, o, limit, terms)
        PROVE  MembersRight'
    <2> DEFINE todo == {o}
    <2>1. Asks(c, Terms("subscribe", s, o, limit, terms, todo)) /\ todo \in SUBSET Orgs
      BY <1>1 DEF AskSubscribe
    <2>2. terms \in TermStatuses \cup {"unsaid"} /\ terms # "unsaid"
      BY DEF TermStatuses
    <2> HIDE DEF todo
    <2> QED  BY <2>1, <2>2, TermsKeeps
  <1>2. ASSUME NEW terms \in {"active", "ended"}, AskDecide(c, s, terms)
        PROVE  MembersRight'
    <2> DEFINE todo == IF terms = "active" THEN {sub[s].org} ELSE {}
    <2>1. sub[s].status # "none" /\ sub[s].org \in Orgs /\ todo \in SUBSET Orgs
          /\ Asks(c, Terms("decide", s, sub[s].org, 0, terms, todo))
      BY <1>0, <1>2 DEF AskDecide
    <2> HIDE DEF todo
    <2> QED  BY <2>1, TermsKeeps DEF TermStatuses
  <1>3. ASSUME NEW limit \in Limits \cup {0}, NEW terms \in TermStatuses \cup {"unsaid"},
               AskResize(c, s, limit, terms)
        PROVE  MembersRight'
    <2> DEFINE todo == {sub[s].org}
    <2>1. sub[s].status # "none" /\ sub[s].org \in Orgs /\ todo \in SUBSET Orgs
          /\ Asks(c, Terms("resize", s, sub[s].org, limit, terms, todo))
      BY <1>0, <1>3 DEF AskResize
    <2> HIDE DEF todo
    <2> QED  BY <2>1, TermsKeeps
  <1>4. CASE AskRenew(c, s)
    <2> DEFINE todo == {sub[s].org}
               terms == "active"
    <2>1. sub[s].status # "none" /\ sub[s].org \in Orgs /\ todo \in SUBSET Orgs
          /\ Asks(c, Terms("renew", s, sub[s].org, 0, terms, todo))
      BY <1>0, <1>4 DEF AskRenew
    <2>2. 0 \in Limits \cup {0} /\ terms \in TermStatuses \cup {"unsaid"} /\ terms # "unsaid"
      BY DEF TermStatuses
    <2> HIDE DEF todo, terms
    <2> QED  BY <2>1, <2>2, TermsKeeps
  <1> QED  BY <1>1, <1>2, <1>3, <1>4

LEMMA AskCreateKeeps ==
  ASSUME MembersRight, NEW c \in MemberCalls, NEW u \in Users, NEW role \in Licensed,
         NEW o \in Orgs \cup {NoOrg}, NEW state \in {"active", "disabled"},
         AskCreate(c, u, role, o, state)
  PROVE  MembersRight'
  <1> DEFINE x == [NoCall EXCEPT !.phase = "writing", !.kind = "create", !.user = u,
                     !.state = state, !.role = role, !.org = o, !.todo = Affected(o, NoOrg)]
  <1>1. Affected(o, NoOrg) = {o} \ {NoOrg}
    BY DEF Affected
  <1>2. x \in MemberCall /\ x.phase = "writing" /\ x.kind = "create" /\ x.user = u
        /\ x.state = state /\ x.role = role /\ x.org = o /\ x.todo = {o} \ {NoOrg}
    BY <1>1 DEF NoCall, MemberCall, Tiers
  <1>3. Asks(c, x)
    BY DEF AskCreate
  <1>4. memberCall'[c] = x /\ UNCHANGED <<user, seats, excused>>
    BY <1>3 DEF Asks, MembersRight, MembersTypeOK
  <1> HIDE DEF x
  <1>5. user[u].org = NoOrg
    BY DEF AskCreate, MembersRight, Unborn
  <1>6. o \in Orgs => seats[o].open
    BY <1>5, MembersAssumption DEF AskCreate, MayJoin
  <1>7. Reads(c)'
    BY <1>2, <1>4, <1>5, <1>6
       DEF Reads, ReadsUser, ReadsOrg, ReadsMembers, Bears, OrgOf
  <1> QED  BY <1>2, <1>3, <1>7, AsksKeeps

LEMMA AskUpdateKeeps ==
  ASSUME MembersRight, NEW c \in MemberCalls, NEW u \in Users,
         NEW role \in Licensed \cup {"unsaid"}, NEW o \in Orgs \cup {NoOrg},
         NEW state \in {"active", "disabled", "unsaid"}, NEW links \in BOOLEAN,
         NEW students \in SUBSET Users,
         AskUpdate(c, u, role, o, state, links, students)
  PROVE  MembersRight'
  <1> DEFINE nextRole == IF role = "unsaid" THEN user[u].role ELSE role
             l == links /\ nextRole = "PARENT"
             todo == Affected(o, user[u].org)
             x == [NoCall EXCEPT !.phase = "writing", !.kind = "update", !.user = u,
                     !.state = state, !.role = role, !.org = o, !.todo = todo,
                     !.links = l, !.students = students]
  <1>0. user[u].org \in Orgs \cup {NoOrg}
    BY DEF MembersRight, MembersTypeOK, User
  <1>1. Affected(o, user[u].org) = {o, user[u].org} \ {NoOrg}
    BY DEF Affected
  <1>2. x \in MemberCall /\ x.phase = "writing" /\ x.kind = "update" /\ x.user = u
        /\ x.state = state /\ x.role = role /\ x.org = o
        /\ x.todo = {o, user[u].org} \ {NoOrg}
    <2>1. l \in BOOLEAN
      BY Zenon
    <2> HIDE DEF l
    <2>2. todo = {o, user[u].org} \ {NoOrg}
      BY <1>1
    <2>8. todo \in SUBSET Orgs
      BY <1>0, <2>2
    <2> HIDE DEF todo
    <2> DEFINE n == NoCall
    <2>3. n \in MemberCall
      BY DEF NoCall, MemberCall, Tiers
    <2> HIDE DEF n
    <2> DEFINE m == [n EXCEPT !.phase = "writing", !.kind = "update", !.user = u,
                                !.state = state, !.role = role, !.org = o, !.todo = todo]
    <2>6. m \in MemberCall
      BY <2>8 DEF MemberCall, n, NoCall, Tiers
    <2>7. x = [m EXCEPT !.links = l, !.students = students]
      BY <2>3 DEF MemberCall, n
    <2> HIDE DEF x, m
    <2>4. x \in MemberCall
      BY <2>1, <2>6, <2>7 DEF MemberCall
    <2> USE DEF x
    <2>5. x.phase = "writing" /\ x.kind = "update" /\ x.user = u
        /\ x.state = state /\ x.role = role /\ x.org = o
        /\ x.todo = todo
      BY <2>3 DEF n, MemberCall
    <2> QED  BY <2>2, <2>4, <2>5
  <1>3. Asks(c, x)
    BY DEF AskUpdate
  <1>4. memberCall'[c] = x /\ UNCHANGED <<user, seats, excused>>
    BY <1>3 DEF Asks, MembersRight, MembersTypeOK
  <1> HIDE DEF x
  <1>5. There(u)
    BY DEF AskUpdate
  <1>6. o \in Orgs => seats[o].open \/ <<"archive", o>> \in excused
    <2>1. o \in Orgs => seats[o].open \/ user[u].org = o
      BY MembersAssumption DEF AskUpdate, MayJoin
    <2> QED  BY <2>1, <1>5 DEF MembersRight, ArchivedIsLeft
  <1>7. Reads(c)'
    BY <1>2, <1>4, <1>5, <1>6
       DEF Reads, ReadsUser, ReadsOrg, ReadsMembers, Bears, OrgOf, There
  <1> QED  BY <1>2, <1>3, <1>7, AsksKeeps

LEMMA AskDeleteKeeps ==
  ASSUME MembersRight, NEW c \in MemberCalls, NEW u \in Users, AskDelete(c, u)
  PROVE  MembersRight'
  <1> DEFINE x == [NoCall EXCEPT !.phase = "writing", !.kind = "delete", !.user = u,
                     !.todo = OrgsOf(u)]
  <1>1. OrgsOf(u) \subseteq Orgs /\ OrgOf(u) \subseteq OrgsOf(u)
    BY DEF OrgsOf, OrgOf, MembersRight, MembersTypeOK, User
  <1>2. x \in MemberCall /\ x.phase = "writing" /\ x.kind = "delete" /\ x.user = u
        /\ x.todo = OrgsOf(u)
    BY <1>1 DEF NoCall, MemberCall, Tiers
  <1>3. Asks(c, x)
    BY DEF AskDelete
  <1>4. memberCall'[c] = x /\ UNCHANGED <<user, member, seats, excused>>
    BY <1>3 DEF Asks, MembersRight, MembersTypeOK
  <1> HIDE DEF x
  <1>5. Reads(c)'
    BY <1>1, <1>2, <1>4 DEF Reads, ReadsUser, ReadsOrg, ReadsMembers, Bears, OrgOf
  <1> QED  BY <1>2, <1>3, <1>5, AsksKeeps

LEMMA AskArchiveKeeps ==
  ASSUME MembersRight, NEW c \in MemberCalls, NEW o \in Orgs, AskArchive(c, o)
  PROVE  MembersRight'
  <1> DEFINE x == [NoCall EXCEPT !.phase = "writing", !.kind = "archive", !.org = o,
                     !.pool = MembersOf(o)]
  <1>1. MembersOf(o) \subseteq Users
        /\ \A u \in Users : There(u) /\ user[u].org = o => u \in MembersOf(o)
    BY DEF MembersOf, OrgsOf
  <1>2. x \in MemberCall /\ x.phase = "writing" /\ x.kind = "archive" /\ x.org = o
        /\ x.pool = MembersOf(o)
    BY <1>1 DEF NoCall, MemberCall, Tiers
  <1>3. Asks(c, x)
    BY DEF AskArchive
  <1>4. memberCall'[c] = x /\ UNCHANGED <<user, seats, excused>>
    BY <1>3 DEF Asks, MembersRight, MembersTypeOK
  <1> HIDE DEF x
  <1>5. Reads(c)'
    BY <1>1, <1>2, <1>4 DEF Reads, ReadsUser, ReadsOrg, ReadsMembers, Bears, There
  <1> QED  BY <1>2, <1>3, <1>5, AsksKeeps

LEMMA AskCountKeeps ==
  ASSUME MembersRight, NEW c \in MemberCalls, NEW o \in Orgs, AskCount(c, o)
  PROVE  MembersRight'
  <1> DEFINE x == [NoCall EXCEPT !.phase = "counting", !.todo = {o}]
  <1>1. x \in MemberCall /\ x.phase = "counting"
    BY DEF NoCall, MemberCall, Tiers
  <1>2. Asks(c, x)
    BY DEF AskCount
  <1> QED  BY <1>1, <1>2, AsksKeeps
-----------------------------------------------------------------------------
\* A write to users: what follows for the other requests in flight.
LEMMA OvertakenOthers ==
  ASSUME MembersTypeOK, NEW c \in MemberCalls, NEW next \in MemberCall, NEW us,
         Overtaken(c, next, us)
  PROVE  /\ memberCall' \in [MemberCalls -> MemberCall]
         /\ memberCall'[c] = next
         /\ \A d \in MemberCalls \ {c} :
              Same(memberCall[d], memberCall'[d]) /\ Stales(d, us) \subseteq memberCall'[d].stale
  <1>1. ASSUME NEW d \in MemberCalls
        PROVE  LET y == [memberCall[d] EXCEPT !.stale = @ \cup Stales(d, us)] IN
               y \in MemberCall /\ Same(memberCall[d], y) /\ Stales(d, us) \subseteq y.stale
    BY MoreStale, StalesWhole DEF MembersTypeOK
  <1> QED  BY <1>1 DEF Overtaken

\* What WriteUser does to its user
LEMMA WritesUser ==
  ASSUME MembersRight, NEW c \in MemberCalls, WriteUser(c)
  PROVE  LET x == memberCall[c]
             u == x.user
         IN /\ x.phase = "writing" /\ x.kind \in {"create", "update"}
            /\ x \in MemberCall /\ u \in Users
            /\ user' \in [Users -> User]
            /\ \A v \in Users \ {u} : user'[v] = user[v]
            /\ user'[u].state = IF x.state = "unsaid" THEN user[u].state ELSE x.state
            /\ user'[u].role = IF x.role = "unsaid" THEN user[u].role ELSE x.role
            /\ user'[u].org = x.org
            /\ user'[u].deleted = user[u].deleted
            /\ user'[u].state # "none"
            /\ ThenCounts(c, x.todo) \in MemberCall
            /\ ThenCounts(c, x.todo).phase \in {"idle", "counting"}
            /\ ThenCounts(c, x.todo).todo = x.todo
  <1> DEFINE x == memberCall[c]
             u == x.user
  <1>1. x.phase = "writing" /\ x.kind \in {"create", "update"}
    BY DEF WriteUser
  <1>2. x \in MemberCall /\ user \in [Users -> User]
    BY DEF MembersRight, MembersTypeOK
  <1>3. Reads(c)
    BY DEF MembersRight
  <1>4. u \in Users
    BY <1>1, <1>3 DEF Reads, ReadsUser
  <1>5. user' = [user EXCEPT
          ![u].state = IF x.state = "unsaid" THEN @ ELSE x.state,
          ![u].role = IF x.role = "unsaid" THEN @ ELSE x.role,
          ![u].org = x.org]
    BY DEF WriteUser
  <1>6. x.state = "unsaid" => user[u].state # "none"
    BY <1>1, <1>3 DEF Reads, Bears
  <1>7. x.state \in {"active", "disabled", "unsaid"} /\ x.role \in Licensed \cup {"unsaid"}
        /\ x.org \in Orgs \cup {NoOrg} /\ x.todo \in SUBSET Orgs
    BY <1>2 DEF MemberCall
  <1> HIDE DEF x
  <1>8. user' \in [Users -> User] /\ \A v \in Users \ {u} : user'[v] = user[v]
    <2>1. [user[u] EXCEPT
            !.state = IF x.state = "unsaid" THEN @ ELSE x.state,
            !.role = IF x.role = "unsaid" THEN @ ELSE x.role,
            !.org = x.org] \in User
      BY ZenonT(30), <1>2, <1>4, <1>7 DEF User, Roles
    <2> QED  BY <1>2, <1>4, <1>5, <2>1
  <1>9. /\ user'[u].state = IF x.state = "unsaid" THEN user[u].state ELSE x.state
        /\ user'[u].role = IF x.role = "unsaid" THEN user[u].role ELSE x.role
        /\ user'[u].org = x.org
        /\ user'[u].deleted = user[u].deleted
    BY <1>2, <1>4, <1>5 DEF User
  <1> QED  BY <1>1, <1>2, <1>4, <1>6, <1>7, <1>8, <1>9, ThenCountsTyped DEF x

LEMMA WriteUserKeeps ==
  ASSUME MembersRight, NEW c \in MemberCalls, WriteUser(c)
  PROVE  MembersRight'
  <1> DEFINE x == memberCall[c]
             u == x.user
             next == ThenCounts(c, x.todo)
  <1>1. /\ x.phase = "writing" /\ x.kind \in {"create", "update"}
        /\ x \in MemberCall /\ u \in Users
        /\ user' \in [Users -> User]
        /\ \A v \in Users \ {u} : user'[v] = user[v]
        /\ user'[u].org = x.org
        /\ user'[u].state # "none"
        /\ next \in MemberCall
        /\ next.phase \in {"idle", "counting"}
    BY WritesUser
  <1>2. Overtaken(c, next, {u}) /\ seats' = seats /\ sub' = sub
    BY DEF WriteUser
  <1>10. RowsKept /\ SubsRight' /\ sub' \in [Subs -> Subscription]
    BY <1>2, SubsKept
  <1>3. member' = {m \in member : m[1] # u} \cup ({u} \X ({x.org} \ {NoOrg}))
        /\ linked' = LinksOf(x, u)
    BY DEF WriteUser
  <1>4. excused' = excused \cup
          {e \in Excuses \X ({x.org} \ {NoOrg}) :
             \/ e[1] = "seats" /\ {"seat", "user"} \cap x.stale # {}
             \/ e[1] = "archive" /\ "archive" \in x.stale}
          \cup NotCounted(x)
    BY DEF WriteUser
  <1>5. MembersTypeOK /\ Reads(c) /\ x.org \in Orgs \cup {NoOrg} /\ x.students \subseteq Users
    BY <1>1 DEF MembersRight, MemberCall
  <1> HIDE DEF x, next
  <1>6. MembersTypeOK'
    <2>1. linked' \subseteq Users \X Users \X Orgs
      <3>1. x.links => x.org \in Orgs
        BY <1>5 DEF WriteUser, MayLink, x
      <3> QED  BY <1>1, <1>3, <1>5, <3>1 DEF LinksOf, MembersTypeOK
    <2>2. member' \subseteq Users \X Orgs
      BY <1>1, <1>3, <1>5 DEF MembersTypeOK
    <2>3. excused' \subseteq Excuses \X (Orgs \cup Subs)
      BY <1>4, <1>5 DEF MembersTypeOK, NotCounted, Changed, Excuses
    <2>4. memberCall' \in [MemberCalls -> MemberCall]
      BY <1>1, <1>2, <1>5, OvertakenOthers
    <2> QED  BY <1>1, <1>2, <1>5, <1>10, <2>1, <2>2, <2>3, <2>4 DEF MembersTypeOK
  <1>7. ASSUME NEW d \in MemberCalls PROVE Reads(d)' /\ ReadsSub(d)'
    <2>1. CASE d = c
      <3>1. memberCall'[c] = next
        BY <1>1, <1>2, <1>5, OvertakenOthers
      <3> QED  BY <1>1, <2>1, <3>1
                  DEF Reads, ReadsUser, ReadsOrg, ReadsMembers, Bears, ReadsSub, Telling
    <2>2. CASE d # c
      <3>1. Same(memberCall[d], memberCall'[d]) /\ Stales(d, {u}) \subseteq memberCall'[d].stale
        BY <1>1, <1>2, <1>5, <2>2, OvertakenOthers
      <3>2. \A v \in Users : user[v].state # "none" => user'[v].state # "none"
        BY <1>1
      <3>3. \A o \in Orgs : <<"archive", o>> \in excused => <<"archive", o>> \in excused'
        BY <1>4
      <3> QED  BY <1>1, <1>2, <1>10, <3>1, <3>2, <3>3, MoveKeeps
    <2> QED  BY <2>1, <2>2
  <1>8. Unborn'
    BY <1>1 DEF Unborn, MembersRight
  <1>9. ArchivedIsLeft'
    <2> SUFFICES ASSUME NEW o \in Orgs, ~seats[o].open, <<"archive", o>> \notin excused',
                        NEW v \in Users, There(v)'
                 PROVE  user'[v].org # o
      BY <1>2 DEF ArchivedIsLeft
    <2>1. <<"archive", o>> \notin excused
      BY <1>4
    <2>2. CASE v # u
      BY <1>1, <2>1, <2>2 DEF There, ArchivedIsLeft, MembersRight
    <2>3. CASE v = u /\ x.org = o
      <3>1. "archive" \in x.stale
        BY <1>1, <1>5, <2>1, <2>3 DEF Reads, ReadsOrg, x
      <3>2. <<"archive", o>> \in Excuses \X ({x.org} \ {NoOrg})
        BY <2>3, MembersAssumption DEF Excuses
      <3> QED  BY <1>4, <3>1, <3>2
    <2> QED  BY <1>1, <2>2, <2>3
  <1> QED  BY <1>6, <1>7, <1>8, <1>9, <1>10 DEF MembersRight

LEMMA DeletesUser ==
  ASSUME MembersRight, NEW c \in MemberCalls, DeleteUser(c)
  PROVE  LET x == memberCall[c]
             u == x.user
         IN /\ x.phase = "writing" /\ x.kind = "delete"
            /\ x \in MemberCall /\ u \in Users
            /\ user' \in [Users -> User]
            /\ \A v \in Users \ {u} : user'[v] = user[v]
            /\ user'[u].state = "disabled" /\ user'[u].deleted
            /\ user'[u].org = user[u].org
            /\ ThenCounts(c, x.todo) \in MemberCall
            /\ ThenCounts(c, x.todo).phase \in {"idle", "counting"}
            /\ ThenCounts(c, x.todo).todo = x.todo
  <1> DEFINE x == memberCall[c]
             u == x.user
  <1>1. x.phase = "writing" /\ x.kind = "delete" /\ user' = [user EXCEPT ![u] = Buried(u)]
    BY DEF DeleteUser
  <1>2. x \in MemberCall /\ user \in [Users -> User] /\ x.todo \in SUBSET Orgs
    BY DEF MembersRight, MembersTypeOK, MemberCall
  <1>3. u \in Users
    BY <1>1 DEF MembersRight, Reads, ReadsUser
  <1>4. Buried(u) \in User /\ Buried(u).state = "disabled" /\ Buried(u).deleted
        /\ Buried(u).org = user[u].org
    BY <1>2, <1>3 DEF Buried, User
  <1> QED  BY <1>1, <1>2, <1>3, <1>4, ThenCountsTyped

LEMMA DeleteUserKeeps ==
  ASSUME MembersRight, NEW c \in MemberCalls, DeleteUser(c)
  PROVE  MembersRight'
  <1> DEFINE x == memberCall[c]
             u == x.user
             next == ThenCounts(c, x.todo)
  <1>1. /\ x.phase = "writing" /\ x.kind = "delete"
        /\ x \in MemberCall /\ u \in Users
        /\ user' \in [Users -> User]
        /\ \A v \in Users \ {u} : user'[v] = user[v]
        /\ user'[u].state = "disabled" /\ user'[u].deleted
        /\ user'[u].org = user[u].org
        /\ next \in MemberCall
        /\ next.phase \in {"idle", "counting"}
    BY DeletesUser
  <1>2. Overtaken(c, next, {u}) /\ seats' = seats /\ sub' = sub
        /\ excused' = excused \cup NotCounted(x)
    BY DEF DeleteUser
  <1>10. RowsKept /\ SubsRight' /\ sub' \in [Subs -> Subscription]
    BY <1>2, SubsKept
  <1>3. member' = {m \in member : m[1] # u} /\ linked' = {l \in linked : u \notin {l[1], l[2]}}
    BY DEF DeleteUser
  <1>4. MembersTypeOK
    BY DEF MembersRight
  <1> HIDE DEF x, next
  <1>5. MembersTypeOK'
    <2>1. NotCounted(x) \subseteq Excuses \X Orgs
      BY DEF NotCounted, Changed, Excuses
    <2>2. memberCall' \in [MemberCalls -> MemberCall]
      BY <1>1, <1>2, <1>4, OvertakenOthers
    <2> QED  BY <1>1, <1>2, <1>3, <1>4, <1>10, <2>1, <2>2 DEF MembersTypeOK
  <1>6. ASSUME NEW d \in MemberCalls PROVE Reads(d)' /\ ReadsSub(d)'
    <2>1. CASE d = c
      <3>1. memberCall'[c] = next
        BY <1>1, <1>2, <1>4, OvertakenOthers
      <3> QED  BY <1>1, <2>1, <3>1
                  DEF Reads, ReadsUser, ReadsOrg, ReadsMembers, Bears, ReadsSub, Telling
    <2>2. CASE d # c
      <3>1. Same(memberCall[d], memberCall'[d]) /\ Stales(d, {u}) \subseteq memberCall'[d].stale
        BY <1>1, <1>2, <1>4, <2>2, OvertakenOthers
      <3>2. \A v \in Users : user[v].state # "none" => user'[v].state # "none"
        BY <1>1
      <3> QED  BY <1>1, <1>2, <1>10, <3>1, <3>2, MoveKeeps
    <2> QED  BY <2>1, <2>2
  <1>7. Unborn'
    BY <1>1 DEF Unborn, MembersRight
  <1>8. ArchivedIsLeft'
    BY <1>1, <1>2 DEF ArchivedIsLeft, MembersRight, There
  <1> QED  BY <1>5, <1>6, <1>7, <1>8, <1>10 DEF MembersRight

LEMMA Archives ==
  ASSUME MembersRight, NEW c \in MemberCalls, ArchiveOrganization(c)
  PROVE  LET x == memberCall[c] IN
         /\ x.phase = "writing" /\ x.kind = "archive"
         /\ x \in MemberCall /\ x.org \in Orgs /\ x.pool \subseteq Users
         /\ user' \in [Users -> User]
         /\ \A v \in Users \ x.pool : user'[v] = user[v]
         /\ \A v \in x.pool : user'[v].state = "disabled" /\ user'[v].deleted
                              /\ user'[v].org = user[v].org
         /\ memberCall' \in [MemberCalls -> MemberCall]
         /\ memberCall'[c] = NoCall
         /\ \A d \in MemberCalls \ {c} :
              /\ Same(memberCall[d], memberCall'[d])
              /\ Stales(d, x.pool) \subseteq memberCall'[d].stale
              /\ memberCall[d].org = x.org =>
                   {"archive", "seat", "count"} \subseteq memberCall'[d].stale
         /\ seats' \in [Orgs -> Seats]
         /\ \A o \in Orgs \ {x.org} : seats'[o] = seats[o]
         /\ ~seats'[x.org].open /\ seats'[x.org].current = NoSub
         /\ sub' \in [Subs -> Subscription]
         /\ \A s \in Subs : /\ sub[s].org # x.org => sub'[s] = sub[s]
                            /\ sub'[s].org = sub[s].org
                            /\ sub'[s].status = "none" <=> sub[s].status = "none"
                            /\ sub'[s].tier = sub[s].tier /\ sub'[s].warned = sub[s].warned
  <1> DEFINE x == memberCall[c]
             gone == x.pool
             more(d) == Stales(d, gone) \cup
                          (IF memberCall[d].org = x.org THEN {"archive", "seat", "count"} ELSE {})
  <1>1. x.phase = "writing" /\ x.kind = "archive"
        /\ user' = [u \in Users |-> IF u \in gone THEN Buried(u) ELSE user[u]]
        /\ seats' = [seats EXCEPT ![x.org].open = FALSE, ![x.org].current = NoSub]
        /\ sub' = [s \in Subs |->
             IF sub[s].org # x.org THEN sub[s]
             ELSE [sub[s] EXCEPT !.status = IF @ = "active" THEN "ended" ELSE @, !.usage = 0]]
        /\ memberCall' = [d \in MemberCalls |->
             IF d = c THEN NoCall
             ELSE [memberCall[d] EXCEPT !.stale = @ \cup Stales(d, gone) \cup
                     (IF memberCall[d].org = x.org THEN {"archive", "seat", "count"} ELSE {})]]
    BY DEF ArchiveOrganization
  <1>2. MembersTypeOK /\ x \in MemberCall /\ gone \subseteq Users
    BY DEF MembersRight, MembersTypeOK, MemberCall
  <1>3. x.org \in Orgs
    BY <1>1 DEF MembersRight, Reads, ReadsMembers
  <1>4. \A u \in Users : Buried(u) \in User /\ Buried(u).state = "disabled" /\ Buried(u).deleted
                         /\ Buried(u).org = user[u].org
    BY <1>2 DEF Buried, User, MembersTypeOK
  <1>5. seats' \in [Orgs -> Seats] /\ (\A o \in Orgs \ {x.org} : seats'[o] = seats[o])
        /\ ~seats'[x.org].open /\ seats'[x.org].current = NoSub
    BY <1>1, <1>2, <1>3 DEF MembersTypeOK, Seats
  <1>12. ASSUME NEW s \in Subs
         PROVE  /\ sub'[s] \in Subscription
                /\ sub[s].org # x.org => sub'[s] = sub[s]
                /\ sub'[s].org = sub[s].org
                /\ sub'[s].status = "none" <=> sub[s].status = "none"
                /\ sub'[s].tier = sub[s].tier /\ sub'[s].warned = sub[s].warned
    <2>1. sub[s] \in Subscription
      BY <1>2 DEF MembersTypeOK
    <2>2. sub'[s] = IF sub[s].org # x.org THEN sub[s]
             ELSE [sub[s] EXCEPT !.status = IF @ = "active" THEN "ended" ELSE @, !.usage = 0]
      BY <1>1
    <2> HIDE DEF x
    <2>3. CASE sub[s].org # x.org
      BY <2>1, <2>2, <2>3
    <2>4. CASE sub[s].org = x.org
      <3> DEFINE r == sub[s]
                 status == IF r.status = "active" THEN "ended" ELSE r.status
      <3>1. status \in TermStatuses \cup {"none"} /\ (status = "none" <=> r.status = "none")
        BY <2>1 DEF Subscription, TermStatuses
      <3>2. sub'[s] = [r EXCEPT !.status = status, !.usage = 0]
        BY <2>1, <2>2, <2>4 DEF Subscription
      <3> HIDE DEF status, r
      <3>3. r \in Subscription
        BY <2>1 DEF r
      <3> DEFINE w == [r EXCEPT !.status = status, !.usage = 0]
      <3>4. /\ w \in Subscription /\ w.org = r.org /\ w.status = status
            /\ w.tier = r.tier /\ w.warned = r.warned
        BY <3>1, <3>3 DEF Subscription
      <3> QED  BY <2>4, <3>1, <3>2, <3>4 DEF r
    <2> QED  BY <2>3, <2>4
  <1>13. sub' \in [Subs -> Subscription]
    BY <1>1, <1>12
  <1>6. ASSUME NEW d \in MemberCalls
        PROVE  LET y == [memberCall[d] EXCEPT !.stale = @ \cup more(d)] IN
               y \in MemberCall /\ Same(memberCall[d], y) /\ more(d) \subseteq y.stale
    <2>1. more(d) \in SUBSET Whole
      BY StalesWhole DEF Whole
    <2> QED  BY <1>2, <2>1, MoreStale DEF MembersTypeOK
  <1>7. \A d \in MemberCalls \ {c} : memberCall'[d] = [memberCall[d] EXCEPT !.stale = @ \cup more(d)]
    BY <1>1
  <1>8. NoCall \in MemberCall
    BY DEF NoCall, MemberCall, Tiers
  <1>9. memberCall' \in [MemberCalls -> MemberCall] /\ memberCall'[c] = NoCall
    <2> HIDE DEF more
    <2> QED  BY <1>1, <1>6, <1>7, <1>8
  <1>10. \A d \in MemberCalls \ {c} :
              /\ Same(memberCall[d], memberCall'[d])
              /\ Stales(d, x.pool) \subseteq memberCall'[d].stale
              /\ memberCall[d].org = x.org =>
                   {"archive", "seat", "count"} \subseteq memberCall'[d].stale
    BY <1>6, <1>7
  <1>11. user' \in [Users -> User]
         /\ (\A v \in Users \ x.pool : user'[v] = user[v])
         /\ \A v \in x.pool : user'[v].state = "disabled" /\ user'[v].deleted
                              /\ user'[v].org = user[v].org
    BY <1>1, <1>2, <1>4 DEF MembersTypeOK
  <1> HIDE DEF more
  <1> QED  BY <1>1, <1>2, <1>3, <1>5, <1>9, <1>10, <1>11, <1>12, <1>13

LEMMA ArchiveOrganizationKeeps ==
  ASSUME MembersRight, NEW c \in MemberCalls, ArchiveOrganization(c)
  PROVE  MembersRight'
  <1> DEFINE x == memberCall[c]
             gone == x.pool
  <1>1. /\ x.phase = "writing" /\ x.kind = "archive"
        /\ x.org \in Orgs /\ gone \subseteq Users
        /\ user' \in [Users -> User]
        /\ \A v \in Users \ gone : user'[v] = user[v]
        /\ \A v \in gone : user'[v].state = "disabled" /\ user'[v].deleted
                           /\ user'[v].org = user[v].org
        /\ memberCall' \in [MemberCalls -> MemberCall]
        /\ memberCall'[c] = NoCall
        /\ \A d \in MemberCalls \ {c} :
             /\ Same(memberCall[d], memberCall'[d])
             /\ Stales(d, gone) \subseteq memberCall'[d].stale
             /\ memberCall[d].org = x.org => "archive" \in memberCall'[d].stale
        /\ seats' \in [Orgs -> Seats]
        /\ \A o \in Orgs \ {x.org} : seats'[o] = seats[o]
        /\ ~seats'[x.org].open /\ seats'[x.org].current = NoSub
        /\ sub' \in [Subs -> Subscription]
        /\ \A s \in Subs : /\ sub[s].org # x.org => sub'[s] = sub[s]
                           /\ sub'[s].org = sub[s].org
                           /\ sub'[s].status = "none" <=> sub[s].status = "none"
    BY Archives
  <1>2. member' \subseteq member /\ linked' \subseteq linked
    BY DEF ArchiveOrganization
  <1>3. excused' = excused \cup ({"usage"} \X (Changed(gone) \ {x.org})) \cup
          (IF "archive" \in x.stale THEN {<<"archive", x.org>>} ELSE {})
    BY DEF ArchiveOrganization
  <1>4. MembersTypeOK /\ Reads(c)
    BY DEF MembersRight
  <1> HIDE DEF x
  <1>9. RowsKept /\ SubsRight'
    <2>1. RowsKept
      BY <1>1 DEF RowsKept
    <2>2. ASSUME NEW s \in Subs, sub'[s].status # "none" PROVE sub'[s].org \in Orgs
      BY <1>1, <2>2 DEF MembersRight, SubsRight
    <2>3. ASSUME NEW o \in Orgs, seats'[o].current # NoSub
          PROVE  sub'[seats'[o].current].status = "active" /\ sub'[seats'[o].current].org = o
      <3>1. o # x.org /\ seats'[o] = seats[o]
        BY <1>1, <2>3
      <3>2. seats[o].current \in Subs
        BY <1>4, <2>3, <3>1 DEF MembersTypeOK, Seats
      <3> QED  BY <1>1, <2>3, <3>1, <3>2 DEF MembersRight, SubsRight
    <2> QED  BY <2>1, <2>2, <2>3 DEF SubsRight
  <1>5. MembersTypeOK'
    <2>1. excused' \subseteq Excuses \X (Orgs \cup Subs)
      BY <1>1, <1>3, <1>4 DEF MembersTypeOK, Changed, Excuses
    <2> QED  BY <1>1, <1>2, <1>4, <2>1 DEF MembersTypeOK
  <1>6. ASSUME NEW d \in MemberCalls PROVE Reads(d)' /\ ReadsSub(d)'
    <2>1. CASE d = c
      BY <1>1, <2>1 DEF NoCall, Reads, ReadsUser, ReadsOrg, ReadsMembers, Bears, ReadsSub, Telling
    <2>2. CASE d # c
      <3>1. \A v \in Users : user[v].state # "none" => user'[v].state # "none"
        BY <1>1
      <3>2. \A o \in Orgs : <<"archive", o>> \in excused => <<"archive", o>> \in excused'
        BY <1>3
      <3> QED  BY <1>1, <1>9, <2>2, <3>1, <3>2, MoveKeeps
    <2> QED  BY <2>1, <2>2
  <1>7. Unborn'
    BY <1>1 DEF Unborn, MembersRight
  <1>8. ArchivedIsLeft'
    <2> SUFFICES ASSUME NEW o \in Orgs, ~seats'[o].open, <<"archive", o>> \notin excused',
                        NEW v \in Users, There(v)'
                 PROVE  user'[v].org # o
      BY DEF ArchivedIsLeft
    <2>1. v \notin gone /\ user'[v] = user[v] /\ There(v)
      BY <1>1 DEF There
    <2>2. CASE o = x.org
      BY <1>1, <1>3, <1>4, <2>1, <2>2 DEF Reads, ReadsMembers, x
    <2>3. CASE o # x.org
      BY <1>1, <1>3, <2>1, <2>3 DEF ArchivedIsLeft, MembersRight
    <2> QED  BY <2>2, <2>3
  <1> QED  BY <1>5, <1>6, <1>7, <1>8, <1>9 DEF MembersRight

LEMMA Invites ==
  ASSUME MembersTypeOK, NEW u \in Users, NEW o \in Orgs, InviteStudent(u, o)
  PROVE  /\ user' \in [Users -> User]
         /\ \A v \in Users \ {u} : user'[v] = user[v]
         /\ user'[u].state # "none" /\ user'[u].org = o
         /\ memberCall' \in [MemberCalls -> MemberCall]
         /\ \A d \in MemberCalls : /\ Same(memberCall[d], memberCall'[d])
                                   /\ Stales(d, {u}) \subseteq memberCall'[d].stale
         /\ seats' = seats /\ sub' = sub
         /\ {"seats", "usage", "archive"} \X Changed({u}) \subseteq excused'
         /\ excused \subseteq excused' /\ excused' \subseteq Excuses \X (Orgs \cup Subs)
         /\ o \in Changed({u})
  <1>1. user' = [user EXCEPT ![u].state = IF @ = "none" THEN "active" ELSE @, ![u].org = o]
    BY DEF InviteStudent
  <1>2. user \in [Users -> User] /\ user[u] \in User
    BY DEF MembersTypeOK
  <1>3. [user[u] EXCEPT !.state = IF @ = "none" THEN "active" ELSE @, !.org = o] \in User
        /\ user'[u].state # "none" /\ user'[u].org = o
    BY <1>1, <1>2 DEF User
  <1>4. user' \in [Users -> User] /\ \A v \in Users \ {u} : user'[v] = user[v]
    BY <1>1, <1>2, <1>3
  <1>5. ASSUME NEW d \in MemberCalls
        PROVE  LET y == [memberCall[d] EXCEPT !.stale = @ \cup Stales(d, {u})] IN
               y \in MemberCall /\ Same(memberCall[d], y) /\ Stales(d, {u}) \subseteq y.stale
    BY MoreStale, StalesWhole DEF MembersTypeOK
  <1>6. memberCall' = [d \in MemberCalls |->
          [memberCall[d] EXCEPT !.stale = @ \cup Stales(d, {u})]]
    BY DEF InviteStudent
  <1>7. excused' = excused \cup ({"seats", "usage", "archive"} \X Changed({u}))
        /\ seats' = seats /\ sub' = sub
    BY DEF InviteStudent
  <1>8. Changed({u}) \subseteq Orgs /\ o \in Changed({u})
    BY <1>3 DEF Changed
  <1> QED  BY <1>3, <1>4, <1>5, <1>6, <1>7, <1>8 DEF MembersTypeOK, Excuses

LEMMA InviteStudentKeeps ==
  ASSUME MembersRight, NEW u \in Users, NEW o \in Orgs, InviteStudent(u, o)
  PROVE  MembersRight'
  <1>1. MembersTypeOK
    BY DEF MembersRight
  <1>2. /\ user' \in [Users -> User]
        /\ \A v \in Users \ {u} : user'[v] = user[v]
        /\ user'[u].state # "none" /\ user'[u].org = o
        /\ memberCall' \in [MemberCalls -> MemberCall]
        /\ \A d \in MemberCalls : /\ Same(memberCall[d], memberCall'[d])
                                  /\ Stales(d, {u}) \subseteq memberCall'[d].stale
        /\ seats' = seats /\ sub' = sub
        /\ {"seats", "usage", "archive"} \X Changed({u}) \subseteq excused'
        /\ excused \subseteq excused' /\ excused' \subseteq Excuses \X (Orgs \cup Subs)
        /\ o \in Changed({u})
    BY <1>1, Invites
  <1>7. RowsKept /\ SubsRight' /\ sub' \in [Subs -> Subscription]
    BY <1>2, SubsKept
  <1>3. MembersTypeOK'
    <2>1. member' = member \cup {<<u, o>>} /\ linked' = linked
      BY DEF InviteStudent
    <2>2. member' \subseteq Users \X Orgs
      BY <1>1, <2>1 DEF MembersTypeOK
    <2>3. seats' \in [Orgs -> Seats] /\ linked' \subseteq Users \X Users \X Orgs
      BY <1>1, <1>2, <2>1 DEF MembersTypeOK
    <2> QED  BY <1>2, <1>7, <2>2, <2>3 DEF MembersTypeOK
  <1>4. ASSUME NEW d \in MemberCalls PROVE Reads(d)' /\ ReadsSub(d)'
    <2>1. \A v \in Users : user[v].state # "none" => user'[v].state # "none"
      BY <1>2
    <2> DEFINE us == {u}
    <2>2. us \in SUBSET Users /\ \A v \in Users \ us : user'[v] = user[v]
      BY <1>2
    <2>3. /\ Same(memberCall[d], memberCall'[d])
          /\ Stales(d, us) \subseteq memberCall'[d].stale
      BY <1>2
    <2>4. \A k \in Orgs : seats[k].open => seats'[k].open \/ memberCall[d].org # k
                                          \/ "archive" \in memberCall'[d].stale
      BY <1>2
    <2>5. \A k \in Orgs : <<"archive", k>> \in excused => <<"archive", k>> \in excused'
      BY <1>2
    <2>6. user' \in [Users -> User]
      BY <1>2
    <2>7. us \in SUBSET Users
      BY <2>2
    <2>8. \A v \in Users \ us : user'[v] = user[v]
      BY <2>2
    <2> HIDE DEF us
    <2> QED  BY <1>7, <2>1, <2>3, <2>4, <2>5, <2>6, <2>7, <2>8, MoveKeeps
  <1>5. Unborn'
    BY <1>2 DEF Unborn, MembersRight
  <1>6. ArchivedIsLeft'
    <2>1. <<"archive", o>> \in excused'
      BY <1>2
    <2> QED  BY <1>2, <2>1 DEF ArchivedIsLeft, MembersRight, There
  <1> QED  BY <1>3, <1>4, <1>5, <1>6, <1>7 DEF MembersRight

\* Nothing but the deletion is written of an account its user deletes.
LEMMA Leaves ==
  ASSUME MembersTypeOK, NEW u \in Users, DeleteMe(u)
  PROVE  /\ user' \in [Users -> User]
         /\ \A v \in Users \ {u} : user'[v] = user[v]
         /\ user[u].state # "none" /\ user'[u].state = user[u].state /\ user'[u].org = user[u].org
         /\ user'[u].deleted
         /\ memberCall' \in [MemberCalls -> MemberCall]
         /\ \A d \in MemberCalls : /\ Same(memberCall[d], memberCall'[d])
                                   /\ Stales(d, {u}) \subseteq memberCall'[d].stale
         /\ UNCHANGED <<member, linked, seats, sub>>
         /\ {"usage"} \X Changed({u}) \subseteq excused'
         /\ excused \subseteq excused' /\ excused' \subseteq Excuses \X (Orgs \cup Subs)
         /\ \A o \in Orgs : <<"seats", o>> \in excused' => <<"seats", o>> \in excused
  <1>1. user' = [user EXCEPT ![u].deleted = TRUE] /\ There(u)
        /\ UNCHANGED <<member, linked, seats, sub>>
    BY DEF DeleteMe
  <1>2. user \in [Users -> User]
    BY DEF MembersTypeOK
  <1>3. user' \in [Users -> User] /\ (\A v \in Users \ {u} : user'[v] = user[v])
        /\ user[u].state # "none" /\ user'[u].state = user[u].state /\ user'[u].org = user[u].org
        /\ user'[u].deleted
    BY <1>1, <1>2 DEF User, There
  <1>4. ASSUME NEW d \in MemberCalls
        PROVE  LET y == [memberCall[d] EXCEPT !.stale = @ \cup Stales(d, {u})] IN
               y \in MemberCall /\ Same(memberCall[d], y) /\ Stales(d, {u}) \subseteq y.stale
    BY MoreStale, StalesWhole DEF MembersTypeOK
  <1>5. memberCall' = [d \in MemberCalls |->
          [memberCall[d] EXCEPT !.stale = @ \cup Stales(d, {u})]]
    BY DEF DeleteMe
  <1>6. excused' = excused \cup ({"usage"} \X Changed({u}))
    BY DEF DeleteMe
  <1>7. Changed({u}) \subseteq Orgs
    BY DEF Changed
  <1> QED  BY <1>1, <1>3, <1>4, <1>5, <1>6, <1>7 DEF MembersTypeOK, Excuses

LEMMA DeleteMeKeeps ==
  ASSUME MembersRight, NEW u \in Users, DeleteMe(u)
  PROVE  MembersRight'
  <1>1. MembersTypeOK
    BY DEF MembersRight
  <1>2. /\ user' \in [Users -> User]
        /\ \A v \in Users \ {u} : user'[v] = user[v]
        /\ user[u].state # "none" /\ user'[u].state = user[u].state /\ user'[u].org = user[u].org
        /\ user'[u].deleted
        /\ memberCall' \in [MemberCalls -> MemberCall]
        /\ \A d \in MemberCalls : /\ Same(memberCall[d], memberCall'[d])
                                  /\ Stales(d, {u}) \subseteq memberCall'[d].stale
        /\ UNCHANGED <<member, linked, seats, sub>>
        /\ excused \subseteq excused' /\ excused' \subseteq Excuses \X (Orgs \cup Subs)
    BY <1>1, Leaves
  <1>3. RowsKept /\ SubsRight'
    BY <1>2, SubsKept
  <1>4. MembersTypeOK'
    BY <1>1, <1>2 DEF MembersTypeOK
  <1>5. ASSUME NEW d \in MemberCalls PROVE Reads(d)' /\ ReadsSub(d)'
    <2> DEFINE us == {u}
    <2>1. us \in SUBSET Users /\ (\A v \in Users \ us : user'[v] = user[v])
          /\ Stales(d, us) \subseteq memberCall'[d].stale
      BY <1>2
    <2>2. \A v \in Users : user[v].state # "none" => user'[v].state # "none"
      BY <1>2
    <2>3. Same(memberCall[d], memberCall'[d])
      BY <1>2
    <2> HIDE DEF us
    <2> QED  BY <1>2, <1>3, <2>1, <2>2, <2>3, MoveKeeps
  <1>6. Unborn'
    BY <1>2 DEF Unborn, MembersRight
  <1>7. ArchivedIsLeft'
    BY <1>2 DEF ArchivedIsLeft, MembersRight, There
  <1> QED  BY <1>3, <1>4, <1>5, <1>6, <1>7 DEF MembersRight
-----------------------------------------------------------------------------
\* The active users of an organization are finitely many.
LEMMA HoldersFinite ==
  ASSUME NEW o
  PROVE  /\ IsFiniteSet({u \in Users : HoldsSeat(u, o)})
         /\ Used(o) \in Nat /\ Used(o) >= Regulars
  <1>1. IsFiniteSet({u \in Users : HoldsSeat(u, o)})
    BY MembersAssumption, FS_Subset
  <1>2. Cardinality({u \in Users : HoldsSeat(u, o)}) \in Nat
    BY <1>1, FS_CardinalityType
  <1> QED  BY <1>1, <1>2, MembersAssumption DEF Used

\* No user is written, and no request comes to write one.
LEMMA CountingKeeps ==
  ASSUME MembersRight,
         UNCHANGED <<user, member, linked>>, seats' \in [Orgs -> Seats],
         sub' \in [Subs -> Subscription], SubsRight', RowsKept,
         \A o \in Orgs : seats'[o].open = seats[o].open,
         excused' \subseteq Excuses \X (Orgs \cup Subs),
         \A o \in Orgs : <<"archive", o>> \in excused => <<"archive", o>> \in excused',
         memberCall' \in [MemberCalls -> MemberCall],
         \A d \in MemberCalls :
           \/ Same(memberCall[d], memberCall'[d])
           \/ memberCall'[d].phase # "writing" /\ ReadsSub(d)'
  PROVE  MembersRight'
  <1>1. MembersTypeOK'
    BY DEF MembersRight, MembersTypeOK
  <1>2. ASSUME NEW d \in MemberCalls PROVE ReadsSub(d)'
    <2>1. CASE Same(memberCall[d], memberCall'[d])
      BY <2>1, ReadsSubKept DEF MembersRight
    <2> QED  BY <2>1
  <1> QED  BY <1>1, <1>2, QuietKeeps

\* What a write to a row of an organization's own leaves, and who is in force then
RowWritten(o, s, row) ==
  /\ seats' \in [Orgs -> Seats] /\ sub' \in [Subs -> Subscription]
  /\ SubsRight' /\ RowsKept
  /\ \A p \in Orgs : seats'[p].open = seats[p].open
  /\ \A p \in Orgs \ {o} : seats'[p] = seats[p] /\ seats[p].current # s
  /\ sub'[s] = row /\ \A t \in Subs \ {s} : sub'[t] = sub[t]
  /\ row.status = "active" => seats'[o].current = s

LEMMA Rewritten ==
  ASSUME MembersRight, NEW o \in Orgs, NEW s \in Subs, NEW row \in Subscription,
         row.org = o, row.status # "none", sub[s].status = "none" \/ sub[s].org = o,
         Rewrites(o, s, row)
  PROVE  RowWritten(o, s, row)
  <1>1. MembersTypeOK /\ SubsRight
    BY DEF MembersRight
  <1>2. PICK t \in Successors(o, s, row) : seats' = [seats EXCEPT ![o].current = t]
    BY DEF Rewrites
  <1>3. sub' = [sub EXCEPT ![s] = row]
    BY DEF Rewrites
  <1>4. sub' \in [Subs -> Subscription] /\ sub'[s] = row /\ \A r \in Subs \ {s} : sub'[r] = sub[r]
    BY <1>1, <1>3 DEF MembersTypeOK
  <1>5. seats[o].current \in Subs \cup {NoSub} /\ seats \in [Orgs -> Seats]
    BY <1>1 DEF MembersTypeOK, Seats
  <1>6. \/ row.status = "active" /\ t = s
        \/ row.status # "active" /\ t = NoSub
        \/ row.status # "active" /\ t = seats[o].current /\ t # s
        \/ row.status # "active" /\ t \in Subs \ {s} /\ sub[t].org = o /\ sub[t].status = "active"
    BY <1>2 DEF Successors, OtherActive
  <1>7. t \in Subs \cup {NoSub}
    BY <1>5, <1>6
  <1>8. seats' \in [Orgs -> Seats] /\ seats'[o].current = t
        /\ (\A p \in Orgs : seats'[p].open = seats[p].open) /\ \A p \in Orgs \ {o} : seats'[p] = seats[p]
    BY <1>2, <1>5, <1>7 DEF Seats
  <1>9. RowsKept
    BY <1>4 DEF RowsKept
  <1>10. ASSUME NEW p \in Orgs \ {o} PROVE seats[p].current # s
    BY <1>1, <1>10, MembersAssumption DEF SubsRight
  <1>11. SubsRight'
    <2>1. ASSUME NEW r \in Subs, sub'[r].status # "none" PROVE sub'[r].org \in Orgs
      BY <1>1, <1>4, <2>1 DEF SubsRight
    <2>2. ASSUME NEW p \in Orgs, seats'[p].current # NoSub
          PROVE  sub'[seats'[p].current].status = "active" /\ sub'[seats'[p].current].org = p
      <3>1. CASE p = o
        <4>1. CASE t = s
          BY <1>4, <1>6, <1>8, <3>1, <4>1, MembersAssumption
        <4>2. CASE t # s
          <5>1. t \in Subs \ {s} /\ sub[t].org = o /\ sub[t].status = "active"
            BY <1>1, <1>6, <1>7, <1>8, <2>2, <3>1, <4>2 DEF SubsRight
          <5> QED  BY <1>4, <1>8, <3>1, <5>1
        <4> QED  BY <4>1, <4>2
      <3>2. CASE p # o
        <4>1. seats[p].current \in Subs \ {s}
          BY <1>1, <1>5, <1>8, <1>10, <2>2, <3>2 DEF MembersTypeOK, Seats
        <4>2. seats'[p] = seats[p] /\ sub'[seats[p].current] = sub[seats[p].current]
          BY <1>4, <1>8, <3>2, <4>1
        <4> QED  BY <1>1, <2>2, <4>2 DEF SubsRight
      <3> QED  BY <3>1, <3>2
    <2> QED  BY <2>1, <2>2 DEF SubsRight
  <1> QED  BY <1>4, <1>6, <1>8, <1>9, <1>10, <1>11, MembersAssumption DEF RowWritten

\* Only the excuses of seats and of usage depend on who is in force.
LEMMA Refits ==
  ASSUME NEW o \in Orgs, NEW e \in SUBSET (Excuses \X (Orgs \cup Subs)), NEW k \in BOOLEAN
  PROVE  /\ Refit(o, e, k) \subseteq Excuses \X (Orgs \cup Subs)
         /\ \A p : <<"archive", p>> \in Refit(o, e, k) <=> <<"archive", p>> \in e
         /\ \A p : <<"tier", p>> \in Refit(o, e, k) <=> <<"tier", p>> \in e
         /\ \A p : p # o => (<<"seats", p>> \in Refit(o, e, k) <=> <<"seats", p>> \in e)
         /\ \A p : p # o => (<<"usage", p>> \in Refit(o, e, k) <=> <<"usage", p>> \in e)
         /\ <<"usage", o>> \notin Refit(o, e, k) => <<"usage", o>> \notin e /\ (k \/ ~Switches(o))
         /\ <<"seats", o>> \notin Refit(o, e, k) =>
              (Shifts(o) /\ Fits(o)) \/ (~Shifts(o) /\ <<"seats", o>> \notin e)
  <1>1. CASE Shifts(o) /\ Fits(o)
    <2>1. Refit(o, e, k) = (e \ {<<"seats", o>>}) \cup
            (IF Switches(o) /\ ~k THEN {<<"usage", o>>} ELSE {})
      BY <1>1 DEF Refit
    <2> QED  BY <1>1, <2>1 DEF Excuses
  <1>2. CASE Shifts(o) /\ ~Fits(o)
    <2>1. Refit(o, e, k) = e \cup {<<"seats", o>>} \cup
            (IF Switches(o) /\ ~k THEN {<<"usage", o>>} ELSE {})
      BY <1>2 DEF Refit
    <2> QED  BY <2>1 DEF Excuses
  <1>3. CASE ~Shifts(o)
    <2>1. ~Switches(o)
      BY <1>3 DEF Shifts
    <2>2. Refit(o, e, k) = e
      BY <1>3, <2>1 DEF Refit
    <2> QED  BY <1>3, <2>1, <2>2
  <1> QED  BY <1>1, <1>2, <1>3

\* What others learn of a write to a subscription is staleness.
LEMMA TermStalesWhole ==
  ASSUME NEW d, NEW o, NEW told
  PROVE  TermStales(d, o, told) \in SUBSET Whole
  BY DEF TermStales, Whole

LEMMA Learn ==
  ASSUME MembersTypeOK, NEW d \in MemberCalls, NEW o, NEW told
  PROVE  LET y == [memberCall[d] EXCEPT !.stale = @ \cup TermStales(d, o, told)] IN
         y \in MemberCall /\ Same(memberCall[d], y) /\ TermStales(d, o, told) \subseteq y.stale
  BY MoreStale, TermStalesWhole DEF MembersTypeOK

\* What becomes of the requests when one of them has written to a subscription
Moves(c, next, o, told) ==
  /\ memberCall' \in [MemberCalls -> MemberCall]
  /\ memberCall'[c] = next
  /\ \A d \in MemberCalls \ {c} : /\ Same(memberCall[d], memberCall'[d])
                                  /\ TermStales(d, o, told) \subseteq memberCall'[d].stale

LEMMA ContractedOthers ==
  ASSUME MembersTypeOK, NEW c \in MemberCalls, NEW next \in MemberCall, NEW o, NEW told,
         Contracted(c, next, o, told)
  PROVE  Moves(c, next, o, told)
  BY Learn DEF Contracted, Moves

\* One request moves and the others stay as they are.
LEMMA OneMoves ==
  ASSUME MembersTypeOK, NEW c \in MemberCalls, NEW next \in MemberCall,
         memberCall' = [memberCall EXCEPT ![c] = next]
  PROVE  /\ memberCall' \in [MemberCalls -> MemberCall]
         /\ memberCall'[c] = next
         /\ \A d \in MemberCalls \ {c} : memberCall'[d] = memberCall[d]
                                         /\ Same(memberCall[d], memberCall'[d])
  BY DEF MembersTypeOK, Same

\* Nobody is counted but somebody in an organization that is asked for, and for
\* the subscription that is in force.
LEMMA Counts ==
  ASSUME MembersRight, NEW c \in MemberCalls, Count(c)
  PROVE  LET x == memberCall[c] IN
         \E o \in x.todo, next \in MemberCall :
           /\ o \in Orgs
           /\ x.phase = "counting"
           /\ memberCall' = [memberCall EXCEPT ![c] = next]
           /\ UNCHANGED <<user, member, linked, seats, sub, excused>>
           /\ \/ /\ seats[o].current # NoSub /\ seats[o].current \in Subs
                 /\ next.phase = "storing" /\ next.org = o /\ next.sub = seats[o].current
                 /\ next.todo = x.todo \ {o}
                 /\ next.count = Used(o) /\ next.tier = sub[next.sub].tier
                 /\ next.stale = IF \E d \in MemberCalls : Marking(d, next.sub) THEN {"tier"} ELSE {}
              \/ /\ seats[o].current = NoSub
                 /\ next = ThenCounts(c, x.todo \ {o})
  <1> DEFINE x == memberCall[c]
  <1>1. x \in MemberCall /\ x.todo \subseteq Orgs
    BY DEF MembersRight, MembersTypeOK, MemberCall
  <1>2. PICK o \in x.todo :
       memberCall' = [memberCall EXCEPT ![c] =
         IF seats[o].current = NoSub THEN ThenCounts(c, x.todo \ {o})
         ELSE [x EXCEPT !.phase = "storing", !.todo = @ \ {o}, !.org = o, !.sub = seats[o].current,
                        !.limit = sub[seats[o].current].limit, !.count = Used(o),
                        !.tier = sub[seats[o].current].tier,
                        !.stale = IF \E d \in MemberCalls : Marking(d, seats[o].current)
                                  THEN {"tier"} ELSE {}]]
    BY DEF Count
  <1>3. x.phase = "counting" /\ UNCHANGED <<user, member, linked, seats, sub, excused>>
    BY DEF Count
  <1>4. o \in Orgs /\ Used(o) \in Nat /\ seats[o].current \in Subs \cup {NoSub}
    BY <1>1, HoldersFinite DEF MembersRight, MembersTypeOK, Seats
  <1>5. CASE seats[o].current = NoSub
    <2>1. ThenCounts(c, x.todo \ {o}) \in MemberCall
      BY <1>1, ThenCountsTyped
    <2>2. memberCall' = [memberCall EXCEPT ![c] = ThenCounts(c, x.todo \ {o})]
      BY <1>2, <1>5
    <2> QED  BY <1>3, <1>4, <1>5, <2>1, <2>2
  <1>6. CASE seats[o].current # NoSub
    <2> DEFINE s == seats[o].current
               stale == IF \E d \in MemberCalls : Marking(d, s) THEN {"tier"} ELSE {}
               used == Used(o)
               row == sub[s]
    <2>1. s \in Subs /\ row \in Subscription /\ used \in Nat
      BY <1>4, <1>6 DEF MembersRight, MembersTypeOK
    <2>2. row.limit \in Limits \cup {0} /\ row.tier \in Tiers
      BY <2>1 DEF Subscription
    <2>3. stale \in SUBSET Whole
      BY DEF Whole
    <2>4. memberCall' = [memberCall EXCEPT ![c] =
            [x EXCEPT !.phase = "storing", !.todo = @ \ {o}, !.org = o, !.sub = s,
                      !.limit = row.limit, !.count = used, !.tier = row.tier, !.stale = stale]]
      BY <1>2, <1>6
    <2> HIDE DEF x, s, stale, used, row
    <2> DEFINE y == [x EXCEPT !.phase = "storing", !.todo = @ \ {o}, !.org = o, !.sub = s,
                      !.limit = row.limit, !.count = used, !.tier = row.tier, !.stale = stale]
    <2>5. y \in MemberCall /\ y.phase = "storing" /\ y.org = o /\ y.sub = s
          /\ y.todo = x.todo \ {o} /\ y.count = used /\ y.tier = row.tier /\ y.stale = stale
      <3> DEFINE todo == x.todo \ {o}
                 limit == row.limit
                 tier == row.tier
                 m == [x EXCEPT !.phase = "storing", !.todo = todo, !.org = o, !.sub = s]
      <3>1. todo \in SUBSET Orgs /\ limit \in Limits \cup {0} /\ tier \in Tiers
        BY <1>1, <2>2
      <3>2. y = [m EXCEPT !.limit = limit, !.count = used, !.tier = tier, !.stale = stale]
        BY <1>1 DEF MemberCall
      <3> HIDE DEF y, todo, limit, tier
      <3>3. m \in MemberCall /\ m.phase = "storing" /\ m.org = o /\ m.sub = s /\ m.todo = todo
        BY <1>1, <1>4, <2>1, <3>1 DEF MemberCall
      <3> HIDE DEF m
      <3>4. y \in MemberCall /\ y.phase = m.phase /\ y.org = m.org /\ y.sub = m.sub
            /\ y.todo = m.todo /\ y.count = used /\ y.tier = tier /\ y.stale = stale
        BY <2>1, <2>3, <3>1, <3>2, <3>3 DEF MemberCall, Whole
      <3> QED  BY <3>3, <3>4 DEF todo, tier
    <2> HIDE DEF y
    <2>6. memberCall' = [memberCall EXCEPT ![c] = y]
      BY <2>4 DEF y
    <2>7. y.count = Used(o) /\ y.tier = sub[y.sub].tier /\ y.sub = seats[o].current
          /\ y.stale = IF \E d \in MemberCalls : Marking(d, y.sub) THEN {"tier"} ELSE {}
      BY <2>5 DEF s, used, row, stale
    <2> QED  BY <1>3, <1>4, <1>6, <2>1, <2>5, <2>6, <2>7 DEF x, s
  <1> QED  BY <1>5, <1>6

LEMMA CountKeeps ==
  ASSUME MembersRight, NEW c \in MemberCalls, Count(c)
  PROVE  MembersRight'
  <1>1. MembersTypeOK
    BY DEF MembersRight
  <1>2. PICK o \in memberCall[c].todo, next \in MemberCall :
           /\ o \in Orgs
           /\ memberCall' = [memberCall EXCEPT ![c] = next]
           /\ UNCHANGED <<user, member, linked, seats, sub, excused>>
           /\ \/ /\ seats[o].current # NoSub /\ seats[o].current \in Subs
                 /\ next.phase = "storing" /\ next.org = o /\ next.sub = seats[o].current
              \/ next = ThenCounts(c, memberCall[c].todo \ {o})
    BY Counts
  <1>3. memberCall[c].todo \ {o} \in SUBSET Orgs
    BY <1>1 DEF MembersTypeOK, MemberCall
  <1>4. memberCall'[c] = next /\ memberCall' \in [MemberCalls -> MemberCall]
        /\ \A d \in MemberCalls \ {c} : Same(memberCall[d], memberCall'[d])
    BY <1>1, <1>2, OneMoves
  <1>5. next.phase # "writing" /\ ReadsSub(c)'
    <2>1. CASE next = ThenCounts(c, memberCall[c].todo \ {o})
      <3>1. next.phase \in {"idle", "counting"}
        BY <1>3, <2>1, ThenCountsTyped
      <3> QED  BY <1>4, <3>1 DEF ReadsSub, Telling
    <2>2. CASE /\ seats[o].current # NoSub /\ seats[o].current \in Subs
               /\ next.phase = "storing" /\ next.org = o /\ next.sub = seats[o].current
      <3>1. sub[next.sub].status = "active" /\ sub[next.sub].org = o
        BY <1>2, <2>2 DEF MembersRight, SubsRight
      <3> QED  BY <1>2, <1>4, <2>2, <3>1 DEF ReadsSub, Telling
    <2> QED  BY <1>2, <2>1, <2>2
  <1>6. RowsKept /\ SubsRight' /\ seats' \in [Orgs -> Seats] /\ sub' \in [Subs -> Subscription]
    BY <1>2, SubsKept
  <1> QED  BY <1>1, <1>2, <1>4, <1>5, <1>6, CountingKeeps DEF MembersTypeOK

\* A request that has counted knows a subscription that was created
LEMMA Goes ==
  ASSUME MembersRight, NEW c \in MemberCalls, memberCall[c].phase \in Telling
  PROVE  LET x == memberCall[c] IN
         /\ x \in MemberCall /\ x.org \in Orgs /\ x.sub \in Subs /\ x.todo \in SUBSET Orgs
         /\ x.count \in Nat /\ x.tier \in Tiers /\ x.limit \in Limits \cup {0}
         /\ sub[x.sub] \in Subscription
         /\ sub[x.sub].org = x.org /\ sub[x.sub].status # "none"
         /\ \A phase \in {"judging", "marking"} :
              LET y == [x EXCEPT !.phase = phase] IN
              y \in MemberCall /\ y.phase = phase /\ y.org = x.org /\ y.sub = x.sub
              /\ y.todo = x.todo /\ y.count = x.count /\ y.tier = x.tier /\ y.limit = x.limit
              /\ y.stale = x.stale
         /\ ThenCounts(c, x.todo) \in MemberCall
         /\ ThenCounts(c, x.todo).phase \in {"idle", "counting"}
         /\ ThenCounts(c, x.todo).todo = x.todo
  <1> DEFINE x == memberCall[c]
  <1>1. x \in MemberCall
    BY DEF MembersRight, MembersTypeOK
  <1>2. x.org \in Orgs /\ x.sub \in Subs /\ sub[x.sub].org = x.org /\ sub[x.sub].status # "none"
    BY DEF MembersRight, ReadsSub
  <1>3. sub[x.sub] \in Subscription
    BY <1>2 DEF MembersRight, MembersTypeOK
  <1> HIDE DEF x
  <1>4. x.todo \in SUBSET Orgs /\ x.count \in Nat /\ x.tier \in Tiers /\ x.limit \in Limits \cup {0}
    BY <1>1 DEF MemberCall
  <1>5. ASSUME NEW phase \in {"judging", "marking"}
        PROVE  LET y == [x EXCEPT !.phase = phase] IN
               y \in MemberCall /\ y.phase = phase /\ y.org = x.org /\ y.sub = x.sub
               /\ y.todo = x.todo /\ y.count = x.count /\ y.tier = x.tier /\ y.limit = x.limit
               /\ y.stale = x.stale
    BY <1>1 DEF MemberCall
  <1>6. /\ ThenCounts(c, x.todo) \in MemberCall
        /\ ThenCounts(c, x.todo).phase \in {"idle", "counting"}
        /\ ThenCounts(c, x.todo).todo = x.todo
    BY <1>4, ThenCountsTyped
  <1> QED  BY <1>1, <1>2, <1>3, <1>4, <1>5, <1>6 DEF x

\* The tiers that can be crossed are tiers.
LEMMA CrossedTier ==
  ASSUME NEW x
  PROVE  CrossedBy(x) \in Tiers
  BY DEF CrossedBy, Crossed, Tiers

LEMMA Stores ==
  ASSUME MembersRight, NEW c \in MemberCalls, Store(c)
  PROVE  LET x == memberCall[c]
             row == [sub[x.sub] EXCEPT !.usage = x.count]
         IN /\ x.phase = "storing"
            /\ row.usage = x.count /\ row.limit = sub[x.sub].limit /\ row.tier = sub[x.sub].tier
            /\ row.warned = sub[x.sub].warned /\ row.status = sub[x.sub].status
            /\ RowWritten(x.org, x.sub, row)
            /\ Moves(c, [x EXCEPT !.phase = "judging"], x.org, {})
            /\ excused' = IF "count" \in x.stale THEN Refit(x.org, excused \cup {<<"usage", x.org>>}, TRUE)
                          ELSE excused \ {<<"usage", x.org>>}
            /\ UNCHANGED <<user, member, linked>>
  <1> DEFINE x == memberCall[c]
             r == sub[x.sub]
             row == [r EXCEPT !.usage = x.count]
             next == [x EXCEPT !.phase = "judging"]
  <1>1. /\ x.phase = "storing"
        /\ Rewrites(x.org, x.sub, row)
        /\ excused' = IF "count" \in x.stale THEN Refit(x.org, excused \cup {<<"usage", x.org>>}, TRUE)
                      ELSE excused \ {<<"usage", x.org>>}
        /\ Contracted(c, next, x.org, {})
        /\ UNCHANGED <<user, member, linked>>
    BY DEF Store
  <1>2. /\ x.org \in Orgs /\ x.sub \in Subs /\ x.count \in Nat
        /\ r \in Subscription /\ r.org = x.org /\ r.status # "none"
        /\ next \in MemberCall
    BY <1>1, Goes DEF Telling
  <1>3. MembersTypeOK
    BY DEF MembersRight
  <1> HIDE DEF x, r
  <1>4. row \in Subscription /\ row.org = r.org /\ row.status = r.status /\ row.usage = x.count
        /\ row.limit = r.limit /\ row.tier = r.tier /\ row.warned = r.warned
    BY <1>2 DEF Subscription
  <1> HIDE DEF row, next
  <1>5. RowWritten(x.org, x.sub, row)
    BY <1>1, <1>2, <1>4, Rewritten DEF r
  <1>6. Moves(c, next, x.org, {})
    BY <1>1, <1>2, <1>3, ContractedOthers
  <1> QED  BY <1>1, <1>4, <1>5, <1>6 DEF x, r, row, next

LEMMA StoreKeeps ==
  ASSUME MembersRight, NEW c \in MemberCalls, Store(c)
  PROVE  MembersRight'
  <1> DEFINE x == memberCall[c]
             o == x.org
             row == [sub[x.sub] EXCEPT !.usage = x.count]
             next == [x EXCEPT !.phase = "judging"]
  <1>1. /\ x.phase = "storing"
        /\ RowWritten(o, x.sub, row)
        /\ Moves(c, next, o, {})
        /\ excused' = IF "count" \in x.stale THEN Refit(o, excused \cup {<<"usage", o>>}, TRUE)
                      ELSE excused \ {<<"usage", o>>}
        /\ UNCHANGED <<user, member, linked>>
    BY Stores
  <1>2. /\ o \in Orgs /\ x.sub \in Subs /\ sub[x.sub].org = o /\ sub[x.sub].status # "none"
        /\ next.phase = "judging" /\ next.org = o /\ next.sub = x.sub
    BY <1>1, Goes DEF Telling
  <1>3. MembersTypeOK
    BY DEF MembersRight
  <1> HIDE DEF x, o, row, next
  <1>4. ReadsSub(c)'
    BY <1>1, <1>2 DEF ReadsSub, Telling, Moves, RowWritten, RowsKept
  <1>5. excused' \subseteq Excuses \X (Orgs \cup Subs)
        /\ \A p \in Orgs : <<"archive", p>> \in excused => <<"archive", p>> \in excused'
    <2>1. CASE "count" \in x.stale
      <3> DEFINE e == excused \cup {<<"usage", o>>}
      <3>1. e \in SUBSET (Excuses \X (Orgs \cup Subs))
        BY <1>2, <1>3 DEF MembersTypeOK, Excuses
      <3>2. excused' = Refit(o, e, TRUE)
        BY <1>1, <2>1
      <3>3. \A p : <<"archive", p>> \in excused => <<"archive", p>> \in e
        OBVIOUS
      <3> HIDE DEF e
      <3> QED  BY <1>2, <3>1, <3>2, <3>3, Refits
    <2>2. CASE "count" \notin x.stale
      BY <1>1, <1>3, <2>2 DEF MembersTypeOK
    <2> QED  BY <2>1, <2>2
  <1> QED  BY <1>1, <1>2, <1>4, <1>5, CountingKeeps DEF Moves, RowWritten

\* A tier is mailed: only what was mailed is written.
LEMMA WarnsOf ==
  ASSUME MembersRight, NEW c \in MemberCalls, Warn(c)
  PROVE  LET x == memberCall[c]
             row == [sub[x.sub] EXCEPT !.warned = CrossedBy(x)]
         IN /\ x.phase = "judging" /\ Warns(x)
            /\ row.status = sub[x.sub].status /\ row.org = sub[x.sub].org
            /\ row.usage = sub[x.sub].usage /\ row.limit = sub[x.sub].limit
            /\ row.tier = sub[x.sub].tier /\ row.warned = CrossedBy(x)
            /\ sub' \in [Subs -> Subscription] /\ sub'[x.sub] = row
            /\ \A t \in Subs \ {x.sub} : sub'[t] = sub[t]
            /\ Moves(c, [x EXCEPT !.phase = "marking"], x.org, {x.sub})
            /\ excused' = Noted(x)
            /\ UNCHANGED <<user, member, linked, seats>>
  <1> DEFINE x == memberCall[c]
             r == sub[x.sub]
             next == [x EXCEPT !.phase = "marking"]
             crossed == CrossedBy(x)
             row == [r EXCEPT !.warned = crossed]
  <1>1. /\ x.phase = "judging" /\ Warns(x)
        /\ sub' = [sub EXCEPT ![x.sub] = row]
        /\ excused' = Noted(x)
        /\ Contracted(c, next, x.org, {x.sub})
        /\ UNCHANGED <<user, member, linked, seats>>
    BY DEF Warn
  <1>2. /\ x.org \in Orgs /\ x.sub \in Subs /\ r \in Subscription /\ next \in MemberCall
    BY <1>1, Goes DEF Telling
  <1>3. MembersTypeOK /\ sub \in [Subs -> Subscription] /\ crossed \in Tiers
    BY CrossedTier DEF MembersRight, MembersTypeOK
  <1> HIDE DEF x, r, crossed
  <1>4. row \in Subscription /\ row.status = r.status /\ row.org = r.org
        /\ row.usage = r.usage /\ row.limit = r.limit /\ row.tier = r.tier /\ row.warned = crossed
    BY <1>2, <1>3 DEF Subscription
  <1> HIDE DEF row, next
  <1>5. sub' \in [Subs -> Subscription] /\ sub'[x.sub] = row /\ \A t \in Subs \ {x.sub} : sub'[t] = sub[t]
    BY <1>1, <1>2, <1>3, <1>4
  <1>6. Moves(c, next, x.org, {x.sub})
    BY <1>1, <1>2, <1>3, ContractedOthers
  <1> QED  BY <1>1, <1>4, <1>5, <1>6 DEF x, r, row, next, crossed

LEMMA WarnKeeps ==
  ASSUME MembersRight, NEW c \in MemberCalls, Warn(c)
  PROVE  MembersRight'
  <1> DEFINE x == memberCall[c]
             s == x.sub
             next == [x EXCEPT !.phase = "marking"]
  <1>1. /\ x.phase = "judging"
        /\ sub' \in [Subs -> Subscription]
        /\ sub'[s].status = sub[s].status /\ sub'[s].org = sub[s].org
        /\ \A t \in Subs \ {s} : sub'[t] = sub[t]
        /\ Moves(c, next, x.org, {s})
        /\ excused' = Noted(x)
        /\ UNCHANGED <<user, member, linked, seats>>
    BY WarnsOf
  <1>2. /\ x.org \in Orgs /\ s \in Subs /\ sub[s].org = x.org /\ sub[s].status # "none"
        /\ next.phase = "marking" /\ next.org = x.org /\ next.sub = s
    BY <1>1, Goes DEF Telling
  <1>3. MembersTypeOK /\ seats \in [Orgs -> Seats]
    BY DEF MembersRight, MembersTypeOK
  <1>4. excused' \subseteq Excuses \X (Orgs \cup Subs) /\ excused \subseteq excused'
    BY <1>1, <1>2, <1>3 DEF MembersTypeOK, Excuses, Noted
  <1> HIDE DEF x, s, next
  <1>5. \A t \in Subs : sub'[t].status = sub[t].status /\ sub'[t].org = sub[t].org
    BY <1>1, <1>2
  <1>6. RowsKept
    BY <1>5 DEF RowsKept
  <1>7. SubsRight'
    <2>1. \A o \in Orgs : seats[o].current \in Subs \cup {NoSub}
      BY <1>3 DEF Seats
    <2> QED  BY <1>1, <1>5, <2>1 DEF MembersRight, SubsRight
  <1>8. ReadsSub(c)'
    BY <1>1, <1>2, <1>5 DEF ReadsSub, Telling, Moves
  <1> QED  BY <1>1, <1>2, <1>3, <1>4, <1>6, <1>7, <1>8, CountingKeeps DEF Moves

LEMMA PassesKeeps ==
  ASSUME MembersRight, NEW c \in MemberCalls, Passes(c)
  PROVE  MembersRight'
  <1> DEFINE next == ThenCounts(c, memberCall[c].todo)
  <1>1. /\ memberCall[c].phase = "judging" /\ memberCall' = [memberCall EXCEPT ![c] = next]
        /\ UNCHANGED <<user, member, linked, seats, sub, excused>>
    BY DEF Passes
  <1>2. next \in MemberCall /\ next.phase \in {"idle", "counting"}
    BY <1>1, Goes DEF Telling
  <1>3. MembersTypeOK
    BY DEF MembersRight
  <1> HIDE DEF next
  <1>4. memberCall'[c] = next /\ memberCall' \in [MemberCalls -> MemberCall]
        /\ \A d \in MemberCalls \ {c} : Same(memberCall[d], memberCall'[d])
    BY <1>1, <1>2, <1>3, OneMoves
  <1>5. next.phase # "writing" /\ ReadsSub(c)'
    BY <1>2, <1>4 DEF ReadsSub, Telling
  <1>6. RowsKept /\ SubsRight' /\ seats' \in [Orgs -> Seats] /\ sub' \in [Subs -> Subscription]
    BY <1>1, SubsKept
  <1> QED  BY <1>1, <1>3, <1>4, <1>5, <1>6, CountingKeeps DEF MembersTypeOK

\* The tier is noted, or forgotten below the lowest.
TierRow(x) ==
  IF x.phase = "marking" THEN [sub[x.sub] EXCEPT !.tier = CrossedBy(x)]
  ELSE [sub[x.sub] EXCEPT !.tier = 0, !.warned = 0]

LEMMA Notes ==
  ASSUME MembersRight, NEW c \in MemberCalls, Reset(c) \/ MarkTier(c)
  PROVE  LET x == memberCall[c]
             row == TierRow(x)
         IN /\ \/ x.phase = "marking" /\ row.tier = CrossedBy(x) /\ row.warned = sub[x.sub].warned
               \/ x.phase = "judging" /\ row.tier = 0 /\ row.warned = 0
            /\ row.usage = sub[x.sub].usage /\ row.limit = sub[x.sub].limit
            /\ row.status = sub[x.sub].status
            /\ RowWritten(x.org, x.sub, row)
            /\ Moves(c, ThenCounts(c, x.todo), x.org, {x.sub})
            /\ excused' = Refit(x.org, Noted(x), FALSE)
            /\ UNCHANGED <<user, member, linked>>
  <1> DEFINE x == memberCall[c]
             r == sub[x.sub]
             row == TierRow(x)
             next == ThenCounts(c, x.todo)
             crossed == CrossedBy(x)
  <1>1. /\ x.phase \in {"judging", "marking"}
        /\ NotesTier(c, row)
    BY DEF Reset, MarkTier, TierRow
  <1>2. /\ Rewrites(x.org, x.sub, row)
        /\ excused' = Refit(x.org, Noted(x), FALSE)
        /\ Contracted(c, next, x.org, {x.sub})
        /\ UNCHANGED <<user, member, linked>>
    BY <1>1 DEF NotesTier
  <1>3. /\ x.org \in Orgs /\ x.sub \in Subs /\ r \in Subscription /\ r.org = x.org /\ r.status # "none"
        /\ next \in MemberCall
    BY <1>1, Goes DEF Telling
  <1>4. MembersTypeOK /\ crossed \in Tiers
    BY CrossedTier DEF MembersRight
  <1>5. row = IF x.phase = "marking" THEN [r EXCEPT !.tier = crossed]
              ELSE [r EXCEPT !.tier = 0, !.warned = 0]
    BY DEF TierRow
  <1> HIDE DEF x, r, row, next, crossed
  <1>6. /\ row \in Subscription /\ row.org = r.org /\ row.status = r.status
        /\ row.usage = r.usage /\ row.limit = r.limit
        /\ \/ x.phase = "marking" /\ row.tier = crossed /\ row.warned = r.warned
           \/ x.phase = "judging" /\ row.tier = 0 /\ row.warned = 0
    <2>1. CASE x.phase = "marking"
      BY <1>3, <1>4, <1>5, <2>1 DEF Subscription
    <2>2. CASE x.phase = "judging"
      BY <1>3, <1>5, <2>2 DEF Subscription, Tiers
    <2> QED  BY <1>1, <2>1, <2>2
  <1>7. RowWritten(x.org, x.sub, row)
    BY <1>2, <1>3, <1>6, Rewritten DEF r
  <1>8. Moves(c, next, x.org, {x.sub})
    BY <1>2, <1>3, <1>4, ContractedOthers
  <1> QED  BY <1>2, <1>6, <1>7, <1>8 DEF x, r, row, next, crossed

LEMMA NotesKeeps ==
  ASSUME MembersRight, NEW c \in MemberCalls, Reset(c) \/ MarkTier(c)
  PROVE  MembersRight'
  <1> DEFINE x == memberCall[c]
             o == x.org
             row == TierRow(x)
             next == ThenCounts(c, x.todo)
  <1>1. /\ x.phase \in Telling
        /\ RowWritten(o, x.sub, row)
        /\ Moves(c, next, o, {x.sub})
        /\ excused' = Refit(o, Noted(x), FALSE)
        /\ UNCHANGED <<user, member, linked>>
    BY Notes DEF Telling
  <1>2. /\ o \in Orgs /\ x.sub \in Subs /\ next.phase \in {"idle", "counting"}
    BY <1>1, Goes
  <1>3. MembersTypeOK
    BY DEF MembersRight
  <1> DEFINE e == Noted(x)
  <1>4. e \in SUBSET (Excuses \X (Orgs \cup Subs)) /\ excused \subseteq e
    BY <1>2, <1>3 DEF MembersTypeOK, Excuses, Noted
  <1> HIDE DEF x, o, row, next, e
  <1>5. ReadsSub(c)'
    BY <1>1, <1>2 DEF ReadsSub, Telling, Moves
  <1>6. excused' = Refit(o, e, FALSE)
    BY <1>1 DEF e
  <1>7. excused' \subseteq Excuses \X (Orgs \cup Subs)
        /\ \A p \in Orgs : <<"archive", p>> \in excused => <<"archive", p>> \in excused'
    BY <1>2, <1>4, <1>6, Refits
  <1> QED  BY <1>1, <1>2, <1>5, <1>7, CountingKeeps DEF Moves, RowWritten

LEMMA MemberCallFailsKeeps ==
  ASSUME MembersRight, NEW c \in MemberCalls, MemberCallFails(c)
  PROVE  MembersRight'
  <1> DEFINE x == memberCall[c]
             uncounted == IF x.phase = "storing" THEN x.todo \cup {x.org} ELSE x.todo
  <1>1. MembersTypeOK /\ x \in MemberCall /\ x.todo \in SUBSET Orgs
    BY DEF MembersRight, MembersTypeOK, MemberCall
  <1>2. x.phase \in Telling => x.org \in Orgs /\ x.sub \in Subs
    BY DEF MembersRight, ReadsSub
  <1>3. excused \subseteq excused' /\ excused' \subseteq Excuses \X (Orgs \cup Subs)
    <2>1. /\ excused \subseteq excused'
          /\ excused' \subseteq excused \cup ({"usage"} \X uncounted) \cup
               (IF x.phase \in {"judging", "marking"} THEN {<<"tier", x.sub>>} ELSE {})
      BY DEF MemberCallFails
    <2> QED  BY <1>1, <1>2, <2>1 DEF MembersTypeOK, Excuses, Telling
  <1>4. PICK y \in {NoCall, ThenCounts(c, x.todo)} : memberCall' = [memberCall EXCEPT ![c] = y]
    BY DEF MemberCallFails
  <1>5. y \in MemberCall /\ y.phase \in {"idle", "counting"}
    <2>1. NoCall \in MemberCall /\ NoCall.phase = "idle"
      BY DEF NoCall, MemberCall, Tiers
    <2>2. ThenCounts(c, x.todo) \in MemberCall
          /\ ThenCounts(c, x.todo).phase \in {"idle", "counting"}
      BY <1>1, ThenCountsTyped
    <2> QED  BY <1>4, <2>1, <2>2
  <1>6. UNCHANGED <<user, member, linked, seats, sub>>
    BY DEF MemberCallFails
  <1> HIDE DEF x, uncounted
  <1>7. memberCall'[c] = y /\ memberCall' \in [MemberCalls -> MemberCall]
        /\ \A d \in MemberCalls \ {c} : Same(memberCall[d], memberCall'[d])
    BY <1>1, <1>4, <1>5, OneMoves
  <1>8. y.phase # "writing" /\ ReadsSub(c)'
    BY <1>5, <1>7 DEF ReadsSub, Telling
  <1>9. RowsKept /\ SubsRight' /\ seats' \in [Orgs -> Seats] /\ sub' \in [Subs -> Subscription]
    BY <1>6, SubsKept
  <1> QED  BY <1>3, <1>6, <1>7, <1>8, <1>9, CountingKeeps

\* Terms are written: of a renewal alone it is told, and it forgets the tier.
Told(x) == IF x.kind = "renew" THEN {x.sub} ELSE {}

LEMMA Agrees ==
  ASSUME MembersRight, NEW c \in MemberCalls, WriteTerms(c)
  PROVE  LET x == memberCall[c]
             o == x.org
             row == TermsOf(x)
             next == ThenCounts(c, x.todo)
         IN /\ x.phase = "deciding" /\ x \in MemberCall /\ o \in Orgs /\ x.sub \in Subs
            /\ x.todo \in SUBSET Orgs
            /\ row.status # "none"
            /\ \/ x.kind = "subscribe" /\ sub[x.sub].status = "none" /\ row.limit = x.limit
                  /\ row.tier = 0 /\ row.warned = 0
               \/ x.kind = "renew" /\ row.tier = 0 /\ row.warned = 0
                  /\ sub[x.sub].status # "none" /\ sub[x.sub].org = o
               \/ /\ x.kind \notin {"subscribe", "renew"}
                  /\ row.tier = sub[x.sub].tier /\ row.warned = sub[x.sub].warned
                  /\ row.usage = sub[x.sub].usage
                  /\ row.limit = IF x.limit = 0 THEN sub[x.sub].limit ELSE x.limit
                  /\ sub[x.sub].status # "none" /\ sub[x.sub].org = o
            /\ RowWritten(o, x.sub, row)
            /\ next.phase \in {"idle", "counting"} /\ next.todo = x.todo
            /\ Moves(c, next, o, Told(x))
            /\ excused' = IF Fitted(x) /\ seats'[o].current = x.sub THEN excused \ {<<"seats", o>>}
                          ELSE Refit(o, excused, x.todo # {})
            /\ UNCHANGED <<user, member, linked>>
  <1> DEFINE x == memberCall[c]
             o == x.org
             r == sub[x.sub]
             row == TermsOf(x)
             next == ThenCounts(c, x.todo)
  <1>1. /\ x.phase = "deciding"
        /\ x.kind = "subscribe" => r.status = "none"
        /\ Rewrites(o, x.sub, row)
        /\ excused' = IF Fitted(x) /\ seats'[o].current = x.sub THEN excused \ {<<"seats", o>>}
                      ELSE Refit(o, excused, x.todo # {})
        /\ Contracted(c, next, o, Told(x))
        /\ UNCHANGED <<user, member, linked>>
    BY DEF WriteTerms, Told
  <1>2. x \in MemberCall
    BY DEF MembersRight, MembersTypeOK
  <1>3. /\ o \in Orgs /\ x.sub \in Subs
        /\ x.kind # "subscribe" => r.status # "none" /\ r.org = o
        /\ x.kind \in {"subscribe", "renew"} => x.terms # "unsaid"
    BY <1>1 DEF MembersRight, ReadsSub
  <1>4. r \in Subscription
    BY <1>3 DEF MembersRight, MembersTypeOK
  <1>5. row = CASE x.kind = "subscribe" ->
                     [NewSub EXCEPT !.org = x.org, !.status = x.terms, !.limit = x.limit]
                [] x.kind = "renew" -> [r EXCEPT !.status = x.terms, !.tier = 0, !.warned = 0]
                [] OTHER -> [r EXCEPT !.status = IF x.terms = "unsaid" THEN @ ELSE x.terms,
                                      !.limit = IF x.limit = 0 THEN @ ELSE x.limit]
    BY DEF TermsOf
  <1>6. MembersTypeOK
    BY DEF MembersRight
  <1> HIDE DEF x, r, row, next
  <1>7. x.terms \in TermStatuses \cup {"unsaid"} /\ x.limit \in Limits \cup {0} /\ x.todo \in SUBSET Orgs
    BY <1>2 DEF MemberCall
  <1>8. /\ row \in Subscription /\ row.org = o /\ row.status # "none"
        /\ \/ x.kind = "subscribe" /\ r.status = "none" /\ row.limit = x.limit
              /\ row.tier = 0 /\ row.warned = 0
           \/ x.kind = "renew" /\ row.tier = 0 /\ row.warned = 0
              /\ r.status # "none" /\ r.org = o
           \/ /\ x.kind \notin {"subscribe", "renew"}
              /\ row.tier = r.tier /\ row.warned = r.warned
              /\ row.usage = r.usage
              /\ row.limit = IF x.limit = 0 THEN r.limit ELSE x.limit
              /\ r.status # "none" /\ r.org = o
    <2>1. CASE x.kind = "subscribe"
      <3>1. row = [NewSub EXCEPT !.org = x.org, !.status = x.terms, !.limit = x.limit]
        BY <1>5, <2>1
      <3> QED  BY <1>1, <1>3, <1>7, <2>1, <3>1 DEF NewSub, Subscription, TermStatuses, Tiers
    <2>2. CASE x.kind = "renew"
      <3>1. row = [r EXCEPT !.status = x.terms, !.tier = 0, !.warned = 0]
        BY <1>5, <2>2
      <3> QED  BY <1>3, <1>4, <1>7, <2>2, <3>1 DEF Subscription, TermStatuses, Tiers
    <2>3. CASE x.kind \notin {"subscribe", "renew"}
      <3> DEFINE status == IF x.terms = "unsaid" THEN r.status ELSE x.terms
                 limit == IF x.limit = 0 THEN r.limit ELSE x.limit
      <3>1. row = [r EXCEPT !.status = IF x.terms = "unsaid" THEN @ ELSE x.terms,
                            !.limit = IF x.limit = 0 THEN @ ELSE x.limit]
        BY <1>5, <2>3
      <3>2. row = [r EXCEPT !.status = status, !.limit = limit]
        BY <1>4, <3>1 DEF Subscription
      <3>3. status \in TermStatuses \cup {"none"} /\ limit \in Limits \cup {0}
            /\ (r.status # "none" => status # "none")
        BY <1>4, <1>7 DEF Subscription, TermStatuses
      <3> HIDE DEF status, limit
      <3>4. row \in Subscription /\ row.org = r.org /\ row.status = status /\ row.limit = limit
            /\ row.usage = r.usage /\ row.tier = r.tier /\ row.warned = r.warned
        BY <1>4, <3>2, <3>3 DEF Subscription
      <3> QED  BY <1>3, <2>3, <3>3, <3>4 DEF limit
    <2> QED  BY <2>1, <2>2, <2>3
  <1>9. RowWritten(o, x.sub, row)
    BY <1>1, <1>3, <1>8, Rewritten DEF r
  <1>10. next \in MemberCall /\ next.phase \in {"idle", "counting"} /\ next.todo = x.todo
    BY <1>7, ThenCountsTyped DEF next
  <1>11. Moves(c, next, o, Told(x))
    BY <1>1, <1>6, <1>10, ContractedOthers
  <1> QED  BY <1>1, <1>2, <1>3, <1>7, <1>8, <1>9, <1>10, <1>11 DEF x, r, row, next

LEMMA WriteTermsKeeps ==
  ASSUME MembersRight, NEW c \in MemberCalls, WriteTerms(c)
  PROVE  MembersRight'
  <1> DEFINE x == memberCall[c]
             o == x.org
             row == TermsOf(x)
             next == ThenCounts(c, x.todo)
  <1>1. /\ o \in Orgs
        /\ RowWritten(o, x.sub, row)
        /\ next.phase \in {"idle", "counting"}
        /\ Moves(c, next, o, Told(x))
        /\ excused' = IF Fitted(x) /\ seats'[o].current = x.sub THEN excused \ {<<"seats", o>>}
                      ELSE Refit(o, excused, x.todo # {})
        /\ UNCHANGED <<user, member, linked>>
    BY Agrees
  <1>2. excused \in SUBSET (Excuses \X (Orgs \cup Subs)) /\ (x.todo # {}) \in BOOLEAN
    BY DEF MembersRight, MembersTypeOK
  <1> HIDE DEF x, o, row, next
  <1>3. ReadsSub(c)'
    BY <1>1 DEF ReadsSub, Telling, Moves
  <1>4. excused' \subseteq Excuses \X (Orgs \cup Subs)
        /\ \A p \in Orgs : <<"archive", p>> \in excused => <<"archive", p>> \in excused'
    <2>1. CASE excused' = excused \ {<<"seats", o>>}
      BY <1>2, <2>1
    <2>2. CASE excused' = Refit(o, excused, x.todo # {})
      BY <1>1, <1>2, <2>2, Refits
    <2> QED  BY <1>1, <2>1, <2>2
  <1> QED  BY <1>1, <1>3, <1>4, CountingKeeps DEF Moves, RowWritten

\* The sweep writes a row that was active.
LEMMA Sweeps ==
  ASSUME MembersRight, NEW s \in Subs, NEW status \in {"active", "ended"},
         SweepSubscription(s, status)
  PROVE  LET o == sub[s].org
             row == [sub[s] EXCEPT !.status = status]
         IN /\ o \in Orgs /\ sub[s].status = "active"
            /\ row.usage = sub[s].usage /\ row.limit = sub[s].limit
            /\ row.tier = sub[s].tier /\ row.warned = sub[s].warned
            /\ RowWritten(o, s, row)
            /\ memberCall' \in [MemberCalls -> MemberCall]
            /\ \A d \in MemberCalls : /\ Same(memberCall[d], memberCall'[d])
                                      /\ TermStales(d, o, {}) \subseteq memberCall'[d].stale
            /\ excused' = Refit(o, excused, FALSE)
            /\ UNCHANGED <<user, member, linked>>
  <1> DEFINE r == sub[s]
             o == r.org
             row == [r EXCEPT !.status = status]
  <1>1. /\ r.status = "active"
        /\ Rewrites(o, s, row)
        /\ excused' = Refit(o, excused, FALSE)
        /\ memberCall' = [d \in MemberCalls |->
             [memberCall[d] EXCEPT !.stale = @ \cup TermStales(d, o, {})]]
        /\ UNCHANGED <<user, member, linked>>
    BY DEF SweepSubscription
  <1>2. o \in Orgs /\ r \in Subscription /\ MembersTypeOK
    BY <1>1 DEF MembersRight, MembersTypeOK, SubsRight
  <1> HIDE DEF r
  <1>3. row \in Subscription /\ row.org = o /\ row.status # "none" /\ row.usage = r.usage
        /\ row.limit = r.limit /\ row.tier = r.tier /\ row.warned = r.warned
    BY <1>2 DEF Subscription, TermStatuses
  <1> HIDE DEF o, row
  <1>4. RowWritten(o, s, row)
    BY <1>1, <1>2, <1>3, Rewritten DEF o, r
  <1>5. /\ memberCall' \in [MemberCalls -> MemberCall]
        /\ \A d \in MemberCalls : /\ Same(memberCall[d], memberCall'[d])
                                  /\ TermStales(d, o, {}) \subseteq memberCall'[d].stale
    BY <1>1, <1>2, Learn
  <1> QED  BY <1>1, <1>2, <1>3, <1>4, <1>5 DEF o, r, row

LEMMA SweepSubscriptionKeeps ==
  ASSUME MembersRight, NEW s \in Subs, NEW status \in {"active", "ended"},
         SweepSubscription(s, status)
  PROVE  MembersRight'
  <1> DEFINE o == sub[s].org
             row == [sub[s] EXCEPT !.status = status]
  <1>1. /\ o \in Orgs
        /\ RowWritten(o, s, row)
        /\ memberCall' \in [MemberCalls -> MemberCall]
        /\ \A d \in MemberCalls : Same(memberCall[d], memberCall'[d])
        /\ excused' = Refit(o, excused, FALSE)
        /\ UNCHANGED <<user, member, linked>>
    BY Sweeps
  <1>2. excused \in SUBSET (Excuses \X (Orgs \cup Subs))
    BY DEF MembersRight, MembersTypeOK
  <1> HIDE DEF o, row
  <1>3. excused' \subseteq Excuses \X (Orgs \cup Subs)
        /\ \A p \in Orgs : <<"archive", p>> \in excused => <<"archive", p>> \in excused'
    BY <1>1, <1>2, Refits
  <1> QED  BY <1>1, <1>3, CountingKeeps DEF RowWritten

LEMMA InitSubs ==
  ASSUME MembersInit
  PROVE  /\ seats \in [Orgs -> Seats] /\ sub \in [Subs -> Subscription] /\ SubsRight
         /\ \A o \in Orgs : seats[o].open
         /\ \A o \in Orgs : LET s == seats[o].current IN
              s # NoSub => s \in Subs /\ sub[s].usage = Regulars /\ Regulars <= sub[s].limit
         /\ \A s \in Subs : sub[s].tier = 0 /\ sub[s].warned = 0
  <1>1. PICK first \in [Orgs -> Subs \cup {NoSub}], limit \in [Subs -> Limits] :
          /\ \A o, p \in Orgs : first[o] = first[p] => o = p \/ first[o] = NoSub
          /\ \A o \in Orgs : first[o] # NoSub => Regulars <= limit[first[o]]
          /\ seats = [o \in Orgs |-> [open |-> TRUE, current |-> first[o]]]
          /\ sub = [s \in Subs |->
               IF \E o \in Orgs : first[o] = s
               THEN [NewSub EXCEPT !.org = CHOOSE o \in Orgs : first[o] = s, !.status = "active",
                                   !.limit = limit[s], !.usage = Regulars]
               ELSE NewSub]
    BY DEF MembersInit
  <1>2. seats \in [Orgs -> Seats]
        /\ \A o \in Orgs : seats[o].open /\ seats[o].current = first[o]
    BY <1>1 DEF Seats
  <1>3. ASSUME NEW s \in Subs, NEW o \in Orgs, first[o] = s
        PROVE  sub[s] = [org |-> o, status |-> "active", limit |-> limit[s], usage |-> Regulars,
                         tier |-> 0, warned |-> 0]
    <2>1. (CHOOSE p \in Orgs : first[p] = s) = o
      <3>1. (CHOOSE p \in Orgs : first[p] = s) \in Orgs /\ first[CHOOSE p \in Orgs : first[p] = s] = s
        BY <1>3
      <3>2. s # NoSub
        BY MembersAssumption
      <3> QED  BY <1>1, <1>3, <3>1, <3>2
    <2>2. sub[s] = [NewSub EXCEPT !.org = o, !.status = "active", !.limit = limit[s], !.usage = Regulars]
      BY <1>1, <1>3, <2>1
    <2> QED  BY <2>2 DEF NewSub
  <1>4. ASSUME NEW s \in Subs, \A o \in Orgs : first[o] # s
        PROVE  sub[s] = NewSub
    BY <1>1, <1>4
  <1>5. ASSUME NEW s \in Subs
        PROVE  /\ sub[s] \in Subscription /\ sub[s].tier = 0 /\ sub[s].warned = 0
               /\ sub[s].status # "none" => sub[s].org \in Orgs
    <2>1. NewSub \in Subscription /\ NewSub.tier = 0 /\ NewSub.warned = 0 /\ NewSub.status = "none"
      BY DEF NewSub, Subscription, Tiers
    <2>2. ASSUME NEW o \in Orgs, first[o] = s
          PROVE  /\ sub[s] \in Subscription /\ sub[s].tier = 0 /\ sub[s].warned = 0
                 /\ sub[s].org \in Orgs
      <3> DEFINE l == limit[s]
      <3>1. l \in Limits /\ Regulars \in Nat
        BY <1>1, MembersAssumption
      <3>2. sub[s] = [org |-> o, status |-> "active", limit |-> l, usage |-> Regulars,
                      tier |-> 0, warned |-> 0]
        BY <1>3, <2>2
      <3> HIDE DEF l
      <3> QED  BY <3>1, <3>2 DEF Subscription, TermStatuses, Tiers
    <2> QED  BY <1>4, <2>1, <2>2
  <1>6. sub \in [Subs -> Subscription]
    BY <1>1, <1>5
  <1>7. ASSUME NEW o \in Orgs, first[o] # NoSub
        PROVE  /\ first[o] \in Subs /\ sub[first[o]].status = "active" /\ sub[first[o]].org = o
               /\ sub[first[o]].usage = Regulars /\ Regulars <= sub[first[o]].limit
    <2>1. first[o] \in Subs /\ Regulars <= limit[first[o]]
      BY <1>1, <1>7
    <2>2. sub[first[o]] = [org |-> o, status |-> "active", limit |-> limit[first[o]],
                           usage |-> Regulars, tier |-> 0, warned |-> 0]
      BY <1>3, <2>1
    <2> QED  BY <2>1, <2>2
  <1>8. SubsRight
    BY <1>2, <1>5, <1>7 DEF SubsRight
  <1> QED  BY <1>2, <1>5, <1>6, <1>7, <1>8

LEMMA InitIsRight ==
  ASSUME MembersInit
  PROVE  MembersRight
  <1>1. PICK supers \in SUBSET Users :
          user = [u \in Users |-> IF u \in supers
                               THEN [NewUser EXCEPT !.state = "active", !.role = "SUPER_ADMIN"]
                               ELSE NewUser]
    BY DEF MembersInit
  <1>2. NewUser \in User /\ [NewUser EXCEPT !.state = "active", !.role = "SUPER_ADMIN"] \in User
        /\ NewUser.org = NoOrg /\ [NewUser EXCEPT !.state = "active", !.role = "SUPER_ADMIN"].org = NoOrg
    BY DEF NewUser, User, Roles, Licensed
  <1>3. user \in [Users -> User] /\ \A u \in Users : user[u].org = NoOrg
    BY <1>1, <1>2
  <1>4. seats \in [Orgs -> Seats] /\ sub \in [Subs -> Subscription] /\ SubsRight
        /\ \A o \in Orgs : seats[o].open
    BY InitSubs
  <1>5. memberCall \in [MemberCalls -> MemberCall] /\ \A c \in MemberCalls : memberCall[c] = NoCall
    BY DEF MembersInit, NoCall, MemberCall, Tiers
  <1>6. MembersTypeOK
    BY <1>3, <1>4, <1>5 DEF MembersInit, MembersTypeOK
  <1>7. \A c \in MemberCalls : Reads(c) /\ ReadsSub(c)
    BY <1>5 DEF NoCall, Reads, ReadsUser, ReadsOrg, ReadsMembers, Bears, ReadsSub, Telling
  <1>8. Unborn /\ ArchivedIsLeft
    BY <1>3, <1>4 DEF Unborn, ArchivedIsLeft
  <1> QED  BY <1>4, <1>6, <1>7, <1>8 DEF MembersRight

LEMMA StepIsRight ==
  ASSUME MembersRight, [MembersNext]_memberVars
  PROVE  MembersRight'
  <1>1. CASE UNCHANGED memberVars
    <2>1. UNCHANGED <<user, member, linked, seats, sub, memberCall, excused>>
      BY <1>1 DEF memberVars
    <2>2. MembersTypeOK'
      BY <2>1 DEF MembersRight, MembersTypeOK
    <2>3. \A d \in MemberCalls : Same(memberCall[d], memberCall'[d]) /\ ReadsSub(d)'
      BY <2>1 DEF MembersRight, Same, ReadsSub
    <2>4. SubsRight'
      BY <2>1, SubsKept
    <2> QED  BY <2>1, <2>2, <2>3, <2>4, QuietKeeps
  <1>2. CASE CountStep
    BY <1>2, AskCountKeeps, CountKeeps, StoreKeeps, WarnKeeps, PassesKeeps, NotesKeeps,
       MemberCallFailsKeeps DEF CountStep
  <1>3. CASE UserStep
    <2>1. PICK c \in MemberCalls :
            \/ \E u \in Users, role \in Licensed, o \in Orgs \cup {NoOrg},
                  state \in {"active", "disabled"} : AskCreate(c, u, role, o, state)
            \/ \E u \in Users, role \in Licensed \cup {"unsaid"}, o \in Orgs \cup {NoOrg},
                  state \in {"active", "disabled", "unsaid"}, links \in BOOLEAN,
                  students \in SUBSET Users : AskUpdate(c, u, role, o, state, links, students)
            \/ \E u \in Users : AskDelete(c, u)
            \/ WriteUser(c) \/ DeleteUser(c)
      BY <1>3 DEF UserStep
    <2>2. CASE \E u \in Users, role \in Licensed, o \in Orgs \cup {NoOrg},
                  state \in {"active", "disabled"} : AskCreate(c, u, role, o, state)
      BY <2>2, AskCreateKeeps
    <2>3. CASE \E u \in Users, role \in Licensed \cup {"unsaid"}, o \in Orgs \cup {NoOrg},
                  state \in {"active", "disabled", "unsaid"}, links \in BOOLEAN,
                  students \in SUBSET Users : AskUpdate(c, u, role, o, state, links, students)
      BY <2>3, AskUpdateKeeps
    <2> QED  BY <2>1, <2>2, <2>3, AskDeleteKeeps, WriteUserKeeps, DeleteUserKeeps
  <1>4. CASE InviteStep
    BY <1>4, InviteStudentKeeps DEF InviteStep
  <1>5. CASE LeaveStep
    BY <1>5, DeleteMeKeeps DEF LeaveStep
  <1>6. CASE ArchiveStep
    BY <1>6, AskArchiveKeeps, ArchiveOrganizationKeeps DEF ArchiveStep
  <1>7. CASE TermsStep
    BY <1>7, AskTermsKeeps, WriteTermsKeeps, SweepSubscriptionKeeps DEF TermsStep
  <1> QED  BY <1>1, <1>2, <1>3, <1>4, <1>5, <1>6, <1>7 DEF MembersNext

\* Users, subscriptions and requests have their types, and what a request that is
\* about to write has read is right or known to be stale.
THEOREM MembersStayRight == MembersSpec => []MembersRight
  <1>1. MembersInit => MembersRight
    BY InitIsRight
  <1>2. MembersRight /\ [MembersNext]_memberVars => MembersRight'
    BY StepIsRight
  <1> QED  BY <1>1, <1>2, PTL DEF MembersSpec

\* An archived organization has no active user, however creations, moves and
\* archivings overlap (deleteOrganization).
THEOREM ArchivedStaysEmpty == MembersSpec => []ArchivedIsEmpty
  <1>1. MembersRight => ArchivedIsEmpty
    BY DEF MembersRight, ArchivedIsLeft, ArchivedIsEmpty, HoldsSeat, There
  <1> QED  BY <1>1, MembersStayRight, PTL

-----------------------------------------------------------------------------
(***************************************************************************)
(* Seats.                                                                  *)
(***************************************************************************)
Holders(o) == {u \in Users : HoldsSeat(u, o)}

Becomes(said, is) == IF said = "unsaid" THEN is ELSE said

\* A request that makes its user active has found a seat for it, as long as what
\* it has read is so
SeatFound(c) ==
  LET x == memberCall[c] IN
  /\ x.phase = "writing" /\ x.kind \in {"create", "update"}
  /\ {"seat", "user"} \cap x.stale = {}
  /\ Becomes(x.state, user[x.user].state) = "active"
  /\ Becomes(x.role, user[x.user].role) \in Licensed
  => /\ x.org \in Orgs /\ seats[x.org].current # NoSub
     /\ Regulars + Cardinality(Holders(x.org) \ {x.user}) < LimitOf(x.org)

\* ... one that resizes has found the users to have seats
LimitFound(c) ==
  LET x == memberCall[c] IN
  x.phase = "deciding" /\ Fitted(x) => Used(x.org) <= x.limit

\* ... and one that has counted, the subscription to be in force
InForce(c) ==
  LET x == memberCall[c] IN
  x.phase = "storing" /\ "count" \notin x.stale => seats[x.org].current = x.sub

Found(c) == SeatFound(c) /\ LimitFound(c) /\ InForce(c)

SeatsRight == UsersHaveSeats /\ \A c \in MemberCalls : Found(c)

\* Seats are taken and given up only in organizations a write changes.
LEMMA HoldersSteady ==
  ASSUME NEW us \in SUBSET Users, \A u \in Users \ us : user'[u] = user[u],
         NEW o \in Orgs, o \notin Changed(us)
  PROVE  Holders(o)' = Holders(o) /\ Used(o)' = Used(o)
  BY DEF Holders, HoldsSeat, Changed, Used

LEMMA FewerHolders ==
  ASSUME NEW o, Holders(o)' \subseteq Holders(o)
  PROVE  Used(o)' <= Used(o) /\ Used(o) \in Nat /\ Used(o)' \in Nat
  <1>1. IsFiniteSet(Holders(o))
    BY HoldersFinite DEF Holders
  <1>2. IsFiniteSet(Holders(o)') /\ Cardinality(Holders(o)') <= Cardinality(Holders(o))
    BY <1>1, FS_Subset
  <1>3. Cardinality(Holders(o)') \in Nat /\ Cardinality(Holders(o)) \in Nat
    BY <1>1, <1>2, FS_CardinalityType
  <1> QED  BY <1>2, <1>3, MembersAssumption DEF Used, Holders

\* The limit in force is of a subscription that is there.
LEMMA LimitsTyped ==
  ASSUME MembersRight, NEW o \in Orgs, seats[o].current # NoSub
  PROVE  seats[o].current \in Subs /\ LimitOf(o) \in Nat
  <1>1. seats[o].current \in Subs
    BY DEF MembersRight, MembersTypeOK, Seats
  <1>2. sub[seats[o].current] \in Subscription
    BY <1>1 DEF MembersRight, MembersTypeOK
  <1>3. LimitOf(o) \in Limits \cup {0}
    BY <1>2 DEF Subscription, LimitOf
  <1>4. Limits \cup {0} \subseteq Nat
    BY MembersAssumption
  <1> QED  BY <1>1, <1>3, <1>4

\* What was found is so until the request learns that it may not be.
LEMMA FoundKept ==
  ASSUME MembersRight, NEW us \in SUBSET Users, NEW d \in MemberCalls,
         \A u \in Users \ us : user'[u] = user[u],
         Same(memberCall[d], memberCall'[d]),
         Stales(d, us) \subseteq memberCall'[d].stale,
         \A o \in Orgs : o = memberCall[d].org /\ Shifts(o) =>
           TermStales(d, o, {}) \subseteq memberCall'[d].stale,
         Found(d)
  PROVE  Found(d)'
  <1> DEFINE x == memberCall[d]
             y == memberCall'[d]
  <1>0. /\ x.phase = y.phase /\ x.kind = y.kind /\ x.user = y.user /\ x.state = y.state
        /\ x.role = y.role /\ x.org = y.org /\ x.sub = y.sub /\ x.limit = y.limit
        /\ x.stale \subseteq y.stale
    BY DEF Same
  <1>1. ASSUME x.phase = "writing", x.kind \in {"create", "update"},
               {"seat", "user"} \cap y.stale = {},
               Becomes(x.state, user'[x.user].state) = "active",
               Becomes(x.role, user'[x.user].role) \in Licensed,
               NEW o, o = x.org
        PROVE  /\ o \in Orgs /\ seats'[o].current # NoSub
               /\ Regulars + Cardinality(Holders(o)' \ {x.user}) < LimitOf(o)'
    <2>1. x.user \in Users
      BY <1>1 DEF MembersRight, Reads, ReadsUser
    <2>2. {"seat", "user"} \cap x.stale = {}
      BY <1>0, <1>1
    <2>3. x.user \notin us /\ o \notin Changed(us)
      BY <1>1 DEF Stales
    <2>4. user'[x.user] = user[x.user]
      BY <2>1, <2>3
    <2>5. o \in Orgs /\ seats[o].current # NoSub
          /\ Regulars + Cardinality(Holders(o) \ {x.user}) < LimitOf(o)
      BY <1>1, <2>2, <2>4 DEF Found, SeatFound
    <2>6. Holders(o)' = Holders(o)
      BY <2>3, <2>5, HoldersSteady
    <2>7. ~Shifts(o)
      BY <1>1, <2>5 DEF TermStales
    <2>8. seats'[o].current = seats[o].current /\ LimitOf(o)' = LimitOf(o)
      BY <2>5, <2>7 DEF Shifts, Switches, LimitAfter, LimitOf
    <2> QED  BY <2>5, <2>6, <2>8
  <1>2. ASSUME x.phase = "deciding", x.kind = "resize", x.limit # 0, "seat" \notin y.stale,
               NEW o, o = x.org
        PROVE  Used(o)' <= x.limit
    <2>1. o \in Orgs
      BY <1>2 DEF MembersRight, ReadsSub
    <2>2. o \notin Changed(us)
      BY <1>2 DEF Stales
    <2>3. Used(o) <= x.limit
      BY <1>0, <1>2 DEF Found, LimitFound, Fitted
    <2>4. Used(o)' = Used(o)
      BY <2>1, <2>2, HoldersSteady
    <2> QED  BY <2>3, <2>4
  <1>3. ASSUME x.phase = "storing", "count" \notin y.stale
        PROVE  seats'[x.org].current = x.sub
    <2> PICK o \in Orgs : o = x.org
      BY <1>3 DEF MembersRight, ReadsSub, Telling
    <2>1. seats[o].current = x.sub
      BY <1>0, <1>3 DEF Found, InForce
    <2>2. ~Switches(o)
      BY <1>3 DEF TermStales, Shifts
    <2> QED  BY <2>1, <2>2 DEF Switches
  <1> HIDE DEF x, y
  <1>4. SeatFound(d)'
    BY <1>0, <1>1 DEF SeatFound, x, y
  <1>5. LimitFound(d)'
    BY <1>0, <1>2 DEF LimitFound, Fitted, x, y
  <1>6. InForce(d)'
    BY <1>0, <1>3 DEF InForce, x, y
  <1> QED  BY <1>4, <1>5, <1>6 DEF Found

\* A request that does neither
LEMMA NothingFound ==
  ASSUME NEW d, memberCall'[d].phase \notin {"writing", "deciding", "storing"}
  PROVE  Found(d)'
  BY DEF Found, SeatFound, LimitFound, InForce

\* A statement that changes no user and no seats
LEMMA QuietSeats ==
  ASSUME MembersRight, SeatsRight, UNCHANGED <<user, seats>>,
         \A s \in Subs : sub'[s].limit = sub[s].limit,
         \A o \in Orgs : <<"seats", o>> \in excused => <<"seats", o>> \in excused',
         \A d \in MemberCalls : Same(memberCall[d], memberCall'[d]) \/ Found(d)'
  PROVE  SeatsRight'
  <1>1. \A o \in Orgs : /\ Used(o)' = Used(o)
                        /\ seats[o].current # NoSub => LimitOf(o)' = LimitOf(o)
    BY LimitsTyped DEF Used, HoldsSeat, LimitOf
  <1>2. UsersHaveSeats'
    BY <1>1 DEF SeatsRight, UsersHaveSeats
  <1>3. ASSUME NEW d \in MemberCalls PROVE Found(d)'
    <2>1. CASE Same(memberCall[d], memberCall'[d])
      <3> DEFINE us == {}
      <3>1. us \in SUBSET Users /\ \A u \in Users \ us : user'[u] = user[u]
        OBVIOUS
      <3>2. Stales(d, us) = {}
        BY DEF Stales, Changed
      <3>3. \A o \in Orgs : ~Shifts(o)
        BY <1>1 DEF Shifts, Switches, LimitAfter, LimitOf
      <3> HIDE DEF us
      <3> QED  BY <2>1, <3>1, <3>2, <3>3, FoundKept DEF SeatsRight
    <2> QED  BY <2>1
  <1> QED  BY <1>2, <1>3 DEF SeatsRight

\* A write to a subscription of one organization is nothing to the others.
LEMMA Elsewhere ==
  ASSUME MembersRight, NEW o \in Orgs, NEW s \in Subs, NEW row, RowWritten(o, s, row),
         NEW p \in Orgs \ {o}
  PROVE  /\ seats'[p].current = seats[p].current /\ ~Shifts(p)
         /\ seats[p].current # NoSub =>
              seats[p].current \in Subs \ {s} /\ sub'[seats[p].current] = sub[seats[p].current]
         /\ seats[p].current # NoSub => LimitOf(p)' = LimitOf(p)
  <1>1. seats'[p] = seats[p] /\ seats[p].current # s /\ \A t \in Subs \ {s} : sub'[t] = sub[t]
    BY DEF RowWritten
  <1>2. seats[p].current \in Subs \cup {NoSub}
    BY DEF MembersRight, MembersTypeOK, Seats
  <1>3. seats[p].current # NoSub => sub'[seats[p].current] = sub[seats[p].current]
    BY <1>1, <1>2
  <1> QED  BY <1>1, <1>2, <1>3 DEF Shifts, Switches, LimitAfter, LimitOf

\* What takes over is excused when the users do not fit in it.
LEMMA RefitSeats ==
  ASSUME MembersRight, UsersHaveSeats, user' = user, NEW o \in Orgs, NEW s \in Subs, NEW row,
         RowWritten(o, s, row), NEW e \in SUBSET (Excuses \X (Orgs \cup Subs)), NEW k \in BOOLEAN,
         \A p \in Orgs : <<"seats", p>> \in e <=> <<"seats", p>> \in excused,
         excused' = Refit(o, e, k)
  PROVE  UsersHaveSeats'
  <1> SUFFICES ASSUME NEW p \in Orgs, seats'[p].current # NoSub, <<"seats", p>> \notin excused'
               PROVE  Used(p)' <= LimitOf(p)'
    BY DEF UsersHaveSeats
  <1>1. Used(p)' = Used(p)
    BY DEF Used, HoldsSeat
  <1>2. CASE p # o
    <2>1. seats'[p].current = seats[p].current /\ LimitOf(p)' = LimitOf(p)
      BY <1>2, Elsewhere
    <2>2. <<"seats", p>> \notin excused
      BY <1>2, Refits
    <2> QED  BY <1>1, <2>1, <2>2 DEF UsersHaveSeats
  <1>3. CASE p = o
    <2>1. (Shifts(o) /\ Fits(o)) \/ (~Shifts(o) /\ <<"seats", o>> \notin e)
      BY <1>3, Refits
    <2>2. CASE Shifts(o) /\ Fits(o)
      BY <1>1, <1>3, <2>2 DEF Fits, LimitAfter, LimitOf
    <2>3. CASE ~Shifts(o) /\ <<"seats", o>> \notin e
      <3>1. seats'[o].current = seats[o].current /\ LimitOf(o)' = LimitOf(o)
        BY <1>3, <2>3 DEF Shifts, Switches, LimitAfter, LimitOf
      <3> QED  BY <1>1, <1>3, <2>3, <3>1 DEF UsersHaveSeats
    <2> QED  BY <2>1, <2>2, <2>3
  <1> QED  BY <1>2, <1>3

\* A write to a subscription: others know that what they have found may be gone.
LEMMA TermsSeats ==
  ASSUME MembersRight, SeatsRight, user' = user, NEW o \in Orgs, NEW s \in Subs, NEW row,
         RowWritten(o, s, row), UsersHaveSeats', NEW told,
         \A d \in MemberCalls :
           \/ Found(d)'
           \/ /\ Same(memberCall[d], memberCall'[d])
              /\ TermStales(d, o, told) \subseteq memberCall'[d].stale
  PROVE  SeatsRight'
  <1>1. ASSUME NEW d \in MemberCalls, Same(memberCall[d], memberCall'[d]),
               TermStales(d, o, told) \subseteq memberCall'[d].stale
        PROVE  Found(d)'
    <2> DEFINE us == {}
    <2>1. us \in SUBSET Users /\ \A u \in Users \ us : user'[u] = user[u]
      OBVIOUS
    <2>2. Stales(d, us) = {}
      BY DEF Stales, Changed
    <2>3. TermStales(d, o, {}) \subseteq TermStales(d, o, told)
      BY DEF TermStales
    <2>4. ASSUME NEW p \in Orgs, p = memberCall[d].org, Shifts(p)
          PROVE  TermStales(d, p, {}) \subseteq memberCall'[d].stale
      <3>1. p = o
        BY <2>4, Elsewhere
      <3> QED  BY <1>1, <2>3, <3>1
    <2> HIDE DEF us
    <2> QED  BY <1>1, <2>1, <2>2, <2>4, FoundKept DEF SeatsRight
  <1> QED  BY <1>1 DEF SeatsRight

LEMMA SeatIsFound ==
  ASSUME NEW u \in Users, NEW o \in Orgs \cup {NoOrg}, HasSeat(u, o)
  PROVE  o \in Orgs /\ seats[o].current # NoSub
         /\ Regulars + Cardinality(Holders(o) \ {u}) < LimitOf(o)
  <1>1. Holders(o) \ {u} = {v \in Users \ {u} : HoldsSeat(v, o)}
    BY DEF Holders
  <1> QED  BY <1>1 DEF HasSeat

LEMMA AskCreateSeats ==
  ASSUME MembersRight, SeatsRight, NEW c \in MemberCalls, NEW u \in Users,
         NEW role \in Licensed, NEW o \in Orgs \cup {NoOrg},
         NEW state \in {"active", "disabled"}, AskCreate(c, u, role, o, state)
  PROVE  SeatsRight'
  <1> DEFINE x == [NoCall EXCEPT !.phase = "writing", !.kind = "create", !.user = u,
                     !.state = state, !.role = role, !.org = o, !.todo = Affected(o, NoOrg)]
  <1>1. x.phase = "writing" /\ x.user = u /\ x.state = state /\ x.role = role /\ x.org = o
    BY DEF NoCall
  <1>2. Asks(c, x)
    BY DEF AskCreate
  <1>3. memberCall' = [memberCall EXCEPT ![c] = x] /\ UNCHANGED <<user, seats, sub, excused>>
    BY <1>2 DEF Asks
  <1> HIDE DEF x
  <1>4. memberCall'[c] = x /\ \A d \in MemberCalls \ {c} : memberCall'[d] = memberCall[d]
    BY <1>3 DEF MembersRight, MembersTypeOK
  <1>5. Found(c)'
    <2>1. state = "active" => HasSeat(u, o)
      BY DEF AskCreate, Activates
    <2>2. Becomes(state, user[u].state) = state
      BY DEF Becomes
    <2>3. Holders(o)' = Holders(o)
      BY <1>3 DEF Holders, HoldsSeat
    <2>4. LimitOf(o)' = LimitOf(o) /\ seats'[o] = seats[o]
      BY <1>3 DEF LimitOf
    <2>5. state = "active" =>
            /\ o \in Orgs /\ seats'[o].current # NoSub
            /\ Regulars + Cardinality(Holders(o)' \ {u}) < LimitOf(o)'
      BY <2>1, <2>3, <2>4, SeatIsFound
    <2>6. SeatFound(c)'
      BY <1>1, <1>3, <1>4, <2>2, <2>5 DEF SeatFound
    <2> QED  BY <1>1, <1>4, <2>6 DEF Found, LimitFound, InForce
  <1> QED  BY <1>3, <1>4, <1>5, QuietSeats DEF Same

LEMMA AskUpdateSeats ==
  ASSUME MembersRight, SeatsRight, NEW c \in MemberCalls, NEW u \in Users,
         NEW role \in Licensed \cup {"unsaid"}, NEW o \in Orgs \cup {NoOrg},
         NEW state \in {"active", "disabled", "unsaid"}, NEW links \in BOOLEAN,
         NEW students \in SUBSET Users,
         AskUpdate(c, u, role, o, state, links, students)
  PROVE  SeatsRight'
  <1> DEFINE nextRole == IF role = "unsaid" THEN user[u].role ELSE role
             nextState == IF state = "unsaid" THEN user[u].state ELSE state
             x == [NoCall EXCEPT !.phase = "writing", !.kind = "update", !.user = u,
                     !.state = state, !.role = role, !.org = o,
                     !.todo = Affected(o, user[u].org),
                     !.links = links /\ nextRole = "PARENT", !.students = students]
  <1>1. x.phase = "writing" /\ x.user = u /\ x.state = state /\ x.role = role /\ x.org = o
    BY DEF NoCall
  <1>2. Asks(c, x) /\ Activates(nextState, nextRole, u, o)
    BY DEF AskUpdate
  <1>3. memberCall' = [memberCall EXCEPT ![c] = x] /\ UNCHANGED <<user, seats, sub, excused>>
    BY <1>2 DEF Asks
  <1> HIDE DEF x
  <1>4. memberCall'[c] = x /\ \A d \in MemberCalls \ {c} : memberCall'[d] = memberCall[d]
    BY <1>3 DEF MembersRight, MembersTypeOK
  <1>5. Found(c)'
    <2>1. Becomes(state, user[u].state) = nextState /\ Becomes(role, user[u].role) = nextRole
      BY DEF Becomes
    <2>2. nextState = "active" /\ nextRole \in Licensed => HasSeat(u, o)
      BY <1>2 DEF Activates
    <2> HIDE DEF nextState, nextRole
    <2>3. Holders(o)' = Holders(o)
      BY <1>3 DEF Holders, HoldsSeat
    <2>4. LimitOf(o)' = LimitOf(o) /\ seats'[o] = seats[o]
      BY <1>3 DEF LimitOf
    <2>5. nextState = "active" /\ nextRole \in Licensed =>
            /\ o \in Orgs /\ seats'[o].current # NoSub
            /\ Regulars + Cardinality(Holders(o)' \ {u}) < LimitOf(o)'
      BY <2>2, <2>3, <2>4, SeatIsFound
    <2>6. SeatFound(c)'
      BY <1>1, <1>3, <1>4, <2>1, <2>5 DEF SeatFound
    <2> QED  BY <1>1, <1>4, <2>6 DEF Found, LimitFound, InForce
  <1> QED  BY <1>3, <1>4, <1>5, QuietSeats DEF Same

\* The user that is written takes the seat that was found for it.
LEMMA WriteUserSeats ==
  ASSUME MembersRight, SeatsRight, NEW c \in MemberCalls, WriteUser(c)
  PROVE  SeatsRight'
  <1> DEFINE x == memberCall[c]
             next == ThenCounts(c, x.todo)
  <1> PICK u \in Users : u = x.user
    BY WritesUser
  <1>1. /\ x.phase = "writing" /\ x.kind \in {"create", "update"}
        /\ user' \in [Users -> User]
        /\ \A v \in Users \ {u} : user'[v] = user[v]
        /\ user'[u].state = Becomes(x.state, user[u].state)
        /\ user'[u].role = Becomes(x.role, user[u].role)
        /\ user'[u].org = x.org
        /\ next \in MemberCall
        /\ next.phase \in {"idle", "counting"}
    BY WritesUser DEF Becomes
  <1>2. /\ Overtaken(c, next, {u}) /\ UNCHANGED <<seats, sub>> /\ MembersTypeOK /\ SeatFound(c)
        /\ \A o \in Orgs : ~Shifts(o) /\ LimitOf(o)' = LimitOf(o)
    BY DEF WriteUser, MembersRight, SeatsRight, Found, Shifts, Switches, LimitAfter, LimitOf
  <1>3. excused' = excused \cup
          {e \in Excuses \X ({x.org} \ {NoOrg}) :
             \/ e[1] = "seats" /\ {"seat", "user"} \cap x.stale # {}
             \/ e[1] = "archive" /\ "archive" \in x.stale}
          \cup NotCounted(x)
    BY DEF WriteUser
  <1> HIDE DEF x, next
  <1>4. ASSUME NEW d \in MemberCalls PROVE Found(d)'
    <2>1. CASE d = c
      <3>1. memberCall'[c] = next
        BY <1>1, <1>2, OvertakenOthers
      <3> QED  BY <1>1, <2>1, <3>1, NothingFound
    <2>2. CASE d # c
      <3>1. Same(memberCall[d], memberCall'[d]) /\ Stales(d, {u}) \subseteq memberCall'[d].stale
        BY <1>1, <1>2, <2>2, OvertakenOthers
      <3> DEFINE us == {u}
      <3>2. us \in SUBSET Users /\ (\A v \in Users \ us : user'[v] = user[v])
            /\ Stales(d, us) \subseteq memberCall'[d].stale
        BY <1>1, <3>1
      <3> HIDE DEF us
      <3> QED  BY <1>2, <3>1, <3>2, FoundKept DEF SeatsRight
    <2> QED  BY <2>1, <2>2
  <1>5. ASSUME NEW o \in Orgs, seats'[o].current # NoSub, <<"seats", o>> \notin excused'
        PROVE  Used(o)' <= LimitOf(o)'
    <2>0. LimitOf(o)' = LimitOf(o) /\ LimitOf(o) \in Nat
      BY <1>2, <1>5, LimitsTyped
    <2>1. Used(o) <= LimitOf(o)
      BY <1>2, <1>3, <1>5 DEF SeatsRight, UsersHaveSeats
    <2>2. CASE HoldsSeat(u, o)'
      <3>1. o = x.org /\ Becomes(x.state, user[u].state) = "active"
            /\ Becomes(x.role, user[u].role) \in Licensed
        BY <1>1, <2>2 DEF HoldsSeat
      <3>2. {"seat", "user"} \cap x.stale = {}
        <4>1. <<"seats", o>> \in Excuses \X ({x.org} \ {NoOrg})
          BY <3>1, MembersAssumption DEF Excuses
        <4> QED  BY <1>3, <1>5, <4>1
      <3>3. Regulars + Cardinality(Holders(o) \ {u}) < LimitOf(o)
        BY <1>1, <1>2, <3>1, <3>2 DEF SeatFound, x
      <3> DEFINE others == Holders(o) \ {u}
      <3>4. Holders(o)' = others \cup {u}
        BY <1>1, <2>2 DEF Holders, HoldsSeat
      <3>5. IsFiniteSet(others)
        BY HoldersFinite, FS_Subset DEF Holders
      <3>6. Cardinality(others \cup {u}) = Cardinality(others) + 1 /\ Cardinality(others) \in Nat
        <4> HIDE DEF others
        <4>1. u \notin others
          BY DEF others
        <4> QED  BY <3>5, <4>1, FS_AddElement, FS_CardinalityType
      <3>7. Used(o)' = Regulars + Cardinality(Holders(o)')
        BY DEF Used, Holders
      <3> HIDE DEF others
      <3> QED  BY <2>0, <3>3, <3>4, <3>6, <3>7, MembersAssumption DEF others
    <2>3. CASE ~HoldsSeat(u, o)'
      <3>1. Holders(o)' \subseteq Holders(o)
        BY <1>1, <2>3 DEF Holders, HoldsSeat
      <3>2. Used(o)' <= Used(o) /\ Used(o) \in Nat /\ Used(o)' \in Nat
        BY <3>1, FewerHolders
      <3> QED  BY <2>0, <2>1, <3>2
    <2> QED  BY <2>2, <2>3
  <1> QED  BY <1>4, <1>5 DEF SeatsRight, UsersHaveSeats

\* Deletions and archivings only give seats up.
LEMMA LeavesSeats ==
  ASSUME MembersRight, SeatsRight, NEW us \in SUBSET Users,
         \A v \in Users \ us : user'[v] = user[v],
         \A v \in us : user'[v].state = "disabled" \/ user'[v].deleted,
         \A o \in Orgs : <<"seats", o>> \in excused => <<"seats", o>> \in excused',
         \A o \in Orgs : seats'[o].current # NoSub =>
           seats'[o].current = seats[o].current /\ LimitOf(o)' = LimitOf(o),
         \A d \in MemberCalls :
           \/ Found(d)'
           \/ /\ Same(memberCall[d], memberCall'[d])
              /\ Stales(d, us) \subseteq memberCall'[d].stale
              /\ \A o \in Orgs : o = memberCall[d].org /\ Shifts(o) =>
                   TermStales(d, o, {}) \subseteq memberCall'[d].stale
  PROVE  SeatsRight'
  <1>1. ASSUME NEW o \in Orgs, seats'[o].current # NoSub, <<"seats", o>> \notin excused'
        PROVE  Used(o)' <= LimitOf(o)'
    <2>1. Used(o) <= LimitOf(o) /\ LimitOf(o)' = LimitOf(o) /\ LimitOf(o) \in Nat
      BY <1>1, LimitsTyped DEF SeatsRight, UsersHaveSeats
    <2>2. Holders(o)' \subseteq Holders(o)
      BY DEF Holders, HoldsSeat
    <2>3. Used(o)' <= Used(o) /\ Used(o) \in Nat /\ Used(o)' \in Nat
      BY <2>2, FewerHolders
    <2> QED  BY <2>1, <2>3
  <1>2. ASSUME NEW d \in MemberCalls PROVE Found(d)'
    BY FoundKept DEF SeatsRight
  <1> QED  BY <1>1, <1>2 DEF SeatsRight, UsersHaveSeats

LEMMA DeleteUserSeats ==
  ASSUME MembersRight, SeatsRight, NEW c \in MemberCalls, DeleteUser(c)
  PROVE  SeatsRight'
  <1> DEFINE x == memberCall[c]
             next == ThenCounts(c, x.todo)
  <1> PICK u \in Users : u = x.user
    BY DeletesUser
  <1>1. /\ \A v \in Users \ {u} : user'[v] = user[v]
        /\ user'[u].state = "disabled"
        /\ next \in MemberCall
        /\ next.phase \in {"idle", "counting"}
    BY DeletesUser
  <1>2. /\ Overtaken(c, next, {u}) /\ excused \subseteq excused' /\ MembersTypeOK
        /\ UNCHANGED <<seats, sub>>
    BY DEF DeleteUser, MembersRight
  <1> HIDE DEF next, x
  <1>3. \A o \in Orgs : ~Shifts(o) /\ seats'[o].current = seats[o].current /\ LimitOf(o)' = LimitOf(o)
    BY <1>2 DEF Shifts, Switches, LimitAfter, LimitOf
  <1>4. ASSUME NEW d \in MemberCalls
        PROVE  \/ Found(d)'
               \/ Same(memberCall[d], memberCall'[d]) /\ Stales(d, {u}) \subseteq memberCall'[d].stale
    <2>1. CASE d = c
      BY <1>1, <1>2, <2>1, OvertakenOthers, NothingFound
    <2>2. CASE d # c
      BY <1>1, <1>2, <2>2, OvertakenOthers
    <2> QED  BY <2>1, <2>2
  <1> DEFINE us == {u}
  <1>5. /\ us \in SUBSET Users /\ \A v \in Users \ us : user'[v] = user[v]
        /\ \A v \in us : user'[v].state = "disabled" \/ user'[v].deleted
        /\ \A d \in MemberCalls :
             \/ Found(d)'
             \/ Same(memberCall[d], memberCall'[d]) /\ Stales(d, us) \subseteq memberCall'[d].stale
    BY <1>1, <1>4
  <1> HIDE DEF us
  <1> QED  BY <1>2, <1>3, <1>5, LeavesSeats

LEMMA ArchiveOrganizationSeats ==
  ASSUME MembersRight, SeatsRight, NEW c \in MemberCalls, ArchiveOrganization(c)
  PROVE  SeatsRight'
  <1> PICK us \in SUBSET Users : us = memberCall[c].pool
    BY Archives
  <1> PICK org \in Orgs : org = memberCall[c].org
    BY Archives
  <1>1. /\ \A v \in Users \ us : user'[v] = user[v]
        /\ \A v \in us : user'[v].state = "disabled"
        /\ memberCall'[c] = NoCall
        /\ \A d \in MemberCalls \ {c} :
             /\ Same(memberCall[d], memberCall'[d]) /\ Stales(d, us) \subseteq memberCall'[d].stale
             /\ memberCall[d].org = org => {"seat", "count"} \subseteq memberCall'[d].stale
        /\ \A o \in Orgs \ {org} : seats'[o] = seats[o]
        /\ seats'[org].current = NoSub
        /\ \A s \in Subs : sub[s].org # org => sub'[s] = sub[s]
    BY Archives
  <1>2. excused \subseteq excused'
    BY DEF ArchiveOrganization
  <1>3. NoCall.phase = "idle"
    BY DEF NoCall
  <1>4. ASSUME NEW o \in Orgs \ {org}
        PROVE  /\ ~Shifts(o) /\ seats'[o].current = seats[o].current
               /\ seats[o].current # NoSub => LimitOf(o)' = LimitOf(o)
    <2>1. seats'[o].current = seats[o].current
      BY <1>1
    <2>2. ASSUME seats[o].current # NoSub PROVE sub'[seats[o].current] = sub[seats[o].current]
      <3>1. seats[o].current \in Subs
        BY <2>2, LimitsTyped
      <3>2. sub[seats[o].current].org = o
        BY <2>2 DEF MembersRight, SubsRight
      <3> QED  BY <1>1, <3>1, <3>2
    <2> QED  BY <2>1, <2>2 DEF Shifts, Switches, LimitAfter, LimitOf
  <1>5. ASSUME NEW d \in MemberCalls
        PROVE  \/ Found(d)'
               \/ /\ Same(memberCall[d], memberCall'[d])
                  /\ Stales(d, us) \subseteq memberCall'[d].stale
                  /\ \A o \in Orgs : o = memberCall[d].org /\ Shifts(o) =>
                       TermStales(d, o, {}) \subseteq memberCall'[d].stale
    <2>1. CASE d = c
      BY <1>1, <1>3, <2>1, NothingFound
    <2>2. CASE d # c
      <3>1. \A o \in Orgs : TermStales(d, o, {}) \subseteq {"seat", "count"}
        BY DEF TermStales
      <3> QED  BY <1>1, <1>4, <2>2, <3>1
    <2> QED  BY <2>1, <2>2
  <1>6. ASSUME NEW o \in Orgs, seats'[o].current # NoSub
        PROVE  seats'[o].current = seats[o].current /\ LimitOf(o)' = LimitOf(o)
    BY <1>1, <1>4, <1>6
  <1>7. \A v \in us : user'[v].state = "disabled" \/ user'[v].deleted
    BY <1>1
  <1> QED  BY <1>1, <1>2, <1>5, <1>6, <1>7, LeavesSeats

LEMMA InviteStudentSeats ==
  ASSUME MembersRight, SeatsRight, NEW u \in Users, NEW org \in Orgs, InviteStudent(u, org)
  PROVE  SeatsRight'
  <1> DEFINE us == {u}
  <1>1. /\ us \in SUBSET Users /\ \A v \in Users \ us : user'[v] = user[v]
        /\ \A d \in MemberCalls : /\ Same(memberCall[d], memberCall'[d])
                                  /\ Stales(d, us) \subseteq memberCall'[d].stale
        /\ {"seats", "usage", "archive"} \X Changed(us) \subseteq excused'
        /\ excused \subseteq excused'
        /\ seats' = seats /\ sub' = sub
    BY Invites DEF MembersRight
  <1> HIDE DEF us
  <1>2. \A o \in Orgs : ~Shifts(o) /\ LimitOf(o)' = LimitOf(o)
    BY <1>1 DEF Shifts, Switches, LimitAfter, LimitOf
  <1>3. \A d \in MemberCalls : Found(d)'
    BY <1>1, <1>2, FoundKept DEF SeatsRight
  <1>4. ASSUME NEW o \in Orgs, seats'[o].current # NoSub, <<"seats", o>> \notin excused'
        PROVE  Used(o)' <= LimitOf(o)'
    <2>1. o \notin Changed(us)
      BY <1>1, <1>4
    <2>2. Used(o)' = Used(o)
      BY <1>1, <2>1, HoldersSteady
    <2> QED  BY <1>1, <1>2, <1>4, <2>2 DEF SeatsRight, UsersHaveSeats
  <1> QED  BY <1>3, <1>4 DEF SeatsRight, UsersHaveSeats

LEMMA DeleteMeSeats ==
  ASSUME MembersRight, SeatsRight, NEW u \in Users, DeleteMe(u)
  PROVE  SeatsRight'
  <1> DEFINE us == {u}
  <1>1. /\ us \in SUBSET Users /\ (\A v \in Users \ us : user'[v] = user[v])
        /\ \A v \in us : user'[v].state = "disabled" \/ user'[v].deleted
        /\ \A d \in MemberCalls : /\ Same(memberCall[d], memberCall'[d])
                                  /\ Stales(d, us) \subseteq memberCall'[d].stale
        /\ excused \subseteq excused'
        /\ seats' = seats /\ sub' = sub
    BY Leaves DEF MembersRight
  <1> HIDE DEF us
  <1>2. \A o \in Orgs : ~Shifts(o) /\ seats'[o].current = seats[o].current /\ LimitOf(o)' = LimitOf(o)
    BY <1>1 DEF Shifts, Switches, LimitAfter, LimitOf
  <1> QED  BY <1>1, <1>2, LeavesSeats

\* The steps of requests that count
LEMMA AskCountSeats ==
  ASSUME MembersRight, SeatsRight, NEW c \in MemberCalls, NEW o \in Orgs, AskCount(c, o)
  PROVE  SeatsRight'
  <1>1. UNCHANGED <<user, seats, sub, excused>> /\ memberCall'[c].phase = "counting"
        /\ \A d \in MemberCalls \ {c} : memberCall'[d] = memberCall[d]
    BY DEF AskCount, Asks, NoCall, MembersRight, MembersTypeOK
  <1>2. \A d \in MemberCalls : Same(memberCall[d], memberCall'[d]) \/ Found(d)'
    BY <1>1, NothingFound DEF Same
  <1> QED  BY <1>1, <1>2, QuietSeats

LEMMA CountSeats ==
  ASSUME MembersRight, SeatsRight, NEW c \in MemberCalls, Count(c)
  PROVE  SeatsRight'
  <1>1. PICK o \in memberCall[c].todo, next \in MemberCall :
           /\ o \in Orgs
           /\ memberCall' = [memberCall EXCEPT ![c] = next]
           /\ UNCHANGED <<user, member, linked, seats, sub, excused>>
           /\ \/ next.phase = "storing" /\ next.org = o /\ next.sub = seats[o].current
              \/ next = ThenCounts(c, memberCall[c].todo \ {o})
    BY Counts
  <1>2. MembersTypeOK /\ memberCall[c].todo \ {o} \in SUBSET Orgs
    BY DEF MembersRight, MembersTypeOK, MemberCall
  <1>3. memberCall'[c] = next /\ \A d \in MemberCalls \ {c} : Same(memberCall[d], memberCall'[d])
    BY <1>1, <1>2, OneMoves
  <1>4. Found(c)'
    <2>1. CASE next.phase = "storing" /\ next.org = o /\ next.sub = seats[o].current
      BY <1>1, <1>3, <2>1 DEF Found, SeatFound, LimitFound, InForce
    <2>2. CASE next = ThenCounts(c, memberCall[c].todo \ {o})
      BY <1>2, <1>3, <2>2, ThenCountsTyped, NothingFound
    <2> QED  BY <1>1, <2>1, <2>2
  <1> QED  BY <1>1, <1>3, <1>4, QuietSeats

LEMMA WarnSeats ==
  ASSUME MembersRight, SeatsRight, NEW c \in MemberCalls, Warn(c)
  PROVE  SeatsRight'
  <1> DEFINE x == memberCall[c]
             next == [x EXCEPT !.phase = "marking"]
  <1>1. /\ x.phase = "judging"
        /\ sub'[x.sub].limit = sub[x.sub].limit
        /\ \A t \in Subs \ {x.sub} : sub'[t] = sub[t]
        /\ Moves(c, next, x.org, {x.sub})
        /\ excused' = Noted(x)
        /\ UNCHANGED <<user, member, linked, seats>>
    BY WarnsOf
  <1>2. next.phase = "marking"
    BY <1>1, Goes DEF Telling
  <1> HIDE DEF next
  <1>3. \A d \in MemberCalls : Same(memberCall[d], memberCall'[d]) \/ Found(d)'
    BY <1>1, <1>2, NothingFound DEF Moves
  <1>4. excused \subseteq excused'
    BY <1>1 DEF Noted
  <1>5. \A t \in Subs : sub'[t].limit = sub[t].limit
    BY <1>1
  <1> QED  BY <1>1, <1>3, <1>4, <1>5, QuietSeats

LEMMA PassesOrFailsSeats ==
  ASSUME MembersRight, SeatsRight, NEW c \in MemberCalls, Passes(c) \/ MemberCallFails(c)
  PROVE  SeatsRight'
  <1>1. MembersTypeOK /\ memberCall[c].todo \in SUBSET Orgs
    BY DEF MembersRight, MembersTypeOK, MemberCall
  <1>2. PICK y \in {NoCall, ThenCounts(c, memberCall[c].todo)} :
          memberCall' = [memberCall EXCEPT ![c] = y]
    BY DEF Passes, MemberCallFails
  <1>3. y \in MemberCall /\ y.phase \in {"idle", "counting"}
    <2>1. NoCall \in MemberCall /\ NoCall.phase = "idle"
      BY DEF NoCall, MemberCall, Tiers
    <2> QED  BY <1>1, <1>2, <2>1, ThenCountsTyped
  <1>4. memberCall'[c] = y /\ \A d \in MemberCalls \ {c} : Same(memberCall[d], memberCall'[d])
    BY <1>1, <1>2, <1>3, OneMoves
  <1>5. UNCHANGED <<user, seats, sub>> /\ excused \subseteq excused'
    BY DEF Passes, MemberCallFails
  <1>6. Found(c)'
    BY <1>3, <1>4, NothingFound
  <1> QED  BY <1>4, <1>5, <1>6, QuietSeats

LEMMA StoreSeats ==
  ASSUME MembersRight, SeatsRight, NEW c \in MemberCalls, Store(c)
  PROVE  SeatsRight'
  <1> DEFINE x == memberCall[c]
             o == x.org
             s == x.sub
             row == [sub[s] EXCEPT !.usage = x.count]
             next == [x EXCEPT !.phase = "judging"]
  <1>1. /\ x.phase = "storing"
        /\ row.limit = sub[s].limit /\ row.status = sub[s].status
        /\ RowWritten(o, s, row)
        /\ Moves(c, next, o, {})
        /\ excused' = IF "count" \in x.stale THEN Refit(o, excused \cup {<<"usage", o>>}, TRUE)
                      ELSE excused \ {<<"usage", o>>}
        /\ UNCHANGED <<user, member, linked>>
    BY Stores
  <1>2. o \in Orgs /\ s \in Subs /\ next.phase = "judging"
    BY <1>1, Goes DEF Telling
  <1>3. InForce(c) /\ SubsRight /\ UsersHaveSeats /\ excused \subseteq Excuses \X (Orgs \cup Subs)
    BY DEF SeatsRight, Found, MembersRight, MembersTypeOK
  <1>4. \E e \in SUBSET (Excuses \X (Orgs \cup Subs)) :
          /\ \A p \in Orgs : <<"seats", p>> \in e <=> <<"seats", p>> \in excused
          /\ excused' = Refit(o, e, TRUE)
    <2>1. CASE "count" \in x.stale
      <3> DEFINE e == excused \cup {<<"usage", o>>}
      <3>1. e \in SUBSET (Excuses \X (Orgs \cup Subs))
        BY <1>2, <1>3 DEF Excuses
      <3>2. \A p \in Orgs : <<"seats", p>> \in e <=> <<"seats", p>> \in excused
        OBVIOUS
      <3> QED  BY <1>1, <2>1, <3>1, <3>2
    <2>2. CASE "count" \notin x.stale
      <3> DEFINE e == excused \ {<<"usage", o>>}
      <3>1. seats[o].current = s /\ s # NoSub
        BY <1>1, <1>2, <1>3, <2>2, MembersAssumption DEF InForce
      <3>2. sub[s].status = "active"
        BY <1>2, <1>3, <3>1 DEF SubsRight
      <3>3. seats'[o].current = s /\ sub'[s] = row
        BY <1>1, <3>2 DEF RowWritten
      <3>4. ~Shifts(o) /\ ~Switches(o)
        BY <1>1, <3>1, <3>3 DEF Shifts, Switches, LimitAfter, LimitOf
      <3>5. Refit(o, e, TRUE) = e
        BY <3>4 DEF Refit
      <3>6. e \in SUBSET (Excuses \X (Orgs \cup Subs))
        BY <1>3
      <3>7. \A p \in Orgs : <<"seats", p>> \in e <=> <<"seats", p>> \in excused
        OBVIOUS
      <3> QED  BY <1>1, <2>2, <3>5, <3>6, <3>7
    <2> QED  BY <2>1, <2>2
  <1> HIDE DEF x, o, s, row, next
  <1>5. UsersHaveSeats'
    BY <1>1, <1>2, <1>3, <1>4, RefitSeats
  <1>6. \A d \in MemberCalls :
          \/ Found(d)'
          \/ /\ Same(memberCall[d], memberCall'[d])
             /\ TermStales(d, o, {}) \subseteq memberCall'[d].stale
    BY <1>1, <1>2, NothingFound DEF Moves
  <1> QED  BY <1>1, <1>2, <1>5, <1>6, TermsSeats

LEMMA NotesSeats ==
  ASSUME MembersRight, SeatsRight, NEW c \in MemberCalls, Reset(c) \/ MarkTier(c)
  PROVE  SeatsRight'
  <1> DEFINE x == memberCall[c]
             o == x.org
             s == x.sub
             row == TierRow(x)
             next == ThenCounts(c, x.todo)
             e == Noted(x)
  <1>1. /\ x.phase \in Telling
        /\ RowWritten(o, s, row)
        /\ Moves(c, next, o, {s})
        /\ excused' = Refit(o, e, FALSE)
        /\ UNCHANGED <<user, member, linked>>
    BY Notes DEF Telling
  <1>2. o \in Orgs /\ s \in Subs /\ next.phase \in {"idle", "counting"}
    BY <1>1, Goes
  <1>3. e \in SUBSET (Excuses \X (Orgs \cup Subs)) /\ UsersHaveSeats
        /\ \A p \in Orgs : <<"seats", p>> \in e <=> <<"seats", p>> \in excused
    BY <1>2 DEF MembersRight, MembersTypeOK, SeatsRight, Noted, Excuses
  <1> HIDE DEF x, o, s, row, next, e
  <1>4. UsersHaveSeats'
    BY <1>1, <1>2, <1>3, RefitSeats
  <1>5. \A d \in MemberCalls :
          \/ Found(d)'
          \/ /\ Same(memberCall[d], memberCall'[d])
             /\ TermStales(d, o, {s}) \subseteq memberCall'[d].stale
    BY <1>1, <1>2, NothingFound DEF Moves
  <1> QED  BY <1>1, <1>2, <1>4, <1>5, TermsSeats

LEMMA CountStepSeats ==
  ASSUME MembersRight, SeatsRight, CountStep
  PROVE  SeatsRight'
  BY AskCountSeats, CountSeats, StoreSeats, WarnSeats, PassesOrFailsSeats, NotesSeats DEF CountStep

\* Limits that are asked for are compared with the users there are.
LEMMA TermsFound ==
  ASSUME MembersRight, SeatsRight, NEW c \in MemberCalls,
         NEW kind \in {"subscribe", "decide", "resize", "renew"}, NEW s, NEW o, NEW limit,
         NEW terms, NEW todo, Asks(c, Terms(kind, s, o, limit, terms, todo)),
         kind = "resize" /\ limit # 0 => Used(o) <= limit
  PROVE  SeatsRight'
  <1> DEFINE x == Terms(kind, s, o, limit, terms, todo)
  <1>1. x.phase = "deciding" /\ x.kind = kind /\ x.org = o /\ x.limit = limit
    BY DEF Terms, NoCall
  <1>2. memberCall'[c] = x /\ UNCHANGED <<user, seats, sub, excused>>
        /\ \A d \in MemberCalls \ {c} : memberCall'[d] = memberCall[d]
    BY DEF Asks, MembersRight, MembersTypeOK
  <1> HIDE DEF x
  <1>3. Used(o)' = Used(o)
    BY <1>2 DEF Used, HoldsSeat
  <1>4. Found(c)'
    <2>1. LimitFound(c)'
      BY <1>1, <1>2, <1>3 DEF LimitFound, Fitted
    <2> QED  BY <1>1, <1>2, <2>1 DEF Found, SeatFound, InForce
  <1>5. \A d \in MemberCalls : Same(memberCall[d], memberCall'[d]) \/ Found(d)'
    BY <1>2, <1>4 DEF Same
  <1> QED  BY <1>2, <1>5, QuietSeats

LEMMA AskTermsSeats ==
  ASSUME MembersRight, SeatsRight, NEW c \in MemberCalls, NEW s \in Subs,
         \/ \E o \in Orgs, limit \in Limits, terms \in TermStatuses :
              AskSubscribe(c, s, o, limit, terms)
         \/ \E terms \in {"active", "ended"} : AskDecide(c, s, terms)
         \/ \E limit \in Limits \cup {0}, terms \in TermStatuses \cup {"unsaid"} :
              AskResize(c, s, limit, terms)
         \/ AskRenew(c, s)
  PROVE  SeatsRight'
  <1>1. ASSUME NEW o \in Orgs, NEW limit \in Limits, NEW terms \in TermStatuses,
               AskSubscribe(c, s, o, limit, terms)
        PROVE  SeatsRight'
    BY <1>1, TermsFound DEF AskSubscribe
  <1>2. ASSUME NEW terms \in {"active", "ended"}, AskDecide(c, s, terms)
        PROVE  SeatsRight'
    BY <1>2, TermsFound DEF AskDecide
  <1>3. ASSUME NEW limit \in Limits \cup {0}, NEW terms \in TermStatuses \cup {"unsaid"},
               AskResize(c, s, limit, terms)
        PROVE  SeatsRight'
    BY <1>3, TermsFound DEF AskResize
  <1>4. CASE AskRenew(c, s)
    BY <1>4, TermsFound DEF AskRenew
  <1> QED  BY <1>1, <1>2, <1>3, <1>4

\* A limit that was compared and is in force is kept to.
LEMMA WriteTermsSeats ==
  ASSUME MembersRight, SeatsRight, NEW c \in MemberCalls, WriteTerms(c)
  PROVE  SeatsRight'
  <1> DEFINE x == memberCall[c]
             o == x.org
             s == x.sub
             row == TermsOf(x)
             next == ThenCounts(c, x.todo)
             k == x.todo # {}
  <1>1. /\ x.phase = "deciding" /\ o \in Orgs /\ s \in Subs
        /\ x.kind = "resize" /\ x.limit # 0 => row.limit = x.limit
        /\ RowWritten(o, s, row)
        /\ next.phase \in {"idle", "counting"}
        /\ Moves(c, next, o, Told(x))
        /\ excused' = IF Fitted(x) /\ seats'[o].current = s THEN excused \ {<<"seats", o>>}
                      ELSE Refit(o, excused, k)
        /\ UNCHANGED <<user, member, linked>>
    BY Agrees
  <1>2. /\ excused \in SUBSET (Excuses \X (Orgs \cup Subs)) /\ UsersHaveSeats
        /\ \A p \in Orgs : <<"seats", p>> \in excused <=> <<"seats", p>> \in excused
        /\ LimitFound(c)
    BY DEF MembersRight, MembersTypeOK, SeatsRight, Found
  <1>3. k \in BOOLEAN
    OBVIOUS
  <1>4. UsersHaveSeats'
    <2>1. CASE Fitted(x) /\ seats'[o].current = s
      <3> SUFFICES ASSUME NEW p \in Orgs, seats'[p].current # NoSub, <<"seats", p>> \notin excused'
                   PROVE  Used(p)' <= LimitOf(p)'
        BY DEF UsersHaveSeats
      <3>1. Used(p)' = Used(p)
        BY <1>1 DEF Used, HoldsSeat
      <3>2. CASE p = o
        <4>1. Used(p) <= x.limit
          BY <1>1, <1>2, <2>1, <3>2 DEF LimitFound
        <4>2. sub'[s] = row /\ row.limit = x.limit
          BY <1>1, <2>1 DEF RowWritten, Fitted
        <4>3. LimitOf(p)' = x.limit
          BY <2>1, <3>2, <4>2 DEF LimitOf
        <4> QED  BY <3>1, <4>1, <4>3
      <3>3. CASE p # o
        <4> HIDE DEF x, o, s, row
        <4>1. seats'[p].current = seats[p].current /\ LimitOf(p)' = LimitOf(p)
          BY <1>1, <3>3, Elsewhere
        <4>2. <<"seats", p>> \notin excused
          BY <1>1, <2>1, <3>3
        <4> QED  BY <1>2, <3>1, <4>1, <4>2 DEF UsersHaveSeats
      <3> QED  BY <3>2, <3>3
    <2>2. CASE excused' = Refit(o, excused, k)
      <3> HIDE DEF x, o, s, row, k
      <3> QED  BY <1>1, <1>2, <1>3, <2>2, RefitSeats
    <2> QED  BY <1>1, <2>1, <2>2
  <1> HIDE DEF x, o, s, row, next
  <1>5. \A d \in MemberCalls :
          \/ Found(d)'
          \/ /\ Same(memberCall[d], memberCall'[d])
             /\ TermStales(d, o, Told(x)) \subseteq memberCall'[d].stale
    BY <1>1, NothingFound DEF Moves
  <1> QED  BY <1>1, <1>4, <1>5, TermsSeats

LEMMA SweepSubscriptionSeats ==
  ASSUME MembersRight, SeatsRight, NEW s \in Subs, NEW status \in {"active", "ended"},
         SweepSubscription(s, status)
  PROVE  SeatsRight'
  <1> DEFINE o == sub[s].org
             row == [sub[s] EXCEPT !.status = status]
  <1>1. /\ o \in Orgs
        /\ RowWritten(o, s, row)
        /\ \A d \in MemberCalls : /\ Same(memberCall[d], memberCall'[d])
                                  /\ TermStales(d, o, {}) \subseteq memberCall'[d].stale
        /\ excused' = Refit(o, excused, FALSE)
        /\ UNCHANGED <<user, member, linked>>
    BY Sweeps
  <1>2. excused \in SUBSET (Excuses \X (Orgs \cup Subs)) /\ UsersHaveSeats
    BY DEF MembersRight, MembersTypeOK, SeatsRight
  <1> HIDE DEF o, row
  <1>3. UsersHaveSeats'
    BY <1>1, <1>2, RefitSeats
  <1> QED  BY <1>1, <1>3, TermsSeats

LEMMA AskDeleteOrArchiveSeats ==
  ASSUME MembersRight, SeatsRight, NEW c \in MemberCalls,
         (\E u \in Users : AskDelete(c, u)) \/ (\E o \in Orgs : AskArchive(c, o))
  PROVE  SeatsRight'
  <1>1. /\ \A d \in MemberCalls \ {c} : memberCall'[d] = memberCall[d]
        /\ UNCHANGED <<user, seats, sub, excused>>
        /\ memberCall'[c].phase = "writing" /\ memberCall'[c].kind \in {"delete", "archive"}
    <2>1. \E record : Asks(c, record) /\ record.phase = "writing" /\ record.kind \in {"delete", "archive"}
      <3>1. ASSUME NEW u \in Users, AskDelete(c, u)
            PROVE  \E record : Asks(c, record) /\ record.phase = "writing" /\ record.kind \in {"delete", "archive"}
        <4> DEFINE x == [NoCall EXCEPT !.phase = "writing", !.kind = "delete", !.user = u,
                     !.todo = OrgsOf(u)]
        <4>1. x.phase = "writing" /\ x.kind = "delete"
          BY DEF NoCall
        <4> QED  BY <3>1, <4>1 DEF AskDelete
      <3>2. ASSUME NEW o \in Orgs, AskArchive(c, o)
            PROVE  \E record : Asks(c, record) /\ record.phase = "writing" /\ record.kind \in {"delete", "archive"}
        <4> DEFINE x == [NoCall EXCEPT !.phase = "writing", !.kind = "archive", !.org = o,
                     !.pool = MembersOf(o)]
        <4>1. x.phase = "writing" /\ x.kind = "archive"
          BY DEF NoCall
        <4> QED  BY <3>2, <4>1 DEF AskArchive
      <3> QED  BY <3>1, <3>2
    <2> PICK record : Asks(c, record) /\ record.phase = "writing" /\ record.kind \in {"delete", "archive"}
      BY <2>1
    <2> QED  BY DEF Asks, MembersRight, MembersTypeOK
  <1>2. \A d \in MemberCalls : Same(memberCall[d], memberCall'[d]) \/ Found(d)'
    BY <1>1 DEF Found, SeatFound, LimitFound, InForce, Same
  <1> QED  BY <1>1, <1>2, QuietSeats

LEMMA StepHasSeats ==
  ASSUME MembersRight, SeatsRight, [MembersNext]_memberVars
  PROVE  SeatsRight'
  <1>1. CASE UNCHANGED memberVars
    BY <1>1, QuietSeats DEF memberVars, Same
  <1>2. CASE CountStep
    BY <1>2, CountStepSeats
  <1>3. CASE UserStep
    <2>1. PICK c \in MemberCalls :
            \/ \E u \in Users, role \in Licensed, o \in Orgs \cup {NoOrg},
                  state \in {"active", "disabled"} : AskCreate(c, u, role, o, state)
            \/ \E u \in Users, role \in Licensed \cup {"unsaid"}, o \in Orgs \cup {NoOrg},
                  state \in {"active", "disabled", "unsaid"}, links \in BOOLEAN,
                  students \in SUBSET Users : AskUpdate(c, u, role, o, state, links, students)
            \/ \E u \in Users : AskDelete(c, u)
            \/ WriteUser(c) \/ DeleteUser(c)
      BY <1>3 DEF UserStep
    <2>2. CASE \E u \in Users, role \in Licensed, o \in Orgs \cup {NoOrg},
                  state \in {"active", "disabled"} : AskCreate(c, u, role, o, state)
      BY <2>2, AskCreateSeats
    <2>3. CASE \E u \in Users, role \in Licensed \cup {"unsaid"}, o \in Orgs \cup {NoOrg},
                  state \in {"active", "disabled", "unsaid"}, links \in BOOLEAN,
                  students \in SUBSET Users : AskUpdate(c, u, role, o, state, links, students)
      <3> PICK u \in Users, role \in Licensed \cup {"unsaid"}, o \in Orgs \cup {NoOrg},
               state \in {"active", "disabled", "unsaid"}, links \in BOOLEAN,
               students \in SUBSET Users : AskUpdate(c, u, role, o, state, links, students)
        BY <2>3
      <3> QED  BY AskUpdateSeats, Zenon
    <2> QED  BY <2>1, <2>2, <2>3, AskDeleteOrArchiveSeats, WriteUserSeats, DeleteUserSeats
  <1>4. CASE InviteStep
    BY <1>4, InviteStudentSeats DEF InviteStep
  <1>5. CASE LeaveStep
    BY <1>5, DeleteMeSeats DEF LeaveStep
  <1>6. CASE ArchiveStep
    BY <1>6, AskDeleteOrArchiveSeats, ArchiveOrganizationSeats DEF ArchiveStep
  <1>7. CASE TermsStep
    BY <1>7, AskTermsSeats, WriteTermsSeats, SweepSubscriptionSeats DEF TermsStep
  <1> QED  BY <1>1, <1>2, <1>3, <1>4, <1>5, <1>6, <1>7 DEF MembersNext

LEMMA InitCounted ==
  ASSUME MembersInit, NEW o \in Orgs
  PROVE  Used(o) = Regulars
  <1>1. PICK supers \in SUBSET Users :
          user = [u \in Users |-> IF u \in supers
                               THEN [NewUser EXCEPT !.state = "active", !.role = "SUPER_ADMIN"]
                               ELSE NewUser]
    BY DEF MembersInit
  <1>2. {u \in Users : HoldsSeat(u, o)} = {}
    BY <1>1 DEF HoldsSeat, NewUser, Licensed
  <1>3. Cardinality({u \in Users : HoldsSeat(u, o)}) = 0
    BY <1>2, FS_EmptySet, Zenon
  <1> QED  BY <1>3, MembersAssumption DEF Used

LEMMA InitHasSeats ==
  ASSUME MembersInit
  PROVE  SeatsRight
  <1>1. \A c \in MemberCalls : Found(c)
    BY DEF MembersInit, Found, SeatFound, LimitFound, InForce, NoCall
  <1>2. ASSUME NEW o \in Orgs, seats[o].current # NoSub PROVE Used(o) <= LimitOf(o)
    BY <1>2, InitSubs, InitCounted DEF LimitOf
  <1> QED  BY <1>1, <1>2 DEF SeatsRight, UsersHaveSeats

\* No organization has more active users than the subscription in force has seats: a
\* request that is to write an active user has found a seat that is still free, one
\* that changes the limit has found that the users fit, or what it read is stale; and
\* what takes over without a look at the seats fits, or is excused until something
\* that fits does (assertCanActivateUserRole, assertSubscriptionSeatCapacity).
THEOREM UsersStayInSeats == MembersSpec => []UsersHaveSeats
  <1>1. MembersInit => SeatsRight
    BY InitHasSeats
  <1>2. MembersRight /\ SeatsRight /\ [MembersNext]_memberVars => SeatsRight'
    BY StepHasSeats
  <1>3. SeatsRight => UsersHaveSeats
    BY DEF SeatsRight
  <1> QED  BY <1>1, <1>2, <1>3, MembersStayRight, PTL DEF MembersSpec

-----------------------------------------------------------------------------
(***************************************************************************)
(* Usage.                                                                  *)
(***************************************************************************)
\* A count is right until a write overtakes it, a request that has nothing to
\* write or to count has no organization left, and one about a subscription is
\* to count its organization, save where it rejects it.
CountRight(c) ==
  LET x == memberCall[c] IN
  /\ x.phase = "storing" /\ "count" \notin x.stale => x.count = Used(x.org)
  /\ x.phase = "idle" => x.todo = {}
  /\ x.phase = "writing" /\ x.kind = "archive" => x.todo = {}
  /\ x.phase = "deciding" => x.org \in x.todo \/ (x.todo = {} /\ x.kind = "decide")

\* A request has changed the organization and is still to count it
ToCount(c, o) ==
  LET x == memberCall[c] IN
  /\ x.phase \notin {"writing", "deciding"}
  /\ \/ o \in x.todo
     \/ x.phase = "storing" /\ x.org = o

UsageRight ==
  /\ \A c \in MemberCalls : CountRight(c)
  /\ \A o \in Orgs :
       /\ seats[o].current # NoSub /\ <<"usage", o>> \notin excused
       /\ \A c \in MemberCalls : ~ToCount(c, o)
       => sub[seats[o].current].usage = Used(o)

LEMMA CountKept ==
  ASSUME MembersRight, NEW us \in SUBSET Users, NEW d \in MemberCalls,
         \A u \in Users \ us : user'[u] = user[u],
         Same(memberCall[d], memberCall'[d]),
         Stales(d, us) \subseteq memberCall'[d].stale,
         CountRight(d)
  PROVE  CountRight(d)'
  <1> DEFINE x == memberCall[d]
  <1>1. ASSUME x.phase = "storing", "count" \notin memberCall'[d].stale
        PROVE  x.count = Used(x.org)'
    <2> PICK o \in Orgs : o = x.org
      BY <1>1 DEF MembersRight, ReadsSub, Telling
    <2>1. o \notin Changed(us)
      BY <1>1 DEF Stales
    <2>2. Used(o)' = Used(o)
      BY <2>1, HoldersSteady
    <2>3. x.org' = o /\ "count" \notin x.stale
      BY <1>1 DEF Same
    <2>4. x.count = Used(o)
      BY <1>1, <2>3 DEF CountRight
    <2> QED  BY <2>2, <2>3, <2>4
  <1> QED  BY <1>1 DEF CountRight, Same

\* The organization's subscription in force and its usage are as they were
UsageStands(o) ==
  /\ seats'[o].current = seats[o].current
  /\ sub'[seats[o].current].usage = sub[seats[o].current].usage

\* Users move and subscriptions take over: every organization that gains or loses
\* by it is counted, or excused.
LEMMA UsageKept ==
  ASSUME MembersRight, UsageRight, NEW us \in SUBSET Users,
         \A u \in Users \ us : user'[u] = user[u],
         \A o \in Orgs : <<"usage", o>> \in excused => <<"usage", o>> \in excused',
         \A d \in MemberCalls :
           \/ Same(memberCall[d], memberCall'[d]) /\ Stales(d, us) \subseteq memberCall'[d].stale
           \/ /\ CountRight(d)'
              /\ \A o \in Orgs : ToCount(d, o) =>
                   ToCount(d, o)' \/ <<"usage", o>> \in excused' \/ seats'[o].current = NoSub,
         \A o \in Orgs :
           \/ <<"usage", o>> \in excused' \/ seats'[o].current = NoSub
           \/ \E d \in MemberCalls : ToCount(d, o)'
           \/ o \notin Changed(us) /\ UsageStands(o)
  PROVE  UsageRight'
  <1>1. ASSUME NEW d \in MemberCalls PROVE CountRight(d)'
    BY CountKept DEF UsageRight
  <1>2. ASSUME NEW o \in Orgs, seats'[o].current # NoSub, <<"usage", o>> \notin excused',
               \A d \in MemberCalls : ~ToCount(d, o)'
        PROVE  sub'[seats'[o].current].usage = Used(o)'
    <2>1. \A d \in MemberCalls : ~ToCount(d, o)
      BY <1>2 DEF ToCount, Same
    <2>2. o \notin Changed(us) /\ UsageStands(o)
      BY <1>2
    <2>3. Used(o)' = Used(o)
      BY <2>2, HoldersSteady
    <2> QED  BY <1>2, <2>1, <2>2, <2>3 DEF UsageRight, UsageStands
  <1> QED  BY <1>1, <1>2 DEF UsageRight

\* Requests that only count, and those that ask: no user moves.
LEMMA QuietUsage ==
  ASSUME MembersRight, UsageRight, user' = user,
         \A o \in Orgs : <<"usage", o>> \in excused => <<"usage", o>> \in excused',
         \A d \in MemberCalls :
           \/ Same(memberCall[d], memberCall'[d])
           \/ /\ CountRight(d)'
              /\ \A o \in Orgs : ToCount(d, o) =>
                   ToCount(d, o)' \/ <<"usage", o>> \in excused' \/ seats'[o].current = NoSub,
         \A o \in Orgs :
           \/ <<"usage", o>> \in excused' \/ seats'[o].current = NoSub
           \/ \E d \in MemberCalls : ToCount(d, o)'
           \/ UsageStands(o)
  PROVE  UsageRight'
  <1> DEFINE us == {}
  <1>1. us \in SUBSET Users /\ (\A u \in Users \ us : user'[u] = user[u]) /\ Changed(us) = {}
    BY DEF Changed
  <1>2. ASSUME NEW d \in MemberCalls PROVE Stales(d, us) \subseteq memberCall'[d].stale
    BY <1>1 DEF Stales
  <1> HIDE DEF us
  <1> QED  BY <1>1, <1>2, UsageKept

\* A write to a row that leaves its usage and who is in force alone
LEMMA TermsStand ==
  ASSUME MembersRight, NEW o \in Orgs, NEW s \in Subs, NEW row, RowWritten(o, s, row),
         NEW p \in Orgs, p = o => ~Switches(o) /\ row.usage = sub[s].usage,
         seats'[p].current # NoSub
  PROVE  UsageStands(p)
  <1>1. CASE p # o
    BY <1>1, Elsewhere DEF UsageStands
  <1>2. CASE p = o
    <2>1. seats'[o].current = seats[o].current /\ seats[o].current \in Subs
      BY <1>2, LimitsTyped DEF Switches
    <2> QED  BY <1>2, <2>1 DEF UsageStands, RowWritten
  <1> QED  BY <1>1, <1>2

\* Requests ask while they are idle, and are asked nothing to count for that.
LEMMA AsksUsage ==
  ASSUME MembersRight, UsageRight, NEW c \in MemberCalls, NEW record,
         Asks(c, record), record.phase \in {"writing", "deciding", "counting"},
         record.phase = "writing" /\ record.kind = "archive" => record.todo = {},
         record.phase = "deciding" =>
           record.org \in record.todo \/ (record.todo = {} /\ record.kind = "decide")
  PROVE  UsageRight'
  <1>1. memberCall[c].phase = "idle" /\ memberCall'[c] = record
        /\ UNCHANGED <<user, seats, sub, excused>>
        /\ \A d \in MemberCalls \ {c} : memberCall'[d] = memberCall[d]
    BY DEF Asks, MembersRight, MembersTypeOK
  <1>2. CountRight(c)'
    BY <1>1 DEF CountRight
  <1>3. \A o \in Orgs : ~ToCount(c, o)
    BY <1>1 DEF ToCount, UsageRight, CountRight
  <1>4. \A o \in Orgs : UsageStands(o)
    BY <1>1 DEF UsageStands
  <1> QED  BY <1>1, <1>2, <1>3, <1>4, QuietUsage DEF Same

LEMMA WriteUserUsage ==
  ASSUME MembersRight, UsageRight, NEW c \in MemberCalls, WriteUser(c)
  PROVE  UsageRight'
  <1> DEFINE x == memberCall[c]
             next == ThenCounts(c, x.todo)
  <1> PICK u \in Users : u = x.user
    BY WritesUser
  <1>1. /\ x.phase = "writing" /\ x.kind \in {"create", "update"}
        /\ \A v \in Users \ {u} : user'[v] = user[v]
        /\ user'[u].org = x.org
        /\ next \in MemberCall
        /\ next.phase \in {"idle", "counting"} /\ next.todo = x.todo
    BY WritesUser
  <1>2. Overtaken(c, next, {u}) /\ MembersTypeOK /\ Reads(c) /\ UNCHANGED <<seats, sub>>
        /\ excused \cup NotCounted(x) \subseteq excused'
    BY DEF WriteUser, MembersRight
  <1>3. next.phase = "idle" => next.todo = {}
    BY DEF ThenCounts, NoCall
  <1> HIDE DEF x, next
  <1>4. memberCall'[c] = next /\ \A d \in MemberCalls \ {c} :
          Same(memberCall[d], memberCall'[d]) /\ Stales(d, {u}) \subseteq memberCall'[d].stale
    BY <1>1, <1>2, OvertakenOthers
  <1>5. CountRight(c)'
    BY <1>1, <1>3, <1>4 DEF CountRight
  <1>6. ASSUME NEW o \in Changed({u})
        PROVE  <<"usage", o>> \in excused' \/ ToCount(c, o)'
    <2>1. o \in Orgs /\ (o = user[u].org \/ o = x.org)
      BY <1>1 DEF Changed
    <2>2. CASE "user" \in x.stale
      BY <1>2, <1>6, <2>2 DEF NotCounted
    <2>3. CASE "user" \notin x.stale
      <3>1. o \in x.todo
        BY <1>1, <1>2, <2>1, <2>3, MembersAssumption DEF Reads, ReadsUser, ReadsOrg, OrgOf, x
      <3> QED  BY <1>1, <1>4, <3>1 DEF ToCount
    <2> QED  BY <2>2, <2>3
  <1>7. \A o \in Orgs : <<"usage", o>> \in excused => <<"usage", o>> \in excused'
    BY <1>2
  <1>8. \A o \in Orgs : ~ToCount(c, o) /\ UsageStands(o)
    BY <1>1, <1>2 DEF ToCount, UsageStands, x
  <1> DEFINE us == {u}
  <1>9. us \in SUBSET Users /\ \A v \in Users \ us : user'[v] = user[v]
    BY <1>1
  <1>10. \A d \in MemberCalls :
           \/ Same(memberCall[d], memberCall'[d]) /\ Stales(d, us) \subseteq memberCall'[d].stale
           \/ CountRight(d)' /\ \A o \in Orgs : ~ToCount(d, o)
    BY <1>4, <1>5, <1>8
  <1>11. \A o \in Changed(us) : <<"usage", o>> \in excused' \/ ToCount(c, o)'
    BY <1>6
  <1> HIDE DEF us
  <1> QED  BY <1>7, <1>8, <1>9, <1>10, <1>11, UsageKept

LEMMA DeleteUserUsage ==
  ASSUME MembersRight, UsageRight, NEW c \in MemberCalls, DeleteUser(c)
  PROVE  UsageRight'
  <1> DEFINE x == memberCall[c]
             next == ThenCounts(c, x.todo)
  <1> PICK u \in Users : u = x.user
    BY DeletesUser
  <1>1. /\ x.phase = "writing" /\ x.kind = "delete"
        /\ \A v \in Users \ {u} : user'[v] = user[v]
        /\ user'[u].org = user[u].org
        /\ next \in MemberCall
        /\ next.phase \in {"idle", "counting"} /\ next.todo = x.todo
    BY DeletesUser
  <1>2. Overtaken(c, next, {u}) /\ MembersTypeOK /\ Reads(c) /\ UNCHANGED <<seats, sub>>
        /\ excused \cup NotCounted(x) \subseteq excused'
    BY DEF DeleteUser, MembersRight
  <1>3. next.phase = "idle" => next.todo = {}
    BY DEF ThenCounts, NoCall
  <1> HIDE DEF x, next
  <1>4. memberCall'[c] = next /\ \A d \in MemberCalls \ {c} :
          Same(memberCall[d], memberCall'[d]) /\ Stales(d, {u}) \subseteq memberCall'[d].stale
    BY <1>1, <1>2, OvertakenOthers
  <1>5. CountRight(c)'
    BY <1>1, <1>3, <1>4 DEF CountRight
  <1>6. ASSUME NEW o \in Changed({u})
        PROVE  <<"usage", o>> \in excused' \/ ToCount(c, o)'
    <2>1. o \in Orgs /\ o = user[u].org
      BY <1>1 DEF Changed
    <2>2. CASE "user" \in x.stale
      BY <1>2, <1>6, <2>2 DEF NotCounted
    <2>3. CASE "user" \notin x.stale
      <3>1. o \in x.todo
        BY <1>1, <1>2, <2>1, <2>3, MembersAssumption DEF Reads, ReadsUser, OrgOf, x
      <3> QED  BY <1>1, <1>4, <3>1 DEF ToCount
    <2> QED  BY <2>2, <2>3
  <1>7. \A o \in Orgs : <<"usage", o>> \in excused => <<"usage", o>> \in excused'
    BY <1>2
  <1>8. \A o \in Orgs : ~ToCount(c, o) /\ UsageStands(o)
    BY <1>1, <1>2 DEF ToCount, UsageStands, x
  <1> DEFINE us == {u}
  <1>9. us \in SUBSET Users /\ \A v \in Users \ us : user'[v] = user[v]
    BY <1>1
  <1>10. \A d \in MemberCalls :
           \/ Same(memberCall[d], memberCall'[d]) /\ Stales(d, us) \subseteq memberCall'[d].stale
           \/ CountRight(d)' /\ \A o \in Orgs : ~ToCount(d, o)
    BY <1>4, <1>5, <1>8
  <1>11. \A o \in Changed(us) : <<"usage", o>> \in excused' \/ ToCount(c, o)'
    BY <1>6
  <1> HIDE DEF us
  <1> QED  BY <1>7, <1>8, <1>9, <1>10, <1>11, UsageKept

LEMMA ArchiveOrganizationUsage ==
  ASSUME MembersRight, UsageRight, NEW c \in MemberCalls, ArchiveOrganization(c)
  PROVE  UsageRight'
  <1> PICK us \in SUBSET Users, org \in Orgs : us = memberCall[c].pool /\ org = memberCall[c].org
    BY Archives
  <1>1. /\ memberCall[c].phase = "writing"
        /\ \A v \in Users \ us : user'[v] = user[v]
        /\ memberCall'[c] = NoCall
        /\ \A d \in MemberCalls \ {c} :
             Same(memberCall[d], memberCall'[d]) /\ Stales(d, us) \subseteq memberCall'[d].stale
        /\ \A o \in Orgs \ {org} : seats'[o] = seats[o]
        /\ seats'[org].current = NoSub
        /\ \A s \in Subs : sub[s].org # org => sub'[s] = sub[s]
    BY Archives
  <1>2. excused \cup ({"usage"} \X (Changed(us) \ {org})) \subseteq excused'
    BY DEF ArchiveOrganization
  <1>3. CountRight(c)' /\ \A o \in Orgs : ~ToCount(c, o)
    BY <1>1 DEF CountRight, NoCall, ToCount
  <1>4. ASSUME NEW o \in Orgs, seats'[o].current # NoSub PROVE UsageStands(o)
    <2>1. o # org /\ seats'[o] = seats[o]
      BY <1>1, <1>4
    <2>2. seats[o].current \in Subs /\ sub[seats[o].current].org = o
      BY <1>4, <2>1, LimitsTyped DEF MembersRight, SubsRight
    <2> QED  BY <1>1, <2>1, <2>2 DEF UsageStands
  <1>5. \A o \in Orgs : <<"usage", o>> \in excused => <<"usage", o>> \in excused'
    BY <1>2
  <1>6. \A o \in Changed(us) : <<"usage", o>> \in excused' \/ seats'[o].current = NoSub
    BY <1>1, <1>2
  <1>7. \A d \in MemberCalls :
           \/ Same(memberCall[d], memberCall'[d]) /\ Stales(d, us) \subseteq memberCall'[d].stale
           \/ CountRight(d)' /\ \A o \in Orgs : ~ToCount(d, o)
    BY <1>1, <1>3
  <1> QED  BY <1>1, <1>4, <1>5, <1>6, <1>7, UsageKept

LEMMA InviteOrLeaveUsage ==
  ASSUME MembersRight, UsageRight, NEW u \in Users,
         DeleteMe(u) \/ \E org \in Orgs : InviteStudent(u, org)
  PROVE  UsageRight'
  <1> DEFINE us == {u}
  <1>1. /\ us \in SUBSET Users /\ (\A v \in Users \ us : user'[v] = user[v])
        /\ \A d \in MemberCalls : /\ Same(memberCall[d], memberCall'[d])
                                  /\ Stales(d, us) \subseteq memberCall'[d].stale
        /\ {"usage"} \X Changed(us) \subseteq excused'
        /\ excused \subseteq excused' /\ seats' = seats /\ sub' = sub
    BY Invites, Leaves DEF MembersRight
  <1> HIDE DEF us
  <1>2. \A o \in Orgs : UsageStands(o)
    BY <1>1 DEF UsageStands
  <1>3. \A o \in Changed(us) : <<"usage", o>> \in excused'
    BY <1>1
  <1> QED  BY <1>1, <1>2, <1>3, UsageKept

\* A request that goes on counting drops no organization.
LEMMA ThenCountsRight ==
  ASSUME NEW c \in MemberCalls, NEW orgs \in SUBSET Orgs, memberCall'[c] = ThenCounts(c, orgs)
  PROVE  CountRight(c)' /\ \A o \in orgs : ToCount(c, o)'
  <1>1. ThenCounts(c, orgs).phase \in {"idle", "counting"} /\ ThenCounts(c, orgs).todo = orgs
    BY ThenCountsTyped
  <1>2. ThenCounts(c, orgs).phase = "idle" => orgs = {}
    BY DEF ThenCounts, NoCall
  <1> QED  BY <1>1, <1>2 DEF CountRight, ToCount

LEMMA CountUsage ==
  ASSUME MembersRight, UsageRight, NEW c \in MemberCalls, Count(c)
  PROVE  UsageRight'
  <1> DEFINE x == memberCall[c]
  <1>1. MembersTypeOK /\ x.todo \in SUBSET Orgs
    BY DEF MembersRight, MembersTypeOK, MemberCall
  <1>2. PICK o \in x.todo, next \in MemberCall :
           /\ o \in Orgs
           /\ x.phase = "counting"
           /\ memberCall' = [memberCall EXCEPT ![c] = next]
           /\ UNCHANGED <<user, member, linked, seats, sub, excused>>
           /\ \/ /\ next.phase = "storing" /\ next.org = o /\ next.todo = x.todo \ {o}
                 /\ next.count = Used(o)
              \/ /\ seats[o].current = NoSub
                 /\ next = ThenCounts(c, x.todo \ {o})
    BY Counts
  <1>3. /\ memberCall'[c] = next
        /\ \A d \in MemberCalls \ {c} : Same(memberCall[d], memberCall'[d])
    BY <1>1, <1>2, OneMoves
  <1>4. CountRight(c)' /\ \A p \in Orgs : ToCount(c, p) => ToCount(c, p)' \/ seats'[p].current = NoSub
    <2>1. CASE /\ next.phase = "storing" /\ next.org = o /\ next.todo = x.todo \ {o}
               /\ next.count = Used(o)
      <3>2. Used(o)' = Used(o)
        BY <1>2 DEF Used, HoldsSeat
      <3>3. x.count' = Used(x.org)'
        <4>1. x.org' = o /\ x.count' = Used(o)
          BY <1>3, <2>1
        <4> QED  BY <3>2, <4>1
      <3> QED  BY <1>2, <1>3, <2>1, <3>3 DEF CountRight, ToCount
    <2>2. CASE seats[o].current = NoSub /\ next = ThenCounts(c, x.todo \ {o})
      <3>1. memberCall'[c] = ThenCounts(c, x.todo \ {o}) /\ x.todo \ {o} \in SUBSET Orgs
        BY <1>1, <1>2, <1>3, <2>2
      <3>2. CountRight(c)' /\ \A p \in x.todo \ {o} : ToCount(c, p)'
        BY <3>1, ThenCountsRight
      <3> QED  BY <1>2, <2>2, <3>2 DEF ToCount
    <2> QED  BY <1>2, <2>1, <2>2
  <1>5. \A p \in Orgs : UsageStands(p)
    BY <1>2 DEF UsageStands
  <1> QED  BY <1>2, <1>3, <1>4, <1>5, QuietUsage

\* A count that nothing has overtaken is stored where it was taken.
LEMMA StoreUsage ==
  ASSUME MembersRight, SeatsRight, UsageRight, NEW c \in MemberCalls, Store(c)
  PROVE  UsageRight'
  <1> DEFINE x == memberCall[c]
             o == x.org
             s == x.sub
             row == [sub[s] EXCEPT !.usage = x.count]
             next == [x EXCEPT !.phase = "judging"]
  <1>1. /\ x.phase = "storing" /\ row.usage = x.count /\ row.status = sub[s].status
        /\ RowWritten(o, s, row)
        /\ Moves(c, next, o, {})
        /\ excused' = IF "count" \in x.stale THEN Refit(o, excused \cup {<<"usage", o>>}, TRUE)
                      ELSE excused \ {<<"usage", o>>}
        /\ UNCHANGED <<user, member, linked>>
    BY Stores
  <1>2. o \in Orgs /\ s \in Subs /\ next.phase = "judging" /\ next.todo = x.todo
    BY <1>1, Goes DEF Telling
  <1>3. CountRight(c) /\ InForce(c) /\ SubsRight /\ excused \subseteq Excuses \X (Orgs \cup Subs)
    BY DEF UsageRight, SeatsRight, Found, MembersRight, MembersTypeOK
  <1>4. /\ memberCall'[c] = next
        /\ \A d \in MemberCalls \ {c} : Same(memberCall[d], memberCall'[d])
    BY <1>1 DEF Moves
  <1>5. \A p : Used(p)' = Used(p)
    BY <1>1 DEF Used, HoldsSeat
  <1> HIDE DEF next
  <1>6. ASSUME NEW d \in MemberCalls PROVE CountRight(d)'
    <2>1. CASE d = c
      BY <1>2, <1>4, <2>1 DEF CountRight
    <2>2. CASE d # c
      BY <1>4, <1>5, <2>2 DEF UsageRight, CountRight, Same
    <2> QED  BY <2>1, <2>2
  <1> DEFINE e == excused \cup {<<"usage", o>>}
  <1>7. e \in SUBSET (Excuses \X (Orgs \cup Subs))
    BY <1>2, <1>3 DEF Excuses
  <1>8. ASSUME NEW p \in Orgs, seats'[p].current # NoSub, <<"usage", p>> \notin excused',
               \A d \in MemberCalls : ~ToCount(d, p)'
        PROVE  sub'[seats'[p].current].usage = Used(p)'
    <2>1. CASE p = o
      <3>1. "count" \notin x.stale
        <4>1. <<"usage", o>> \in e
          OBVIOUS
        <4> HIDE DEF e
        <4>2. <<"usage", o>> \in Refit(o, e, TRUE)
          BY <1>2, <1>7, <4>1, Refits
        <4> QED  BY <1>1, <1>8, <2>1, <4>2 DEF e
      <3>2. x.count = Used(o) /\ seats[o].current = s
        BY <1>1, <1>3, <3>1 DEF CountRight, InForce
      <3>3. sub[s].status = "active"
        BY <1>2, <1>3, <3>2, MembersAssumption DEF SubsRight
      <3>4. seats'[o].current = s /\ sub'[s] = row
        BY <1>1, <3>3 DEF RowWritten
      <3> QED  BY <1>1, <1>5, <2>1, <3>2, <3>4
    <2>2. CASE p # o
      <3> HIDE DEF x, o, s, row
      <3>1. UsageStands(p)
        BY <1>1, <1>2, <1>8, <2>2, TermsStand
      <3>2. <<"usage", p>> \notin excused
        <4> HIDE DEF e
        <4>1. <<"usage", p>> \in Refit(o, e, TRUE) <=> <<"usage", p>> \in e
          BY <1>2, <1>7, <2>2, Refits
        <4> QED  BY <1>1, <1>8, <2>2, <4>1 DEF e
      <3>3. ~ToCount(c, p)
        BY <1>1, <1>2, <1>4, <1>8, <2>2 DEF ToCount, x, o
      <3>4. \A d \in MemberCalls : ~ToCount(d, p)
        BY <1>4, <1>8, <3>3 DEF ToCount, Same
      <3> QED  BY <1>5, <1>8, <3>1, <3>2, <3>4 DEF UsageRight, UsageStands
    <2> QED  BY <2>1, <2>2
  <1> QED  BY <1>6, <1>8 DEF UsageRight


LEMMA WarnUsage ==
  ASSUME MembersRight, UsageRight, NEW c \in MemberCalls, Warn(c)
  PROVE  UsageRight'
  <1> DEFINE x == memberCall[c]
             s == x.sub
             next == [x EXCEPT !.phase = "marking"]
  <1>1. /\ x.phase = "judging"
        /\ sub'[s].usage = sub[s].usage /\ \A t \in Subs \ {s} : sub'[t] = sub[t]
        /\ Moves(c, next, x.org, {s})
        /\ excused' = Noted(x)
        /\ UNCHANGED <<user, member, linked, seats>>
    BY WarnsOf
  <1>2. next.phase = "marking" /\ next.todo = x.todo /\ next.org = x.org
    BY <1>1, Goes DEF Telling
  <1>3. \A p : <<"usage", p>> \in excused => <<"usage", p>> \in excused'
    BY <1>1 DEF Noted
  <1>4. CountRight(c)' /\ \A p \in Orgs : ToCount(c, p) => ToCount(c, p)'
    <2>1. memberCall'[c].phase = "marking" /\ memberCall'[c].todo = x.todo
      BY <1>1, <1>2 DEF Moves
    <2> QED  BY <1>1, <2>1 DEF CountRight, ToCount
  <1> HIDE DEF x, s, next
  <1>5. ASSUME NEW p \in Orgs, seats'[p].current # NoSub PROVE UsageStands(p)
    <2>1. seats[p].current \in Subs
      BY <1>1, <1>5, LimitsTyped
    <2> QED  BY <1>1, <2>1 DEF UsageStands
  <1> QED  BY <1>1, <1>3, <1>4, <1>5, QuietUsage DEF Moves

LEMMA PassesUsage ==
  ASSUME MembersRight, UsageRight, NEW c \in MemberCalls, Passes(c)
  PROVE  UsageRight'
  <1> DEFINE x == memberCall[c]
  <1>1. /\ x.phase = "judging" /\ memberCall' = [memberCall EXCEPT ![c] = ThenCounts(c, x.todo)]
        /\ UNCHANGED <<user, member, linked, seats, sub, excused>>
    BY DEF Passes
  <1>2. ThenCounts(c, x.todo) \in MemberCall /\ x.todo \in SUBSET Orgs /\ MembersTypeOK
    BY <1>1, Goes DEF Telling, MembersRight
  <1>3. /\ memberCall'[c] = ThenCounts(c, x.todo)
        /\ \A d \in MemberCalls \ {c} : Same(memberCall[d], memberCall'[d])
    BY <1>1, <1>2, OneMoves
  <1>4. CountRight(c)' /\ \A p \in x.todo : ToCount(c, p)'
    BY <1>2, <1>3, ThenCountsRight
  <1>5. \A p \in Orgs : ToCount(c, p) => ToCount(c, p)'
    BY <1>1, <1>4 DEF ToCount
  <1>6. \A p \in Orgs : UsageStands(p)
    BY <1>1 DEF UsageStands
  <1> QED  BY <1>1, <1>3, <1>4, <1>5, <1>6, QuietUsage

LEMMA NotesUsage ==
  ASSUME MembersRight, UsageRight, NEW c \in MemberCalls, Reset(c) \/ MarkTier(c)
  PROVE  UsageRight'
  <1> DEFINE x == memberCall[c]
             o == x.org
             s == x.sub
             row == TierRow(x)
             e == Noted(x)
  <1>1. /\ x.phase \in {"judging", "marking"} /\ row.usage = sub[s].usage
        /\ RowWritten(o, s, row)
        /\ Moves(c, ThenCounts(c, x.todo), o, {s})
        /\ excused' = Refit(o, e, FALSE)
        /\ UNCHANGED <<user, member, linked>>
    BY Notes
  <1>2. o \in Orgs /\ s \in Subs /\ x.todo \in SUBSET Orgs
    BY <1>1, Goes DEF Telling
  <1>3. e \in SUBSET (Excuses \X (Orgs \cup Subs)) /\ excused \subseteq e
    BY <1>2 DEF MembersRight, MembersTypeOK, Excuses, Noted
  <1>4. CountRight(c)' /\ \A p \in Orgs : ToCount(c, p) => ToCount(c, p)'
    <2>1. memberCall'[c] = ThenCounts(c, x.todo)
      BY <1>1 DEF Moves
    <2>2. CountRight(c)' /\ \A p \in x.todo : ToCount(c, p)'
      BY <1>2, <2>1, ThenCountsRight
    <2> QED  BY <1>1, <2>2 DEF ToCount
  <1> HIDE DEF x, o, s, row, e
  <1>5. \A p \in Orgs : <<"usage", p>> \in excused => <<"usage", p>> \in excused'
    BY <1>1, <1>2, <1>3, Refits
  <1>6. ASSUME NEW p \in Orgs, seats'[p].current # NoSub, <<"usage", p>> \notin excused'
        PROVE  UsageStands(p)
    <2>1. p = o => ~Switches(o)
      BY <1>1, <1>2, <1>3, <1>6, Refits
    <2> QED  BY <1>1, <1>2, <1>6, <2>1, TermsStand
  <1> QED  BY <1>1, <1>4, <1>5, <1>6, QuietUsage DEF Moves

LEMMA MemberCallFailsUsage ==
  ASSUME MembersRight, UsageRight, NEW c \in MemberCalls, MemberCallFails(c)
  PROVE  UsageRight'
  <1> DEFINE x == memberCall[c]
             uncounted == IF x.phase = "storing" THEN x.todo \cup {x.org} ELSE x.todo
  <1>1. UNCHANGED <<user, seats, sub>> /\ excused \subseteq excused' /\ MembersTypeOK
        /\ x.todo \in SUBSET Orgs
    BY DEF MemberCallFails, MembersRight, MembersTypeOK, MemberCall
  <1>2. \A p \in Orgs : UsageStands(p)
    BY <1>1 DEF UsageStands
  <1>3. \/ /\ {"usage"} \X (IF x.phase \in {"writing", "deciding"} THEN {} ELSE uncounted) \subseteq excused'
           /\ memberCall' = [memberCall EXCEPT ![c] = NoCall]
        \/ /\ x.phase \in {"judging", "marking"}
           /\ memberCall' = [memberCall EXCEPT ![c] = ThenCounts(c, x.todo)]
    BY DEF MemberCallFails
  <1>4. CASE /\ {"usage"} \X (IF x.phase \in {"writing", "deciding"} THEN {} ELSE uncounted) \subseteq excused'
             /\ memberCall' = [memberCall EXCEPT ![c] = NoCall]
    <2>1. NoCall \in MemberCall /\ NoCall.phase = "idle" /\ NoCall.todo = {}
      BY DEF NoCall, MemberCall, Tiers
    <2>2. memberCall'[c] = NoCall
          /\ \A d \in MemberCalls \ {c} : Same(memberCall[d], memberCall'[d])
      BY <1>1, <1>4, <2>1, OneMoves
    <2>3. CountRight(c)'
      BY <2>1, <2>2 DEF CountRight
    <2>4. \A o \in Orgs : ToCount(c, o) => <<"usage", o>> \in excused'
      BY <1>4 DEF ToCount
    <2> QED  BY <1>1, <1>2, <2>2, <2>3, <2>4, QuietUsage
  <1>5. CASE /\ x.phase \in {"judging", "marking"}
             /\ memberCall' = [memberCall EXCEPT ![c] = ThenCounts(c, x.todo)]
    <2>1. ThenCounts(c, x.todo) \in MemberCall
      BY <1>1, ThenCountsTyped
    <2>2. memberCall'[c] = ThenCounts(c, x.todo)
          /\ \A d \in MemberCalls \ {c} : Same(memberCall[d], memberCall'[d])
      BY <1>1, <1>5, <2>1, OneMoves
    <2>3. CountRight(c)' /\ \A p \in x.todo : ToCount(c, p)'
      BY <1>1, <2>2, ThenCountsRight
    <2>4. \A o \in Orgs : ToCount(c, o) => ToCount(c, o)'
      BY <1>5, <2>3 DEF ToCount
    <2> QED  BY <1>1, <1>2, <2>2, <2>3, <2>4, QuietUsage
  <1> QED  BY <1>3, <1>4, <1>5

\* Whoever writes terms goes on to count, save for a rejection.
LEMMA WriteTermsUsage ==
  ASSUME MembersRight, UsageRight, NEW c \in MemberCalls, WriteTerms(c)
  PROVE  UsageRight'
  <1> DEFINE x == memberCall[c]
             o == x.org
             s == x.sub
             row == TermsOf(x)
             k == x.todo # {}
  <1>1. /\ x.phase = "deciding" /\ o \in Orgs /\ s \in Subs /\ x.todo \in SUBSET Orgs
        /\ x.kind = "decide" => row.usage = sub[s].usage
        /\ RowWritten(o, s, row)
        /\ Moves(c, ThenCounts(c, x.todo), o, Told(x))
        /\ excused' = IF Fitted(x) /\ seats'[o].current = s THEN excused \ {<<"seats", o>>}
                      ELSE Refit(o, excused, k)
        /\ UNCHANGED <<user, member, linked>>
    BY Agrees
  <1>2. o \in x.todo \/ (x.todo = {} /\ x.kind = "decide")
    BY <1>1 DEF UsageRight, CountRight
  <1>3. excused \in SUBSET (Excuses \X (Orgs \cup Subs)) /\ k \in BOOLEAN
    BY DEF MembersRight, MembersTypeOK
  <1>4. CountRight(c)' /\ \A p \in x.todo : ToCount(c, p)'
    <2>1. memberCall'[c] = ThenCounts(c, x.todo)
      BY <1>1 DEF Moves
    <2> QED  BY <1>1, <2>1, ThenCountsRight
  <1>5. \A p \in Orgs : ~ToCount(c, p)
    BY <1>1 DEF ToCount
  <1>6. x.kind = "decide" => ~Fitted(x)
    BY DEF Fitted
  <1> HIDE DEF x, o, s, row
  <1>7. \A p \in Orgs : <<"usage", p>> \in excused => <<"usage", p>> \in excused'
    <2>1. CASE excused' = excused \ {<<"seats", o>>}
      BY <2>1
    <2>2. CASE excused' = Refit(o, excused, k)
      <3> HIDE DEF k
      <3> QED  BY <1>1, <1>3, <2>2, Refits
    <2> QED  BY <1>1, <2>1, <2>2
  <1>8. ASSUME NEW p \in Orgs, seats'[p].current # NoSub, <<"usage", p>> \notin excused',
               p # o \/ o \notin x.todo
        PROVE  UsageStands(p)
    <2>1. CASE p # o
      BY <1>1, <1>8, <2>1, TermsStand
    <2>2. CASE p = o
      <3>1. x.todo = {} /\ x.kind = "decide"
        BY <1>2, <1>8, <2>2
      <3>2. excused' = Refit(o, excused, FALSE)
        BY <1>1, <1>6, <3>1
      <3>3. ~Switches(o)
        BY <1>1, <1>3, <1>8, <2>2, <3>2, Refits
      <3> QED  BY <1>1, <1>8, <2>2, <3>1, <3>3, TermsStand
    <2> QED  BY <2>1, <2>2
  <1>9. \A p \in Orgs : p = o /\ o \in x.todo => ToCount(c, p)'
    BY <1>4
  <1> QED  BY <1>1, <1>4, <1>5, <1>7, <1>8, <1>9, QuietUsage DEF Moves

LEMMA SweepSubscriptionUsage ==
  ASSUME MembersRight, UsageRight, NEW s \in Subs, NEW status \in {"active", "ended"},
         SweepSubscription(s, status)
  PROVE  UsageRight'
  <1> DEFINE o == sub[s].org
             row == [sub[s] EXCEPT !.status = status]
  <1>1. /\ o \in Orgs /\ row.usage = sub[s].usage
        /\ RowWritten(o, s, row)
        /\ \A d \in MemberCalls : Same(memberCall[d], memberCall'[d])
        /\ excused' = Refit(o, excused, FALSE)
        /\ UNCHANGED <<user, member, linked>>
    BY Sweeps
  <1>2. excused \in SUBSET (Excuses \X (Orgs \cup Subs))
    BY DEF MembersRight, MembersTypeOK
  <1> HIDE DEF o, row
  <1>3. \A p \in Orgs : <<"usage", p>> \in excused => <<"usage", p>> \in excused'
    BY <1>1, <1>2, Refits
  <1>4. ASSUME NEW p \in Orgs, seats'[p].current # NoSub, <<"usage", p>> \notin excused'
        PROVE  UsageStands(p)
    <2>1. p = o => ~Switches(o)
      BY <1>1, <1>2, <1>4, Refits
    <2> QED  BY <1>1, <1>4, <2>1, TermsStand
  <1> QED  BY <1>1, <1>3, <1>4, QuietUsage

LEMMA TermsCounted ==
  ASSUME MembersRight, UsageRight, NEW c \in MemberCalls,
         NEW kind \in {"subscribe", "decide", "resize", "renew"}, NEW s, NEW o, NEW limit,
         NEW terms, NEW todo, Asks(c, Terms(kind, s, o, limit, terms, todo)),
         todo = {o} \/ (todo = {} /\ kind = "decide")
  PROVE  UsageRight'
  <1> DEFINE x == Terms(kind, s, o, limit, terms, todo)
  <1>1. x.phase = "deciding" /\ x.kind = kind /\ x.org = o /\ x.todo = todo
    BY DEF Terms, NoCall
  <1> HIDE DEF x
  <1> QED  BY <1>1, AsksUsage DEF x

LEMMA AskTermsUsage ==
  ASSUME MembersRight, UsageRight, NEW c \in MemberCalls, NEW s \in Subs,
         \/ \E o \in Orgs, limit \in Limits, terms \in TermStatuses :
              AskSubscribe(c, s, o, limit, terms)
         \/ \E terms \in {"active", "ended"} : AskDecide(c, s, terms)
         \/ \E limit \in Limits \cup {0}, terms \in TermStatuses \cup {"unsaid"} :
              AskResize(c, s, limit, terms)
         \/ AskRenew(c, s)
  PROVE  UsageRight'
  <1>1. ASSUME NEW o \in Orgs, NEW limit \in Limits, NEW terms \in TermStatuses,
               AskSubscribe(c, s, o, limit, terms)
        PROVE  UsageRight'
    BY <1>1, TermsCounted DEF AskSubscribe
  <1>2. ASSUME NEW terms \in {"active", "ended"}, AskDecide(c, s, terms)
        PROVE  UsageRight'
    BY <1>2, TermsCounted DEF AskDecide
  <1>3. ASSUME NEW limit \in Limits \cup {0}, NEW terms \in TermStatuses \cup {"unsaid"},
               AskResize(c, s, limit, terms)
        PROVE  UsageRight'
    BY <1>3, TermsCounted DEF AskResize
  <1>4. CASE AskRenew(c, s)
    BY <1>4, TermsCounted DEF AskRenew
  <1> QED  BY <1>1, <1>2, <1>3, <1>4

LEMMA StepIsCounted ==
  ASSUME MembersRight, SeatsRight, UsageRight, [MembersNext]_memberVars
  PROVE  UsageRight'
  <1>1. CASE UNCHANGED memberVars
    <2>1. UNCHANGED <<user, seats, sub, memberCall, excused>>
      BY <1>1 DEF memberVars
    <2>2. \A o : Used(o)' = Used(o)
      BY <2>1 DEF Used, HoldsSeat
    <2> QED  BY <2>1, <2>2 DEF UsageRight, CountRight, ToCount
  <1>2. ASSUME NEW c \in MemberCalls, NEW o \in Orgs, AskCount(c, o) PROVE UsageRight'
    <2> DEFINE x == [NoCall EXCEPT !.phase = "counting", !.todo = {o}]
    <2>1. x.phase = "counting"
      BY DEF NoCall
    <2> HIDE DEF x
    <2> QED  BY <1>2, <2>1, AsksUsage DEF AskCount, x
  <1>3. ASSUME NEW c \in MemberCalls, NEW u \in Users, NEW role \in Licensed,
               NEW o \in Orgs \cup {NoOrg}, NEW state \in {"active", "disabled"},
               AskCreate(c, u, role, o, state)
        PROVE  UsageRight'
    <2> DEFINE x == [NoCall EXCEPT !.phase = "writing", !.kind = "create", !.user = u,
                !.state = state, !.role = role, !.org = o, !.todo = Affected(o, NoOrg)]
    <2>1. x.phase = "writing" /\ x.kind = "create"
      BY DEF NoCall
    <2>2. Asks(c, x)
      BY <1>3 DEF AskCreate
    <2> HIDE DEF x
    <2> QED  BY <2>1, <2>2, AsksUsage
  <1>4. ASSUME NEW c \in MemberCalls, NEW u \in Users, NEW role \in Licensed \cup {"unsaid"},
               NEW o \in Orgs \cup {NoOrg}, NEW state \in {"active", "disabled", "unsaid"},
               NEW links \in BOOLEAN, NEW students \in SUBSET Users,
               AskUpdate(c, u, role, o, state, links, students)
        PROVE  UsageRight'
    <2> DEFINE nextRole == IF role = "unsaid" THEN user[u].role ELSE role
               x == [NoCall EXCEPT !.phase = "writing", !.kind = "update", !.user = u,
                   !.state = state, !.role = role, !.org = o,
                   !.todo = Affected(o, user[u].org),
                   !.links = links /\ nextRole = "PARENT", !.students = students]
    <2>1. x.phase = "writing" /\ x.kind = "update"
      BY DEF NoCall
    <2>2. Asks(c, x)
      BY <1>4 DEF AskUpdate
    <2> HIDE DEF x
    <2> QED  BY <2>1, <2>2, AsksUsage
  <1>5. ASSUME NEW c \in MemberCalls, NEW u \in Users, AskDelete(c, u) PROVE UsageRight'
    <2> DEFINE x == [NoCall EXCEPT !.phase = "writing", !.kind = "delete", !.user = u,
                !.todo = OrgsOf(u)]
    <2>1. x.phase = "writing" /\ x.kind = "delete"
      BY DEF NoCall
    <2>2. Asks(c, x)
      BY <1>5 DEF AskDelete
    <2> HIDE DEF x
    <2> QED  BY <2>1, <2>2, AsksUsage
  <1>6. ASSUME NEW c \in MemberCalls, NEW o \in Orgs, AskArchive(c, o) PROVE UsageRight'
    <2> DEFINE x == [NoCall EXCEPT !.phase = "writing", !.kind = "archive", !.org = o,
                !.pool = MembersOf(o)]
    <2>1. x.phase = "writing" /\ x.kind = "archive" /\ x.todo = {}
      BY DEF NoCall
    <2>2. Asks(c, x)
      BY <1>6 DEF AskArchive
    <2> HIDE DEF x
    <2> QED  BY <2>1, <2>2, AsksUsage
  <1>7. CASE CountStep
    <2>1. PICK c \in MemberCalls :
            \/ \E o \in Orgs : AskCount(c, o)
            \/ Count(c) \/ Store(c) \/ Warn(c) \/ Passes(c) \/ Reset(c) \/ MarkTier(c)
            \/ MemberCallFails(c)
      BY <1>7 DEF CountStep
    <2> QED  BY <1>2, <2>1, CountUsage, StoreUsage, WarnUsage, PassesUsage, NotesUsage,
              MemberCallFailsUsage
  <1>8. CASE UserStep
    <2>1. PICK c \in MemberCalls :
            \/ \E u \in Users, role \in Licensed, o \in Orgs \cup {NoOrg},
                  state \in {"active", "disabled"} : AskCreate(c, u, role, o, state)
            \/ \E u \in Users, role \in Licensed \cup {"unsaid"}, o \in Orgs \cup {NoOrg},
                  state \in {"active", "disabled", "unsaid"}, links \in BOOLEAN,
                  students \in SUBSET Users : AskUpdate(c, u, role, o, state, links, students)
            \/ \E u \in Users : AskDelete(c, u)
            \/ WriteUser(c) \/ DeleteUser(c)
      BY <1>8 DEF UserStep
    <2>2. CASE \E u \in Users, role \in Licensed, o \in Orgs \cup {NoOrg},
                  state \in {"active", "disabled"} : AskCreate(c, u, role, o, state)
      BY <1>3, <2>2
    <2>3. CASE \E u \in Users, role \in Licensed \cup {"unsaid"}, o \in Orgs \cup {NoOrg},
                  state \in {"active", "disabled", "unsaid"}, links \in BOOLEAN,
                  students \in SUBSET Users : AskUpdate(c, u, role, o, state, links, students)
      <3> PICK u \in Users, role \in Licensed \cup {"unsaid"}, o \in Orgs \cup {NoOrg},
               state \in {"active", "disabled", "unsaid"}, links \in BOOLEAN,
               students \in SUBSET Users : AskUpdate(c, u, role, o, state, links, students)
        BY <2>3
      <3> QED  BY <1>4, Zenon
    <2> QED  BY <1>5, <2>1, <2>2, <2>3, WriteUserUsage, DeleteUserUsage
  <1>9. CASE InviteStep
    BY <1>9, InviteOrLeaveUsage DEF InviteStep
  <1>10. CASE ArchiveStep
    BY <1>6, <1>10, ArchiveOrganizationUsage DEF ArchiveStep
  <1>11. CASE LeaveStep
    BY <1>11, InviteOrLeaveUsage DEF LeaveStep
  <1>12. CASE TermsStep
    BY <1>12, AskTermsUsage, WriteTermsUsage, SweepSubscriptionUsage DEF TermsStep
  <1> QED  BY <1>1, <1>7, <1>8, <1>9, <1>10, <1>11, <1>12 DEF MembersNext

LEMMA InitIsCounted ==
  ASSUME MembersInit
  PROVE  UsageRight
  <1>1. \A c \in MemberCalls : CountRight(c)
    BY DEF MembersInit, CountRight, NoCall
  <1>2. ASSUME NEW o \in Orgs, seats[o].current # NoSub
        PROVE  sub[seats[o].current].usage = Used(o)
    BY <1>2, InitSubs, InitCounted
  <1> QED  BY <1>1, <1>2 DEF UsageRight

\* The usage of the subscription in force is the number of the active users of its
\* organization whenever nobody is still to count them, no count was overtaken or
\* lost, nobody deleted his own account and none came into force uncounted
\* (recalculateLicenseUsage).
THEOREM UsageStaysCounted == MembersSpec => []UsageIsCount
  <1>1. MembersInit => SeatsRight /\ UsageRight
    BY InitHasSeats, InitIsCounted
  <1>2. MembersRight /\ SeatsRight /\ UsageRight /\ [MembersNext]_memberVars
          => SeatsRight' /\ UsageRight'
    BY StepHasSeats, StepIsCounted
  <1>3. UsageRight => UsageIsCount
    BY DEF UsageRight, UsageIsCount, Uncounted, ToCount
  <1> QED  BY <1>1, <1>2, <1>3, MembersStayRight, PTL DEF MembersSpec

-----------------------------------------------------------------------------
(***************************************************************************)
(* Warnings.                                                               *)
(***************************************************************************)
\* A request that is to judge knows the tier that was noted
Tracks(c, s) ==
  /\ memberCall[c].phase \in {"storing", "judging"} /\ memberCall[c].sub = s
  /\ "tier" \notin memberCall[c].stale

\* What was mailed of a subscription is noted, or one request is about to note it,
\* and knows it unless the subscription was renewed meanwhile
WarningsRight(s) ==
  <<"tier", s>> \notin excused =>
    /\ (\A c \in MemberCalls : ~Marking(c, s)) => sub[s].warned = sub[s].tier
    /\ \A c \in MemberCalls : Marking(c, s) =>
         /\ "tier" \notin memberCall[c].stale => sub[s].warned = CrossedBy(memberCall[c])
         /\ \A d \in MemberCalls : Marking(d, s) => d = c
    /\ \A c \in MemberCalls : Tracks(c, s) =>
         /\ memberCall[c].tier = sub[s].tier
         /\ \A d \in MemberCalls : ~Marking(d, s)

WarningsAllRight == \A s \in Subs : WarningsRight(s)

\* Of two calls that count alike the same tier is crossed.
LEMMA CrossedAlike ==
  ASSUME NEW x, NEW y, x.count = y.count, x.limit = y.limit
  PROVE  CrossedBy(x) = CrossedBy(y)
  BY DEF CrossedBy

\* WarningsRight after a step
LEMMA WarnedNext ==
  ASSUME NEW s \in Subs, <<"tier", s>> \notin excused',
         (\A c \in MemberCalls : ~Marking(c, s)') => sub'[s].warned = sub'[s].tier,
         \A c \in MemberCalls : Marking(c, s)' =>
           /\ "tier" \notin memberCall'[c].stale => sub'[s].warned = CrossedBy(memberCall'[c])
           /\ \A d \in MemberCalls : Marking(d, s)' => d = c,
         \A c \in MemberCalls : Tracks(c, s)' =>
           /\ memberCall'[c].tier = sub'[s].tier
           /\ \A d \in MemberCalls : ~Marking(d, s)'
  PROVE  WarningsRight(s)'
  BY DEF WarningsRight, CrossedBy, Crossed, Percent

\* Nothing is mailed of this subscription, and nothing noted.
LEMMA WarningsKept ==
  ASSUME WarningsAllRight, NEW s \in Subs,
         sub'[s].tier = sub[s].tier, sub'[s].warned = sub[s].warned,
         <<"tier", s>> \in excused => <<"tier", s>> \in excused',
         \A d \in MemberCalls :
           \/ Same(memberCall[d], memberCall'[d])
           \/ /\ ~Marking(d, s) /\ ~Marking(d, s)'
              /\ Tracks(d, s)' =>
                   \/ Tracks(d, s) /\ memberCall'[d].tier = memberCall[d].tier
                   \/ /\ memberCall'[d].tier = sub[s].tier
                      /\ \A e \in MemberCalls : ~Marking(e, s)
  PROVE  WarningsRight(s)'
  <1>1. CASE <<"tier", s>> \in excused'
    BY <1>1 DEF WarningsRight
  <1>2. CASE <<"tier", s>> \notin excused'
    <2>1. /\ (\A c \in MemberCalls : ~Marking(c, s)) => sub[s].warned = sub[s].tier
          /\ \A c \in MemberCalls : Marking(c, s) =>
               /\ "tier" \notin memberCall[c].stale => sub[s].warned = CrossedBy(memberCall[c])
               /\ \A d \in MemberCalls : Marking(d, s) => d = c
          /\ \A c \in MemberCalls : Tracks(c, s) =>
               /\ memberCall[c].tier = sub[s].tier
               /\ \A d \in MemberCalls : ~Marking(d, s)
      BY <1>2 DEF WarningsAllRight, WarningsRight
    <2>2. ASSUME NEW d \in MemberCalls
          PROVE  /\ Marking(d, s)' <=> Marking(d, s)
                 /\ Marking(d, s) => Same(memberCall[d], memberCall'[d])
                 /\ Tracks(d, s)' =>
                      \/ Tracks(d, s) /\ memberCall'[d].tier = memberCall[d].tier
                      \/ /\ memberCall'[d].tier = sub[s].tier
                         /\ \A e \in MemberCalls : ~Marking(e, s)
      BY DEF Marking, Tracks, Same
    <2>3. ASSUME NEW d \in MemberCalls, Marking(d, s), "tier" \notin memberCall'[d].stale
          PROVE  sub[s].warned = CrossedBy(memberCall'[d])
      <3>1. CrossedBy(memberCall'[d]) = CrossedBy(memberCall[d]) /\ "tier" \notin memberCall[d].stale
        BY <2>2, <2>3, CrossedAlike DEF Same
      <3> QED  BY <2>1, <2>3, <3>1
    <2> QED  BY <1>2, <2>1, <2>2, <2>3, WarnedNext
  <1> QED  BY <1>1, <1>2

\* No request comes to judge, and none that was to note a tier is lost.
LEMMA QuietWarnings ==
  ASSUME WarningsAllRight,
         \A s \in Subs : sub'[s].tier = sub[s].tier /\ sub'[s].warned = sub[s].warned,
         \A s \in Subs : <<"tier", s>> \in excused => <<"tier", s>> \in excused',
         \A d \in MemberCalls :
           \/ Same(memberCall[d], memberCall'[d])
           \/ memberCall[d].phase # "marking" /\ memberCall'[d].phase \notin Telling
  PROVE  WarningsAllRight'
  <1> SUFFICES ASSUME NEW s \in Subs PROVE WarningsRight(s)'
    BY DEF WarningsAllRight
  <1>1. \A d \in MemberCalls :
          \/ Same(memberCall[d], memberCall'[d])
          \/ ~Marking(d, s) /\ ~Marking(d, s)' /\ ~Tracks(d, s)'
    BY DEF Marking, Tracks, Telling
  <1> QED  BY <1>1, WarningsKept

LEMMA AskWarnings ==
  ASSUME MembersRight, WarningsAllRight, NEW c \in MemberCalls, NEW record,
         Asks(c, record), record.phase \notin Telling
  PROVE  WarningsAllRight'
  <1>1. memberCall[c].phase = "idle" /\ memberCall'[c] = record
        /\ sub' = sub /\ excused' = excused
        /\ \A d \in MemberCalls \ {c} : memberCall'[d] = memberCall[d]
    BY DEF Asks, MembersRight, MembersTypeOK
  <1> QED  BY <1>1, QuietWarnings DEF Same

LEMMA MoveWarnings ==
  ASSUME MembersRight, WarningsAllRight, NEW c \in MemberCalls, WriteUser(c) \/ DeleteUser(c)
  PROVE  WarningsAllRight'
  <1>1. excused \subseteq excused' /\ memberCall[c].phase = "writing" /\ sub' = sub
    <2>1. CASE WriteUser(c)
      BY <2>1 DEF WriteUser
    <2>2. CASE DeleteUser(c)
      BY <2>2 DEF DeleteUser
    <2> QED  BY <2>1, <2>2
  <1>2. MembersTypeOK
    BY DEF MembersRight
  <1> PICK us : Overtaken(c, ThenCounts(c, memberCall[c].todo), us)
    BY DEF WriteUser, DeleteUser
  <1>3. ThenCounts(c, memberCall[c].todo) \in MemberCall
        /\ ThenCounts(c, memberCall[c].todo).phase \notin Telling
    BY WritesUser, DeletesUser DEF Telling
  <1>4. memberCall'[c].phase \notin Telling
        /\ \A d \in MemberCalls \ {c} : Same(memberCall[d], memberCall'[d])
    BY <1>2, <1>3, OvertakenOthers
  <1> QED  BY <1>1, <1>4, QuietWarnings

LEMMA ArchiveWarnings ==
  ASSUME MembersRight, WarningsAllRight, NEW c \in MemberCalls, ArchiveOrganization(c)
  PROVE  WarningsAllRight'
  <1>1. /\ memberCall[c].phase = "writing" /\ memberCall'[c] = NoCall
        /\ \A d \in MemberCalls \ {c} : Same(memberCall[d], memberCall'[d])
    BY Archives
  <1>2. excused \subseteq excused'
    BY DEF ArchiveOrganization
  <1>3. ASSUME NEW s \in Subs PROVE sub'[s].tier = sub[s].tier /\ sub'[s].warned = sub[s].warned
    <2> DEFINE r == sub[s]
    <2>1. r \in Subscription
      BY DEF MembersRight, MembersTypeOK
    <2>2. sub'[s] = IF r.org # memberCall[c].org THEN r
            ELSE [r EXCEPT !.status = IF @ = "active" THEN "ended" ELSE @, !.usage = 0]
      BY DEF ArchiveOrganization
    <2> HIDE DEF r
    <2>3. sub'[s].tier = r.tier /\ sub'[s].warned = r.warned
      BY <2>1, <2>2 DEF Subscription
    <2> QED  BY <2>3 DEF r
  <1>4. NoCall.phase \notin Telling
    BY DEF NoCall, Telling
  <1> QED  BY <1>1, <1>2, <1>3, <1>4, QuietWarnings

LEMMA CountWarnings ==
  ASSUME MembersRight, WarningsAllRight, NEW c \in MemberCalls, Count(c)
  PROVE  WarningsAllRight'
  <1>1. MembersTypeOK /\ memberCall[c].todo \in SUBSET Orgs
    BY DEF MembersRight, MembersTypeOK, MemberCall
  <1>2. PICK o \in memberCall[c].todo, next \in MemberCall :
           /\ memberCall[c].phase = "counting"
           /\ memberCall' = [memberCall EXCEPT ![c] = next]
           /\ sub' = sub /\ excused' = excused
           /\ \/ /\ next.phase = "storing" /\ next.tier = sub[next.sub].tier
                 /\ next.stale = IF \E d \in MemberCalls : Marking(d, next.sub) THEN {"tier"} ELSE {}
              \/ next = ThenCounts(c, memberCall[c].todo \ {o})
    BY Counts
  <1>3. memberCall'[c] = next
        /\ \A d \in MemberCalls \ {c} : Same(memberCall[d], memberCall'[d])
    BY <1>1, <1>2, OneMoves
  <1>4. ThenCounts(c, memberCall[c].todo \ {o}).phase \in {"idle", "counting"}
    BY <1>1, ThenCountsTyped
  <1> SUFFICES ASSUME NEW s \in Subs PROVE WarningsRight(s)'
    BY DEF WarningsAllRight
  <1>5. ~Marking(c, s) /\ ~Marking(c, s)'
    BY <1>2, <1>3, <1>4 DEF Marking
  <1>6. ASSUME Tracks(c, s)'
        PROVE  memberCall'[c].tier = sub[s].tier /\ \A e \in MemberCalls : ~Marking(e, s)
    <2>1. next.phase = "storing" /\ next.sub = s /\ "tier" \notin next.stale
      BY <1>2, <1>3, <1>4, <1>6 DEF Tracks
    <2> QED  BY <1>2, <1>3, <1>4, <2>1
  <1> QED  BY <1>2, <1>3, <1>5, <1>6, WarningsKept

LEMMA StoreWarnings ==
  ASSUME MembersRight, WarningsAllRight, NEW c \in MemberCalls, Store(c)
  PROVE  WarningsAllRight'
  <1> DEFINE x == memberCall[c]
             o == x.org
             row == [sub[x.sub] EXCEPT !.usage = x.count]
             next == [x EXCEPT !.phase = "judging"]
             e == excused \cup {<<"usage", o>>}
  <1>1. /\ x.phase = "storing"
        /\ row.tier = sub[x.sub].tier /\ row.warned = sub[x.sub].warned
        /\ RowWritten(o, x.sub, row)
        /\ Moves(c, next, o, {})
        /\ excused' = IF "count" \in x.stale THEN Refit(o, e, TRUE)
                      ELSE excused \ {<<"usage", o>>}
    BY Stores
  <1>2. /\ o \in Orgs /\ x.sub \in Subs /\ next.phase = "judging" /\ next.sub = x.sub
        /\ next.tier = x.tier /\ next.stale = x.stale
    BY <1>1, Goes DEF Telling
  <1>3. e \in SUBSET (Excuses \X (Orgs \cup Subs))
    BY <1>2 DEF MembersRight, MembersTypeOK, Excuses
  <1>4. \A s : <<"tier", s>> \in excused => <<"tier", s>> \in e
    OBVIOUS
  <1>5. ASSUME NEW s \in Subs
        PROVE  ~Marking(c, s) /\ ~Marking(c, s)'
               /\ (Tracks(c, s)' => Tracks(c, s) /\ memberCall'[c].tier = memberCall[c].tier)
    <2>1. memberCall'[c] = next
      BY <1>1 DEF Moves
    <2> HIDE DEF next
    <2> QED  BY <1>1, <1>2, <2>1 DEF Marking, Tracks
  <1> HIDE DEF x, o, row, next, e
  <1>6. \A s : <<"tier", s>> \in excused => <<"tier", s>> \in excused'
    <2>1. CASE excused' = Refit(o, e, TRUE)
      BY <1>2, <1>3, <1>4, <2>1, Refits
    <2>2. CASE excused' = excused \ {<<"usage", o>>}
      BY <2>2
    <2> QED  BY <1>1, <2>1, <2>2
  <1>7. \A s \in Subs : sub'[s].tier = sub[s].tier /\ sub'[s].warned = sub[s].warned
    BY <1>1 DEF RowWritten
  <1> SUFFICES ASSUME NEW s \in Subs PROVE WarningsRight(s)'
    BY DEF WarningsAllRight
  <1> QED  BY <1>1, <1>5, <1>6, <1>7, WarningsKept DEF Moves

\* A statement about one subscription says nothing of the others.
LEMMA WarningsElsewhere ==
  ASSUME WarningsAllRight, NEW c \in MemberCalls, NEW s \in Subs,
         memberCall[c].sub # s \/ memberCall[c].phase \notin Telling,
         memberCall'[c].sub # s \/ memberCall'[c].phase \notin Telling,
         \A d \in MemberCalls \ {c} : Same(memberCall[d], memberCall'[d]),
         sub'[s] = sub[s], <<"tier", s>> \in excused => <<"tier", s>> \in excused'
  PROVE  WarningsRight(s)'
  <1>1. ~Marking(c, s) /\ ~Marking(c, s)' /\ ~Tracks(c, s)'
    BY DEF Marking, Tracks, Telling
  <1> QED  BY <1>1, WarningsKept

\* The warning: whoever knows the noted tier mails alone, and the others that have
\* read the tier know it no more.
LEMMA WarnWarnings ==
  ASSUME MembersRight, WarningsAllRight, NEW c \in MemberCalls, Warn(c)
  PROVE  WarningsAllRight'
  <1> DEFINE x == memberCall[c]
             next == [x EXCEPT !.phase = "marking"]
  <1>0. PICK s \in Subs : s = x.sub
    BY WarnsOf, Goes DEF Telling
  <1>1. /\ x.phase = "judging"
        /\ sub'[s].warned = CrossedBy(x) /\ \A t \in Subs \ {s} : sub'[t] = sub[t]
        /\ Moves(c, next, x.org, {s})
        /\ excused' = Noted(x)
    BY <1>0, WarnsOf
  <1>2. /\ x.sub = s /\ next.phase = "marking" /\ next.sub = s
        /\ next.count = x.count /\ next.limit = x.limit
    BY <1>0, <1>1, Goes DEF Telling
  <1>3. CrossedBy(next) = CrossedBy(x)
    BY <1>2, CrossedAlike
  <1> HIDE DEF next
  <1>4. memberCall'[c] = next /\ \A d \in MemberCalls \ {c} : Same(memberCall[d], memberCall'[d])
    BY <1>1 DEF Moves
  <1>5. \A d \in MemberCalls \ {c} :
          memberCall[d].phase \in Telling /\ memberCall[d].sub = s => "tier" \in memberCall'[d].stale
    BY <1>1 DEF Moves, TermStales
  <1>6. ASSUME NEW t \in Subs \ {s} PROVE WarningsRight(t)'
    <2>1. <<"tier", t>> \in excused => <<"tier", t>> \in excused'
      BY <1>1 DEF Noted
    <2>2. memberCall[c].sub # t /\ memberCall'[c].sub # t /\ sub'[t] = sub[t]
      BY <1>1, <1>2, <1>4, <1>6
    <2> QED  BY <1>4, <2>1, <2>2, WarningsElsewhere
  <1>7. WarningsRight(s)'
    <2>1. CASE <<"tier", s>> \in excused'
      BY <2>1 DEF WarningsRight
    <2>2. CASE <<"tier", s>> \notin excused'
      <3>1. Tracks(c, s) /\ <<"tier", s>> \notin excused
        BY <1>1, <1>2, <2>2 DEF Tracks, Noted
      <3>2. \A d \in MemberCalls : ~Marking(d, s)
        BY <1>2, <3>1 DEF WarningsAllRight, WarningsRight
      <3> HIDE DEF x
      <3>3. Marking(c, s)' /\ \A d \in MemberCalls : Marking(d, s)' => d = c
        BY <1>2, <1>4, <3>2 DEF Marking, Same
      <3>4. \A d \in MemberCalls : ~Tracks(d, s)'
        BY <1>2, <1>4, <1>5 DEF Tracks, Same, Telling
      <3>5. sub'[s].warned = CrossedBy(memberCall'[c])
        BY <1>1, <1>3, <1>4
      <3> QED  BY <1>2, <2>2, <3>3, <3>4, <3>5, WarnedNext
    <2> QED  BY <2>1, <2>2
  <1> QED  BY <1>6, <1>7 DEF WarningsAllRight

\* What was mailed is noted, or what was noted is taken back: afterwards nobody is
\* to note anything of the subscription.
LEMMA NotesWarnings ==
  ASSUME MembersRight, WarningsAllRight, NEW c \in MemberCalls, Reset(c) \/ MarkTier(c)
  PROVE  WarningsAllRight'
  <1> DEFINE x == memberCall[c]
             o == x.org
             row == TierRow(x)
             next == ThenCounts(c, x.todo)
             e == Noted(x)
  <1>0. PICK s \in Subs : s = x.sub
    BY Notes, Goes DEF Telling
  <1>1. /\ \/ x.phase = "marking" /\ row.tier = CrossedBy(x) /\ row.warned = sub[s].warned
           \/ x.phase = "judging" /\ row.tier = 0 /\ row.warned = 0
        /\ RowWritten(o, s, row)
        /\ Moves(c, next, o, {s})
        /\ excused' = Refit(o, e, FALSE)
    BY <1>0, Notes
  <1>2. o \in Orgs /\ x.sub = s /\ next.phase \notin Telling
    BY <1>0, <1>1, Goes DEF Telling
  <1>3. e \in SUBSET (Excuses \X (Orgs \cup Subs)) /\ excused \subseteq e
        /\ ("tier" \in x.stale => <<"tier", s>> \in e)
    BY <1>2 DEF MembersRight, MembersTypeOK, Excuses, Noted
  <1> HIDE DEF e, next, row
  <1>4. memberCall'[c] = next /\ \A d \in MemberCalls \ {c} : Same(memberCall[d], memberCall'[d])
    BY <1>1 DEF Moves
  <1>5. \A d \in MemberCalls \ {c} :
          memberCall[d].phase \in Telling /\ memberCall[d].sub = s => "tier" \in memberCall'[d].stale
    BY <1>1 DEF Moves, TermStales
  <1>6. \A t : <<"tier", t>> \in excused' <=> <<"tier", t>> \in e
    <2> HIDE DEF x, o
    <2> QED  BY <1>1, <1>2, <1>3, Refits
  <1>7. ASSUME NEW t \in Subs \ {s} PROVE WarningsRight(t)'
    <2>1. memberCall[c].sub # t /\ memberCall'[c].phase \notin Telling /\ sub'[t] = sub[t]
      BY <1>1, <1>2, <1>4, <1>7 DEF RowWritten
    <2> QED  BY <1>3, <1>4, <1>6, <2>1, WarningsElsewhere
  <1>8. WarningsRight(s)'
    <2>1. CASE <<"tier", s>> \in excused'
      BY <2>1 DEF WarningsRight
    <2>2. CASE <<"tier", s>> \notin excused'
      <3>1. <<"tier", s>> \notin excused /\ "tier" \notin x.stale
        BY <1>3, <1>6, <2>2
      <3>2. \A d \in MemberCalls \ {c} : ~Marking(d, s)
        <4>1. CASE x.phase = "marking"
          BY <1>2, <3>1, <4>1 DEF WarningsAllRight, WarningsRight, Marking
        <4>2. CASE x.phase = "judging"
          <5>1. Tracks(c, s)
            BY <1>2, <3>1, <4>2 DEF Tracks
          <5> QED  BY <1>2, <3>1, <5>1 DEF WarningsAllRight, WarningsRight
        <4> QED  BY <1>1, <4>1, <4>2
      <3>3. x.phase = "marking" => sub[s].warned = CrossedBy(x)
        BY <1>2, <3>1 DEF WarningsAllRight, WarningsRight, Marking
      <3>4. sub'[s].warned = sub'[s].tier
        BY <1>1, <3>3 DEF RowWritten
      <3> HIDE DEF x, o
      <3>5. \A d \in MemberCalls : ~Marking(d, s)'
        BY <1>2, <1>4, <3>2 DEF Marking, Same, Telling
      <3>6. \A d \in MemberCalls : ~Tracks(d, s)'
        BY <1>2, <1>4, <1>5 DEF Tracks, Same, Telling
      <3> QED  BY <1>2, <2>2, <3>4, <3>5, <3>6, WarnedNext
    <2> QED  BY <2>1, <2>2
  <1> QED  BY <1>7, <1>8 DEF WarningsAllRight

LEMMA PassesWarnings ==
  ASSUME MembersRight, WarningsAllRight, NEW c \in MemberCalls, Passes(c)
  PROVE  WarningsAllRight'
  <1> DEFINE next == ThenCounts(c, memberCall[c].todo)
  <1>1. /\ memberCall[c].phase = "judging" /\ memberCall' = [memberCall EXCEPT ![c] = next]
        /\ sub' = sub /\ excused' = excused
    BY DEF Passes
  <1>2. next \in MemberCall /\ next.phase \notin Telling /\ MembersTypeOK
    BY <1>1, Goes DEF Telling, MembersRight
  <1> HIDE DEF next
  <1>3. memberCall'[c] = next /\ \A d \in MemberCalls \ {c} : Same(memberCall[d], memberCall'[d])
    BY <1>1, <1>2, OneMoves
  <1> QED  BY <1>1, <1>2, <1>3, QuietWarnings

LEMMA MemberCallFailsWarnings ==
  ASSUME MembersRight, WarningsAllRight, NEW c \in MemberCalls, MemberCallFails(c)
  PROVE  WarningsAllRight'
  <1> DEFINE x == memberCall[c]
  <1>1. MembersTypeOK /\ x.todo \in SUBSET Orgs
    BY DEF MembersRight, MembersTypeOK, MemberCall
  <1>2. /\ sub' = sub /\ excused \subseteq excused'
        /\ x.phase = "marking" => <<"tier", x.sub>> \in excused'
    BY DEF MemberCallFails
  <1>3. PICK next \in {NoCall, ThenCounts(c, x.todo)} : memberCall' = [memberCall EXCEPT ![c] = next]
    BY DEF MemberCallFails
  <1>4. next \in MemberCall /\ next.phase \notin Telling
    <2>1. NoCall \in MemberCall /\ NoCall.phase \notin Telling
      BY DEF NoCall, MemberCall, Tiers, Telling
    <2> QED  BY <1>1, <2>1, ThenCountsTyped DEF Telling
  <1>5. memberCall'[c] = next
        /\ \A d \in MemberCalls \ {c} : Same(memberCall[d], memberCall'[d])
    BY <1>1, <1>3, <1>4, OneMoves
  <1>6. CASE x.phase # "marking"
    BY <1>2, <1>4, <1>5, <1>6, QuietWarnings
  <1>7. CASE x.phase = "marking"
    <2> SUFFICES ASSUME NEW s \in Subs PROVE WarningsRight(s)'
      BY DEF WarningsAllRight
    <2>1. CASE s = x.sub
      BY <1>2, <1>7, <2>1 DEF WarningsRight
    <2>2. CASE s # x.sub
      BY <1>2, <1>4, <1>5, <2>2, WarningsElsewhere
    <2> QED  BY <2>1, <2>2
  <1> QED  BY <1>6, <1>7

\* A renewal forgets what was mailed: whoever has read the tier knows it no more.
LEMMA WriteTermsWarnings ==
  ASSUME MembersRight, WarningsAllRight, NEW c \in MemberCalls, WriteTerms(c)
  PROVE  WarningsAllRight'
  <1> DEFINE x == memberCall[c]
             o == x.org
             row == TermsOf(x)
             next == ThenCounts(c, x.todo)
             k == x.todo # {}
  <1>0. PICK s \in Subs : s = x.sub
    BY Agrees
  <1>1. /\ x.phase = "deciding" /\ o \in Orgs /\ x.sub = s
        /\ \/ x.kind = "subscribe" /\ sub[s].status = "none" /\ row.tier = 0 /\ row.warned = 0
           \/ x.kind = "renew" /\ row.tier = 0 /\ row.warned = 0
           \/ row.tier = sub[s].tier /\ row.warned = sub[s].warned
        /\ RowWritten(o, s, row)
        /\ next.phase \in {"idle", "counting"}
        /\ Moves(c, next, o, Told(x))
        /\ excused' = IF Fitted(x) /\ seats'[o].current = s THEN excused \ {<<"seats", o>>}
                      ELSE Refit(o, excused, k)
    BY <1>0, Agrees
  <1>2. excused \in SUBSET (Excuses \X (Orgs \cup Subs)) /\ k \in BOOLEAN
    BY DEF MembersRight, MembersTypeOK
  <1> HIDE DEF row, next
  <1>3. /\ memberCall'[c] = next /\ next.phase \notin Telling /\ x.phase \notin Telling
        /\ \A d \in MemberCalls \ {c} : Same(memberCall[d], memberCall'[d])
    BY <1>1 DEF Moves, Telling
  <1>4. \A t : <<"tier", t>> \in excused' <=> <<"tier", t>> \in excused
    <2>1. CASE excused' = excused \ {<<"seats", o>>}
      BY <2>1
    <2>2. CASE excused' = Refit(o, excused, k)
      <3> HIDE DEF x, o, k
      <3> QED  BY <1>1, <1>2, <2>2, Refits
    <2> QED  BY <1>1, <2>1, <2>2
  <1>5. ASSUME NEW t \in Subs \ {s} PROVE WarningsRight(t)'
    <2>1. sub'[t] = sub[t]
      BY <1>1, <1>5 DEF RowWritten
    <2> QED  BY <1>3, <1>4, <2>1, WarningsElsewhere
  <1>6. WarningsRight(s)'
    <2>1. sub'[s] = row
      BY <1>1 DEF RowWritten
    <2>2. CASE <<"tier", s>> \in excused'
      BY <2>2 DEF WarningsRight
    <2>3. CASE <<"tier", s>> \notin excused' /\ row.tier = sub[s].tier /\ row.warned = sub[s].warned
      <3>1. ~Marking(c, s) /\ ~Marking(c, s)' /\ ~Tracks(c, s)'
        BY <1>1, <1>3 DEF Marking, Tracks, Telling
      <3> QED  BY <1>1, <1>3, <1>4, <2>1, <2>3, <3>1, WarningsKept
    <2>4. CASE <<"tier", s>> \notin excused' /\ x.kind = "subscribe" /\ sub[s].status = "none"
               /\ row.tier = 0 /\ row.warned = 0
      <3>1. \A d \in MemberCalls : ~(memberCall[d].phase \in Telling /\ memberCall[d].sub = s)
        BY <2>4 DEF MembersRight, ReadsSub
      <3> HIDE DEF x
      <3>2. \A d \in MemberCalls : ~Marking(d, s)' /\ ~Tracks(d, s)'
        BY <1>3, <3>1 DEF Marking, Tracks, Telling, Same
      <3> QED  BY <1>1, <2>1, <2>4, <3>2, WarnedNext
    <2>5. CASE <<"tier", s>> \notin excused' /\ x.kind = "renew" /\ row.tier = 0 /\ row.warned = 0
      <3>1. \A d \in MemberCalls \ {c} :
              memberCall[d].phase \in Telling /\ memberCall[d].sub = s
                => "tier" \in memberCall'[d].stale
        BY <1>1, <2>5 DEF Moves, TermStales, Told
      <3>2. \A d, e \in MemberCalls : Marking(d, s) /\ Marking(e, s) => d = e
        BY <1>1, <1>4, <2>5 DEF WarningsAllRight, WarningsRight
      <3> HIDE DEF x
      <3>3. \A d \in MemberCalls : Marking(d, s)' => Marking(d, s) /\ "tier" \in memberCall'[d].stale
        BY <1>3, <3>1 DEF Marking, Telling, Same
      <3>4. \A d \in MemberCalls : ~Tracks(d, s)'
        BY <1>3, <3>1 DEF Tracks, Telling, Same
      <3> QED  BY <1>1, <2>1, <2>5, <3>2, <3>3, <3>4, WarnedNext
    <2> QED  BY <1>1, <2>2, <2>3, <2>4, <2>5
  <1> QED  BY <1>5, <1>6 DEF WarningsAllRight

LEMMA SweepSubscriptionWarnings ==
  ASSUME MembersRight, WarningsAllRight, NEW s \in Subs, NEW status \in {"active", "ended"},
         SweepSubscription(s, status)
  PROVE  WarningsAllRight'
  <1> DEFINE o == sub[s].org
             row == [sub[s] EXCEPT !.status = status]
  <1>1. /\ o \in Orgs /\ row.tier = sub[s].tier /\ row.warned = sub[s].warned
        /\ RowWritten(o, s, row)
        /\ \A d \in MemberCalls : Same(memberCall[d], memberCall'[d])
        /\ excused' = Refit(o, excused, FALSE)
    BY Sweeps
  <1>2. excused \in SUBSET (Excuses \X (Orgs \cup Subs))
    BY DEF MembersRight, MembersTypeOK
  <1> HIDE DEF o, row
  <1>3. \A t : <<"tier", t>> \in excused => <<"tier", t>> \in excused'
    BY <1>1, <1>2, Refits
  <1>4. \A t \in Subs : sub'[t].tier = sub[t].tier /\ sub'[t].warned = sub[t].warned
    BY <1>1 DEF RowWritten
  <1> QED  BY <1>1, <1>3, <1>4, QuietWarnings

LEMMA StepIsWarned ==
  ASSUME MembersRight, WarningsAllRight, [MembersNext]_memberVars
  PROVE  WarningsAllRight'
  <1>1. CASE UNCHANGED memberVars
    BY <1>1, QuietWarnings DEF memberVars, Same
  <1>2. CASE CountStep
    <2>1. PICK c \in MemberCalls :
            \/ \E o \in Orgs : AskCount(c, o)
            \/ Count(c) \/ Store(c) \/ Warn(c) \/ Passes(c) \/ Reset(c) \/ MarkTier(c)
            \/ MemberCallFails(c)
      BY <1>2 DEF CountStep
    <2>2. ASSUME NEW o \in Orgs, AskCount(c, o) PROVE WarningsAllRight'
      <3> DEFINE x == [NoCall EXCEPT !.phase = "counting", !.todo = {o}]
      <3>1. x.phase \notin Telling
        BY DEF NoCall, Telling
      <3> HIDE DEF x
      <3> QED  BY <2>2, <3>1, AskWarnings DEF AskCount, x
    <2> QED  BY <2>1, <2>2, CountWarnings, StoreWarnings, WarnWarnings, PassesWarnings,
                NotesWarnings, MemberCallFailsWarnings
  <1>3. CASE UserStep
    <2>1. PICK c \in MemberCalls :
            \/ \E u \in Users, role \in Licensed, o \in Orgs \cup {NoOrg},
                  state \in {"active", "disabled"} : AskCreate(c, u, role, o, state)
            \/ \E u \in Users, role \in Licensed \cup {"unsaid"}, o \in Orgs \cup {NoOrg},
                  state \in {"active", "disabled", "unsaid"}, links \in BOOLEAN,
                  students \in SUBSET Users : AskUpdate(c, u, role, o, state, links, students)
            \/ \E u \in Users : AskDelete(c, u)
            \/ WriteUser(c) \/ DeleteUser(c)
      BY <1>3 DEF UserStep
    <2>2. CASE \E u \in Users, role \in Licensed, o \in Orgs \cup {NoOrg},
                  state \in {"active", "disabled"} : AskCreate(c, u, role, o, state)
      <3> PICK u \in Users, role \in Licensed, o \in Orgs \cup {NoOrg},
               state \in {"active", "disabled"} : AskCreate(c, u, role, o, state)
        BY <2>2
      <3> DEFINE x == [NoCall EXCEPT !.phase = "writing", !.kind = "create", !.user = u,
                  !.state = state, !.role = role, !.org = o, !.todo = Affected(o, NoOrg)]
      <3>1. x.phase \notin Telling
        BY DEF NoCall, Telling
      <3>2. Asks(c, x)
        BY DEF AskCreate
      <3> HIDE DEF x
      <3> QED  BY <3>1, <3>2, AskWarnings
    <2>3. CASE \E u \in Users, role \in Licensed \cup {"unsaid"}, o \in Orgs \cup {NoOrg},
                  state \in {"active", "disabled", "unsaid"}, links \in BOOLEAN,
                  students \in SUBSET Users : AskUpdate(c, u, role, o, state, links, students)
      <3> PICK u \in Users, role \in Licensed \cup {"unsaid"}, o \in Orgs \cup {NoOrg},
               state \in {"active", "disabled", "unsaid"}, links \in BOOLEAN,
               students \in SUBSET Users : AskUpdate(c, u, role, o, state, links, students)
        BY <2>3
      <3> DEFINE nextRole == IF role = "unsaid" THEN user[u].role ELSE role
                 x == [NoCall EXCEPT !.phase = "writing", !.kind = "update", !.user = u,
                     !.state = state, !.role = role, !.org = o,
                     !.todo = Affected(o, user[u].org),
                     !.links = links /\ nextRole = "PARENT", !.students = students]
      <3>1. x.phase \notin Telling
        BY DEF NoCall, Telling
      <3>2. Asks(c, x)
        BY DEF AskUpdate
      <3> HIDE DEF x
      <3> QED  BY <3>1, <3>2, AskWarnings
    <2>4. ASSUME NEW u \in Users, AskDelete(c, u) PROVE WarningsAllRight'
      <3> DEFINE x == [NoCall EXCEPT !.phase = "writing", !.kind = "delete", !.user = u,
                  !.todo = OrgsOf(u)]
      <3>1. x.phase \notin Telling
        BY DEF NoCall, Telling
      <3>2. Asks(c, x)
        BY <2>4 DEF AskDelete
      <3> HIDE DEF x
      <3> QED  BY <3>1, <3>2, AskWarnings
    <2> QED  BY <2>1, <2>2, <2>3, <2>4, MoveWarnings
  <1>4. CASE InviteStep
    <2> PICK u \in Users, o \in Orgs : InviteStudent(u, o)
      BY <1>4 DEF InviteStep
    <2>1. sub' = sub /\ excused \subseteq excused'
          /\ \A d \in MemberCalls : Same(memberCall[d], memberCall'[d])
      BY Invites DEF MembersRight
    <2> QED  BY <2>1, QuietWarnings
  <1>5. CASE ArchiveStep
    <2>1. PICK c \in MemberCalls : ArchiveOrganization(c) \/ \E o \in Orgs : AskArchive(c, o)
      BY <1>5 DEF ArchiveStep
    <2>2. ASSUME NEW o \in Orgs, AskArchive(c, o) PROVE WarningsAllRight'
      <3> DEFINE x == [NoCall EXCEPT !.phase = "writing", !.kind = "archive", !.org = o,
                  !.pool = MembersOf(o)]
      <3>1. x.phase \notin Telling
        BY DEF NoCall, Telling
      <3>2. Asks(c, x)
        BY <2>2 DEF AskArchive
      <3> HIDE DEF x
      <3> QED  BY <3>1, <3>2, AskWarnings
    <2> QED  BY <2>1, <2>2, ArchiveWarnings
  <1>6. CASE LeaveStep
    <2> PICK u \in Users : DeleteMe(u)
      BY <1>6 DEF LeaveStep
    <2>1. sub' = sub /\ excused \subseteq excused'
          /\ \A d \in MemberCalls : Same(memberCall[d], memberCall'[d])
      BY Leaves DEF MembersRight
    <2> QED  BY <2>1, QuietWarnings
  <1>7. CASE TermsStep
    <2>1. ASSUME NEW c \in MemberCalls, NEW s \in Subs, NEW record, Asks(c, record),
                 record.phase = "deciding"
          PROVE  WarningsAllRight'
      BY <2>1, AskWarnings DEF Telling
    <2>2. ASSUME NEW c \in MemberCalls, NEW s \in Subs,
                 \/ \E o \in Orgs, limit \in Limits, terms \in TermStatuses :
                      AskSubscribe(c, s, o, limit, terms)
                 \/ \E terms \in {"active", "ended"} : AskDecide(c, s, terms)
                 \/ \E limit \in Limits \cup {0}, terms \in TermStatuses \cup {"unsaid"} :
                      AskResize(c, s, limit, terms)
                 \/ AskRenew(c, s)
          PROVE  WarningsAllRight'
      <3>1. \E kind, t, o, limit, terms, todo : Asks(c, Terms(kind, t, o, limit, terms, todo))
        BY <2>2 DEF AskSubscribe, AskDecide, AskResize, AskRenew
      <3>2. \A kind, t, o, limit, terms, todo :
              Terms(kind, t, o, limit, terms, todo).phase = "deciding"
        BY DEF Terms, NoCall
      <3> QED  BY <2>1, <3>1, <3>2
    <2> QED  BY <1>7, <2>2, WriteTermsWarnings, SweepSubscriptionWarnings DEF TermsStep
  <1> QED  BY <1>1, <1>2, <1>3, <1>4, <1>5, <1>6, <1>7 DEF MembersNext

\* A warning is of a higher tier than was mailed, to the knowledge of its request.
LEMMA WarnIsNew ==
  ASSUME MembersRight, WarningsAllRight, NEW c \in MemberCalls, Warn(c)
  PROVE  LET x == memberCall[c] IN
         \/ CrossedBy(x) > sub[x.sub].warned
         \/ <<"tier", x.sub>> \in excused'
  <1> DEFINE x == memberCall[c]
             s == x.sub
             crossed == CrossedBy(x)
  <1>1. /\ x.phase = "judging" /\ crossed # 0 /\ (x.tier = 0 \/ crossed > x.tier)
        /\ excused' = Noted(x) /\ s \in Subs
    BY WarnsOf, Goes DEF Warns, Higher, Telling
  <1>2. crossed \in Tiers
    BY CrossedTier
  <1> HIDE DEF crossed
  <1> SUFFICES ASSUME <<"tier", s>> \notin excused'
               PROVE  crossed > sub[s].warned
    BY DEF crossed
  <1>3. Tracks(c, s) /\ <<"tier", s>> \notin excused
    BY <1>1 DEF Tracks, Noted
  <1>4. x.tier = sub[s].tier /\ sub[s].warned = sub[s].tier
    BY <1>1, <1>3 DEF WarningsAllRight, WarningsRight
  <1> QED  BY <1>1, <1>2, <1>4 DEF Tiers

\* A request that judged comes to note a tier by mailing it.
LEMMA WarnsByWarning ==
  ASSUME MembersRight, [MembersNext]_memberVars, NEW c \in MemberCalls,
         memberCall[c].phase = "judging", memberCall'[c].phase = "marking"
  PROVE  Warn(c)
  <1>0. MembersTypeOK
    BY DEF MembersRight
  <1>1. ~UNCHANGED memberVars
    BY DEF memberVars
  <1>2. ~Same(memberCall[c], memberCall'[c])
    BY DEF Same
  <1>3. ASSUME NEW d \in MemberCalls, NEW record, Asks(d, record) PROVE FALSE
    <2>1. memberCall[d].phase = "idle"
          /\ \A e \in MemberCalls \ {d} : memberCall'[e] = memberCall[e]
      BY <1>3 DEF Asks, MembersRight, MembersTypeOK
    <2> QED  BY <2>1
  <1>4. ASSUME NEW d \in MemberCalls, NEW next \in MemberCall,
               memberCall[d].phase # "judging" \/ next.phase # "marking",
               memberCall'[d] = next,
               \A e \in MemberCalls \ {d} : Same(memberCall[e], memberCall'[e])
        PROVE  FALSE
    BY <1>2, <1>4
  <1>5. CASE CountStep
    <2> PICK d \in MemberCalls :
          \/ \E o \in Orgs : AskCount(d, o)
          \/ Count(d) \/ Store(d) \/ Warn(d) \/ Passes(d) \/ Reset(d) \/ MarkTier(d)
          \/ MemberCallFails(d)
      BY <1>5 DEF CountStep
    <2>1. ASSUME NEW o \in Orgs, AskCount(d, o) PROVE FALSE
      BY <1>3, <2>1 DEF AskCount
    <2>2. ASSUME Count(d) PROVE FALSE
      BY <1>0, <1>4, <2>2, Counts, OneMoves
    <2>3. ASSUME Store(d) PROVE FALSE
      <3>1. memberCall[d].phase = "storing" /\ \A e \in MemberCalls \ {d} : Same(memberCall[e], memberCall'[e])
        BY <2>3, Stores DEF Moves
      <3> QED  BY <1>2, <3>1
    <2>4. ASSUME Passes(d) \/ MemberCallFails(d) PROVE FALSE
      <3>1. memberCall[d].todo \in SUBSET Orgs
        BY <1>0 DEF MembersTypeOK, MemberCall
      <3>2. PICK next \in {NoCall, ThenCounts(d, memberCall[d].todo)} :
              memberCall' = [memberCall EXCEPT ![d] = next]
        BY <2>4 DEF Passes, MemberCallFails
      <3>3. NoCall \in MemberCall /\ NoCall.phase = "idle"
        BY DEF NoCall, MemberCall, Tiers
      <3>4. next \in MemberCall /\ next.phase \in {"idle", "counting"}
        BY <3>1, <3>2, <3>3, ThenCountsTyped
      <3> QED  BY <1>0, <1>4, <3>2, <3>4, OneMoves
    <2>5. ASSUME Reset(d) \/ MarkTier(d) PROVE FALSE
      <3>1. memberCall[d].phase \in Telling /\ memberCall'[d] = ThenCounts(d, memberCall[d].todo)
            /\ \A e \in MemberCalls \ {d} : Same(memberCall[e], memberCall'[e])
        BY <2>5, Notes DEF Moves, Telling
      <3>2. ThenCounts(d, memberCall[d].todo).phase \in {"idle", "counting"}
        BY <3>1, Goes
      <3> QED  BY <1>2, <3>1, <3>2
    <2>6. ASSUME Warn(d), d # c PROVE FALSE
      BY <1>2, <2>6, WarnsOf DEF Moves
    <2> QED  BY <2>1, <2>2, <2>3, <2>4, <2>5, <2>6
  <1>6. ASSUME NEW d \in MemberCalls, WriteUser(d) \/ DeleteUser(d) PROVE FALSE
    <2> DEFINE next == ThenCounts(d, memberCall[d].todo)
    <2>1. next \in MemberCall /\ memberCall[d].phase = "writing"
      BY <1>6, WritesUser, DeletesUser
    <2> PICK us : Overtaken(d, next, us)
      BY <1>6 DEF WriteUser, DeleteUser
    <2> HIDE DEF next
    <2>2. memberCall'[d] = next
          /\ \A e \in MemberCalls \ {d} : Same(memberCall[e], memberCall'[e])
      BY <1>0, <2>1, OvertakenOthers
    <2> QED  BY <1>4, <2>1, <2>2
  <1>7. CASE UserStep
    <2>1. PICK d \in MemberCalls :
            \/ \E u \in Users, role \in Licensed, o \in Orgs \cup {NoOrg},
                  state \in {"active", "disabled"} : AskCreate(d, u, role, o, state)
            \/ \E u \in Users, role \in Licensed \cup {"unsaid"}, o \in Orgs \cup {NoOrg},
                  state \in {"active", "disabled", "unsaid"}, links \in BOOLEAN,
                  students \in SUBSET Users : AskUpdate(d, u, role, o, state, links, students)
            \/ \E u \in Users : AskDelete(d, u)
            \/ WriteUser(d) \/ DeleteUser(d)
      BY <1>7 DEF UserStep
    <2>2. ~(\E u \in Users, role \in Licensed, o \in Orgs \cup {NoOrg},
               state \in {"active", "disabled"} : AskCreate(d, u, role, o, state))
      BY <1>3 DEF AskCreate
    <2>3. ~(\E u \in Users, role \in Licensed \cup {"unsaid"}, o \in Orgs \cup {NoOrg},
               state \in {"active", "disabled", "unsaid"}, links \in BOOLEAN,
               students \in SUBSET Users : AskUpdate(d, u, role, o, state, links, students))
      <3> SUFFICES ASSUME NEW u \in Users, NEW role \in Licensed \cup {"unsaid"},
                          NEW o \in Orgs \cup {NoOrg},
                          NEW state \in {"active", "disabled", "unsaid"},
                          NEW links \in BOOLEAN, NEW students \in SUBSET Users,
                          AskUpdate(d, u, role, o, state, links, students)
                   PROVE  FALSE
        BY Zenon
      <3>1. \E record : Asks(d, record)
        BY DEF AskUpdate
      <3> QED  BY <1>3, <3>1
    <2>4. ~(\E u \in Users : AskDelete(d, u))
      BY <1>3 DEF AskDelete
    <2> QED  BY <1>6, <2>1, <2>2, <2>3, <2>4
  <1>8. CASE InviteStep
    BY <1>0, <1>2, <1>8, Invites DEF InviteStep
  <1>9. CASE LeaveStep
    BY <1>0, <1>2, <1>9, Leaves DEF LeaveStep
  <1>10. CASE ArchiveStep
    <2>1. ASSUME NEW d \in MemberCalls, ArchiveOrganization(d) PROVE FALSE
      BY <1>2, <2>1, Archives
    <2> QED  BY <1>3, <1>10, <2>1 DEF ArchiveStep, AskArchive
  <1>11. CASE TermsStep
    <2>1. ASSUME NEW d \in MemberCalls, WriteTerms(d) PROVE FALSE
      <3>1. memberCall[d].phase = "deciding"
            /\ \A e \in MemberCalls \ {d} : Same(memberCall[e], memberCall'[e])
        BY <2>1, Agrees DEF Moves
      <3> QED  BY <1>2, <3>1
    <2>2. ASSUME NEW s \in Subs, NEW status \in {"active", "ended"}, SweepSubscription(s, status)
          PROVE  FALSE
      BY <1>2, <2>2, Sweeps
    <2> QED  BY <1>3, <1>11, <2>1, <2>2 DEF TermsStep, AskSubscribe, AskDecide, AskResize, AskRenew
  <1> QED  BY <1>1, <1>5, <1>7, <1>8, <1>9, <1>10, <1>11 DEF MembersNext

LEMMA InitIsWarned ==
  ASSUME MembersInit
  PROVE  WarningsAllRight
  <1>1. \A c \in MemberCalls, s \in Subs : ~Marking(c, s) /\ ~Tracks(c, s)
    BY DEF MembersInit, Marking, Tracks, NoCall
  <1> QED  BY <1>1, InitSubs DEF WarningsAllRight, WarningsRight

\* Whoever comes to mail a warning mails of a tier above all that was mailed since
\* the usage was last below the lowest or the subscription was renewed, or the tier
\* was read while another request mailed or noted one (maybeSendSeatUsageWarning).
THEOREM WarningsAreNew == MembersSpec => WarnsOnce
  <1>1. MembersInit => WarningsAllRight
    BY InitIsWarned
  <1>2. MembersRight /\ WarningsAllRight /\ [MembersNext]_memberVars => WarningsAllRight'
    BY StepIsWarned
  <1>3. ASSUME MembersRight, WarningsAllRight, [MembersNext]_memberVars
        PROVE  [\A c \in MemberCalls :
                  memberCall[c].phase = "judging" /\ memberCall'[c].phase = "marking" =>
                    LET x == memberCall[c] IN
                    \/ CrossedBy(x) > sub[x.sub].warned
                    \/ <<"tier", x.sub>> \in excused']_memberVars
    <2> SUFFICES ASSUME NEW c \in MemberCalls, memberCall[c].phase = "judging",
                        memberCall'[c].phase = "marking"
                 PROVE  LET x == memberCall[c] IN
                        \/ CrossedBy(x) > sub[x.sub].warned
                        \/ <<"tier", x.sub>> \in excused'
      OBVIOUS
    <2>1. Warn(c)
      BY <1>3, WarnsByWarning
    <2> QED  BY <1>3, <2>1, WarnIsNew
  <1> QED  BY <1>1, <1>2, <1>3, MembersStayRight, PTL DEF MembersSpec, WarnsOnce

=============================================================================
