---------------------------- MODULE StorageProofs ----------------------------
(***************************************************************************)
(* Organizations and their administrators, the cloud storage of one, and   *)
(* exports and imports: what no step of a request breaks, and the theorems *)
(* that follow.                                                            *)
(***************************************************************************)
EXTENDS Organizations, CloudStorage, ContentTransfers, TLAPS

-----------------------------------------------------------------------------
(***************************************************************************)
(* Organizations and accounts.                                             *)
(***************************************************************************)
USE OrganizationsAssumption DEF Remains

\* Whoever an organization or a request refers to has been created
AdminsExist ==
  /\ \A o \in Tenants : org[o].admin \in Accounts => accounts[org[o].admin].state # "none"
  /\ \A c \in OrgCalls : orgCall[c].admin \in Accounts => accounts[orgCall[c].admin].state # "none"

Formed(x) ==
  /\ x.phase \in {"creating", "updating", "archiving"} => x.org \in Tenants
  /\ x.phase = "deleting" => x.admin \in Accounts
  /\ x.phase = "creating" =>
       /\ x.mail # Unsaid /\ (x.changes <=> x.mail # NoMail)
       /\ Coherent(x.policy)
  /\ x.phase = "updating" => (x.changes => x.mail \in Addresses)

CallsFormed == \A c \in OrgCalls : Formed(orgCall[c])

\* A request that is not stale knows the rows as they are
Knows(x) ==
  x.phase = "updating" =>
    /\ "admin" \notin x.stale =>
         /\ x.admin = org[x.org].admin
         /\ ~x.changes => x.mail \in {Unsaid, NoMail, org[x.org].mail}
    /\ "policy" \notin x.stale => x.policy = Resolve(x.patch, org[x.org].policy)

ReadsCurrent == \A c \in OrgCalls : Knows(orgCall[c])

\* a is the primary administrator of o, or a request holds him to be
ClaimedBy(a, o) ==
  \/ org[o].admin = a
  \/ \E c \in OrgCalls : orgCall[c].phase = "updating" /\ orgCall[c].org = o /\ orgCall[c].admin = a

ClaimsDisjoint ==
  \A a \in Accounts, o, p \in Tenants : ClaimedBy(a, o) /\ ClaimedBy(a, p) => o = p

AdminsSound ==
  \A o \in Tenants :
    org[o].state = "open" /\ <<"admin", o>> \notin blurred =>
      /\ org[o].admin \in Accounts => Remains(org[o].admin)
      /\ org[o].mail # NoMail =>
           org[o].admin \in Accounts /\ accounts[org[o].admin].mail = org[o].mail

OrganizationsInv ==
  /\ RowsTypeOK
  /\ AdminsExist
  /\ CallsFormed
  /\ ReadsCurrent
  /\ ClaimsDisjoint
  /\ AdminsSound
  /\ PolicyCoherent

-----------------------------------------------------------------------------
LEMMA SilentType == Silent \in Patch
  BY DEF Silent, Patch, UserLimit

LEMMA ClosedType == Closed \in Policy /\ Coherent(Closed)
  BY DEF Closed, Policy, UserLimit, Coherent

LEMMA GivenType ==
  ASSUME NEW S, NEW said \in S \cup {Unsaid}, NEW otherwise \in S
  PROVE  Given(said, otherwise) \in S
  BY DEF Given

LEMMA ResolveType ==
  ASSUME NEW patch \in Patch, NEW p \in Policy
  PROVE  Resolve(patch, p) \in Policy
<1>1. /\ Given(patch.teacherOnly, p.teacherOnly) \in BOOLEAN
      /\ Given(patch.parent, p.parent) \in BOOLEAN
      /\ Given(patch.student, p.student) \in BOOLEAN
      /\ Given(patch.studentLimit, p.studentLimit) \in UserLimit
      /\ Given(patch.parentLimit, p.parentLimit) \in UserLimit
  BY GivenType DEF Patch, Policy
<1>2. 0 \in UserLimit
  BY DEF UserLimit
<1> QED
  BY <1>1, <1>2 DEF Resolve, Policy

LEMMA WrittenType ==
  ASSUME NEW patch \in Patch, NEW q \in Policy, NEW p \in Policy
  PROVE  Written(patch, q, p) \in Policy
  BY DEF Written, Policy

LEMMA WrittenSilent ==
  ASSUME NEW q, NEW p \in Policy
  PROVE  Written(Silent, q, p) = p
  BY DEF Written, Policy, Silent

\* What an update that is not stale writes is coherent if the policy was, or if
\* it says whether there are teachers only
LEMMA WrittenCoherent ==
  ASSUME NEW patch \in Patch, NEW p \in Policy, Coherent(p) \/ patch.teacherOnly # Unsaid
  PROVE  Coherent(Written(patch, Resolve(patch, p), p))
<1> DEFINE q == Resolve(patch, p)
           w == Written(patch, q, p)
<1>1. /\ p.teacherOnly \in BOOLEAN /\ p.parent \in BOOLEAN /\ p.student \in BOOLEAN
      /\ patch.teacherOnly \in BOOLEAN \cup {Unsaid}
      /\ patch.parent \in BOOLEAN \cup {Unsaid} /\ patch.student \in BOOLEAN \cup {Unsaid}
  BY DEF Patch, Policy
<1>2. CASE patch.teacherOnly # Unsaid
  <2>1. /\ w.teacherOnly = q.teacherOnly /\ w.parent = q.parent /\ w.student = q.student
        /\ w.studentLimit = q.studentLimit /\ w.parentLimit = q.parentLimit
    BY <1>2 DEF Written
  <2> QED
    BY <1>1, <2>1 DEF Coherent, Resolve, Given
<1>3. CASE patch.teacherOnly = Unsaid
  <2>1. Coherent(p)
    BY <1>3
  <2>2. CASE p.teacherOnly
    <3>1. /\ ~q.parent /\ ~q.student /\ q.studentLimit = 0 /\ q.parentLimit = 0
      BY <1>1, <1>3, <2>2 DEF Resolve, Given
    <3> QED
      BY <1>1, <1>3, <2>1, <2>2, <3>1 DEF Written, Coherent
  <2>3. CASE ~p.teacherOnly
    <3>1. /\ q.parent = Given(patch.parent, p.parent)
          /\ q.student = (q.parent \/ Given(patch.student, p.student))
      BY <1>1, <1>3, <2>3 DEF Resolve, Given
    <3>2. /\ w.teacherOnly = p.teacherOnly
          /\ w.parent = IF patch.parent # Unsaid THEN q.parent ELSE p.parent
          /\ w.student = IF patch.parent # Unsaid \/ patch.student # Unsaid
                         THEN q.student ELSE p.student
      BY <1>3 DEF Written
    <3>3. w.parent => w.student
      BY <1>1, <2>1, <3>1, <3>2 DEF Given, Coherent
    <3> QED
      BY <2>3, <3>2, <3>3 DEF Coherent
  <2> QED
    BY <1>1, <2>2, <2>3
<1> QED
  BY <1>2, <1>3

LEMMA RestingType ==
  Resting \in OrgCall /\ Resting.phase = "idle" /\ Resting.admin = NoAccount
  BY SilentType, ClosedType DEF Resting, OrgCall

LEMMA OrganizationsInitInv == OrganizationsInit => OrganizationsInv
<1> SUFFICES ASSUME OrganizationsInit PROVE OrganizationsInv
  OBVIOUS
<1>1. NewTenant \in Org /\ NewAccount \in Account
  BY ClosedType DEF NewTenant, NewAccount, Org, Account
<1>2. RowsTypeOK
  BY <1>1, RestingType DEF OrganizationsInit, RowsTypeOK
<1>3. /\ \A o \in Tenants : org[o] = NewTenant
      /\ \A c \in OrgCalls : orgCall[c] = Resting
  BY DEF OrganizationsInit
<1>4. /\ NewTenant.admin = NoAccount /\ NewTenant.state = "none" /\ NewTenant.policy = Closed
  BY DEF NewTenant
<1>5. AdminsExist /\ CallsFormed /\ ReadsCurrent
  BY <1>3, <1>4, RestingType, OrganizationsAssumption
     DEF AdminsExist, CallsFormed, ReadsCurrent, Formed, Knows
<1>6. ClaimsDisjoint /\ AdminsSound /\ PolicyCoherent
  BY <1>3, <1>4, RestingType, ClosedType DEF ClaimsDisjoint, ClaimedBy, AdminsSound, PolicyCoherent
<1> QED
  BY <1>2, <1>5, <1>6 DEF OrganizationsInv

-----------------------------------------------------------------------------
(***************************************************************************)
(* A request begins, or ends without a write.                              *)
(***************************************************************************)
LEMMA OrgCallMoves ==
  ASSUME OrganizationsInv, NEW c \in OrgCalls, NEW record \in OrgCall,
         orgCall' = [orgCall EXCEPT ![c] = record], UNCHANGED <<org, accounts, blurred>>,
         Formed(record), Knows(record),
         record.admin \in Accounts => accounts[record.admin].state # "none",
         record.phase = "updating" => record.admin = org[record.org].admin
  PROVE  OrganizationsInv'
<1> USE DEF OrganizationsInv
<1>1. /\ orgCall'[c] = record
      /\ \A d \in OrgCalls \ {c} : orgCall'[d] = orgCall[d]
  BY DEF RowsTypeOK
<1>2. RowsTypeOK'
  BY DEF RowsTypeOK
<1>3. AdminsExist' /\ AdminsSound' /\ PolicyCoherent'
  BY <1>1 DEF AdminsExist, AdminsSound, PolicyCoherent
<1>4. CallsFormed' /\ ReadsCurrent'
  BY <1>1 DEF CallsFormed, ReadsCurrent, Formed, Knows
<1>5. \A a \in Accounts, o \in Tenants : ClaimedBy(a, o)' => ClaimedBy(a, o)
  BY <1>1 DEF ClaimedBy
<1>6. ClaimsDisjoint'
  BY <1>5 DEF ClaimsDisjoint
<1> QED
  BY <1>2, <1>3, <1>4, <1>6

LEMMA AskCreateOrgStep ==
  ASSUME OrganizationsInv, NEW c \in OrgCalls, NEW o \in Tenants,
         NEW partner \in Tenants \cup {NoTenant}, NEW m \in Addresses \cup {NoMail},
         NEW patch \in Patch, AskCreateOrg(c, o, partner, m, patch)
  PROVE  OrganizationsInv'
<1> DEFINE policy == Resolve(patch, Closed)
           grant == IF partner = NoTenant THEN Closed ELSE org[partner].policy
           x == [Resting EXCEPT !.phase = "creating", !.org = o, !.partner = partner,
                   !.mail = m, !.changes = m # NoMail, !.patch = patch,
                   !.policy = policy, !.grant = grant]
<1>1. policy \in Policy /\ grant \in Policy
  BY ResolveType, ClosedType DEF OrganizationsInv, RowsTypeOK, Org
<1>2. Coherent(policy)
  BY DEF Resolve, Coherent, Given, Closed, Patch
<1> HIDE DEF policy, grant
<1>3. /\ x \in OrgCall
      /\ x.phase = "creating" /\ x.org = o /\ x.mail = m /\ x.policy = policy
      /\ x.changes = (m # NoMail) /\ x.admin = NoAccount
  BY <1>1, RestingType DEF OrgCall
<1>4. orgCall' = [orgCall EXCEPT ![c] = x] /\ UNCHANGED <<org, accounts, blurred>>
  BY DEF AskCreateOrg, OrgBegins, policy, grant
<1>5. Formed(x) /\ Knows(x)
  BY <1>2, <1>3 DEF Formed, Knows
<1> HIDE DEF x
<1> QED
  BY <1>3, <1>4, <1>5, OrgCallMoves

LEMMA AskUpdateOrgStep ==
  ASSUME OrganizationsInv, NEW c \in OrgCalls, NEW o \in Tenants,
         NEW m \in Addresses \cup {NoMail, Unsaid}, NEW patch \in Patch,
         AskUpdateOrg(c, o, m, patch)
  PROVE  OrganizationsInv'
<1> DEFINE changes == m \notin {Unsaid, NoMail, org[o].mail}
           policy == Resolve(patch, org[o].policy)
           x == [Resting EXCEPT !.phase = "updating", !.org = o, !.mail = m,
                  !.changes = changes, !.admin = org[o].admin, !.patch = patch,
                  !.policy = policy]
<1>1. /\ policy \in Policy /\ changes \in BOOLEAN
      /\ org[o].admin \in Accounts \cup {NoAccount}
      /\ changes => m \in Addresses
      /\ ~changes => m \in {Unsaid, NoMail, org[o].mail}
  BY ResolveType DEF OrganizationsInv, RowsTypeOK, Org
<1>2. policy = Resolve(patch, org[o].policy)
  OBVIOUS
<1>3. orgCall' = [orgCall EXCEPT ![c] = x] /\ UNCHANGED <<org, accounts, blurred>>
  BY DEF AskUpdateOrg, OrgBegins
<1> HIDE DEF policy, changes
<1>4. /\ x \in OrgCall
      /\ x.phase = "updating" /\ x.org = o /\ x.mail = m /\ x.policy = policy
      /\ x.changes = changes /\ x.admin = org[o].admin /\ x.patch = patch
  BY <1>1, RestingType DEF OrgCall
<1>5. Formed(x) /\ Knows(x)
  BY <1>1, <1>2, <1>4 DEF Formed, Knows
<1> HIDE DEF x
<1> QED
  BY <1>3, <1>4, <1>5, OrgCallMoves DEF OrganizationsInv, AdminsExist

LEMMA AskDeleteAccountStep ==
  ASSUME OrganizationsInv, NEW c \in OrgCalls, NEW a \in Accounts, AskDeleteAccount(c, a)
  PROVE  OrganizationsInv'
<1> DEFINE x == [Resting EXCEPT !.phase = "deleting", !.admin = a, !.mail = accounts[a].mail]
<1>1. /\ x \in OrgCall
      /\ x.phase = "deleting" /\ x.admin = a
  BY RestingType DEF OrgCall, OrganizationsInv, RowsTypeOK, Account
<1>2. /\ orgCall' = [orgCall EXCEPT ![c] = x] /\ UNCHANGED <<org, accounts, blurred>>
      /\ accounts[a].state = "there"
  BY DEF AskDeleteAccount, OrgBegins
<1> HIDE DEF x
<1>3. Formed(x) /\ Knows(x)
  BY <1>1 DEF Formed, Knows
<1> QED
  BY <1>1, <1>2, <1>3, OrgCallMoves

LEMMA AskArchiveOrgStep ==
  ASSUME OrganizationsInv, NEW c \in OrgCalls, NEW o \in Tenants, AskArchiveOrg(c, o)
  PROVE  OrganizationsInv'
<1> DEFINE pool == {a \in Accounts : accounts[a].state = "there" /\ o \in accounts[a].orgs}
           x == [Resting EXCEPT !.phase = "archiving", !.org = o, !.pool = pool]
<1>1. /\ x \in OrgCall
      /\ x.phase = "archiving" /\ x.admin = NoAccount /\ x.org = o
  BY RestingType DEF OrgCall
<1>2. orgCall' = [orgCall EXCEPT ![c] = x] /\ UNCHANGED <<org, accounts, blurred>>
  BY DEF AskArchiveOrg, OrgBegins
<1> HIDE DEF x
<1>3. Formed(x) /\ Knows(x)
  BY <1>1 DEF Formed, Knows
<1> QED
  BY <1>1, <1>2, <1>3, OrgCallMoves

LEMMA OrgCallFailsStep ==
  ASSUME OrganizationsInv, NEW c \in OrgCalls, OrgCallFails(c)
  PROVE  OrganizationsInv'
<1>1. Formed(Resting) /\ Knows(Resting)
  BY RestingType DEF Formed, Knows
<1> QED
  BY <1>1, RestingType, OrgCallMoves DEF OrgCallFails

-----------------------------------------------------------------------------
(***************************************************************************)
(* What the other requests are told when one has written.                  *)
(***************************************************************************)
LEMMA OrgEndsMoves ==
  ASSUME RowsTypeOK, NEW c \in OrgCalls, NEW mailed \in SUBSET Tenants,
         NEW ruled \in SUBSET Tenants, OrgEnds(c, mailed, ruled)
  PROVE  /\ orgCall' \in [OrgCalls -> OrgCall]
         /\ orgCall'[c] = Resting
         /\ \A d \in OrgCalls \ {c} :
              /\ orgCall'[d].phase = orgCall[d].phase /\ orgCall'[d].org = orgCall[d].org
              /\ orgCall'[d].mail = orgCall[d].mail /\ orgCall'[d].changes = orgCall[d].changes
              /\ orgCall'[d].admin = orgCall[d].admin /\ orgCall'[d].patch = orgCall[d].patch
              /\ orgCall'[d].policy = orgCall[d].policy
              /\ orgCall[d].stale \subseteq orgCall'[d].stale
              /\ orgCall[d].org \in mailed => "admin" \in orgCall'[d].stale
              /\ orgCall[d].org \in ruled => "policy" \in orgCall'[d].stale
<1> DEFINE told(d) == orgCall[d].stale
                        \cup (IF orgCall[d].org \in mailed THEN {"admin"} ELSE {})
                        \cup (IF orgCall[d].org \in ruled THEN {"policy"} ELSE {})
<1>1. orgCall' = [d \in OrgCalls |-> IF d = c THEN Resting
                                    ELSE [orgCall[d] EXCEPT !.stale = told(d)]]
  BY DEF OrgEnds
<1>2. \A d \in OrgCalls : orgCall[d] \in OrgCall
  BY DEF RowsTypeOK
<1>3. \A d \in OrgCalls : told(d) \in SUBSET {"admin", "policy"}
  BY <1>2 DEF OrgCall
<1>4. \A d \in OrgCalls : /\ orgCall[d].stale \subseteq told(d)
                          /\ orgCall[d].org \in mailed => "admin" \in told(d)
                          /\ orgCall[d].org \in ruled => "policy" \in told(d)
  OBVIOUS
<1> HIDE DEF told
<1>5. \A d \in OrgCalls : [orgCall[d] EXCEPT !.stale = told(d)] \in OrgCall
  BY <1>2, <1>3 DEF OrgCall
<1>6. orgCall' \in [OrgCalls -> OrgCall]
  BY <1>1, <1>5, RestingType
<1>7. orgCall'[c] = Resting
  BY <1>1
<1>8. ASSUME NEW d \in OrgCalls \ {c}
      PROVE  /\ orgCall'[d] = [orgCall[d] EXCEPT !.stale = told(d)]
             /\ orgCall[d] \in OrgCall
  BY <1>1, <1>2
<1> QED
  BY <1>4, <1>6, <1>7, <1>8 DEF OrgCall

(***************************************************************************)
(* An organization gets no administrator but one that a request claims for *)
(* it or that did not exist.                                               *)
(***************************************************************************)
LEMMA OrgWritten ==
  ASSUME OrganizationsInv, NEW c \in OrgCalls, NEW mailed \in SUBSET Tenants,
         NEW ruled \in SUBSET Tenants, NEW o1 \in Tenants \cup {NoTenant},
         OrgEnds(c, mailed, ruled),
         \A o \in Tenants \ mailed : /\ org'[o].admin = org[o].admin
                                     /\ org'[o].mail = org[o].mail,
         \A o \in Tenants \ ruled : org'[o].policy = org[o].policy,
         \A a \in Accounts : accounts'[a].state = "none" => accounts[a].state = "none",
         \A o \in Tenants :
           org'[o].admin \in Accounts =>
             \/ ClaimedBy(org'[o].admin, o)
             \/ /\ o = o1 /\ accounts[org'[o].admin].state = "none"
                /\ accounts'[org'[o].admin].state # "none"
  PROVE  AdminsExist' /\ CallsFormed' /\ ReadsCurrent' /\ ClaimsDisjoint'
<1> USE DEF OrganizationsInv
<1> DEFINE Kept(d) ==
             /\ orgCall'[d].phase = orgCall[d].phase /\ orgCall'[d].org = orgCall[d].org
             /\ orgCall'[d].mail = orgCall[d].mail /\ orgCall'[d].changes = orgCall[d].changes
             /\ orgCall'[d].admin = orgCall[d].admin /\ orgCall'[d].patch = orgCall[d].patch
             /\ orgCall'[d].policy = orgCall[d].policy
             /\ orgCall[d].stale \subseteq orgCall'[d].stale
             /\ orgCall[d].org \in mailed => "admin" \in orgCall'[d].stale
             /\ orgCall[d].org \in ruled => "policy" \in orgCall'[d].stale
<1>1. /\ orgCall'[c] = Resting
      /\ \A d \in OrgCalls \ {c} : Kept(d)
  BY OrgEndsMoves
<1>2. CallsFormed'
  <2> SUFFICES ASSUME NEW d \in OrgCalls PROVE Formed(orgCall'[d])
    BY DEF CallsFormed, Formed
  <2>1. CASE d = c
    BY <2>1, <1>1, RestingType DEF Formed
  <2>2. CASE d # c
    <3>1. Formed(orgCall[d]) /\ Kept(d)
      BY <2>2, <1>1 DEF CallsFormed
    <3> QED
      BY <3>1 DEF Formed
  <2> QED
    BY <2>1, <2>2
<1>3. ReadsCurrent'
  <2> SUFFICES ASSUME NEW d \in OrgCalls PROVE Knows(orgCall[d])'
    BY DEF ReadsCurrent
  <2>1. CASE d = c
    BY <2>1, <1>1, RestingType DEF Knows
  <2>2. CASE d # c
    <3> SUFFICES ASSUME orgCall[d].phase = "updating" PROVE Knows(orgCall[d])'
      BY <1>1, <2>2 DEF Knows
    <3>1. /\ Knows(orgCall[d]) /\ Kept(d) /\ orgCall[d].org \in Tenants
      BY <2>2, <1>1 DEF ReadsCurrent, CallsFormed, Formed
    <3>2. "admin" \notin orgCall'[d].stale =>
            /\ "admin" \notin orgCall[d].stale
            /\ org'[orgCall[d].org].admin = org[orgCall[d].org].admin
            /\ org'[orgCall[d].org].mail = org[orgCall[d].org].mail
      BY <3>1
    <3>3. "policy" \notin orgCall'[d].stale =>
            /\ "policy" \notin orgCall[d].stale
            /\ org'[orgCall[d].org].policy = org[orgCall[d].org].policy
      BY <3>1
    <3> QED
      BY <3>1, <3>2, <3>3 DEF Knows
  <2> QED
    BY <2>1, <2>2
<1>4. \A a \in Accounts, o \in Tenants : ClaimedBy(a, o) => accounts[a].state # "none"
  BY DEF AdminsExist, ClaimedBy
<1>5. AdminsExist'
  <2>1. ASSUME NEW d \in OrgCalls, orgCall'[d].admin \in Accounts
        PROVE  accounts'[orgCall'[d].admin].state # "none"
    <3>1. d # c
      BY <2>1, <1>1, RestingType, OrganizationsAssumption
    <3> QED
      BY <2>1, <3>1, <1>1 DEF AdminsExist
  <2>2. ASSUME NEW o \in Tenants, org'[o].admin \in Accounts
        PROVE  accounts'[org'[o].admin].state # "none"
    BY <2>2, <1>4
  <2> QED
    BY <2>1, <2>2 DEF AdminsExist
<1>6. ASSUME NEW a \in Accounts, NEW o \in Tenants, ClaimedBy(a, o)'
      PROVE  ClaimedBy(a, o) \/ (o = o1 /\ accounts[a].state = "none")
  <2>1. CASE org'[o].admin = a
    BY <2>1
  <2>2. CASE \E d \in OrgCalls : /\ orgCall'[d].phase = "updating" /\ orgCall'[d].org = o
                                /\ orgCall'[d].admin = a
    <3>1. PICK d \in OrgCalls : /\ orgCall'[d].phase = "updating" /\ orgCall'[d].org = o
                               /\ orgCall'[d].admin = a
      BY <2>2
    <3>2. d # c
      BY <3>1, <1>1, RestingType
    <3> QED
      BY <3>1, <3>2, <1>1 DEF ClaimedBy
  <2> QED
    BY <1>6, <2>1, <2>2 DEF ClaimedBy
<1>7. ClaimsDisjoint'
  <2> SUFFICES ASSUME NEW a \in Accounts, NEW o \in Tenants, NEW p \in Tenants,
                      ClaimedBy(a, o)', ClaimedBy(a, p)'
               PROVE  o = p
    BY DEF ClaimsDisjoint
  <2> QED
    BY <1>4, <1>6 DEF ClaimsDisjoint
<1> QED
  BY <1>2, <1>3, <1>5, <1>7

\* The created account is nobody's administrator yet
LEMMA OnboardsMoves ==
  ASSUME OrganizationsInv, NEW a \in Accounts \cup {NoAccount}, NEW m \in Addresses,
         NEW o \in Tenants, Onboards(a, m, o)
  PROVE  /\ a \in Accounts /\ accounts[a].state = "none"
         /\ accounts' \in [Accounts -> Account]
         /\ accounts'[a].state = "there" /\ accounts'[a].mail = m
         /\ \A b \in Accounts \ {a} : accounts'[b] = accounts[b]
         /\ \A p \in Tenants : org[p].admin # a
<1>1. /\ a \in Accounts /\ accounts[a].state = "none"
      /\ accounts' = [accounts EXCEPT ![a] = [state |-> "there", mail |-> m, orgs |-> {o}]]
  BY DEF Onboards
<1>2. [state |-> "there", mail |-> m, orgs |-> {o}] \in Account
  BY DEF Account
<1> QED
  BY <1>1, <1>2 DEF OrganizationsInv, RowsTypeOK, AdminsExist

LEMMA CreateAccountStep ==
  ASSUME OrganizationsInv, NEW a \in Accounts, NEW m \in Addresses, NEW o \in Tenants,
         CreateAccount(a, m, o)
  PROVE  OrganizationsInv'
<1> USE DEF OrganizationsInv
<1>1. /\ a \in Accounts /\ accounts[a].state = "none"
      /\ accounts' \in [Accounts -> Account]
      /\ accounts'[a].state = "there"
      /\ \A b \in Accounts \ {a} : accounts'[b] = accounts[b]
      /\ \A p \in Tenants : org[p].admin # a
  BY OnboardsMoves DEF CreateAccount
<1>2. UNCHANGED <<org, orgCall, blurred>>
  BY DEF CreateAccount
<1>3. RowsTypeOK'
  BY <1>1, <1>2 DEF RowsTypeOK
<1>4. AdminsExist'
  BY <1>1, <1>2 DEF AdminsExist
<1>5. CallsFormed' /\ ReadsCurrent' /\ ClaimsDisjoint' /\ PolicyCoherent'
  BY <1>2 DEF CallsFormed, Formed, ReadsCurrent, Knows, ClaimsDisjoint, ClaimedBy, PolicyCoherent
<1>6. AdminsSound'
  BY <1>1, <1>2 DEF AdminsSound
<1> QED
  BY <1>3, <1>4, <1>5, <1>6

LEMMA MoveAccountStep ==
  ASSUME OrganizationsInv, NEW a \in Accounts, NEW o \in Tenants, MoveAccount(a, o)
  PROVE  OrganizationsInv'
<1> USE DEF OrganizationsInv
<1>1. /\ accounts' = [accounts EXCEPT ![a].orgs = {o}]
      /\ UNCHANGED <<org, orgCall, blurred>>
  BY DEF MoveAccount
<1>2. /\ accounts' \in [Accounts -> Account]
      /\ \A b \in Accounts : /\ accounts'[b].state = accounts[b].state
                             /\ accounts'[b].mail = accounts[b].mail
  BY <1>1 DEF RowsTypeOK, Account
<1>3. RowsTypeOK'
  BY <1>1, <1>2 DEF RowsTypeOK
<1>4. AdminsExist' /\ AdminsSound'
  BY <1>1, <1>2 DEF AdminsExist, AdminsSound
<1>5. CallsFormed' /\ ReadsCurrent' /\ ClaimsDisjoint' /\ PolicyCoherent'
  BY <1>1 DEF CallsFormed, Formed, ReadsCurrent, Knows, ClaimsDisjoint, ClaimedBy, PolicyCoherent
<1> QED
  BY <1>3, <1>4, <1>5

LEMMA DeleteMeStep ==
  ASSUME OrganizationsInv, NEW a \in Accounts, DeleteMe(a)
  PROVE  OrganizationsInv'
<1> USE DEF OrganizationsInv
<1>1. /\ accounts' = [accounts EXCEPT ![a].state = "left"] /\ accounts[a].state = "there"
      /\ UNCHANGED <<org, orgCall, blurred>>
  BY DEF DeleteMe
<1>2. /\ accounts' \in [Accounts -> Account]
      /\ \A b \in Accounts : /\ accounts'[b].mail = accounts[b].mail
                             /\ \/ accounts'[b].state = accounts[b].state
                                \/ accounts'[b].state = "left" /\ accounts[b].state = "there"
  BY <1>1 DEF RowsTypeOK, Account
<1>3. RowsTypeOK'
  BY <1>1, <1>2 DEF RowsTypeOK
<1>4. AdminsExist' /\ AdminsSound'
  BY <1>1, <1>2 DEF AdminsExist, AdminsSound
<1>5. CallsFormed' /\ ReadsCurrent' /\ ClaimsDisjoint' /\ PolicyCoherent'
  BY <1>1 DEF CallsFormed, Formed, ReadsCurrent, Knows, ClaimsDisjoint, ClaimedBy, PolicyCoherent
<1> QED
  BY <1>3, <1>4, <1>5

LEMMA CreateOrgStep ==
  ASSUME OrganizationsInv, NEW c \in OrgCalls, NEW a \in Accounts \cup {NoAccount},
         CreateOrg(c, a)
  PROVE  OrganizationsInv'
<1> USE DEF OrganizationsInv
<1> DEFINE x == orgCall[c]
           o == x.org
           row == [state |-> "open", mail |-> x.mail, policy |-> x.policy, admin |-> a,
                   parent |-> x.partner]
<1>1. /\ x \in OrgCall /\ x.phase = "creating" /\ o \in Tenants /\ Formed(x)
      /\ x.mail \in Addresses \cup {NoMail} /\ Coherent(x.policy)
      /\ x.changes <=> x.mail # NoMail
  BY DEF CreateOrg, CallsFormed, Formed, RowsTypeOK, OrgCall
<1>2. /\ IF x.changes THEN Onboards(a, x.mail, o) ELSE NobodyNew(a)
      /\ org' = [org EXCEPT ![o] = row]
      /\ OrgEnds(c, {o}, {o}) /\ UNCHANGED blurred
  BY DEF CreateOrg
<1>3. row \in Org
  BY <1>1 DEF Org, OrgCall
<1>4. /\ org' \in [Tenants -> Org] /\ org'[o] = row
      /\ \A p \in Tenants \ {o} : org'[p] = org[p]
  BY <1>1, <1>2, <1>3 DEF RowsTypeOK
<1>5. /\ accounts' \in [Accounts -> Account]
      /\ x.changes => /\ a \in Accounts /\ accounts[a].state = "none"
                      /\ accounts'[a].state = "there" /\ accounts'[a].mail = x.mail
                      /\ \A p \in Tenants : org[p].admin # a
      /\ ~x.changes => a = NoAccount
      /\ \A b \in Accounts \ {a} : accounts'[b] = accounts[b]
  BY <1>1, <1>2, OnboardsMoves DEF NobodyNew, RowsTypeOK
<1>6. row.admin = a /\ row.mail = x.mail /\ row.policy = x.policy
  OBVIOUS
<1> HIDE DEF row, o
<1>7. AdminsExist' /\ CallsFormed' /\ ReadsCurrent' /\ ClaimsDisjoint'
  <2>1. \A p \in Tenants \ {o} : org'[p] = org[p]
    BY <1>4
  <2>2. \A b \in Accounts : accounts'[b].state = "none" => accounts[b].state = "none"
    BY <1>5
  <2>3. ASSUME NEW p \in Tenants, org'[p].admin \in Accounts
        PROVE  \/ ClaimedBy(org'[p].admin, p)
               \/ /\ p = o /\ accounts[org'[p].admin].state = "none"
                  /\ accounts'[org'[p].admin].state # "none"
    <3>1. CASE p # o
      BY <3>1, <1>4 DEF ClaimedBy
    <3>2. CASE p = o
      BY <3>2, <2>3, <1>1, <1>4, <1>5, <1>6, OrganizationsAssumption
    <3> QED
      BY <3>1, <3>2
  <2> QED
    BY <1>1, <1>2, <2>1, <2>2, <2>3, OrgWritten
<1>8. AdminsSound'
  <2> SUFFICES ASSUME NEW p \in Tenants, org'[p].state = "open", <<"admin", p>> \notin blurred
               PROVE  /\ org'[p].admin \in Accounts => accounts'[org'[p].admin].state \in {"there", "left"}
                      /\ org'[p].mail # NoMail =>
                           /\ org'[p].admin \in Accounts
                           /\ accounts'[org'[p].admin].mail = org'[p].mail
    BY <1>2 DEF AdminsSound
  <2>1. CASE p = o
    BY <2>1, <1>1, <1>4, <1>5, <1>6
  <2>2. CASE p # o
    <3>1. org'[p] = org[p] /\ (x.changes => org[p].admin # a)
      BY <2>2, <1>4, <1>5
    <3>2. org[p].admin \in Accounts => accounts'[org[p].admin] = accounts[org[p].admin]
      BY <3>1, <1>5, OrganizationsAssumption
    <3> QED
      BY <3>1, <3>2 DEF AdminsSound
  <2> QED
    BY <2>1, <2>2
<1>9. PolicyCoherent'
  BY <1>1, <1>2, <1>4, <1>6 DEF PolicyCoherent
<1>10. orgCall' \in [OrgCalls -> OrgCall]
  BY <1>1, <1>2, OrgEndsMoves
<1>11. RowsTypeOK'
  BY <1>2, <1>4, <1>5, <1>10 DEF RowsTypeOK
<1> QED
  BY <1>7, <1>8, <1>9, <1>11

LEMMA DeletedType ==
  ASSUME RowsTypeOK, NEW a \in Accounts
  PROVE  Deleted(a) \in Account /\ Deleted(a).state = "deleted"
  BY ZenonT(30) DEF Deleted, RowsTypeOK, Account

LEMMA OrphanedType ==
  ASSUME RowsTypeOK, NEW o \in Tenants
  PROVE  /\ Orphaned(o) \in Org
         /\ Orphaned(o).mail = NoMail /\ Orphaned(o).admin = NoAccount
         /\ Orphaned(o).policy = org[o].policy /\ Orphaned(o).state = org[o].state
<1>1. org[o] \in Org /\ NoMail \in Addresses \cup {NoMail} /\ NoAccount \in Accounts \cup {NoAccount}
  BY DEF RowsTypeOK
<1> QED
  BY <1>1 DEF Orphaned, Org

LEMMA DeleteAccountStep ==
  ASSUME OrganizationsInv, NEW c \in OrgCalls, DeleteAccount(c)
  PROVE  OrganizationsInv'
<1> USE DEF OrganizationsInv
<1> DEFINE x == orgCall[c]
           a == x.admin
           freed == {o \in Tenants : org[o].admin = a \/ org[o].mail = x.mail}
<1>1. /\ a \in Accounts
      /\ accounts' = [accounts EXCEPT ![a] = Deleted(a)]
      /\ org' = [o \in Tenants |-> IF o \in freed THEN Orphaned(o) ELSE org[o]]
      /\ OrgEnds(c, freed, {}) /\ UNCHANGED blurred
  BY DEF DeleteAccount, CallsFormed, Formed
<1>2. /\ freed \in SUBSET Tenants
      /\ \A o \in Tenants \ freed : org[o].admin # a
  OBVIOUS
<1> HIDE DEF freed, a
<1>3. /\ accounts' \in [Accounts -> Account] /\ accounts'[a].state = "deleted"
      /\ \A b \in Accounts \ {a} : accounts'[b] = accounts[b]
  BY <1>1, DeletedType DEF RowsTypeOK
<1>4. /\ \A o \in freed : org'[o] = Orphaned(o)
      /\ \A o \in Tenants \ freed : org'[o] = org[o]
      /\ org' \in [Tenants -> Org]
  BY <1>1, <1>2, OrphanedType DEF RowsTypeOK
<1>5. AdminsExist' /\ CallsFormed' /\ ReadsCurrent' /\ ClaimsDisjoint'
  <2>1. \A b \in Accounts : accounts'[b].state = "none" => accounts[b].state = "none"
    BY <1>3
  <2>2. \A o \in Tenants : org'[o].policy = org[o].policy
    BY <1>2, <1>4, OrphanedType
  <2>3. \A o \in Tenants : org'[o].admin \in Accounts => ClaimedBy(org'[o].admin, o)
    BY <1>2, <1>4, OrphanedType, OrganizationsAssumption DEF ClaimedBy
  <2>4. \A o \in Tenants \ freed : org'[o].admin = org[o].admin /\ org'[o].mail = org[o].mail
    BY <1>4
  <2> QED
    BY <1>1, <1>2, <2>1, <2>2, <2>3, <2>4, OrgWritten
<1>6. AdminsSound'
  <2> SUFFICES ASSUME NEW p \in Tenants, org'[p].state = "open", <<"admin", p>> \notin blurred
               PROVE  /\ org'[p].admin \in Accounts => accounts'[org'[p].admin].state \in {"there", "left"}
                      /\ org'[p].mail # NoMail =>
                           /\ org'[p].admin \in Accounts
                           /\ accounts'[org'[p].admin].mail = org'[p].mail
    BY <1>1 DEF AdminsSound
  <2>1. CASE p \in freed
    BY <2>1, <1>4, OrphanedType, OrganizationsAssumption
  <2>2. CASE p \notin freed
    <3>1. org'[p] = org[p] /\ org[p].admin # a
      BY <2>2, <1>2, <1>4
    <3>2. org[p].admin \in Accounts => accounts'[org[p].admin] = accounts[org[p].admin]
      BY <3>1, <1>3
    <3> QED
      BY <3>1, <3>2 DEF AdminsSound
  <2> QED
    BY <2>1, <2>2
<1>7. PolicyCoherent'
  BY <1>1, <1>2, <1>4, OrphanedType DEF PolicyCoherent
<1>8. RowsTypeOK'
  BY <1>1, <1>2, <1>3, <1>4, OrgEndsMoves DEF RowsTypeOK
<1> QED
  BY <1>5, <1>6, <1>7, <1>8

LEMMA ArchiveOrgStep ==
  ASSUME OrganizationsInv, NEW c \in OrgCalls, ArchiveOrg(c)
  PROVE  OrganizationsInv'
<1> USE DEF OrganizationsInv
<1> DEFINE x == orgCall[c]
           o == x.org
           row == [Orphaned(o) EXCEPT !.state = "archived"]
           shared == {p \in Tenants \ {o} : org[p].admin \in x.pool}
<1>1. /\ o \in Tenants /\ x.pool \subseteq Accounts
      /\ accounts' = [b \in Accounts |-> IF b \in x.pool THEN Deleted(b) ELSE accounts[b]]
      /\ org' = [org EXCEPT ![o] = row]
      /\ blurred' = blurred \cup ({"admin"} \X shared)
      /\ OrgEnds(c, {o}, {})
  BY DEF ArchiveOrg, CallsFormed, Formed, RowsTypeOK, OrgCall
<1>2. /\ row \in Org /\ row.admin = NoAccount /\ row.state = "archived"
      /\ row.policy = org[o].policy
  BY <1>1, OrphanedType DEF Org
<1> HIDE DEF row, o
<1>3. /\ org' \in [Tenants -> Org] /\ org'[o] = row
      /\ \A p \in Tenants \ {o} : org'[p] = org[p]
  BY <1>1, <1>2 DEF RowsTypeOK
<1>4. /\ accounts' \in [Accounts -> Account]
      /\ \A b \in Accounts \ x.pool : accounts'[b] = accounts[b]
      /\ \A b \in x.pool : accounts'[b].state = "deleted"
  BY <1>1, DeletedType DEF RowsTypeOK
<1>5. AdminsExist' /\ CallsFormed' /\ ReadsCurrent' /\ ClaimsDisjoint'
  <2>1. \A b \in Accounts : accounts'[b].state = "none" => accounts[b].state = "none"
    BY <1>4
  <2>2. \A p \in Tenants : org'[p].policy = org[p].policy
    BY <1>2, <1>3
  <2>3. \A p \in Tenants : org'[p].admin \in Accounts => ClaimedBy(org'[p].admin, p)
    BY <1>2, <1>3, OrganizationsAssumption DEF ClaimedBy
  <2>4. \A p \in Tenants \ {o} : org'[p].admin = org[p].admin /\ org'[p].mail = org[p].mail
    BY <1>3
  <2> QED
    BY <1>1, <2>1, <2>2, <2>3, <2>4, OrgWritten
<1>6. AdminsSound'
  <2> SUFFICES ASSUME NEW p \in Tenants, org'[p].state = "open", <<"admin", p>> \notin blurred'
               PROVE  /\ org'[p].admin \in Accounts => accounts'[org'[p].admin].state \in {"there", "left"}
                      /\ org'[p].mail # NoMail =>
                           /\ org'[p].admin \in Accounts
                           /\ accounts'[org'[p].admin].mail = org'[p].mail
    BY DEF AdminsSound
  <2>1. p # o /\ org'[p] = org[p]
    BY <1>2, <1>3
  <2>2. p \notin shared /\ <<"admin", p>> \notin blurred
    BY <1>1
  <2>3. org[p].admin \in Accounts => accounts'[org[p].admin] = accounts[org[p].admin]
    BY <2>1, <2>2, <1>4
  <2> QED
    BY <2>1, <2>2, <2>3 DEF AdminsSound
<1>7. PolicyCoherent'
  BY <1>1, <1>2, <1>3 DEF PolicyCoherent
<1>8. orgCall' \in [OrgCalls -> OrgCall]
  <2>1. {o} \in SUBSET Tenants /\ {} \in SUBSET Tenants
    BY <1>1
  <2> QED
    BY <1>1, <2>1, OrgEndsMoves
<1>9. blurred' \subseteq {"admin", "policy"} \X Tenants
  BY <1>1 DEF RowsTypeOK
<1>10. RowsTypeOK'
  BY <1>3, <1>4, <1>8, <1>9 DEF RowsTypeOK
<1> QED
  BY <1>5, <1>6, <1>7, <1>10

(***************************************************************************)
(* An update.  The address goes to the administrator that was read, or to  *)
(* an account that is created.                                             *)
(***************************************************************************)
LEMMA UpdateOrgStep ==
  ASSUME OrganizationsInv, NEW c \in OrgCalls, NEW a \in Accounts \cup {NoAccount},
         UpdateOrg(c, a)
  PROVE  OrganizationsInv'
<1> USE DEF OrganizationsInv
<1> DEFINE x == orgCall[c]
           o == x.org
           mails == x.mail # Unsaid
           rules == x.patch # Silent
           anew == /\ "admin" \notin x.stale /\ x.changes
                   /\ x.admin = NoAccount \/ Remains(x.admin)
           anewRules == "policy" \notin x.stale /\ x.patch.teacherOnly # Unsaid
           mailed == IF mails THEN {o} ELSE {}
           ruled == IF rules THEN {o} ELSE {}
           mail == Given(x.mail, org[o].mail)
           boss == IF ~x.changes THEN org[o].admin ELSE IF x.admin = NoAccount THEN a ELSE x.admin
           policy == Written(x.patch, x.policy, org[o].policy)
           row == [org[o] EXCEPT !.mail = mail, !.admin = boss, !.policy = policy]
<1>1. /\ x \in OrgCall /\ x.phase = "updating" /\ o \in Tenants /\ Formed(x) /\ Knows(x)
      /\ x.changes => x.mail \in Addresses
  BY DEF UpdateOrg, CallsFormed, Formed, ReadsCurrent, RowsTypeOK
<1>2. org[o] \in Org
  BY <1>1 DEF RowsTypeOK
<1>3. /\ Readdressed(x, a)
      /\ org' = [org EXCEPT ![o] = row]
      /\ blurred' = {e \in blurred : e[2] # o}
            \cup Blurs("admin", o, mails /\ "admin" \in x.stale, anew)
            \cup Blurs("policy", o, rules /\ "policy" \in x.stale, anewRules)
      /\ OrgEnds(c, mailed, ruled)
  BY ZenonT(30), <1>2 DEF UpdateOrg, Org
<1>4. /\ mail \in Addresses \cup {NoMail} /\ boss \in Accounts \cup {NoAccount}
      /\ policy \in Policy
  BY <1>1, <1>2, WrittenType DEF Given, Org, OrgCall
<1>5. /\ row \in Org /\ row.mail = mail /\ row.admin = boss /\ row.policy = policy
      /\ row.state = org[o].state
  BY ZenonT(30), <1>2, <1>4 DEF Org
<1>6. /\ org' \in [Tenants -> Org] /\ org'[o] = row
      /\ \A p \in Tenants \ {o} : org'[p] = org[p]
  BY <1>1, <1>3, <1>5 DEF RowsTypeOK
<1>7. /\ accounts' \in [Accounts -> Account]
      /\ ~x.changes => accounts' = accounts
      /\ x.changes /\ x.admin = NoAccount =>
           /\ a \in Accounts /\ accounts[a].state = "none"
           /\ accounts'[a].state = "there" /\ accounts'[a].mail = x.mail
           /\ \A b \in Accounts \ {a} : accounts'[b] = accounts[b]
           /\ \A p \in Tenants : org[p].admin # a
      /\ x.changes /\ x.admin # NoAccount =>
           /\ x.admin \in Accounts
           /\ accounts'[x.admin].state = accounts[x.admin].state
           /\ accounts'[x.admin].mail = x.mail
           /\ \A b \in Accounts \ {x.admin} : accounts'[b] = accounts[b]
  <2>1. CASE ~x.changes
    BY <2>1, <1>3 DEF Readdressed, NobodyNew, RowsTypeOK
  <2>2. CASE x.changes /\ x.admin = NoAccount
    BY <2>2, <1>1, <1>3, OnboardsMoves DEF Readdressed
  <2>3. CASE x.changes /\ x.admin # NoAccount
    <3>1. x.admin \in Accounts /\ accounts[x.admin] \in Account
      BY <2>3, <1>1 DEF OrgCall, RowsTypeOK
    <3>2. accounts' = [accounts EXCEPT ![x.admin].mail = x.mail, ![x.admin].orgs = @ \cup {o}]
      BY <2>3, <1>3 DEF Readdressed
    <3> DEFINE b == [accounts[x.admin] EXCEPT !.mail = x.mail, !.orgs = @ \cup {o}]
    <3>3. accounts' = [accounts EXCEPT ![x.admin] = b]
      BY <3>1, <3>2 DEF RowsTypeOK, Account
    <3>4. b \in Account /\ b.state = accounts[x.admin].state /\ b.mail = x.mail
      BY <2>3, <3>1, <1>1 DEF Account
    <3> HIDE DEF b
    <3> QED
      BY <2>3, <3>1, <3>3, <3>4 DEF RowsTypeOK
  <2> QED
    BY <2>1, <2>2, <2>3
<1>8. /\ mailed \in SUBSET Tenants /\ ruled \in SUBSET Tenants
      /\ x.changes => mails
      /\ ~mails => mail = org[o].mail /\ boss = org[o].admin
      /\ ~rules => policy = org[o].policy
  BY <1>1, <1>2, WrittenSilent, OrganizationsAssumption DEF Given, Org
<1>9. /\ <<"admin", o>> \notin blurred' =>
           /\ ~(mails /\ "admin" \in x.stale)
           /\ <<"admin", o>> \notin blurred \/ anew
      /\ <<"policy", o>> \notin blurred' =>
           /\ ~(rules /\ "policy" \in x.stale)
           /\ <<"policy", o>> \notin blurred \/ anewRules
      /\ \A p \in Tenants \ {o}, what \in {"admin", "policy"} :
           <<what, p>> \notin blurred' => <<what, p>> \notin blurred
  BY <1>3 DEF Blurs
<1>10. blurred' \subseteq {"admin", "policy"} \X Tenants
  BY <1>1, <1>3 DEF Blurs, RowsTypeOK
<1> HIDE DEF row, mail, policy, mailed, ruled, anew, anewRules, mails, rules
<1>11. AdminsExist' /\ CallsFormed' /\ ReadsCurrent' /\ ClaimsDisjoint'
  <2>1. \A p \in Tenants \ mailed : org'[p].admin = org[p].admin /\ org'[p].mail = org[p].mail
    BY <1>5, <1>6, <1>8 DEF mailed
  <2>2. \A p \in Tenants \ ruled : org'[p].policy = org[p].policy
    BY <1>5, <1>6, <1>8 DEF ruled
  <2>3. \A b \in Accounts : accounts'[b].state = "none" => accounts[b].state = "none"
    BY <1>7
  <2>4. ASSUME NEW p \in Tenants, org'[p].admin \in Accounts
        PROVE  \/ ClaimedBy(org'[p].admin, p)
               \/ /\ p = o /\ accounts[org'[p].admin].state = "none"
                  /\ accounts'[org'[p].admin].state # "none"
    <3>1. CASE p # o \/ ~x.changes
      BY <3>1, <1>5, <1>6 DEF ClaimedBy
    <3>2. CASE p = o /\ x.changes /\ x.admin = NoAccount
      BY <3>2, <1>5, <1>6, <1>7
    <3>3. CASE p = o /\ x.changes /\ x.admin # NoAccount
      BY <3>3, <1>1, <1>5, <1>6 DEF ClaimedBy
    <3> QED
      BY <3>1, <3>2, <3>3
  <2> QED
    BY <1>1, <1>3, <1>8, <2>1, <2>2, <2>3, <2>4, OrgWritten
<1>12. ASSUME NEW p \in Tenants, org'[p].state = "open", <<"admin", p>> \notin blurred'
       PROVE  /\ org'[p].admin \in Accounts => accounts'[org'[p].admin].state \in {"there", "left"}
              /\ org'[p].mail # NoMail =>
                   /\ org'[p].admin \in Accounts
                   /\ accounts'[org'[p].admin].mail = org'[p].mail
  <2>1. CASE p # o
    <3>1. org'[p] = org[p] /\ <<"admin", p>> \notin blurred
      BY <1>6, <1>9, <1>12, <2>1
    <3>2. org[p].admin \in Accounts => accounts'[org[p].admin] = accounts[org[p].admin]
      <4>1. x.changes /\ x.admin # NoAccount => org[p].admin # x.admin
        BY <1>1, <1>7, <2>1 DEF ClaimsDisjoint, ClaimedBy
      <4> QED
        BY <4>1, <1>7
    <3> QED
      BY <1>12, <3>1, <3>2 DEF AdminsSound
  <2>2. CASE p = o /\ ~x.changes
    <3>1. <<"admin", o>> \notin blurred
      BY <1>9, <1>12, <2>2 DEF anew
    <3>2. mail \in {NoMail, org[o].mail}
      <4>1. CASE mails
        <5>1. "admin" \notin x.stale
          BY <4>1, <1>9, <1>12, <2>2
        <5> QED
          BY <5>1, <4>1, <1>1, <2>2 DEF Knows, mail, Given, mails
      <4> QED
        BY <4>1, <1>8
    <3>3. org[o].state = "open" /\ accounts' = accounts
      BY <1>5, <1>6, <1>7, <1>12, <2>2
    <3> QED
      BY <1>5, <1>6, <2>2, <3>1, <3>2, <3>3 DEF AdminsSound
  <2>3. CASE p = o /\ x.changes
    <3>1. mail = x.mail
      BY <1>1, <2>3, OrganizationsAssumption DEF mail, Given
    <3>2. CASE x.admin = NoAccount
      BY <3>1, <3>2, <2>3, <1>5, <1>6, <1>7
    <3>3. CASE x.admin # NoAccount
      <4>1. "admin" \notin x.stale /\ x.admin = org[o].admin
        BY <1>1, <1>8, <1>9, <1>12, <2>3 DEF Knows
      <4>2. Remains(x.admin)
        <5>1. CASE anew
          BY <5>1, <3>3 DEF anew
        <5>2. CASE <<"admin", o>> \notin blurred
          BY <5>2, <4>1, <1>5, <1>6, <1>7, <1>12, <2>3, <3>3 DEF AdminsSound
        <5> QED
          BY <5>1, <5>2, <1>9, <1>12, <2>3
      <4> QED
        BY <4>2, <3>1, <3>3, <2>3, <1>5, <1>6, <1>7
    <3> QED
      BY <3>2, <3>3
  <2> QED
    BY <2>1, <2>2, <2>3
<1>13. ASSUME NEW p \in Tenants, <<"policy", p>> \notin blurred'
       PROVE  Coherent(org'[p].policy)
  <2>1. CASE p # o
    BY <1>6, <1>9, <1>13, <2>1 DEF PolicyCoherent
  <2>2. CASE p = o /\ ~rules
    <3>1. <<"policy", o>> \notin blurred
      BY <1>9, <1>13, <2>2, SilentType DEF anewRules, rules, Silent
    <3> QED
      BY <1>1, <1>5, <1>6, <1>8, <2>2, <3>1 DEF PolicyCoherent
  <2>3. CASE p = o /\ rules
    <3>1. "policy" \notin x.stale /\ x.policy = Resolve(x.patch, org[o].policy)
      BY <1>1, <1>9, <1>13, <2>3 DEF Knows
    <3>2. Coherent(org[o].policy) \/ x.patch.teacherOnly # Unsaid
      BY <1>1, <1>9, <1>13, <2>3 DEF PolicyCoherent, anewRules
    <3>3. x.patch \in Patch /\ org[o].policy \in Policy
      BY <1>1, <1>2 DEF OrgCall, Org
    <3> QED
      BY <1>5, <1>6, <2>3, <3>1, <3>2, <3>3, WrittenCoherent DEF policy
  <2> QED
    BY <2>1, <2>2, <2>3
<1>14. orgCall' \in [OrgCalls -> OrgCall]
  BY <1>3, <1>8, OrgEndsMoves
<1>15. RowsTypeOK'
  BY <1>6, <1>7, <1>10, <1>14 DEF RowsTypeOK
<1> QED
  BY <1>11, <1>12, <1>13, <1>15 DEF AdminsSound, PolicyCoherent

LEMMA OrganizationsInvariant == OrganizationsSpec => []OrganizationsInv
<1>1. OrganizationsInv /\ [OrganizationsNext]_orgVars => OrganizationsInv'
  <2> SUFFICES ASSUME OrganizationsInv, [OrganizationsNext]_orgVars PROVE OrganizationsInv'
    OBVIOUS
  <2>1. CASE OrgStep
    BY <2>1, AskCreateOrgStep, AskUpdateOrgStep, CreateOrgStep, UpdateOrgStep, OrgCallFailsStep
       DEF OrgStep
  <2>2. CASE LeaveStep
    BY <2>2, AskDeleteAccountStep, AskArchiveOrgStep, DeleteAccountStep, ArchiveOrgStep
       DEF LeaveStep
  <2>3. CASE AccountStep
    BY <2>3, CreateAccountStep, MoveAccountStep, DeleteMeStep DEF AccountStep
  <2>4. CASE UNCHANGED orgVars
    BY <2>4 DEF orgVars, OrganizationsInv, RowsTypeOK, AdminsExist, CallsFormed, Formed,
                ReadsCurrent, Knows, ClaimsDisjoint, ClaimedBy, AdminsSound, PolicyCoherent
  <2> QED
    BY <2>1, <2>2, <2>3, <2>4 DEF OrganizationsNext
<1> QED
  BY <1>1, OrganizationsInitInv, PTL DEF OrganizationsSpec

\* Only organizations are suspended
LEMMA SuspendedTyped == OrganizationsSpec => [](suspended \subseteq Tenants)
<1>1. OrganizationsInit => suspended \subseteq Tenants
  BY DEF OrganizationsInit
<1>2. OrganizationsInv /\ suspended \subseteq Tenants /\ [OrganizationsNext]_orgVars
        => (suspended \subseteq Tenants)'
  <2> SUFFICES ASSUME OrganizationsInv, suspended \subseteq Tenants, [OrganizationsNext]_orgVars
               PROVE  suspended' \subseteq Tenants
    OBVIOUS
  <2>1. \A c \in OrgCalls : orgCall[c].phase \in {"updating", "archiving"} =>
                            orgCall[c].org \in Tenants
    BY DEF OrganizationsInv, CallsFormed, Formed
  <2>2. ASSUME NEW c \in OrgCalls, NEW a, CreateOrg(c, a) \/ UpdateOrg(c, a)
        PROVE  suspended' \subseteq Tenants
    <3>1. CASE CreateOrg(c, a)
      BY <3>1 DEF CreateOrg
    <3>2. CASE UpdateOrg(c, a)
      <4>1. orgCall[c].org \in Tenants /\ StatusOf(orgCall[c].org)
        BY <2>1, <3>2 DEF UpdateOrg
      <4> QED
        BY <4>1 DEF StatusOf
    <3> QED
      BY <2>2, <3>1, <3>2
  <2>3. ASSUME NEW c \in OrgCalls, DeleteAccount(c) \/ ArchiveOrg(c)
        PROVE  suspended' \subseteq Tenants
    <3>1. CASE DeleteAccount(c)
      BY <3>1 DEF DeleteAccount
    <3>2. CASE ArchiveOrg(c)
      <4>1. orgCall[c].org \in Tenants /\ suspended' = suspended \cup {orgCall[c].org}
        BY <2>1, <3>2 DEF ArchiveOrg
      <4> QED
        BY <4>1
    <3> QED
      BY <2>3, <3>1, <3>2
  <2>5. CASE OrgStep
    BY <2>2, <2>5 DEF OrgStep, AskCreateOrg, AskUpdateOrg, OrgCallFails, OrgBegins
  <2>6. CASE LeaveStep
    BY <2>3, <2>6 DEF LeaveStep, AskDeleteAccount, AskArchiveOrg, OrgBegins
  <2>4. CASE AccountStep \/ UNCHANGED orgVars
    BY <2>4 DEF AccountStep, CreateAccount, MoveAccount, DeleteMe, orgVars
  <2> QED
    BY <2>4, <2>5, <2>6 DEF OrganizationsNext
<1> QED
  BY <1>1, <1>2, OrganizationsInvariant, PTL DEF OrganizationsSpec

\* The support e-mail of an organization is the address of its primary
\* administrator, whom no administrator has deleted, though he may have deleted
\* himself, but for what was written from stale reads (createOrganization,
\* updateOrganization, deleteUser, deleteOrganization, deleteMe).
THEOREM AdminStays == OrganizationsSpec => []AdminIsThere
<1>1. OrganizationsInv => AdminIsThere
  BY DEF OrganizationsInv, AdminsSound, AdminIsThere
<1> QED
  BY <1>1, OrganizationsInvariant, PTL

\* Whatever a sequence of updates says and leaves out, the policy of who may log
\* in is coherent (resolveOrganizationRolePolicy).
THEOREM PoliciesCohere == OrganizationsSpec => []PolicyCoherent
<1>1. OrganizationsInv => PolicyCoherent
  BY DEF OrganizationsInv
<1> QED
  BY <1>1, OrganizationsInvariant, PTL

-----------------------------------------------------------------------------
(***************************************************************************)
(* Cloud storage.                                                          *)
(***************************************************************************)
HIDE OrganizationsAssumption
USE StorageAssumption

\* A request at work is for a provider; one that has read the organization's
\* list knows it, and one that renews the organization's tokens has those of the
\* account, unless it is stale
CallKnows(c) == LET x == storageCall[c] IN
  /\ x.phase \in {"exchanging", "enabling", "writing", "refreshing"} => x.provider \in Providers
  /\ x.phase = "writing" /\ ~x.stale => x.seen.enabled = office.enabled
  /\ x.phase = "refreshing" /\ x.shared /\ ~x.stale /\ <<"tokens", x.provider>> \notin muddled
       => x.tokens.grant = account[x.provider]

StorageInv ==
  /\ StorageTypeOK
  /\ \A c \in StorageCalls : CallKnows(c)
  /\ TokensOfAccount
  /\ ConnectedIsEnabled

LEMMA TokensTyped ==
  /\ NoTokens \in Tokens /\ NoTokens.grant = NoGrant
  /\ \A x \in Tokens : Renewed(x) \in Tokens /\ Renewed(x).grant = x.grant
  /\ Quiet \in StorageCall /\ Quiet.phase = "idle"
<1>1. NoTokens \in Tokens /\ NoTokens.grant = NoGrant
  BY DEF NoTokens, Tokens
<1>2. \A x \in Tokens : Renewed(x) \in Tokens /\ Renewed(x).grant = x.grant
  BY DEF Tokens, Renewed
<1>3. NoChoice \in Choice
  BY DEF NoChoice, Choice
<1> HIDE DEF NoTokens, NoChoice
<1>4. Quiet \in StorageCall /\ Quiet.phase = "idle"
  BY <1>1, <1>3 DEF Quiet, StorageCall, Status, NoTokens
<1> QED
  BY <1>1, <1>2, <1>4

LEMMA StorageInitInv == StorageInit => StorageInv
<1> SUFFICES ASSUME StorageInit PROVE StorageInv
  OBVIOUS
<1>1. \A p \in Providers : /\ conn[p].row = FALSE /\ conn[p].status = "NOT_CONFIGURED"
                           /\ conn[p].tokens = NoTokens
  BY DEF StorageInit, NoConn
<1>2. conn \in [Providers -> [row : BOOLEAN, status : Status, tokens : Tokens]]
  BY TokensTyped DEF StorageInit, NoConn, Status
<1>3. own \in [Personal -> Tokens]
  BY TokensTyped DEF StorageInit, Tokens
<1>4. office \in Office
  BY DEF StorageInit, Office, NewOffice, Status
<1>5. StorageTypeOK
  BY <1>2, <1>3, <1>4, TokensTyped DEF StorageInit, StorageTypeOK
<1>6. \A c \in StorageCalls : CallKnows(c)
  BY TokensTyped DEF StorageInit, CallKnows
<1> QED
  BY <1>1, <1>5, <1>6 DEF StorageInv, TokensOfAccount, ConnectedIsEnabled

-----------------------------------------------------------------------------
\* Requests move while the rows stay as they are
LEMMA RowsStay ==
  ASSUME StorageInv, UNCHANGED <<conn, account, muddled>>,
         office'.enabled = office.enabled, office' \in Office,
         own' \in [Personal -> Tokens], config' \subseteq Scopes \X Providers,
         link' \subseteq Providers,
         storageCall' \in [StorageCalls -> StorageCall],
         \A d \in StorageCalls : CallKnows(d)',
         \A p \in Providers : Storing(p) => Storing(p)'
  PROVE  StorageInv'
<1> QED
  BY DEF StorageInv, StorageTypeOK, TokensOfAccount, ConnectedIsEnabled

LEMMA OthersKnow ==
  ASSUME StorageInv, NEW d \in StorageCalls, storageCall'[d] = storageCall[d],
         UNCHANGED <<account, muddled>>, office'.enabled = office.enabled
  PROVE  CallKnows(d)'
<1> QED
  BY DEF StorageInv, CallKnows

LEMMA CallTyped ==
  ASSUME StorageInv, NEW c \in StorageCalls
  PROVE  /\ storageCall[c] \in StorageCall /\ CallKnows(c)
         /\ storageCall[c].tokens \in Tokens /\ storageCall[c].seen \in Choice
         /\ storageCall[c].status \in Status /\ storageCall[c].stale \in BOOLEAN
<1> QED
  BY DEF StorageInv, StorageTypeOK, StorageCall

LEMMA CredentialSteps ==
  ASSUME StorageInv, NEW p \in Providers,
         \/ AskLink(p) \/ LinkExpires(p)
         \/ \E s \in Scopes : SetCredential(s, p) \/ DeleteCredential(s, p)
  PROVE  StorageInv'
<1>1. /\ UNCHANGED <<office, conn, own, storageCall, account, muddled>>
      /\ config' \subseteq Scopes \X Providers /\ link' \subseteq Providers
  <2>1. config \subseteq Scopes \X Providers /\ link \subseteq Providers
    BY DEF StorageInv, StorageTypeOK
  <2>2. CASE AskLink(p) \/ LinkExpires(p)
    BY <2>1, <2>2 DEF AskLink, LinkExpires
  <2>3. ASSUME NEW s \in Scopes, SetCredential(s, p) \/ DeleteCredential(s, p)
        PROVE  /\ UNCHANGED <<office, conn, own, link, storageCall, account, muddled>>
               /\ config' \subseteq config \cup {<<s, p>>}
    BY <2>3 DEF SetCredential, DeleteCredential
  <2>4. \A s \in Scopes : config \cup {<<s, p>>} \subseteq Scopes \X Providers
    BY <2>1
  <2> QED
    BY <2>1, <2>2, <2>3, <2>4
<1>2. \A d \in StorageCalls : CallKnows(d)'
  BY <1>1, OthersKnow
<1>3. /\ office' \in Office /\ own' \in [Personal -> Tokens]
      /\ storageCall' \in [StorageCalls -> StorageCall]
  BY <1>1 DEF StorageInv, StorageTypeOK
<1> QED
  BY <1>1, <1>2, <1>3, RowsStay DEF Storing

\* A request that only reads
LEMMA CallMoves ==
  ASSUME StorageInv, NEW c \in StorageCalls, NEW x \in StorageCall, Moves(c, x),
         UNCHANGED <<office, conn, own, config, link, account, muddled>>,
         x.phase # "idle" => x.provider \in Providers \/ x.phase = "editing",
         x.phase = "writing" /\ ~x.stale => x.seen.enabled = office.enabled,
         x.phase = "refreshing" /\ x.shared /\ ~x.stale /\ <<"tokens", x.provider>> \notin muddled
           => x.tokens.grant = account[x.provider],
         storageCall[c].phase \in {"enabling", "writing"} =>
           x.phase \in {"enabling", "writing"} /\ x.provider = storageCall[c].provider
  PROVE  StorageInv'
<1>1. storageCall \in [StorageCalls -> StorageCall]
  BY DEF StorageInv, StorageTypeOK
<1>2. /\ storageCall' \in [StorageCalls -> StorageCall] /\ storageCall'[c] = x
      /\ \A d \in StorageCalls \ {c} : storageCall'[d] = storageCall[d]
  BY <1>1 DEF Moves
<1>3. ASSUME NEW d \in StorageCalls PROVE CallKnows(d)'
  <2>1. CASE d = c
    BY <1>2, <2>1 DEF CallKnows
  <2>2. CASE d # c
    BY <1>2, <2>2, OthersKnow
  <2> QED
    BY <2>1, <2>2
<1>4. \A p \in Providers : Storing(p) => Storing(p)'
  BY <1>2 DEF Storing
<1>5. /\ office' \in Office /\ own' \in [Personal -> Tokens]
      /\ config' \subseteq Scopes \X Providers /\ link' \subseteq Providers
  BY DEF StorageInv, StorageTypeOK
<1> QED
  BY <1>2, <1>3, <1>4, <1>5, RowsStay

LEMMA ReadSteps ==
  ASSUME StorageInv, NEW c \in StorageCalls,
         \/ \E p \in Providers, g \in Grants, b \in BOOLEAN : Callback(c, p, g, b)
         \/ ReadOffice(c) \/ ReadOrganization(c)
         \/ \E p \in Providers : StartRefresh(c, p)
  PROVE  StorageInv'
<1>1. /\ storageCall[c] \in StorageCall /\ CallKnows(c)
      /\ Quiet \in StorageCall /\ Chosen \in Choice /\ Chosen.enabled = office.enabled
  BY CallTyped, TokensTyped DEF StorageInv, StorageTypeOK, Chosen, Choice, Office
<1>2. ASSUME NEW p \in Providers, NEW g \in Grants, NEW b \in BOOLEAN, Callback(c, p, g, b)
      PROVE  StorageInv'
  <2> DEFINE tk == [grant |-> g, fresh |-> TRUE, renewable |-> b]
             x == [Quiet EXCEPT !.phase = "exchanging", !.provider = p,
                                !.status = "CONNECTED", !.tokens = tk]
  <2>1. tk \in Tokens
    BY DEF Tokens
  <2> HIDE DEF tk
  <2>2. x \in StorageCall /\ x.phase = "exchanging" /\ x.provider = p
    BY <1>1, <2>1 DEF StorageCall, Status
  <2>3. Moves(c, x) /\ storageCall[c].phase = "idle"
        /\ UNCHANGED <<office, conn, own, config, link, account, muddled>>
    BY <1>2 DEF Callback, InPhase, tk
  <2> HIDE DEF x
  <2> QED
    BY <2>2, <2>3, CallMoves
<1>3. CASE ReadOffice(c)
  <2> DEFINE x == [storageCall[c] EXCEPT !.phase = "writing", !.seen = Chosen]
  <2>1. /\ x \in StorageCall /\ x.phase = "writing" /\ x.seen = Chosen
        /\ x.provider = storageCall[c].provider
    BY <1>1 DEF StorageCall
  <2>2. Moves(c, x) /\ storageCall[c].phase = "enabling" /\ storageCall[c].provider \in Providers
        /\ UNCHANGED <<office, conn, own, config, link, account, muddled>>
    BY <1>1, <1>3 DEF ReadOffice, InPhase, CallKnows
  <2> HIDE DEF x
  <2> QED
    BY <1>1, <2>1, <2>2, CallMoves
<1>4. CASE ReadOrganization(c)
  <2> DEFINE x == [Quiet EXCEPT !.phase = "editing", !.seen = Chosen]
  <2>1. x \in StorageCall /\ x.phase = "editing"
    BY <1>1 DEF StorageCall
  <2>2. Moves(c, x) /\ storageCall[c].phase = "idle"
        /\ UNCHANGED <<office, conn, own, config, link, account, muddled>>
    BY <1>4 DEF ReadOrganization, InPhase
  <2> HIDE DEF x
  <2> QED
    BY <2>1, <2>2, CallMoves
<1>5. ASSUME NEW p \in Providers, StartRefresh(c, p)
      PROVE  StorageInv'
  <2> DEFINE x == [Quiet EXCEPT !.phase = "refreshing", !.provider = p,
                                !.tokens = Found(p), !.shared = conn[p].row]
  <2>1. conn[p] \in [row : BOOLEAN, status : Status, tokens : Tokens]
    BY DEF StorageInv, StorageTypeOK
  <2>2. p \in Personal => own[p] \in Tokens
    BY DEF StorageInv, StorageTypeOK
  <2>3. Found(p) \in Tokens
    BY <2>1, <2>2, TokensTyped DEF Found
  <2>4. /\ x \in StorageCall /\ x.phase = "refreshing" /\ x.provider = p
        /\ x.tokens = Found(p) /\ x.shared = conn[p].row
    BY <1>1, <2>1, <2>3 DEF StorageCall
  <2>5. conn[p].row /\ <<"tokens", p>> \notin muddled => Found(p).grant = account[p]
    BY <1>5, TokensTyped DEF Found, StartRefresh, StorageInv, TokensOfAccount
  <2>6. Moves(c, x) /\ storageCall[c].phase = "idle"
        /\ UNCHANGED <<office, conn, own, config, link, account, muddled>>
    BY <1>5 DEF StartRefresh, InPhase
  <2> HIDE DEF x
  <2> QED
    BY <2>4, <2>5, <2>6, CallMoves
<1> QED
  BY <1>2, <1>3, <1>4, <1>5

\* The lists that a request has not written, or written from a stale read
LEMMA CallFailsStep ==
  ASSUME StorageInv, NEW c \in StorageCalls, StorageCallFails(c)
  PROVE  StorageInv'
<1>1. /\ storageCall[c] \in StorageCall /\ CallKnows(c) /\ Quiet \in StorageCall
      /\ Quiet.phase = "idle"
  BY CallTyped, TokensTyped
<1>2. storageCall \in [StorageCalls -> StorageCall]
  BY DEF StorageInv, StorageTypeOK
<1>3. /\ storageCall' \in [StorageCalls -> StorageCall] /\ storageCall'[c] = Quiet
      /\ \A d \in StorageCalls \ {c} : storageCall'[d] = storageCall[d]
      /\ UNCHANGED <<office, conn, own, config, link, account>>
  BY <1>1, <1>2 DEF StorageCallFails, Moves
<1>4. /\ muddled \subseteq muddled' /\ muddled' \subseteq ({"tokens", "list"} \X Providers)
      /\ \A p \in Providers : <<"tokens", p>> \in muddled' => <<"tokens", p>> \in muddled
      /\ storageCall[c].phase \in {"enabling", "writing"} =>
           <<"list", storageCall[c].provider>> \in muddled'
  BY <1>1 DEF StorageCallFails, StorageInv, StorageTypeOK, CallKnows
<1>5. ASSUME NEW d \in StorageCalls PROVE CallKnows(d)'
  <2>1. CallKnows(d)
    BY DEF StorageInv
  <2> QED
    BY <1>3, <1>4, <1>1, <2>1 DEF CallKnows
<1>6. TokensOfAccount'
  BY <1>3, <1>4 DEF StorageInv, TokensOfAccount
<1>7. ConnectedIsEnabled'
  <2> SUFFICES ASSUME NEW p \in Providers, conn[p].status = "CONNECTED", ~Storing(p)',
                      <<"list", p>> \notin muddled'
               PROVE  p \in office.enabled
    BY <1>3 DEF ConnectedIsEnabled
  <2>1. ~Storing(p)
    BY <1>3, <1>4 DEF Storing
  <2> QED
    BY <1>4, <2>1 DEF StorageInv, ConnectedIsEnabled
<1> QED
  BY <1>3, <1>4, <1>5, <1>6, <1>7 DEF StorageInv, StorageTypeOK

-----------------------------------------------------------------------------
\* The rows' types, apart from what a step does to them
LEMMA ConnTyped ==
  ASSUME StorageInv
  PROVE  /\ conn \in [Providers -> [row : BOOLEAN, status : Status, tokens : Tokens]]
         /\ storageCall \in [StorageCalls -> StorageCall]
         /\ account \in [Providers -> Grants \cup {NoGrant}]
         /\ own \in [Personal -> Tokens]
         /\ config \subseteq Scopes \X Providers /\ link \subseteq Providers
         /\ muddled \subseteq ({"tokens", "list"} \X Providers)
         /\ office \in Office
<1> QED
  BY DEF StorageInv, StorageTypeOK

LEMMA AdminUpsertsStep ==
  ASSUME StorageInv, NEW c \in StorageCalls, NEW p \in Providers, NEW s \in Status,
         NEW clear \in BOOLEAN, AdminUpserts(c, p, s, clear)
  PROVE  StorageInv'
<1> DEFINE tk == IF clear THEN NoTokens ELSE conn[p].tokens
           row == [row |-> TRUE, status |-> s, tokens |-> tk]
           x == [Quiet EXCEPT !.phase = "enabling", !.provider = p, !.status = s]
<1>1. /\ conn[p].tokens \in Tokens /\ tk \in Tokens
  BY ConnTyped, TokensTyped
<1> HIDE DEF tk
<1>2. /\ row \in [row : BOOLEAN, status : Status, tokens : Tokens]
      /\ row.tokens = tk
  BY <1>1
<1>3. x \in StorageCall /\ x.phase = "enabling" /\ x.provider = p
  BY TokensTyped DEF StorageCall
<1>4. /\ storageCall[c].phase = "idle"
      /\ UNCHANGED <<office, own, config, link, account, muddled>>
      /\ conn' = [conn EXCEPT ![p] = row] /\ storageCall' = [storageCall EXCEPT ![c] = x]
  BY DEF AdminUpserts, InPhase, Moves, tk
<1> HIDE DEF row, x
<1>5. /\ conn' \in [Providers -> [row : BOOLEAN, status : Status, tokens : Tokens]]
      /\ conn'[p] = row /\ \A q \in Providers \ {p} : conn'[q] = conn[q]
  BY <1>2, <1>4, ConnTyped
<1>6. /\ storageCall' \in [StorageCalls -> StorageCall] /\ storageCall'[c] = x
      /\ \A d \in StorageCalls \ {c} : storageCall'[d] = storageCall[d]
  BY <1>3, <1>4, ConnTyped
<1>7. \A d \in StorageCalls : CallKnows(d)'
  BY <1>3, <1>4, <1>6, OthersKnow DEF CallKnows
<1>8. TokensOfAccount'
  BY <1>2, <1>4, <1>5 DEF StorageInv, TokensOfAccount, tk
<1>9. Storing(p)' /\ \A q \in Providers : Storing(q) => Storing(q)'
  BY <1>3, <1>4, <1>6 DEF Storing
<1>10. ConnectedIsEnabled'
  BY <1>4, <1>5, <1>9 DEF StorageInv, ConnectedIsEnabled
<1> QED
  BY <1>4, <1>5, <1>6, <1>7, <1>8, <1>10 DEF StorageInv, StorageTypeOK

LEMMA StoreConnectionStep ==
  ASSUME StorageInv, NEW c \in StorageCalls, StoreConnection(c)
  PROVE  StorageInv'
<1> DEFINE p == storageCall[c].provider
           tk == storageCall[c].tokens
           row == [row |-> TRUE, status |-> "CONNECTED", tokens |-> tk]
           x == [storageCall[c] EXCEPT !.phase = "enabling"]
           other(d) == [storageCall[d] EXCEPT !.stale =
                          @ \/ (InPhase(d, "refreshing") /\ storageCall[d].provider = p)]
<1>1. /\ storageCall[c] \in StorageCall /\ tk \in Tokens /\ p \in Providers
      /\ storageCall[c].phase = "exchanging"
  BY CallTyped DEF StoreConnection, InPhase, CallKnows
<1>2. row \in [row : BOOLEAN, status : Status, tokens : Tokens] /\ row.tokens = tk
  BY <1>1 DEF Status
<1>3. x \in StorageCall /\ x.phase = "enabling" /\ x.provider = p
  BY <1>1 DEF StorageCall
<1>4. /\ UNCHANGED <<office, own, config, link>>
      /\ conn' = [conn EXCEPT ![p] = row]
      /\ account' = [account EXCEPT ![p] = tk.grant]
      /\ muddled' = muddled \ {<<"tokens", p>>}
      /\ storageCall' = [d \in StorageCalls |-> IF d = c THEN x ELSE other(d)]
  BY DEF StoreConnection
<1>5. \A d \in StorageCalls : /\ other(d) \in StorageCall
                              /\ other(d).phase = storageCall[d].phase
                              /\ other(d).provider = storageCall[d].provider
                              /\ other(d).seen = storageCall[d].seen
                              /\ other(d).shared = storageCall[d].shared
                              /\ other(d).tokens = storageCall[d].tokens
                              /\ storageCall[d].stale => other(d).stale
                              /\ storageCall[d].phase = "refreshing"
                                 /\ storageCall[d].provider = p => other(d).stale
  BY CallTyped DEF StorageCall, InPhase
<1> HIDE DEF row, x, other
<1>6. /\ conn' \in [Providers -> [row : BOOLEAN, status : Status, tokens : Tokens]]
      /\ conn'[p] = row /\ \A q \in Providers \ {p} : conn'[q] = conn[q]
  BY <1>1, <1>2, <1>4, ConnTyped
<1>7. /\ storageCall' \in [StorageCalls -> StorageCall] /\ storageCall'[c] = x
      /\ \A d \in StorageCalls \ {c} : storageCall'[d] = other(d)
  BY <1>3, <1>4, <1>5
<1>8. /\ account' \in [Providers -> Grants \cup {NoGrant}]
      /\ account'[p] = tk.grant
      /\ \A q \in Providers \ {p} : account'[q] = account[q]
  BY <1>1, <1>4, ConnTyped DEF Tokens
<1>9. \A q \in Providers \ {p} : <<"tokens", q>> \in muddled <=> <<"tokens", q>> \in muddled'
  BY <1>4
<1>10. ASSUME NEW d \in StorageCalls PROVE CallKnows(d)'
  <2>1. CASE d = c
    BY <1>1, <1>3, <1>7, <2>1 DEF CallKnows
  <2>2. CASE d # c
    <3>1. CallKnows(d) /\ storageCall'[d] = other(d)
      BY <1>7, <2>2, CallTyped
    <3> QED
      BY <1>4, <1>5, <1>8, <1>9, <3>1 DEF CallKnows
  <2> QED
    BY <2>1, <2>2
<1>11. TokensOfAccount'
  BY <1>2, <1>6, <1>8, <1>9 DEF StorageInv, TokensOfAccount
<1>12. \A q \in Providers : q = p \/ Storing(q) => Storing(q)'
  BY <1>1, <1>3, <1>5, <1>7 DEF Storing
<1>13. ConnectedIsEnabled'
  <2> SUFFICES ASSUME NEW q \in Providers, conn'[q].status = "CONNECTED", ~Storing(q)',
                      <<"list", q>> \notin muddled'
               PROVE  q \in office.enabled
    BY <1>4 DEF ConnectedIsEnabled
  <2>1. q # p /\ ~Storing(q)
    BY <1>12
  <2>2. <<"list", q>> \notin muddled
    BY <1>4
  <2> QED
    BY <1>6, <2>1, <2>2 DEF StorageInv, ConnectedIsEnabled
<1>14. muddled' \subseteq ({"tokens", "list"} \X Providers)
  BY <1>4, ConnTyped
<1> QED
  BY <1>4, <1>6, <1>7, <1>8, <1>10, <1>11, <1>13, <1>14, ConnTyped DEF StorageInv, StorageTypeOK

\* What a write of the list leaves in the other requests
LEMMA WritesOthers ==
  ASSUME StorageInv, NEW c \in StorageCalls, Writes(c, ListHolders)
  PROVE  /\ storageCall' \in [StorageCalls -> StorageCall]
         /\ storageCall'[c] = Quiet
         /\ \A d \in StorageCalls \ {c} :
              /\ storageCall'[d].phase = storageCall[d].phase
              /\ storageCall'[d].provider = storageCall[d].provider
              /\ storageCall'[d].shared = storageCall[d].shared
              /\ storageCall'[d].tokens = storageCall[d].tokens
              /\ storageCall[d].stale => storageCall'[d].stale
              /\ storageCall[d].phase = "writing" => storageCall'[d].stale
<1> DEFINE other(d) == [storageCall[d] EXCEPT !.stale = @ \/ d \in ListHolders]
<1>1. storageCall' = [d \in StorageCalls |-> IF d = c THEN Quiet ELSE other(d)]
  BY DEF Writes
<1>2. ASSUME NEW d \in StorageCalls
      PROVE  /\ other(d) \in StorageCall
             /\ other(d).phase = storageCall[d].phase
             /\ other(d).provider = storageCall[d].provider
             /\ other(d).shared = storageCall[d].shared
             /\ other(d).tokens = storageCall[d].tokens
             /\ storageCall[d].stale => other(d).stale
             /\ storageCall[d].phase = "writing" => other(d).stale
  <2>1. (d \in ListHolders) \in BOOLEAN /\ (storageCall[d].phase = "writing" => d \in ListHolders)
    BY DEF ListHolders
  <2> QED
    BY <2>1, CallTyped DEF StorageCall
<1> HIDE DEF other
<1> QED
  BY <1>1, <1>2, TokensTyped

LEMMA WriteOfficeStep ==
  ASSUME StorageInv, NEW c \in StorageCalls, WriteOffice(c)
  PROVE  StorageInv'
<1> DEFINE x == storageCall[c]
           p == x.provider
           first == IF x.seen.main = NoProvider THEN x.provider ELSE x.seen.main
<1>1. /\ x \in StorageCall /\ CallKnows(c) /\ x.phase = "writing" /\ p \in Providers
      /\ x.seen \in Choice /\ x.status \in Status /\ x.stale \in BOOLEAN
  BY CallTyped DEF WriteOffice, InPhase, CallKnows
<1>2. /\ Writes(c, ListHolders) /\ UNCHANGED <<conn, own, config, link, account>>
      /\ office' = [office EXCEPT
            !.enabled = ProvidersAfter(x.seen, x.provider),
            !.main = first,
            !.status = IF first = x.provider THEN x.status ELSE @]
      /\ muddled' = IF x.stale THEN muddled \cup ({"list"} \X Providers) ELSE muddled
  BY DEF WriteOffice
<1>3. first \in Providers
  BY <1>1 DEF Choice
<1>4. x.seen.enabled \cup {p} \in SUBSET Providers
  BY <1>1 DEF Choice
<1> HIDE DEF first
<1>5. office' \in Office /\ office'.enabled = x.seen.enabled \cup {p}
  BY <1>1, <1>2, <1>3, <1>4, ConnTyped DEF Office, ProvidersAfter
<1>6. /\ muddled \subseteq muddled' /\ muddled' \subseteq ({"tokens", "list"} \X Providers)
      /\ \A q \in Providers : <<"tokens", q>> \in muddled' => <<"tokens", q>> \in muddled
      /\ x.stale => \A q \in Providers : <<"list", q>> \in muddled'
  BY <1>1, <1>2, ConnTyped
<1>7. ASSUME NEW d \in StorageCalls PROVE CallKnows(d)'
  BY <1>2, <1>6, CallTyped, WritesOthers, TokensTyped DEF CallKnows
<1>8. TokensOfAccount'
  BY <1>2, <1>6 DEF StorageInv, TokensOfAccount
<1>9. ASSUME NEW q \in Providers, conn[q].status = "CONNECTED", ~Storing(q)',
             <<"list", q>> \notin muddled'
      PROVE  q \in office'.enabled
  <2>1. CASE q = p
    BY <1>5, <2>1
  <2>2. CASE q # p
    <3>1. ~Storing(q)
      BY <1>2, <1>9, <2>2, WritesOthers DEF Storing
    <3>2. ~x.stale /\ q \in office.enabled
      BY <1>6, <1>9, <3>1 DEF StorageInv, ConnectedIsEnabled
    <3> QED
      BY <1>1, <1>5, <3>2 DEF CallKnows
  <2> QED
    BY <2>1, <2>2
<1>10. ConnectedIsEnabled'
  BY <1>2, <1>9 DEF ConnectedIsEnabled
<1> QED
  BY <1>2, <1>5, <1>6, <1>7, <1>8, <1>10, WritesOthers, ConnTyped DEF StorageInv, StorageTypeOK

LEMMA UpdateStorageStep ==
  ASSUME StorageInv, NEW c \in StorageCalls, NEW given \in SUBSET Providers,
         NEW chosen \in Providers \cup {NoProvider}, NEW said \in Status,
         UpdateStorage(c, given, chosen, said)
  PROVE  StorageInv'
<1> DEFINE old == storageCall[c].seen
           wanted == IF chosen = NoProvider THEN old.main ELSE chosen
           enabled == (given \cup {wanted}) \ {NoProvider}
           status == IF enabled = {} THEN "NOT_CONFIGURED" ELSE said
<1>1. old \in Choice
  BY CallTyped
<1>2. wanted \in Providers \cup {NoProvider} /\ enabled \in SUBSET Providers /\ status \in Status
  BY <1>1 DEF Choice, Status
<1> HIDE DEF wanted, enabled, status
<1>3. PICK main \in MainOf(wanted, enabled) :
        /\ office' = [office EXCEPT !.enabled = enabled, !.main = main, !.status = status]
        /\ conn' = ConnectionsOf(enabled, main, status)
  BY DEF UpdateStorage, wanted, enabled, status
<1>4. /\ Writes(c, ListHolders) /\ UNCHANGED <<own, config, link, account>>
      /\ muddled' = muddled \ {<<"list", p>> : p \in Providers \ enabled}
  BY DEF UpdateStorage, wanted, enabled
<1>5. main \in Providers \cup {NoProvider}
  BY <1>2, <1>3 DEF MainOf
<1>6. office' \in Office /\ office'.enabled = enabled
  BY <1>2, <1>3, <1>5, ConnTyped DEF Office
<1>7. ASSUME NEW p \in Providers
      PROVE  /\ conn'[p] \in [row : BOOLEAN, status : Status, tokens : Tokens]
             /\ conn'[p].tokens \in {conn[p].tokens, NoTokens}
             /\ conn'[p].status = "CONNECTED" => p \in enabled
  <2>1. conn[p] \in [row : BOOLEAN, status : Status, tokens : Tokens]
    BY ConnTyped
  <2>2. /\ NoConn \in [row : BOOLEAN, status : Status, tokens : Tokens]
        /\ NoConn.tokens = NoTokens /\ NoConn.status = "NOT_CONFIGURED"
    BY TokensTyped DEF NoConn, Status
  <2>3. conn'[p] = IF p \notin enabled THEN NoConn
                   ELSE IF conn[p].row THEN conn[p]
                   ELSE [NoConn EXCEPT !.row = TRUE,
                           !.status = IF p = main THEN status ELSE "NOT_CONFIGURED"]
    BY <1>3 DEF ConnectionsOf
  <2>4. (IF p = main THEN status ELSE "NOT_CONFIGURED") \in Status
    BY <1>2 DEF Status
  <2> HIDE DEF NoConn
  <2> QED
    BY <2>1, <2>2, <2>3, <2>4
<1>8. conn' \in [Providers -> [row : BOOLEAN, status : Status, tokens : Tokens]]
  BY <1>3, <1>7 DEF ConnectionsOf
<1>9. /\ muddled' \subseteq ({"tokens", "list"} \X Providers)
      /\ \A q \in Providers : <<"tokens", q>> \in muddled' <=> <<"tokens", q>> \in muddled
  BY <1>4, ConnTyped
<1>10. ASSUME NEW d \in StorageCalls PROVE CallKnows(d)'
  BY <1>4, <1>9, CallTyped, WritesOthers, TokensTyped DEF CallKnows
<1>11. TokensOfAccount'
  BY <1>4, <1>7, <1>9 DEF StorageInv, TokensOfAccount
<1>12. ConnectedIsEnabled'
  BY <1>6, <1>7 DEF ConnectedIsEnabled
<1> QED
  BY <1>4, <1>6, <1>8, <1>9, <1>10, <1>11, <1>12, WritesOthers, ConnTyped
     DEF StorageInv, StorageTypeOK

LEMMA ArchiveOfficeStep ==
  ASSUME StorageInv, ArchiveOffice
  PROVE  StorageInv'
<1> DEFINE other(d) == [storageCall[d] EXCEPT !.stale = storageCall[d].phase # "idle"]
<1>1. /\ office' = [office EXCEPT !.active = FALSE, !.enabled = {}, !.main = NoProvider,
                                  !.status = "NOT_CONFIGURED"]
      /\ conn' = [p \in Providers |-> [NoConn EXCEPT !.row = conn[p].row]]
      /\ storageCall' = [d \in StorageCalls |-> other(d)]
      /\ UNCHANGED <<own, config, link, account, muddled>>
  BY DEF ArchiveOffice
<1>2. office' \in Office
  BY <1>1, ConnTyped DEF Office, Status
<1>3. ASSUME NEW p \in Providers
      PROVE  /\ conn'[p] \in [row : BOOLEAN, status : Status, tokens : Tokens]
             /\ conn'[p].tokens = NoTokens /\ conn'[p].status = "NOT_CONFIGURED"
  BY <1>1, ConnTyped, TokensTyped DEF NoConn, Status
<1>4. ASSUME NEW d \in StorageCalls
      PROVE  /\ other(d) \in StorageCall /\ other(d).phase = storageCall[d].phase
             /\ other(d).provider = storageCall[d].provider
             /\ storageCall[d].phase # "idle" => other(d).stale
  BY CallTyped DEF StorageCall
<1> HIDE DEF other
<1>5. \A d \in StorageCalls : CallKnows(d)'
  BY <1>1, <1>4, CallTyped DEF CallKnows
<1>6. /\ conn' \in [Providers -> [row : BOOLEAN, status : Status, tokens : Tokens]]
      /\ storageCall' \in [StorageCalls -> StorageCall]
  BY <1>1, <1>3, <1>4
<1> QED
  BY <1>1, <1>2, <1>3, <1>5, <1>6, ConnTyped
     DEF StorageInv, StorageTypeOK, TokensOfAccount, ConnectedIsEnabled

LEMMA DisconnectStep ==
  ASSUME StorageInv, NEW p \in Providers, Disconnect(p)
  PROVE  StorageInv'
<1> DEFINE other(d) == [storageCall[d] EXCEPT !.stale =
                          @ \/ (InPhase(d, "refreshing") /\ storageCall[d].provider = p)]
           row == [conn[p] EXCEPT !.status = "NOT_CONFIGURED", !.tokens = NoTokens]
<1>1. /\ conn' = [conn EXCEPT ![p].status = "NOT_CONFIGURED", ![p].tokens = NoTokens]
      /\ storageCall' = [d \in StorageCalls |-> other(d)]
      /\ UNCHANGED <<office, own, config, link, account, muddled>>
  BY DEF Disconnect
<1>2. /\ row \in [row : BOOLEAN, status : Status, tokens : Tokens]
      /\ row.tokens = NoTokens /\ row.status = "NOT_CONFIGURED"
  <2>1. conn[p] \in [row : BOOLEAN, status : Status, tokens : Tokens] /\ NoTokens \in Tokens
    BY ConnTyped, TokensTyped
  <2> HIDE DEF NoTokens
  <2> QED
    BY <2>1 DEF Status
<1>3. conn' = [conn EXCEPT ![p] = row]
  BY <1>1, ConnTyped
<1>4. ASSUME NEW d \in StorageCalls
      PROVE  /\ other(d) \in StorageCall /\ other(d).phase = storageCall[d].phase
             /\ other(d).provider = storageCall[d].provider
             /\ other(d).seen = storageCall[d].seen
             /\ other(d).shared = storageCall[d].shared
             /\ other(d).tokens = storageCall[d].tokens
             /\ storageCall[d].stale => other(d).stale
  BY CallTyped DEF StorageCall, InPhase
<1> HIDE DEF other, row
<1>5. \A d \in StorageCalls : CallKnows(d)'
  BY <1>1, <1>4, CallTyped DEF CallKnows
<1>6. /\ conn' \in [Providers -> [row : BOOLEAN, status : Status, tokens : Tokens]]
      /\ storageCall' \in [StorageCalls -> StorageCall]
      /\ conn'[p] = row /\ \A q \in Providers \ {p} : conn'[q] = conn[q]
  <2>1. conn' \in [Providers -> [row : BOOLEAN, status : Status, tokens : Tokens]]
    BY <1>2, <1>3, ConnTyped
  <2>2. conn'[p] = row /\ \A q \in Providers \ {p} : conn'[q] = conn[q]
    BY <1>3, ConnTyped
  <2>3. storageCall' \in [StorageCalls -> StorageCall]
    BY <1>1, <1>4
  <2> QED
    BY <2>1, <2>2, <2>3
<1>7. \A q \in Providers : Storing(q) => Storing(q)'
  BY <1>1, <1>4 DEF Storing
<1> QED
  BY <1>1, <1>2, <1>5, <1>6, <1>7, ConnTyped
     DEF StorageInv, StorageTypeOK, TokensOfAccount, ConnectedIsEnabled

LEMMA TokenExpiresStep ==
  ASSUME StorageInv, NEW p \in Providers, TokenExpires(p)
  PROVE  StorageInv'
<1>1. \A tk \in Tokens : /\ [tk EXCEPT !.fresh = FALSE] \in Tokens
                         /\ [tk EXCEPT !.fresh = FALSE].grant = tk.grant
  BY DEF Tokens
<1>2. UNCHANGED <<office, config, link, storageCall, account, muddled>>
  BY DEF TokenExpires
<1>3. \A d \in StorageCalls : CallKnows(d)'
  BY <1>2, OthersKnow
<1>4. CASE conn[p].tokens.fresh /\ conn' = [conn EXCEPT ![p].tokens.fresh = FALSE] /\ UNCHANGED own
  <2> DEFINE tk == conn[p].tokens
             row == [conn[p] EXCEPT !.tokens = [tk EXCEPT !.fresh = FALSE]]
  <2>1. /\ conn[p] \in [row : BOOLEAN, status : Status, tokens : Tokens] /\ tk \in Tokens
        /\ [tk EXCEPT !.fresh = FALSE] \in Tokens
        /\ [tk EXCEPT !.fresh = FALSE].grant = tk.grant
    BY <1>1, ConnTyped
  <2>2. /\ row \in [row : BOOLEAN, status : Status, tokens : Tokens]
        /\ row.status = conn[p].status /\ row.tokens.grant = tk.grant
    BY <2>1
  <2>3. conn' = [conn EXCEPT ![p] = row]
    BY <1>4, <2>1
  <2>4. tk # NoTokens
    BY <1>4 DEF NoTokens
  <2> HIDE DEF row
  <2>5. conn' \in [Providers -> [row : BOOLEAN, status : Status, tokens : Tokens]]
    BY <2>2, <2>3, ConnTyped
  <2>6. conn'[p] = row /\ \A q \in Providers \ {p} : conn'[q] = conn[q]
    BY <2>3, ConnTyped
  <2>7. TokensOfAccount'
    BY <1>2, <2>2, <2>4, <2>6 DEF StorageInv, TokensOfAccount
  <2>8. ConnectedIsEnabled'
    BY <1>2, <2>2, <2>6 DEF StorageInv, ConnectedIsEnabled, Storing
  <2> QED
    BY <1>2, <1>3, <1>4, <2>5, <2>7, <2>8, ConnTyped DEF StorageInv, StorageTypeOK
<1>5. CASE p \in Personal /\ own' = [own EXCEPT ![p].fresh = FALSE] /\ UNCHANGED conn
  <2>1. own[p] \in Tokens /\ [own[p] EXCEPT !.fresh = FALSE] \in Tokens
    BY <1>1, <1>5, ConnTyped
  <2>2. own' \in [Personal -> Tokens]
    BY <1>5, <2>1, ConnTyped
  <2> QED
    BY <1>2, <1>3, <1>5, <2>2, RowsStay, ConnTyped DEF Storing
<1> QED
  BY <1>4, <1>5 DEF TokenExpires

LEMMA StoreRefreshedStep ==
  ASSUME StorageInv, NEW c \in StorageCalls, StoreRefreshed(c)
  PROVE  StorageInv'
<1> DEFINE x == storageCall[c]
           p == x.provider
           tk == Renewed(x.tokens)
           row == [conn[p] EXCEPT !.tokens = tk]
<1>1. /\ x \in StorageCall /\ CallKnows(c) /\ x.phase = "refreshing" /\ p \in Providers
      /\ x.shared \in BOOLEAN /\ x.stale \in BOOLEAN
      /\ tk \in Tokens /\ tk.grant = x.tokens.grant
  BY CallTyped, TokensTyped DEF StoreRefreshed, InPhase, CallKnows, StorageCall
<1>2. /\ UNCHANGED <<office, config, link, account>>
      /\ storageCall' = [storageCall EXCEPT ![c] = Quiet]
  BY DEF StoreRefreshed, Moves
<1> HIDE DEF tk
<1>3. /\ storageCall' \in [StorageCalls -> StorageCall] /\ storageCall'[c] = Quiet
      /\ \A d \in StorageCalls \ {c} : storageCall'[d] = storageCall[d]
  BY <1>2, TokensTyped, ConnTyped
<1>4. \A q \in Providers : Storing(q) => Storing(q)'
  BY <1>1, <1>3 DEF Storing
<1>5. ASSUME muddled \subseteq muddled', NEW d \in StorageCalls PROVE CallKnows(d)'
  <2>1. CASE d = c
    BY <1>3, <2>1, TokensTyped DEF CallKnows
  <2>2. CASE d # c
    <3>1. CallKnows(d) /\ storageCall'[d] = storageCall[d]
      BY <1>3, <2>2, CallTyped
    <3> QED
      BY <1>2, <1>5, <3>1 DEF CallKnows
  <2> QED
    BY <2>1, <2>2
<1>6. CASE WritesShared(x)
  <2>1. /\ x.shared /\ UNCHANGED own /\ conn' = [conn EXCEPT ![p].tokens = tk]
        /\ muddled' = IF x.stale THEN muddled \cup {<<"tokens", p>>} ELSE muddled
    BY <1>6 DEF StoreRefreshed, WritesShared, tk
  <2>2. conn[p] \in [row : BOOLEAN, status : Status, tokens : Tokens]
    BY <1>1, ConnTyped
  <2>3. /\ row \in [row : BOOLEAN, status : Status, tokens : Tokens]
        /\ row.tokens = tk /\ row.status = conn[p].status
    BY <1>1, <2>2
  <2>4. conn' = [conn EXCEPT ![p] = row]
    BY <1>1, <2>1, <2>2
  <2> HIDE DEF row
  <2>5. conn' \in [Providers -> [row : BOOLEAN, status : Status, tokens : Tokens]]
    BY <2>3, <2>4, ConnTyped
  <2>6. conn'[p] = row /\ \A q \in Providers \ {p} : conn'[q] = conn[q]
    BY <1>1, <2>4, ConnTyped
  <2>7. /\ muddled \subseteq muddled' /\ muddled' \subseteq ({"tokens", "list"} \X Providers)
        /\ x.stale => <<"tokens", p>> \in muddled'
        /\ \A q \in Providers : <<"list", q>> \in muddled' <=> <<"list", q>> \in muddled
    BY <1>1, <2>1, ConnTyped
  <2>8. TokensOfAccount'
    <3> SUFFICES ASSUME NEW q \in Providers, conn'[q].tokens # NoTokens,
                        <<"tokens", q>> \notin muddled'
                 PROVE  conn'[q].tokens.grant = account[q]
      BY <1>2 DEF TokensOfAccount
    <3>1. CASE q # p
      BY <2>6, <2>7, <3>1 DEF StorageInv, TokensOfAccount
    <3>2. CASE q = p
      <4>1. ~x.stale /\ <<"tokens", p>> \notin muddled
        BY <2>7, <3>2
      <4> QED
        BY <1>1, <2>1, <2>3, <2>6, <3>2, <4>1 DEF CallKnows
    <3> QED
      BY <3>1, <3>2
  <2>9. ConnectedIsEnabled'
    BY <1>2, <1>4, <2>3, <2>6, <2>7 DEF StorageInv, ConnectedIsEnabled
  <2> QED
    BY <1>2, <1>3, <1>5, <2>1, <2>5, <2>7, <2>8, <2>9, ConnTyped DEF StorageInv, StorageTypeOK
<1>7. CASE ~WritesShared(x)
  <2>1. /\ UNCHANGED <<conn, muddled>>
        /\ own' = IF x.shared \/ p \notin Personal THEN own ELSE [own EXCEPT ![p] = tk]
    BY <1>7 DEF StoreRefreshed, tk
  <2>2. own' \in [Personal -> Tokens]
    BY <1>1, <2>1, ConnTyped
  <2> QED
    BY <1>2, <1>3, <1>4, <1>5, <2>1, <2>2, RowsStay, ConnTyped
<1> QED
  BY <1>6, <1>7

LEMMA StorageInvariant == StorageSpec => []StorageInv
<1>1. StorageInv /\ [StorageNext]_storageVars => StorageInv'
  <2> SUFFICES ASSUME StorageInv, [StorageNext]_storageVars PROVE StorageInv'
    OBVIOUS
  <2>1. CASE ConnectStep
    BY <2>1, CredentialSteps, ReadSteps, StoreConnectionStep, WriteOfficeStep, CallFailsStep
       DEF ConnectStep
  <2>2. CASE AdminStep
    BY <2>2, ArchiveOfficeStep, CredentialSteps, ReadSteps, AdminUpsertsStep, UpdateStorageStep
       DEF AdminStep
  <2>3. CASE TokenStep
    BY <2>3, DisconnectStep, TokenExpiresStep, StoreRefreshedStep, ReadSteps DEF TokenStep
  <2>4. CASE UNCHANGED storageVars
    BY <2>4 DEF storageVars, StorageInv, StorageTypeOK, CallKnows, TokensOfAccount,
                ConnectedIsEnabled, Storing
  <2> QED
    BY <2>1, <2>2, <2>3, <2>4 DEF StorageNext
<1> QED
  BY <1>1, StorageInitInv, PTL DEF StorageSpec

\* The tokens of a connection are those of the account it was last made with,
\* however refreshes, reconnections and disconnections overlap, but for a
\* refresh that had read the row before another connection replaced it
\* (getDropboxAccessToken, storeOrganizationConnection).
THEOREM TokensStayWithAccount == StorageSpec => []TokensOfAccount
<1>1. StorageInv => TokensOfAccount
  BY DEF StorageInv
<1> QED
  BY <1>1, StorageInvariant, PTL

\* A provider that is connected is one the organization may use, but for a list
\* that was written from a stale read or not at all
\* (storeOrganizationConnection, syncOrganizationStorageConnections).
THEOREM ConnectedMayBeUsed == StorageSpec => []ConnectedIsEnabled
<1>1. StorageInv => ConnectedIsEnabled
  BY DEF StorageInv
<1> QED
  BY <1>1, StorageInvariant, PTL

-----------------------------------------------------------------------------
(***************************************************************************)
(* Exports and imports.                                                    *)
(***************************************************************************)
HIDE StorageAssumption
USE TransfersAssumption

\* Nobody else works on what t works on, unless its row may say anything
Alone ==
  \A t, u \in Transfers :
    /\ transfer[t].of = transfer[u].of
    /\ transfer[t].of # NoItem
    /\ transfer[t].of \in Exports \/ outcome[transfer[t].of] # "lost"
    => t = u

\* What a request for an export has done so far
ExportWork(p, row, o) ==
  \/ p = "queued" /\ row.status = "PENDING" /\ o = "none" /\ row.file = "none"
  \/ p = "rendering" /\ row.status = "PROCESSING" /\ o = "none" /\ row.file = "none"
  \/ p = "writing" /\ row.status = "PROCESSING" /\ o = "none" /\ row.file = "partial"
  \/ p = "completing" /\ row.status = "PROCESSING" /\ o = "none" /\ row.file = "whole"
  \/ p = "failing" /\ row.status = "PROCESSING" /\ o = "refused"

\* What a request for an import has done so far, and whether it named its file
ImportWork(p, named, row, o) ==
  /\ row.where # "nowhere"
  /\ row.where # "objects" /\ ~named => o = "lost"
  /\ p \in {"starting", "checking", "converting", "settling", "refusing", "cleaning"}
  /\ \/ o = "lost"
     \/ p \in {"starting", "checking", "converting"} /\ o = "none"
     \/ p = "settling" /\ o = "made"
     \/ p = "refusing" /\ o = "refused"
     \/ p = "cleaning" /\ o \in {"made", "refused"} /\ row.where # "objects"

WorkIsRight(t) ==
  /\ transfer[t].of \in Exports =>
       ExportWork(transfer[t].phase, export[transfer[t].of], outcome[transfer[t].of])
  /\ transfer[t].of \in Imports =>
       ImportWork(transfer[t].phase, transfer[t].named, document[transfer[t].of],
                  outcome[transfer[t].of])

Worked(x) == \E t \in Transfers : transfer[t].of = x

\* What the row of an export says when no request works on it
ExportSettled(row, o) ==
  CASE o = "none" -> row = NoExport
    [] o = "made" -> row.status = "COMPLETED" /\ (~row.client => row.file = "whole")
    [] o = "refused" -> row.status = "FAILED"
    [] OTHER -> row.status \in {"PENDING", "PROCESSING"}

\* The same for an import
ImportSettled(row, o) ==
  o \in {"made", "refused"} =>
    IF row.where = "objects"
    THEN row.status = IF o = "made" THEN "CONVERTED" ELSE "FAILED"
    ELSE row.file = "none"

TransfersInv ==
  /\ TransfersTypeOK
  /\ Alone
  /\ \A t \in Transfers : WorkIsRight(t)
  /\ \A x \in Exports : ~Worked(x) => ExportSettled(export[x], outcome[x])
  /\ \A i \in Imports : ~Worked(i) => ImportSettled(document[i], outcome[i])
  /\ \A i \in Imports : document[i].where = "nowhere" => outcome[i] = "none"

LEMMA Busy ==
  ASSUME TransfersInv, NEW t \in Transfers, transfer[t].phase # "idle"
  PROVE  /\ transfer[t] \in Transfer
         /\ transfer[t].of \in Exports \cup Imports
         /\ transfer[t].of \in Exports <=> transfer[t].of \notin Imports
<1> QED
  BY DEF TransfersInv, TransfersTypeOK, Transfer

\* A request that goes on, or ends, leaves the others' work as it was
LEMMA Progress ==
  ASSUME TransfersInv, TransfersTypeOK', NEW t \in Transfers, transfer[t].phase # "idle",
         \A u \in Transfers \ {t} : transfer'[u] = transfer[u],
         transfer'[t].of \in {transfer[t].of, NoItem},
         \A x \in Exports \ {transfer[t].of} : export'[x] = export[x],
         \A i \in Imports \ {transfer[t].of} : document'[i] = document[i],
         \A x \in (Exports \cup Imports) \ {transfer[t].of} : outcome'[x] = outcome[x],
         outcome[transfer[t].of] = "lost" => outcome'[transfer[t].of] = "lost",
         transfer[t].of \in Imports =>
           document'[transfer[t].of].where = document[transfer[t].of].where,
         transfer'[t].of = transfer[t].of => WorkIsRight(t)',
         transfer'[t].of = NoItem =>
           /\ transfer[t].of \in Exports =>
                ExportSettled(export'[transfer[t].of], outcome'[transfer[t].of])
           /\ transfer[t].of \in Imports =>
                ImportSettled(document'[transfer[t].of], outcome'[transfer[t].of])
  PROVE  TransfersInv'
<1> DEFINE x == transfer[t].of
<1>1. x \in Exports \cup Imports /\ (x \in Exports <=> x \notin Imports) /\ x # NoItem
  BY Busy
<1>2. Alone /\ WorkIsRight(t)
  BY DEF TransfersInv
<1>3. \A u \in Transfers \ {t} : transfer[u].of = x => x \in Imports /\ outcome[x] = "lost"
  BY <1>1, <1>2 DEF Alone
<1>4. Alone'
  BY <1>1, <1>2, <1>3, Busy DEF Alone, TransfersInv, TransfersTypeOK, Transfer
<1>5. ASSUME NEW u \in Transfers PROVE WorkIsRight(u)'
  <2>1. CASE u = t
    BY <1>1, <2>1 DEF WorkIsRight
  <2>2. CASE u # t /\ transfer[u].of # x
    <3>1. WorkIsRight(u)
      BY DEF TransfersInv
    <3> QED
      BY <2>2, <3>1 DEF WorkIsRight
  <2>3. CASE u # t /\ transfer[u].of = x
    <3>1. WorkIsRight(u)
      BY DEF TransfersInv
    <3> QED
      BY <1>1, <1>3, <2>3, <3>1 DEF WorkIsRight, ImportWork
  <2> QED
    BY <2>1, <2>2, <2>3
<1>6. ASSUME NEW y \in Exports, ~Worked(y)' PROVE ExportSettled(export'[y], outcome'[y])
  <2>1. CASE y = x
    BY <1>6, <2>1 DEF Worked
  <2>2. CASE y # x
    <3>1. ~Worked(y)
      BY <1>6, <2>2 DEF Worked
    <3> QED
      BY <2>2, <3>1 DEF TransfersInv
  <2> QED
    BY <2>1, <2>2
<1>7. ASSUME NEW i \in Imports, ~Worked(i)' PROVE ImportSettled(document'[i], outcome'[i])
  <2>1. CASE i = x
    BY <1>7, <2>1 DEF Worked
  <2>2. CASE i # x
    <3>1. ~Worked(i)
      BY <1>7, <2>2 DEF Worked
    <3> QED
      BY <2>2, <3>1 DEF TransfersInv
  <2> QED
    BY <2>1, <2>2
<1>8. ASSUME NEW i \in Imports, document'[i].where = "nowhere" PROVE outcome'[i] = "none"
  <2>1. i # x
    BY <1>2, <1>8 DEF WorkIsRight, ImportWork
  <2> QED
    BY <1>8, <2>1 DEF TransfersInv
<1> QED
  BY <1>4, <1>5, <1>6, <1>7, <1>8 DEF TransfersInv

-----------------------------------------------------------------------------
\* The steps of a request for an export
LEMMA ExportMoves ==
  ASSUME TransfersInv, NEW t \in Transfers, NEW y \in Transfer, NEW row \in ExportRow,
         NEW o \in Outcomes,
         transfer[t].phase # "idle", transfer[t].of \in Exports,
         y.phase = "idle" <=> y.of = NoItem,
         y.of \in {transfer[t].of, NoItem},
         transfer' = [transfer EXCEPT ![t] = y],
         export' = [export EXCEPT ![transfer[t].of] = row],
         outcome' = [outcome EXCEPT ![transfer[t].of] = o],
         UNCHANGED document,
         outcome[transfer[t].of] = "lost" => o = "lost",
         y.of # NoItem => ExportWork(y.phase, row, o),
         y.of = NoItem => ExportSettled(row, o)
  PROVE  TransfersInv'
<1> DEFINE x == transfer[t].of
<1>1. TransfersTypeOK
  BY DEF TransfersInv
<1>2. x \in Exports /\ x \notin Imports
  OBVIOUS
<1>3. /\ transfer'[t] = y /\ export'[x] = row /\ outcome'[x] = o
      /\ \A u \in Transfers \ {t} : transfer'[u] = transfer[u]
      /\ \A z \in Exports \ {x} : export'[z] = export[z]
      /\ \A z \in (Exports \cup Imports) \ {x} : outcome'[z] = outcome[z]
  BY <1>1 DEF TransfersTypeOK
<1>4. TransfersTypeOK'
  BY <1>1 DEF TransfersTypeOK
<1>5. y.of = x => WorkIsRight(t)'
  BY <1>2, <1>3 DEF WorkIsRight
<1> HIDE DEF x
<1> QED
  BY <1>2, <1>3, <1>4, <1>5, Progress DEF x

LEMMA ImportMoves ==
  ASSUME TransfersInv, NEW t \in Transfers, NEW y \in Transfer, NEW row \in Document,
         NEW o \in Outcomes,
         transfer[t].phase # "idle", transfer[t].of \in Imports,
         y.phase = "idle" <=> y.of = NoItem,
         y.of \in {transfer[t].of, NoItem},
         transfer' = [transfer EXCEPT ![t] = y],
         document' = [document EXCEPT ![transfer[t].of] = row],
         outcome' = [outcome EXCEPT ![transfer[t].of] = o],
         UNCHANGED export,
         outcome[transfer[t].of] = "lost" => o = "lost",
         row.where = document[transfer[t].of].where,
         y.of # NoItem => ImportWork(y.phase, y.named, row, o),
         y.of = NoItem => ImportSettled(row, o)
  PROVE  TransfersInv'
<1> DEFINE x == transfer[t].of
<1>1. TransfersTypeOK
  BY DEF TransfersInv
<1>2. x \in Imports /\ x \notin Exports
  OBVIOUS
<1>3. /\ transfer'[t] = y /\ document'[x] = row /\ outcome'[x] = o
      /\ \A u \in Transfers \ {t} : transfer'[u] = transfer[u]
      /\ \A z \in Imports \ {x} : document'[z] = document[z]
      /\ \A z \in (Exports \cup Imports) \ {x} : outcome'[z] = outcome[z]
  BY <1>1 DEF TransfersTypeOK
<1>4. TransfersTypeOK'
  BY <1>1 DEF TransfersTypeOK
<1>5. y.of = x => WorkIsRight(t)'
  BY <1>2, <1>3 DEF WorkIsRight
<1> HIDE DEF x
<1> QED
  BY <1>2, <1>3, <1>4, <1>5, Progress DEF x

LEMMA ExportWorking ==
  ASSUME TransfersInv, NEW t \in Transfers,
         transfer[t].phase \in {"queued", "rendering", "writing", "completing", "failing"}
  PROVE  /\ transfer[t] \in Transfer /\ transfer[t].of \in Exports /\ transfer[t].of # NoItem
         /\ export[transfer[t].of] \in ExportRow /\ outcome[transfer[t].of] \in Outcomes
         /\ ExportWork(transfer[t].phase, export[transfer[t].of], outcome[transfer[t].of])
<1>1. transfer[t].of \in Exports \cup Imports /\ transfer[t] \in Transfer
  BY Busy
<1>2. WorkIsRight(t)
  BY DEF TransfersInv
<1>3. transfer[t].of \in Exports
  BY <1>1, <1>2 DEF WorkIsRight, ImportWork
<1> QED
  BY <1>1, <1>2, <1>3 DEF WorkIsRight, TransfersInv, TransfersTypeOK

LEMMA ImportWorking ==
  ASSUME TransfersInv, NEW t \in Transfers,
         transfer[t].phase \in {"starting", "checking", "converting", "settling", "refusing",
                                "cleaning"}
  PROVE  /\ transfer[t] \in Transfer /\ transfer[t].of \in Imports /\ transfer[t].of # NoItem
         /\ document[transfer[t].of] \in Document /\ outcome[transfer[t].of] \in Outcomes
         /\ ImportWork(transfer[t].phase, transfer[t].named, document[transfer[t].of],
                       outcome[transfer[t].of])
<1>1. transfer[t].of \in Exports \cup Imports /\ transfer[t] \in Transfer
  BY Busy
<1>2. WorkIsRight(t)
  BY DEF TransfersInv
<1>3. transfer[t].of \in Imports
  BY <1>1, <1>2 DEF WorkIsRight, ExportWork
<1> QED
  BY <1>1, <1>2, <1>3 DEF WorkIsRight, TransfersInv, TransfersTypeOK

LEMMA Unwritten ==
  ASSUME TransfersInv
  PROVE  /\ \A x \in Exports : export = [export EXCEPT ![x] = export[x]]
         /\ \A i \in Imports : document = [document EXCEPT ![i] = document[i]]
         /\ \A x \in Exports \cup Imports : outcome = [outcome EXCEPT ![x] = outcome[x]]
<1> QED
  BY DEF TransfersInv, TransfersTypeOK

LEMMA ExportGoes ==
  ASSUME TransfersInv, NEW t \in Transfers,
         NEW p \in {"rendering", "writing", "completing", "failing"},
         NEW row \in ExportRow, NEW o \in Outcomes,
         Goes(t, transfer[t].phase, p), transfer[t].phase \in {"queued", "rendering", "writing"},
         export' = [export EXCEPT ![transfer[t].of] = row],
         outcome' = [outcome EXCEPT ![transfer[t].of] = o],
         UNCHANGED document, ExportWork(p, row, o)
  PROVE  TransfersInv'
<1> DEFINE x == transfer[t].of
           y == [transfer[t] EXCEPT !.phase = p]
<1>1. /\ transfer[t] \in Transfer /\ x \in Exports /\ x # NoItem
      /\ outcome[x] # "lost"
  BY ExportWorking DEF ExportWork
<1>2. y \in Transfer /\ y.of = x /\ y.phase = p
  BY <1>1 DEF Transfer
<1>3. transfer' = [transfer EXCEPT ![t] = y]
  BY DEF TransfersInv, TransfersTypeOK, Goes
<1> HIDE DEF y
<1> QED
  BY <1>1, <1>2, <1>3, ExportMoves

LEMMA ExportGoesStep ==
  ASSUME TransfersInv, NEW t \in Transfers,
         \/ StartExport(t) \/ RenderFails(t) \/ Render(t) \/ WriteArtifact(t)
         \/ WriteArtifactFails(t)
  PROVE  TransfersInv'
<1> DEFINE x == transfer[t].of
<1>1. transfer[t].phase \in {"queued", "rendering", "writing"}
  BY DEF StartExport, RenderFails, Render, WriteArtifact, WriteArtifactFails, Goes
<1>2. /\ transfer[t] \in Transfer /\ x \in Exports /\ export[x] \in ExportRow
      /\ outcome[x] \in Outcomes /\ outcome[x] # "lost"
      /\ ExportWork(transfer[t].phase, export[x], outcome[x])
  BY <1>1, ExportWorking DEF ExportWork
<1>3. export = [export EXCEPT ![x] = export[x]] /\ outcome = [outcome EXCEPT ![x] = outcome[x]]
  BY <1>2, Unwritten
<1>4. CASE StartExport(t)
  <2> DEFINE row == [export[x] EXCEPT !.status = "PROCESSING"]
  <2>1. row \in ExportRow /\ ExportWork("rendering", row, outcome[x])
    BY <1>2, <1>4 DEF ExportRow, ExportWork, StartExport, Goes
  <2>2. export' = [export EXCEPT ![x] = row]
    BY <1>4 DEF StartExport, SaysExport
  <2> HIDE DEF row
  <2> QED
    BY <1>1, <1>2, <1>3, <1>4, <2>1, <2>2, ExportGoes DEF StartExport, Goes
<1>5. CASE Render(t)
  <2> DEFINE row == [export[x] EXCEPT !.file = "partial"]
  <2>1. row \in ExportRow /\ ExportWork("writing", row, outcome[x])
    BY <1>2, <1>5 DEF ExportRow, ExportWork, Render, Goes
  <2>2. export' = [export EXCEPT ![x] = row]
    BY <1>5 DEF Render
  <2> HIDE DEF row
  <2> QED
    BY <1>1, <1>2, <1>3, <1>5, <2>1, <2>2, ExportGoes DEF Render, Goes
<1>6. CASE WriteArtifact(t)
  <2> DEFINE row == [export[x] EXCEPT !.file = "whole"]
  <2>1. row \in ExportRow /\ ExportWork("completing", row, outcome[x])
    BY <1>2, <1>6 DEF ExportRow, ExportWork, WriteArtifact, Goes
  <2>2. export' = [export EXCEPT ![x] = row]
    BY <1>6 DEF WriteArtifact
  <2> HIDE DEF row
  <2> QED
    BY <1>1, <1>2, <1>3, <1>6, <2>1, <2>2, ExportGoes DEF WriteArtifact, Goes
<1>7. CASE RenderFails(t) \/ WriteArtifactFails(t)
  <2>1. ExportWork("failing", export[x], "refused") /\ "refused" \in Outcomes
    BY <1>2, <1>7 DEF ExportWork, RenderFails, WriteArtifactFails, Goes, Outcomes
  <2>2. outcome' = [outcome EXCEPT ![x] = "refused"]
    BY <1>2, <1>7 DEF RenderFails, WriteArtifactFails, Turns
  <2> QED
    BY <1>1, <1>2, <1>3, <1>7, <2>1, <2>2, ExportGoes DEF RenderFails, WriteArtifactFails, Goes
<1> QED
  BY <1>4, <1>5, <1>6, <1>7

LEMMA ExportEnds ==
  ASSUME TransfersInv, NEW t \in Transfers, CompleteExport(t) \/ FailExport(t)
  PROVE  TransfersInv'
<1> DEFINE x == transfer[t].of
           done == transfer[t].phase = "completing"
           row == [export[x] EXCEPT !.status = IF done THEN "COMPLETED" ELSE "FAILED"]
           o == IF done THEN "made" ELSE outcome[x]
<1>1. transfer[t].phase \in {"completing", "failing"}
  BY DEF CompleteExport, FailExport, Ends
<1>2. /\ transfer[t] \in Transfer /\ x \in Exports /\ x # NoItem
      /\ export[x] \in ExportRow /\ outcome[x] \in Outcomes /\ outcome[x] # "lost"
      /\ ExportWork(transfer[t].phase, export[x], outcome[x])
  BY <1>1, ExportWorking DEF ExportWork
<1>3. row \in ExportRow /\ o \in Outcomes /\ ExportSettled(row, o)
  BY <1>1, <1>2 DEF ExportRow, Outcomes, ExportSettled, ExportWork
<1>4. NoTransfer \in Transfer /\ NoTransfer.of = NoItem /\ NoTransfer.phase = "idle"
  BY DEF NoTransfer, Transfer
<1>5. transfer' = [transfer EXCEPT ![t] = NoTransfer] /\ UNCHANGED document
  BY DEF CompleteExport, FailExport, Ends
<1>6. export' = [export EXCEPT ![x] = row]
  BY <1>1, <1>2 DEF CompleteExport, FailExport, Ends, SaysExport
<1>7. outcome' = [outcome EXCEPT ![x] = o]
  BY <1>1, <1>2, Unwritten DEF CompleteExport, FailExport, Ends, Turns
<1> HIDE DEF row, o
<1> QED
  BY <1>1, <1>2, <1>3, <1>4, <1>5, <1>6, <1>7, ExportMoves

LEMMA LostStep ==
  ASSUME TransfersInv, NEW t \in Transfers, TransferLost(t)
  PROVE  TransfersInv'
<1> DEFINE x == transfer[t].of
<1>1. transfer[t] \in Transfer /\ x \in Exports \cup Imports /\ (x \in Exports <=> x \notin Imports)
  BY Busy DEF TransferLost
<1>2. NoTransfer \in Transfer /\ NoTransfer.of = NoItem /\ NoTransfer.phase = "idle"
  BY DEF NoTransfer, Transfer
<1>3. WorkIsRight(t) /\ TransfersTypeOK
  BY DEF TransfersInv
<1>4. x # NoItem /\ transfer[t].phase # "idle" /\ "lost" \in Outcomes
  BY <1>1 DEF TransferLost, Outcomes
<1>5. CASE x \in Exports
  <2>1. ExportSettled(export[x], "lost")
    BY <1>3, <1>5 DEF WorkIsRight, ExportWork, ExportSettled
  <2>2. export[x] \in ExportRow /\ export' = [export EXCEPT ![x] = export[x]]
    BY <1>3, <1>5 DEF TransferLost, TransfersTypeOK
  <2> QED
    BY <1>2, <1>4, <1>5, <2>1, <2>2, ExportMoves DEF TransferLost
<1>6. CASE x \in Imports
  <2>1. ImportSettled(document[x], "lost")
    BY DEF ImportSettled
  <2>2. document[x] \in Document /\ document' = [document EXCEPT ![x] = document[x]]
    BY <1>3, <1>6 DEF TransferLost, TransfersTypeOK
  <2> QED
    BY <1>2, <1>4, <1>6, <2>1, <2>2, ImportMoves DEF TransferLost
<1> QED
  BY <1>1, <1>5, <1>6

-----------------------------------------------------------------------------
\* The steps of a request for an import
LEMMA ImportGoes ==
  ASSUME TransfersInv, NEW t \in Transfers,
         NEW p \in {"checking", "converting", "settling", "refusing", "cleaning"},
         NEW row \in Document, NEW o \in Outcomes,
         Goes(t, transfer[t].phase, p),
         transfer[t].phase \in {"starting", "checking", "converting", "settling", "refusing"},
         document' = [document EXCEPT ![transfer[t].of] = row],
         outcome' = [outcome EXCEPT ![transfer[t].of] = o],
         row.where = document[transfer[t].of].where,
         outcome[transfer[t].of] = "lost" => o = "lost",
         UNCHANGED export, ImportWork(p, transfer[t].named, row, o)
  PROVE  TransfersInv'
<1> DEFINE x == transfer[t].of
           y == [transfer[t] EXCEPT !.phase = p]
<1>1. transfer[t] \in Transfer /\ x \in Imports /\ x # NoItem
  BY ImportWorking
<1>2. y \in Transfer /\ y.of = x /\ y.phase = p /\ y.named = transfer[t].named
  BY <1>1 DEF Transfer
<1>3. transfer' = [transfer EXCEPT ![t] = y]
  BY DEF TransfersInv, TransfersTypeOK, Goes
<1> HIDE DEF y
<1> QED
  BY <1>1, <1>2, <1>3, ImportMoves

LEMMA ImportEnds ==
  ASSUME TransfersInv, NEW t \in Transfers, NEW row \in Document,
         transfer[t].phase \in {"settling", "refusing", "cleaning"},
         Ends(t, transfer[t].phase),
         document' = [document EXCEPT ![transfer[t].of] = row],
         row.where = document[transfer[t].of].where,
         UNCHANGED <<export, outcome>>, ImportSettled(row, outcome[transfer[t].of])
  PROVE  TransfersInv'
<1> DEFINE x == transfer[t].of
<1>1. transfer[t] \in Transfer /\ x \in Imports /\ x # NoItem /\ outcome[x] \in Outcomes
  BY ImportWorking
<1>2. NoTransfer \in Transfer /\ NoTransfer.of = NoItem /\ NoTransfer.phase = "idle"
  BY DEF NoTransfer, Transfer
<1>3. transfer' = [transfer EXCEPT ![t] = NoTransfer]
  BY DEF Ends
<1>4. outcome' = [outcome EXCEPT ![x] = outcome[x]]
  BY <1>1, Unwritten
<1> QED
  BY <1>1, <1>2, <1>3, <1>4, ImportMoves

LEMMA ImportSays ==
  ASSUME TransfersInv, NEW i \in Imports,
         NEW status \in {"PROCESSING", "CONVERTED", "FAILED"}, SaysImport(i, status)
  PROVE  \E row \in Document :
           /\ document' = [document EXCEPT ![i] = row]
           /\ row.where = document[i].where
           /\ InObjects(i) => row.status = status
<1>1. document[i] \in Document
  BY DEF TransfersInv, TransfersTypeOK
<1>2. CASE InObjects(i)
  <2>1. [document[i] EXCEPT !.status = status] \in Document
    BY <1>1 DEF Document
  <2>2. document' = [document EXCEPT ![i] = [document[i] EXCEPT !.status = status]]
    BY <1>2 DEF SaysImport
  <2> QED
    BY <1>1, <2>1, <2>2 DEF Document
<1>3. CASE ~InObjects(i)
  BY <1>1, <1>3, Unwritten DEF SaysImport
<1> QED
  BY <1>2, <1>3

LEMMA ImportGoesStep ==
  ASSUME TransfersInv, NEW t \in Transfers,
         \/ StartConversion(t) \/ CheckObject(t) \/ ConversionAnswers(t)
         \/ ConversionFails(t) \/ SettlingFails(t)
  PROVE  TransfersInv'
<1> DEFINE x == transfer[t].of
           turned == IF outcome[x] = "lost" THEN "lost" ELSE "refused"
<1>1. transfer[t].phase \in {"starting", "checking", "converting", "settling"}
  BY DEF StartConversion, CheckObject, ConversionAnswers, ConversionFails, SettlingFails, Goes
<1>2. /\ transfer[t] \in Transfer /\ x \in Imports /\ document[x] \in Document
      /\ outcome[x] \in Outcomes
      /\ ImportWork(transfer[t].phase, transfer[t].named, document[x], outcome[x])
  BY <1>1, ImportWorking
<1>3. document = [document EXCEPT ![x] = document[x]] /\ outcome = [outcome EXCEPT ![x] = outcome[x]]
  BY <1>2, Unwritten
<1>4. CASE StartConversion(t)
  <2>1. PICK row \in Document : /\ document' = [document EXCEPT ![x] = row]
                                /\ row.where = document[x].where
    BY <1>2, <1>4, ImportSays DEF StartConversion
  <2>2. PICK p \in {"checking", "converting"} : Goes(t, transfer[t].phase, p)
    BY <1>4 DEF StartConversion, Goes
  <2>3. ImportWork(p, transfer[t].named, row, outcome[x])
    BY <1>2, <1>4, <2>1 DEF ImportWork, StartConversion
  <2>4. outcome' = [outcome EXCEPT ![x] = outcome[x]] /\ UNCHANGED export
    BY <1>3, <1>4 DEF StartConversion
  <2>5. p \in {"checking", "converting", "settling", "refusing", "cleaning"}
    OBVIOUS
  <2> HIDE DEF x
  <2> QED
    BY <1>1, <1>2, <2>1, <2>2, <2>3, <2>4, <2>5, ImportGoes DEF x
<1>5. CASE CheckObject(t) /\ Goes(t, "checking", "converting") /\ UNCHANGED outcome
  <2>1. ImportWork("converting", transfer[t].named, document[x], outcome[x]) /\ transfer[t].phase = "checking"
    BY <1>2, <1>5 DEF ImportWork, Goes
  <2> QED
    BY <1>1, <1>2, <1>3, <1>5, <2>1, ImportGoes DEF CheckObject
<1>6. CASE ConversionAnswers(t)
  <2> DEFINE o == IF outcome[x] = "lost" THEN "lost" ELSE "made"
  <2>1. /\ ImportWork("settling", transfer[t].named, document[x], o) /\ transfer[t].phase = "converting"
        /\ o \in Outcomes
    BY <1>2, <1>6 DEF ImportWork, ConversionAnswers, Goes, Outcomes
  <2>2. outcome' = [outcome EXCEPT ![x] = o]
    BY <1>3, <1>6 DEF ConversionAnswers, Turns
  <2> HIDE DEF o
  <2>3. outcome[x] = "lost" => o = "lost"
    BY DEF o
  <2> QED
    BY <1>1, <1>2, <1>3, <1>6, <2>1, <2>2, <2>3, ImportGoes DEF ConversionAnswers
<1>7. ASSUME Goes(t, transfer[t].phase, "refusing"), Turns(x, "refused"),
             UNCHANGED <<export, document>>
      PROVE  TransfersInv'
  <2>1. ImportWork("refusing", transfer[t].named, document[x], turned) /\ turned \in Outcomes
    BY <1>2 DEF ImportWork, Outcomes
  <2>2. outcome' = [outcome EXCEPT ![x] = turned]
    BY <1>3, <1>7 DEF Turns
  <2>3. outcome[x] = "lost" => turned = "lost"
    OBVIOUS
  <2> HIDE DEF turned
  <2> QED
    BY <1>1, <1>2, <1>3, <1>7, <2>1, <2>2, <2>3, ImportGoes
<1>8. CASE CheckObject(t) /\ Goes(t, "checking", "refusing") /\ Turns(x, "refused")
  BY <1>7, <1>8 DEF CheckObject, Goes
<1>9. CASE ConversionFails(t)
  BY <1>7, <1>9 DEF ConversionFails, Goes
<1>10. CASE SettlingFails(t)
  BY <1>7, <1>10 DEF SettlingFails, Goes
<1> QED
  BY <1>4, <1>5, <1>6, <1>8, <1>9, <1>10 DEF CheckObject

LEMMA ImportSettlesStep ==
  ASSUME TransfersInv, NEW t \in Transfers,
         SettleConversion(t) \/ RefuseConversion(t) \/ CleanUp(t)
  PROVE  TransfersInv'
<1> DEFINE x == transfer[t].of
<1>1. transfer[t].phase \in {"settling", "refusing", "cleaning"}
  BY DEF SettleConversion, RefuseConversion, CleanUp, Settles, Ends
<1>2. /\ transfer[t] \in Transfer /\ x \in Imports /\ document[x] \in Document
      /\ outcome[x] \in Outcomes
      /\ ImportWork(transfer[t].phase, transfer[t].named, document[x], outcome[x])
  BY <1>1, ImportWorking
<1>3. outcome = [outcome EXCEPT ![x] = outcome[x]]
  BY <1>2, Unwritten
<1>4. CASE SettleConversion(t) \/ RefuseConversion(t)
  <2> DEFINE from == transfer[t].phase
  <2>1. PICK row \in Document :
          /\ document' = [document EXCEPT ![x] = row]
          /\ row.where = document[x].where
          /\ InObjects(x) => row.status = IF from = "settling" THEN "CONVERTED" ELSE "FAILED"
    BY <1>2, <1>4, ImportSays DEF SettleConversion, RefuseConversion, Settles
  <2>2. Settles(t, from) /\ from \in {"settling", "refusing"} /\ UNCHANGED <<export, outcome>>
    BY <1>4 DEF SettleConversion, RefuseConversion, Settles
  <2>3. CASE InObjects(x) \/ ~transfer[t].named
    <3>1. ImportSettled(row, outcome[x])
      BY <1>2, <2>1, <2>2, <2>3 DEF ImportSettled, ImportWork, InObjects
    <3> QED
      BY <1>1, <2>1, <2>2, <2>3, <3>1, ImportEnds DEF Settles
  <2>4. CASE ~InObjects(x) /\ transfer[t].named
    <3>1. ImportWork("cleaning", transfer[t].named, row, outcome[x])
      BY <1>2, <2>1, <2>2, <2>4 DEF ImportWork, InObjects
    <3> QED
      BY <1>1, <1>2, <1>3, <2>1, <2>2, <2>4, <3>1, ImportGoes DEF Settles
  <2> QED
    BY <2>3, <2>4
<1>5. CASE CleanUp(t)
  <2> DEFINE row == [document[x] EXCEPT !.file = "none"]
  <2>1. row \in Document /\ row.where = document[x].where /\ row.file = "none"
    BY <1>2 DEF Document
  <2>2. document' = [document EXCEPT ![x] = row]
    BY <1>5 DEF CleanUp
  <2>3. ImportSettled(row, outcome[x])
    BY <1>2, <1>5, <2>1 DEF ImportSettled, ImportWork, CleanUp, Ends
  <2> HIDE DEF row
  <2> QED
    BY <1>1, <1>5, <2>1, <2>2, <2>3, ImportEnds DEF CleanUp, Ends
<1> QED
  BY <1>4, <1>5

-----------------------------------------------------------------------------
\* What starts work, and what the clients do
LEMMA CreateExportStep ==
  ASSUME TransfersInv, NEW t \in Transfers, NEW x \in Exports, CreateExport(t, x)
  PROVE  TransfersInv'
<1> DEFINE y == [phase |-> "queued", of |-> x, named |-> FALSE]
           row == [export[x] EXCEPT !.status = "PENDING"]
<1>1. TransfersTypeOK /\ transfer[t].of = NoItem /\ x # NoItem /\ x \notin Imports
  BY DEF CreateExport, Begins, TransfersInv, TransfersTypeOK
<1>2. y \in Transfer /\ row \in ExportRow
  BY <1>1 DEF Transfer, TransfersTypeOK, ExportRow
<1>3. transfer' = [transfer EXCEPT ![t] = y] /\ export' = [export EXCEPT ![x] = row]
      /\ UNCHANGED <<document, outcome>>
  BY DEF CreateExport, Begins
<1>4. ~Worked(x)
  BY DEF TransfersInv, WorkIsRight, ExportWork, Worked, CreateExport
<1>5. outcome[x] = "none"
  <2>1. ExportSettled(export[x], outcome[x]) /\ outcome[x] \in Outcomes
    BY <1>1, <1>4 DEF TransfersInv, TransfersTypeOK
  <2> QED
    BY <2>1 DEF ExportSettled, CreateExport, Outcomes
<1>6. y.phase = "queued" /\ y.of = x /\ row.status = "PENDING" /\ row.file = "none"
  <2>1. export[x] = NoExport
    BY <1>4, <1>5 DEF TransfersInv, ExportSettled
  <2> QED
    BY <2>1 DEF NoExport
<1> HIDE DEF y, row
<1>7. TransfersTypeOK'
  BY <1>1, <1>2, <1>3, <1>6 DEF TransfersTypeOK
<1>8. Alone'
  BY <1>1, <1>3, <1>4, <1>6 DEF Alone, TransfersInv, TransfersTypeOK, Worked
<1>9. ASSUME NEW u \in Transfers PROVE WorkIsRight(u)'
  <2>1. CASE u = t
    BY <1>1, <1>3, <1>5, <1>6, <2>1 DEF WorkIsRight, ExportWork, TransfersTypeOK
  <2>2. CASE u # t
    <3>1. WorkIsRight(u) /\ transfer[u].of # x
      BY <1>4 DEF TransfersInv, Worked
    <3> QED
      BY <1>1, <1>3, <2>2, <3>1 DEF WorkIsRight, TransfersTypeOK
  <2> QED
    BY <2>1, <2>2
<1>10. \A z \in Exports \cup Imports : Worked(z) => Worked(z)'
  BY <1>1, <1>3 DEF Worked, TransfersTypeOK
<1>11. Worked(x)'
  BY <1>1, <1>3, <1>6 DEF Worked, TransfersTypeOK
<1>12. \A z \in Exports : ~Worked(z)' => ExportSettled(export'[z], outcome'[z])
  BY <1>1, <1>3, <1>10, <1>11 DEF TransfersInv, TransfersTypeOK
<1>13. \A i \in Imports : ~Worked(i)' => ImportSettled(document'[i], outcome'[i])
  BY <1>3, <1>10 DEF TransfersInv
<1> QED
  BY <1>3, <1>7, <1>8, <1>9, <1>12, <1>13 DEF TransfersInv

LEMMA ClientExportStep ==
  ASSUME TransfersInv, NEW x \in Exports, NEW s \in {"COMPLETED", "FAILED"},
         NEW file \in {"none", "partial", "whole"}, RecordClientExport(x, s, file)
  PROVE  TransfersInv'
<1> DEFINE row == [status |-> s, file |-> file, client |-> TRUE]
           o == IF s = "COMPLETED" THEN "made" ELSE "refused"
<1>1. TransfersTypeOK /\ x \notin Imports
  BY DEF TransfersInv
<1>2. row \in ExportRow /\ o \in Outcomes /\ ExportSettled(row, o)
  BY DEF ExportRow, NoExport, Outcomes, ExportSettled
<1>3. export' = [export EXCEPT ![x] = row] /\ outcome' = [outcome EXCEPT ![x] = o]
      /\ UNCHANGED <<document, transfer>>
  BY DEF RecordClientExport
<1>4. ~Worked(x)
  BY DEF TransfersInv, WorkIsRight, ExportWork, Worked, RecordClientExport
<1> HIDE DEF row, o
<1>5. TransfersTypeOK'
  BY <1>1, <1>2, <1>3 DEF TransfersTypeOK
<1>6. Alone'
  BY <1>1, <1>3, <1>4 DEF Alone, TransfersInv, TransfersTypeOK, Worked
<1>7. ASSUME NEW u \in Transfers PROVE WorkIsRight(u)'
  <2>1. WorkIsRight(u) /\ transfer[u].of # x
    BY <1>4 DEF TransfersInv, Worked
  <2> QED
    BY <1>1, <1>3, <2>1 DEF WorkIsRight, TransfersTypeOK
<1>8. \A z \in Exports : ~Worked(z)' => ExportSettled(export'[z], outcome'[z])
  BY <1>1, <1>2, <1>3 DEF TransfersInv, TransfersTypeOK, Worked
<1>9. \A i \in Imports : /\ ~Worked(i)' => ImportSettled(document'[i], outcome'[i])
                         /\ document'[i].where = "nowhere" => outcome'[i] = "none"
  BY <1>1, <1>3 DEF TransfersInv, TransfersTypeOK, Worked
<1> QED
  BY <1>5, <1>6, <1>7, <1>8, <1>9 DEF TransfersInv

\* A document changes while no request moves
LEMMA DocumentStep ==
  ASSUME TransfersInv, NEW i \in Imports, NEW row \in Document, NEW o \in Outcomes,
         document' = [document EXCEPT ![i] = row],
         outcome' = [outcome EXCEPT ![i] = o], UNCHANGED <<export, transfer>>,
         Worked(i) => row.where = document[i].where /\ o \in {outcome[i], "lost"},
         ~Worked(i) => ImportSettled(row, o),
         outcome[i] = "lost" => o = "lost",
         row.where = "nowhere" => o = "none"
  PROVE  TransfersInv'
<1>1. TransfersTypeOK /\ i \notin Exports
  BY DEF TransfersInv
<1>2. TransfersTypeOK'
  BY <1>1 DEF TransfersTypeOK
<1>3. Alone'
  BY <1>1 DEF Alone, TransfersInv, TransfersTypeOK
<1>4. ASSUME NEW u \in Transfers PROVE WorkIsRight(u)'
  <2>1. WorkIsRight(u)
    BY DEF TransfersInv
  <2>2. CASE transfer[u].of # i
    BY <1>1, <2>1, <2>2 DEF WorkIsRight, TransfersTypeOK
  <2>3. CASE transfer[u].of = i
    BY <1>1, <2>1, <2>3 DEF WorkIsRight, TransfersTypeOK, ImportWork, Worked
  <2> QED
    BY <2>2, <2>3
<1>5. \A z \in Exports : ~Worked(z)' => ExportSettled(export'[z], outcome'[z])
  BY <1>1 DEF TransfersInv, TransfersTypeOK, Worked
<1>6. \A k \in Imports : /\ ~Worked(k)' => ImportSettled(document'[k], outcome'[k])
                         /\ document'[k].where = "nowhere" => outcome'[k] = "none"
  BY <1>1 DEF TransfersInv, TransfersTypeOK, Worked
<1> QED
  BY <1>2, <1>3, <1>4, <1>5, <1>6 DEF TransfersInv

LEMMA UploadSteps ==
  ASSUME TransfersInv, NEW i \in Imports,
         \/ \E where \in {"objects", "cloudinary"} : AskUpload(i, where)
         \/ \E file \in {"good", "bad"} : Upload(i, file)
         \/ UploadExpires(i)
  PROVE  TransfersInv'
<1>1. /\ document[i] \in Document /\ outcome[i] \in Outcomes
      /\ document[i].where = "nowhere" => outcome[i] = "none"
      /\ ~Worked(i) => ImportSettled(document[i], outcome[i])
  BY DEF TransfersInv, TransfersTypeOK
<1>2. outcome = [outcome EXCEPT ![i] = outcome[i]]
  BY Unwritten
<1>3. At(i) # {} <=> Worked(i)
  BY DEF At, Worked
<1>4. ASSUME NEW where \in {"objects", "cloudinary"}, AskUpload(i, where)
      PROVE  TransfersInv'
  <2> DEFINE row == [where |-> where, status |-> IF where = "objects" THEN "PENDING" ELSE "NONE",
                     file |-> "none", open |-> TRUE]
  <2>1. row \in Document /\ row.where # "nowhere"
    BY DEF Document
  <2>2. ~Worked(i)
    BY <1>4 DEF AskUpload, TransfersInv, WorkIsRight, ImportWork, Worked
  <2>3. outcome[i] = "none" /\ ImportSettled(row, outcome[i])
    BY <1>1, <1>4 DEF AskUpload, ImportSettled
  <2>4. document' = [document EXCEPT ![i] = row] /\ UNCHANGED <<export, transfer, outcome>>
    BY <1>4 DEF AskUpload
  <2> HIDE DEF row
  <2> QED
    BY <1>1, <1>2, <2>1, <2>2, <2>3, <2>4, DocumentStep
<1>5. ASSUME NEW file \in {"good", "bad"}, Upload(i, file)
      PROVE  TransfersInv'
  <2> DEFINE row == [document[i] EXCEPT !.file = file]
             o == IF Worked(i) \/ outcome[i] # "none" THEN "lost" ELSE outcome[i]
  <2>1. row \in Document /\ row.where = document[i].where /\ o \in Outcomes
    BY <1>1 DEF Document, Outcomes
  <2>2. document' = [document EXCEPT ![i] = row] /\ UNCHANGED <<export, transfer>>
    BY <1>5 DEF Upload
  <2>3. outcome' = [outcome EXCEPT ![i] = o]
    BY <1>2, <1>3, <1>5 DEF Upload
  <2>4. o \in {"none", "lost"} /\ ImportSettled(row, o)
    BY DEF ImportSettled
  <2>5. Worked(i) => document[i].where # "nowhere"
    BY DEF TransfersInv, WorkIsRight, ImportWork, Worked
  <2>6. /\ Worked(i) => o = "lost"
        /\ outcome[i] = "lost" => o = "lost"
        /\ row.where = "nowhere" => o = "none"
    BY <1>1, <2>1, <2>5
  <2> HIDE DEF row, o
  <2> QED
    BY <2>1, <2>2, <2>3, <2>4, <2>6, DocumentStep
<1>6. CASE UploadExpires(i)
  <2> DEFINE row == [document[i] EXCEPT !.open = FALSE]
  <2>1. row \in Document /\ row.where = document[i].where
    BY <1>1 DEF Document
  <2>2. document' = [document EXCEPT ![i] = row] /\ UNCHANGED <<export, transfer, outcome>>
    BY <1>6 DEF UploadExpires
  <2>3. ~Worked(i) => ImportSettled(row, outcome[i])
    BY <1>1 DEF ImportSettled, Document
  <2> HIDE DEF row
  <2> QED
    BY <1>1, <1>2, <2>1, <2>2, <2>3, DocumentStep
<1> QED
  BY <1>4, <1>5, <1>6

LEMMA AskConversionStep ==
  ASSUME TransfersInv, NEW t \in Transfers, NEW i \in Imports, NEW valid \in BOOLEAN,
         NEW named \in BOOLEAN, AskConversion(t, i, valid, named)
  PROVE  TransfersInv'
<1> DEFINE p == IF valid THEN "starting" ELSE "refusing"
           y == [phase |-> p, of |-> i, named |-> named]
           o == IF Worked(i) \/ Forgets(i, named) THEN "lost" ELSE IF valid THEN "none" ELSE "refused"
<1>1. TransfersTypeOK /\ transfer[t].of = NoItem /\ i # NoItem /\ i \notin Exports
  BY DEF AskConversion, Begins, TransfersInv, TransfersTypeOK
<1>2. y \in Transfer /\ o \in Outcomes
  BY <1>1 DEF Transfer, Outcomes
<1>3. transfer' = [transfer EXCEPT ![t] = y] /\ UNCHANGED <<document, export>>
      /\ document[i].where # "nowhere"
  BY DEF AskConversion, Begins
<1>4. outcome' = [outcome EXCEPT ![i] = o]
  BY DEF AskConversion, At, Worked
<1>5. y.phase # "idle" /\ y.of = i /\ ImportWork(y.phase, y.named, document[i], o)
  BY <1>3 DEF ImportWork, Forgets, InObjects
<1>6. Worked(i) => o = "lost"
  OBVIOUS
<1> HIDE DEF y, o, p
<1>7. TransfersTypeOK'
  BY <1>1, <1>2, <1>3, <1>4, <1>5 DEF TransfersTypeOK
<1>8. Alone'
  <2> SUFFICES ASSUME NEW u \in Transfers, NEW v \in Transfers,
                      transfer'[u].of = transfer'[v].of, transfer'[u].of # NoItem,
                      transfer'[u].of \in Exports \/ outcome'[transfer'[u].of] # "lost"
               PROVE  u = v
    BY DEF Alone
  <2>1. CASE transfer'[u].of = i
    BY <1>1, <1>3, <1>4, <1>6, <2>1 DEF TransfersTypeOK, Worked
  <2>2. CASE transfer'[u].of # i
    BY <1>1, <1>3, <1>4, <1>5, <2>2 DEF Alone, TransfersInv, TransfersTypeOK, Transfer
  <2> QED
    BY <2>1, <2>2
<1>9. ASSUME NEW u \in Transfers PROVE WorkIsRight(u)'
  <2>1. CASE u = t
    BY <1>1, <1>3, <1>4, <1>5, <2>1 DEF WorkIsRight, TransfersTypeOK
  <2>2. CASE u # t
    <3>1. WorkIsRight(u)
      BY DEF TransfersInv
    <3> QED
      BY <1>1, <1>3, <1>4, <1>6, <2>2, <3>1 DEF WorkIsRight, TransfersTypeOK, Worked, ImportWork
  <2> QED
    BY <2>1, <2>2
<1>10. \A z \in Exports \cup Imports : Worked(z) => Worked(z)'
  BY <1>1, <1>3 DEF Worked, TransfersTypeOK
<1>11. Worked(i)'
  BY <1>1, <1>3, <1>5 DEF Worked, TransfersTypeOK
<1>12. \A z \in Exports : ~Worked(z)' => ExportSettled(export'[z], outcome'[z])
  BY <1>1, <1>3, <1>4, <1>10 DEF TransfersInv, TransfersTypeOK
<1>13. \A k \in Imports : /\ ~Worked(k)' => ImportSettled(document'[k], outcome'[k])
                          /\ document'[k].where = "nowhere" => outcome'[k] = "none"
  BY <1>1, <1>3, <1>4, <1>10, <1>11 DEF TransfersInv, TransfersTypeOK
<1> QED
  BY <1>7, <1>8, <1>9, <1>12, <1>13 DEF TransfersInv

LEMMA TransfersInitInv == TransfersInit => TransfersInv
<1> SUFFICES ASSUME TransfersInit PROVE TransfersInv
  OBVIOUS
<1>1. TransfersTypeOK
  BY DEF TransfersInit, TransfersTypeOK, NoExport, ExportRow, NoDocument, Document, NoTransfer,
         Transfer, Outcomes
<1>2. \A t \in Transfers : transfer[t].of = NoItem
  BY DEF TransfersInit, NoTransfer
<1>3. Alone /\ \A t \in Transfers : WorkIsRight(t)
  BY <1>2 DEF Alone, WorkIsRight
<1>4. \A x \in Exports : ExportSettled(export[x], outcome[x])
  BY DEF TransfersInit, ExportSettled
<1>5. \A i \in Imports : ImportSettled(document[i], outcome[i]) /\ outcome[i] = "none"
  BY DEF TransfersInit, ImportSettled
<1> QED
  BY <1>1, <1>3, <1>4, <1>5 DEF TransfersInv

LEMMA TransfersInvariant == TransfersSpec => []TransfersInv
<1>1. TransfersInv /\ [TransfersNext]_transferVars => TransfersInv'
  <2> SUFFICES ASSUME TransfersInv, [TransfersNext]_transferVars PROVE TransfersInv'
    OBVIOUS
  <2>1. CASE ExportStep
    BY <2>1, ClientExportStep, CreateExportStep, ExportGoesStep, ExportEnds DEF ExportStep
  <2>2. CASE ImportStep
    BY <2>2, UploadSteps, AskConversionStep, ImportGoesStep, ImportSettlesStep DEF ImportStep
  <2>3. CASE \E t \in Transfers : TransferLost(t)
    BY <2>3, LostStep
  <2>4. CASE UNCHANGED transferVars
    BY <2>4 DEF transferVars, TransfersInv, TransfersTypeOK, Alone, WorkIsRight, Worked
  <2> QED
    BY <2>1, <2>2, <2>3, <2>4 DEF TransfersNext
<1> QED
  BY <1>1, TransfersInitInv, PTL DEF TransfersSpec

\* What the row of an export says when no request works on it is how the export
\* ended, and of the server's exports only a whole file is offered for download
\* (generateExport, download), whichever statement a request fails at.
THEOREM ExportsEndAsSaid == TransfersSpec => []ExportsSayOutcome
<1>1. TransfersInv => ExportsSayOutcome
  <2> SUFFICES ASSUME TransfersInv, NEW x \in Exports
               PROVE  /\ Downloadable(x) /\ ~export[x].client => export[x].file = "whole"
                      /\ At(x) = {} /\ outcome[x] # "lost" =>
                           export[x].status = CASE outcome[x] = "made" -> "COMPLETED"
                                                [] outcome[x] = "refused" -> "FAILED"
                                                [] OTHER -> "NONE"
    BY DEF ExportsSayOutcome
  <2>1. export[x] \in ExportRow /\ outcome[x] \in Outcomes
    BY DEF TransfersInv, TransfersTypeOK
  <2>2. export[x].status = "COMPLETED" => ~Worked(x)
    BY DEF TransfersInv, WorkIsRight, ExportWork, Worked
  <2>3. ~Worked(x) => ExportSettled(export[x], outcome[x])
    BY DEF TransfersInv
  <2>4. Downloadable(x) /\ ~export[x].client => export[x].file = "whole"
    BY <2>1, <2>2, <2>3 DEF Downloadable, ExportSettled, ExportRow, Outcomes, NoExport
  <2>5. At(x) = {} => ~Worked(x)
    BY DEF At, Worked
  <2> QED
    BY <2>1, <2>3, <2>4, <2>5 DEF ExportSettled, Outcomes, NoExport
<1> QED
  BY <1>1, TransfersInvariant, PTL

\* What the row of an import says when no request works on it is how its last
\* conversion ended, and a file in Cloudinary that it named is gone by then
\* (convertRemoteImportDocument), unless requests or uploads overlapped.
THEOREM ImportsEndAsSaid == TransfersSpec => []ImportsSayOutcome
<1>1. TransfersInv => ImportsSayOutcome
  BY DEF TransfersInv, TransfersTypeOK, Outcomes, ImportsSayOutcome, ImportSettled, InObjects, At, Worked
<1> QED
  BY <1>1, TransfersInvariant, PTL

-----------------------------------------------------------------------------
(***************************************************************************)
(* Exports as the jobs of ExportJobs.                                      *)
(***************************************************************************)
JobStep == [Job!JobsNext]_(Job!jobVars)

LEMMA StageIs ==
  ASSUME NEW x \in Exports
  PROVE  StageOf(x) = CASE export[x].status = "NONE" -> "absent"
                        [] export[x].status = "COMPLETED" -> "made"
                        [] export[x].status = "FAILED" -> "refused"
                        [] OTHER -> IF ~Worked(x) THEN "abandoned"
                                    ELSE IF export[x].status = "PENDING" THEN "queued"
                                         ELSE "running"
<1>1. At(x) = {} <=> ~Worked(x)
  BY DEF At, Worked
<1> QED
  BY <1>1 DEF StageOf

LEMMA StageBecomes ==
  ASSUME NEW x \in Exports
  PROVE  StageOf(x)' = CASE export'[x].status = "NONE" -> "absent"
                         [] export'[x].status = "COMPLETED" -> "made"
                         [] export'[x].status = "FAILED" -> "refused"
                         [] OTHER -> IF ~Worked(x)' THEN "abandoned"
                                     ELSE IF export'[x].status = "PENDING" THEN "queued"
                                          ELSE "running"
<1>1. (At(x) = {})' <=> ~Worked(x)'
  BY DEF At, Worked
<1> QED
  BY <1>1 DEF StageOf

\* A request that stays with its export, or comes to or leaves x, moves no other job
LEMMA OthersKeepStage ==
  ASSUME NEW t \in Transfers, NEW x \in Exports, NEW z \in Exports \ {x},
         \A u \in Transfers \ {t} : transfer'[u] = transfer[u],
         transfer[t].of # z, transfer'[t].of # z,
         export'[z] = export[z]
  PROVE  StageOf(z)' = StageOf(z)
<1>1. Worked(z)' <=> Worked(z)
  BY DEF Worked
<1> QED
  BY <1>1, StageIs, StageBecomes

\* No job moves
LEMMA JobsKept ==
  ASSUME \A x \in Exports : StageOf(x)' = StageOf(x) /\ export'[x].file = export[x].file
  PROVE  JobStep
<1>1. Stages' = Stages /\ Files' = Files
  BY DEF Stages, Files
<1> QED
  BY <1>1 DEF JobStep, Job!jobVars

\* One job moves as ExportJobs says
LEMMA JobMoves ==
  ASSUME NEW x \in Exports, NEW to, NEW f,
         \A z \in Exports \ {x} : StageOf(z)' = StageOf(z) /\ export'[z].file = export[z].file,
         StageOf(x)' = to, export'[x].file = f,
         \/ /\ f = export[x].file
            /\ \/ StageOf(x) = "absent" /\ to = "queued"
               \/ StageOf(x) = "queued" /\ to \in {"running", "abandoned"}
               \/ StageOf(x) = "running" /\ to \in {"refused", "abandoned"}
               \/ StageOf(x) = "running" /\ to = "made" /\ f = "whole"
         \/ /\ StageOf(x) = "running" /\ to = "running"
            /\ f = IF export[x].file = "none" THEN "partial" ELSE "whole"
         \/ /\ StageOf(x) = "absent" /\ to \in {"made", "refused"}
            /\ f \in {"none", "partial", "whole"}
  PROVE  JobStep
<1>1. Stages' = [Stages EXCEPT ![x] = to] /\ Files' = [Files EXCEPT ![x] = f]
  BY DEF Stages, Files
<1>2. Stages[x] = StageOf(x) /\ Files[x] = export[x].file /\ Stages'[x] = to /\ Files'[x] = f
  BY DEF Stages, Files
<1>3. f = export[x].file => Files' = Files
  BY <1>1, <1>2 DEF Files
<1>4. to = StageOf(x) => Stages' = Stages
  BY <1>1, <1>2 DEF Stages
<1>5. ASSUME Stages'[x] # Stages[x] \/ Files'[x] # Files[x]
      PROVE  Job!JobsNext
  <2>1. \/ Job!Accept(x) \/ Job!Work(x) \/ Job!Fill(x) \/ Job!Make(x)
        \/ Job!Refuse(x) \/ Job!Abandon(x) \/ Job!Settle(x)
    BY <1>1, <1>2, <1>3, <1>4
       DEF Job!Accept, Job!Work, Job!Fill, Job!Make, Job!Refuse, Job!Abandon, Job!Settle,
           Job!Moves
  <2> QED
    BY <1>5, <2>1 DEF Job!JobsNext
<1>6. Stages'[x] = Stages[x] /\ Files'[x] = Files[x] => Stages' = Stages /\ Files' = Files
  BY <1>1 DEF Stages, Files
<1> QED
  BY <1>5, <1>6 DEF JobStep, Job!jobVars


\* What a request at work on an export does with its job
LEMMA WorkerMoves ==
  ASSUME TransfersInv, NEW t \in Transfers, NEW x \in Exports, x = transfer[t].of,
         transfer'[t].of \in {x, NoItem},
         \A u \in Transfers \ {t} : transfer'[u] = transfer[u],
         \A z \in Exports \ {x} : export'[z] = export[z]
  PROVE  /\ transfer[t].phase = "queued" => StageOf(x) = "queued"
         /\ transfer[t].phase # "queued" => StageOf(x) = "running"
         /\ export'[x].status = "COMPLETED" => StageOf(x)' = "made"
         /\ export'[x].status = "FAILED" => StageOf(x)' = "refused"
         /\ export'[x].status = "PROCESSING" /\ transfer'[t].of = x => StageOf(x)' = "running"
         /\ export'[x].status \in {"PENDING", "PROCESSING"} /\ transfer'[t].of = NoItem =>
              StageOf(x)' = "abandoned"
         /\ \A z \in Exports \ {x} : StageOf(z)' = StageOf(z) /\ export'[z].file = export[z].file
<1>1. x # NoItem /\ ExportWork(transfer[t].phase, export[x], outcome[x])
  BY DEF TransfersInv, WorkIsRight
<1>2. \A u \in Transfers \ {t} : transfer[u].of # x
  BY <1>1 DEF TransfersInv, Alone, ExportWork
<1>3. Worked(x)
  BY DEF Worked
<1>4. Worked(x)' <=> transfer'[t].of # NoItem
  BY <1>1, <1>2 DEF Worked
<1>5. \A z \in Exports \ {x} : transfer[t].of # z /\ transfer'[t].of # z
  BY TransfersAssumption
<1>6. /\ transfer[t].phase = "queued" => StageOf(x) = "queued"
      /\ transfer[t].phase # "queued" => StageOf(x) = "running"
  BY <1>1, <1>3, StageIs DEF ExportWork
<1>7. \A z \in Exports \ {x} : StageOf(z)' = StageOf(z)
  BY <1>5, OthersKeepStage
<1> QED
  BY <1>1, <1>4, <1>6, <1>7, StageBecomes

\* A request goes on with its export, and leaves the others alone
LEMMA WorkGoesOn ==
  ASSUME TransfersInv, NEW t \in Transfers, NEW x \in Exports, x = transfer[t].of,
         \/ StartExport(t) \/ RenderFails(t) \/ Render(t) \/ WriteArtifact(t)
         \/ WriteArtifactFails(t)
  PROVE  /\ transfer'[t].of = x
         /\ \A u \in Transfers \ {t} : transfer'[u] = transfer[u]
         /\ \A z \in Exports \ {x} : export'[z] = export[z]
<1>1. transfer \in [Transfers -> Transfer] /\ export \in [Exports -> ExportRow]
  BY DEF TransfersInv, TransfersTypeOK
<1>2. \A z \in Exports \ {x} : export'[z] = export[z]
  BY <1>1 DEF StartExport, RenderFails, Render, WriteArtifact, WriteArtifactFails, SaysExport
<1>3. \A u \in Transfers \ {t} : transfer'[u] = transfer[u]
  BY <1>1 DEF StartExport, RenderFails, Render, WriteArtifact, WriteArtifactFails, Goes
<1>4. transfer'[t].of = x
  BY <1>1 DEF StartExport, RenderFails, Render, WriteArtifact, WriteArtifactFails, Goes, Transfer
<1> QED
  BY <1>2, <1>3, <1>4

\* A request ends, or is lost
LEMMA WorkEnds ==
  ASSUME TransfersInv, NEW t \in Transfers, NEW x \in Exports, x = transfer[t].of,
         CompleteExport(t) \/ FailExport(t) \/ TransferLost(t)
  PROVE  /\ transfer'[t].of = NoItem
         /\ \A u \in Transfers \ {t} : transfer'[u] = transfer[u]
         /\ \A z \in Exports \ {x} : export'[z] = export[z]
<1>1. transfer \in [Transfers -> Transfer] /\ export \in [Exports -> ExportRow]
  BY DEF TransfersInv, TransfersTypeOK
<1> QED
  BY <1>1 DEF CompleteExport, FailExport, TransferLost, SaysExport, Ends, NoTransfer

\* The export that a request at work is for
LEMMA WorkerOf ==
  ASSUME TransfersInv, NEW t \in Transfers,
         transfer[t].phase \in {"queued", "rendering", "writing", "completing", "failing"}
  PROVE  \E x \in Exports : /\ x = transfer[t].of /\ x # NoItem /\ export[x] \in ExportRow
                            /\ ExportWork(transfer[t].phase, export[x], outcome[x])
                            /\ outcome[x] # "lost"
  BY ExportWorking DEF ExportWork

LEMMA StartIsWork ==
  ASSUME TransfersInv, NEW t \in Transfers, StartExport(t)
  PROVE  JobStep
<1>1. transfer[t].phase = "queued"
  BY DEF StartExport, Goes
<1>2. PICK x \in Exports : x = transfer[t].of /\ export[x] \in ExportRow
  BY <1>1, WorkerOf
<1>3. export'[x].status = "PROCESSING" /\ export'[x].file = export[x].file
  BY <1>2 DEF StartExport, SaysExport, TransfersInv, TransfersTypeOK, ExportRow
<1> QED
  BY <1>1, <1>2, <1>3, WorkGoesOn, WorkerMoves, JobMoves

LEMMA FailureKeepsJobs ==
  ASSUME TransfersInv, NEW t \in Transfers, RenderFails(t) \/ WriteArtifactFails(t)
  PROVE  JobStep
<1>1. transfer[t].phase \in {"rendering", "writing"}
  BY DEF RenderFails, WriteArtifactFails, Goes
<1>2. PICK x \in Exports : x = transfer[t].of /\ export[x].status = "PROCESSING"
  BY <1>1, WorkerOf DEF ExportWork
<1>3. export' = export
  BY DEF RenderFails, WriteArtifactFails
<1>4. StageOf(x) = "running" /\ StageOf(x)' = "running"
      /\ \A z \in Exports \ {x} : StageOf(z)' = StageOf(z)
  BY <1>1, <1>2, <1>3, WorkGoesOn, WorkerMoves
<1> QED
  BY <1>3, <1>4, JobsKept

LEMMA RenderingIsFill ==
  ASSUME TransfersInv, NEW t \in Transfers, Render(t) \/ WriteArtifact(t)
  PROVE  JobStep
<1>1. transfer[t].phase \in {"rendering", "writing"}
  BY DEF Render, WriteArtifact, Goes
<1>2. PICK x \in Exports :
        /\ x = transfer[t].of /\ export[x] \in ExportRow /\ export[x].status = "PROCESSING"
        /\ \/ transfer[t].phase = "rendering" /\ export[x].file = "none"
           \/ transfer[t].phase = "writing" /\ export[x].file = "partial"
  BY <1>1, WorkerOf DEF ExportWork
<1>3. /\ export'[x].status = "PROCESSING"
      /\ export'[x].file = IF export[x].file = "none" THEN "partial" ELSE "whole"
  BY <1>2 DEF Render, WriteArtifact, Goes, TransfersInv, TransfersTypeOK, ExportRow
<1>4. StageOf(x) = "running" /\ StageOf(x)' = "running"
      /\ \A z \in Exports \ {x} : StageOf(z)' = StageOf(z) /\ export'[z].file = export[z].file
  BY <1>1, <1>2, <1>3, WorkGoesOn, WorkerMoves
<1> QED
  BY <1>3, <1>4, JobMoves

LEMMA EndIsMakeOrRefuse ==
  ASSUME TransfersInv, NEW t \in Transfers, CompleteExport(t) \/ FailExport(t)
  PROVE  JobStep
<1>1. transfer[t].phase \in {"completing", "failing"}
  BY DEF CompleteExport, FailExport, Ends
<1>2. PICK x \in Exports :
        /\ x = transfer[t].of /\ export[x] \in ExportRow
        /\ transfer[t].phase = "completing" => export[x].file = "whole"
  BY <1>1, WorkerOf DEF ExportWork
<1>3. /\ export'[x].file = export[x].file
      /\ \/ export'[x].status = "COMPLETED" /\ export[x].file = "whole"
         \/ export'[x].status = "FAILED"
  BY <1>1, <1>2 DEF CompleteExport, FailExport, Ends, SaysExport, TransfersInv, TransfersTypeOK,
                    ExportRow
<1>4. /\ StageOf(x) = "running"
      /\ StageOf(x)' = IF export'[x].status = "COMPLETED" THEN "made" ELSE "refused"
      /\ \A z \in Exports \ {x} : StageOf(z)' = StageOf(z) /\ export'[z].file = export[z].file
  BY <1>1, <1>2, <1>3, WorkEnds, WorkerMoves
<1> QED
  BY <1>3, <1>4, JobMoves

LEMMA CreationIsAccept ==
  ASSUME TransfersInv, NEW t \in Transfers, NEW x \in Exports, CreateExport(t, x)
  PROVE  JobStep
<1>1. transfer[t].of = NoItem /\ export[x] \in ExportRow /\ export[x].status = "NONE" /\ x # NoItem
  BY DEF CreateExport, Begins, TransfersInv, TransfersTypeOK
<1>2. /\ transfer'[t].of = x
      /\ \A u \in Transfers \ {t} : transfer'[u] = transfer[u]
      /\ \A z \in Exports \ {x} : export'[z] = export[z]
      /\ export'[x].status = "PENDING" /\ export'[x].file = export[x].file
  BY <1>1 DEF CreateExport, Begins, TransfersInv, TransfersTypeOK, ExportRow
<1>3. StageOf(x) = "absent"
  BY <1>1, StageIs
<1>4. StageOf(x)' = "queued"
  <2>1. Worked(x)'
    BY <1>2 DEF Worked
  <2> QED
    BY <1>2, <2>1, StageBecomes
<1>5. ASSUME NEW z \in Exports \ {x} PROVE StageOf(z)' = StageOf(z)
  <2>1. z # NoItem
    OBVIOUS
  <2> QED
    BY <1>1, <1>2, <2>1, OthersKeepStage
<1> QED
  BY <1>2, <1>3, <1>4, <1>5, JobMoves

LEMMA ClientIsSettle ==
  ASSUME TransfersInv, NEW x \in Exports, NEW s \in {"COMPLETED", "FAILED"},
         NEW file \in {"none", "partial", "whole"}, RecordClientExport(x, s, file)
  PROVE  JobStep
<1>1. ~Worked(x)
  BY DEF TransfersInv, WorkIsRight, ExportWork, Worked, RecordClientExport
<1>2. export[x] = NoExport /\ export[x].status = "NONE"
  BY <1>1 DEF TransfersInv, TransfersTypeOK, ExportSettled, RecordClientExport, Outcomes
<1>3. /\ transfer' = transfer
      /\ \A z \in Exports \ {x} : export'[z] = export[z]
      /\ export'[x].status = s /\ export'[x].file = file
  BY DEF RecordClientExport, TransfersInv, TransfersTypeOK
<1>4. StageOf(x) = "absent"
  BY <1>2, StageIs
<1>5. StageOf(x)' = IF s = "COMPLETED" THEN "made" ELSE "refused"
  BY <1>3, StageBecomes
<1>6. ASSUME NEW z \in Exports \ {x} PROVE StageOf(z)' = StageOf(z)
  <2>1. Worked(z)' <=> Worked(z)
    BY <1>3 DEF Worked
  <2> QED
    BY <1>3, <2>1, StageIs, StageBecomes
<1> QED
  BY <1>3, <1>4, <1>5, <1>6, JobMoves

LEMMA LossIsAbandon ==
  ASSUME TransfersInv, NEW t \in Transfers, TransferLost(t)
  PROVE  JobStep
<1>1. CASE transfer[t].of \in Exports
  <2>1. PICK x \in Exports : x = transfer[t].of
    BY <1>1
  <2>2. ExportWork(transfer[t].phase, export[x], outcome[x])
    BY <2>1 DEF TransfersInv, WorkIsRight
  <2>3. export' = export /\ export[x].status \in {"PENDING", "PROCESSING"}
    BY <2>2 DEF ExportWork, TransferLost
  <2>4. /\ StageOf(x) \in {"queued", "running"} /\ StageOf(x)' = "abandoned"
        /\ \A z \in Exports \ {x} : StageOf(z)' = StageOf(z)
    BY <2>1, <2>3, WorkEnds, WorkerMoves
  <2> QED
    BY <2>3, <2>4, JobMoves
<1>2. CASE transfer[t].of \notin Exports
  <2>1. /\ \A u \in Transfers \ {t} : transfer'[u] = transfer[u]
        /\ transfer'[t].of = NoItem /\ export' = export
    BY DEF TransferLost, TransfersInv, TransfersTypeOK, NoTransfer
  <2>2. ASSUME NEW z \in Exports PROVE StageOf(z)' = StageOf(z)
    <3>1. Worked(z)' <=> Worked(z)
      BY <1>2, <2>1 DEF Worked
    <3> QED
      BY <2>1, <3>1, StageIs, StageBecomes
  <2> QED
    BY <2>1, <2>2, JobsKept
<1> QED
  BY <1>1, <1>2

\* What requests for imports do moves no job
LEMMA ImportsKeepJobs ==
  ASSUME TransfersInv, ImportStep
  PROVE  JobStep
<1>1. /\ export' = export
      /\ \/ transfer' = transfer
         \/ \E t \in Transfers : /\ \A u \in Transfers \ {t} : transfer'[u] = transfer[u]
                                 /\ transfer[t].of \notin Exports /\ transfer'[t].of \notin Exports
  <2>1. CASE \E i \in Imports :
               \/ \E where \in {"objects", "cloudinary"} : AskUpload(i, where)
               \/ \E file \in {"good", "bad"} : Upload(i, file)
               \/ UploadExpires(i)
    BY <2>1 DEF AskUpload, Upload, UploadExpires
  <2>2. ASSUME NEW i \in Imports, NEW t \in Transfers, NEW valid \in BOOLEAN,
               NEW named \in BOOLEAN, AskConversion(t, i, valid, named)
        PROVE  /\ export' = export
               /\ \A u \in Transfers \ {t} : transfer'[u] = transfer[u]
               /\ transfer[t].of \notin Exports /\ transfer'[t].of \notin Exports
    BY <2>2 DEF AskConversion, Begins, TransfersInv, TransfersTypeOK
  <2>3. ASSUME NEW t \in Transfers,
               \/ StartConversion(t) \/ CheckObject(t) \/ ConversionAnswers(t)
               \/ ConversionFails(t) \/ SettleConversion(t) \/ SettlingFails(t)
               \/ RefuseConversion(t) \/ CleanUp(t)
        PROVE  /\ export' = export
               /\ \A u \in Transfers \ {t} : transfer'[u] = transfer[u]
               /\ transfer[t].of \notin Exports /\ transfer'[t].of \notin Exports
    <3>1. transfer[t].phase \in {"starting", "checking", "converting", "settling", "refusing",
                                 "cleaning"}
      BY <2>3 DEF StartConversion, CheckObject, ConversionAnswers, ConversionFails,
                  SettleConversion, SettlingFails, RefuseConversion, CleanUp, Settles, Goes, Ends
    <3>2. transfer[t] \in Transfer /\ transfer[t].of \in Imports /\ transfer[t].of # NoItem
      BY <3>1, ImportWorking
    <3>3. transfer \in [Transfers -> Transfer] /\ NoItem \notin Exports
      BY DEF TransfersInv, TransfersTypeOK
    <3>4. \/ \E to : transfer' = [transfer EXCEPT ![t].phase = to]
          \/ transfer' = [transfer EXCEPT ![t] = NoTransfer]
      BY <2>3 DEF StartConversion, CheckObject, ConversionAnswers, ConversionFails,
                  SettleConversion, SettlingFails, RefuseConversion, CleanUp, Settles, Goes, Ends
    <3>5. export' = export
      BY <2>3 DEF StartConversion, CheckObject, ConversionAnswers, ConversionFails,
                  SettleConversion, SettlingFails, RefuseConversion, CleanUp
    <3> QED
      BY <3>2, <3>3, <3>4, <3>5 DEF NoTransfer, Transfer
  <2> QED
    BY <2>1, <2>2, <2>3 DEF ImportStep
<1>2. ASSUME NEW z \in Exports PROVE StageOf(z)' = StageOf(z)
  <2>1. Worked(z)' <=> Worked(z)
    BY <1>1 DEF Worked
  <2> QED
    BY <1>1, <2>1, StageIs, StageBecomes
<1> QED
  BY <1>1, <1>2, JobsKept

\* Exports are jobs as ExportJobs promises them, for any number of exports and of
\* requests, wherever each request fails or is lost: a job is accepted once and
\* worked on by one request, is made only with its whole file on disk, and does
\* not move again when it has ended or was abandoned (generateExport,
\* completeClientExport).
THEOREM ImplementsJobs == TransfersSpec => ExportsAreJobs
<1>1. TransfersInit => Job!JobsInit
  <2> SUFFICES ASSUME TransfersInit PROVE Job!JobsInit
    OBVIOUS
  <2>1. \A x \in Exports : StageOf(x) = "absent" /\ export[x].file = "none"
    BY StageIs DEF TransfersInit, NoExport
  <2> QED
    BY <2>1 DEF Job!JobsInit, Stages, Files
<1>2. TransfersInv /\ [TransfersNext]_transferVars => [Job!JobsNext]_(Job!jobVars)
  <2> SUFFICES ASSUME TransfersInv, [TransfersNext]_transferVars PROVE JobStep
    BY DEF JobStep
  <2>1. CASE ExportStep
    BY <2>1, ClientIsSettle, CreationIsAccept, StartIsWork, FailureKeepsJobs, RenderingIsFill,
       EndIsMakeOrRefuse DEF ExportStep
  <2>2. CASE ImportStep
    BY <2>2, ImportsKeepJobs
  <2>3. CASE \E t \in Transfers : TransferLost(t)
    BY <2>3, LossIsAbandon
  <2>4. CASE UNCHANGED transferVars
    <3>1. \A x \in Exports : Worked(x)' <=> Worked(x)
      BY <2>4 DEF transferVars, Worked
    <3>2. \A x \in Exports : StageOf(x)' = StageOf(x) /\ export'[x].file = export[x].file
      BY <2>4, <3>1, StageIs, StageBecomes DEF transferVars
    <3> QED
      BY <3>2, JobsKept
  <2> QED
    BY <2>1, <2>2, <2>3, <2>4 DEF TransfersNext
<1> QED
  BY <1>1, <1>2, TransfersInvariant, PTL DEF TransfersSpec, ExportsAreJobs, Job!JobsSpec

-----------------------------------------------------------------------------
\* Organizations and accounts, the connections of one, exports and imports, and
\* the requests that write them, have their types, for any number of each.
THEOREM StorageTypes ==
  /\ OrganizationsSpec => []OrganizationsTypeOK
  /\ StorageSpec => []StorageTypeOK
  /\ TransfersSpec => []TransfersTypeOK
<1>1. OrganizationsInv /\ suspended \subseteq Tenants => OrganizationsTypeOK
  BY DEF OrganizationsInv, OrganizationsTypeOK
<1>2. StorageInv => StorageTypeOK
  BY DEF StorageInv
<1>3. TransfersInv => TransfersTypeOK
  BY DEF TransfersInv
<1> QED
  BY <1>1, <1>2, <1>3, OrganizationsInvariant, SuspendedTyped, StorageInvariant, TransfersInvariant, PTL
=============================================================================
