----------------------------- MODULE Organizations -----------------------------
(***************************************************************************)
(* Organizations as administrators create, update and archive them         *)
(* (admin.service.ts): the support e-mail and the primary administrator,   *)
(* and the policy of who may log in.  A request reads and checks, and      *)
(* writes in a transaction that checks nothing again; what keeps two       *)
(* accounts from one address is the unique column of the users.            *)
(***************************************************************************)
EXTENDS Naturals

CONSTANTS
  Tenants, Accounts, \* rows of organizations and of users, future ones included
  Addresses,       \* e-mail addresses
  Limits,          \* user limits other than none
  NoTenant, NoAccount, NoMail, Unlimited,
  Unsaid,          \* what a request leaves out
  OrgCalls         \* requests in flight

ASSUME OrganizationsAssumption ==
  /\ Limits \subseteq Nat /\ 0 \in Limits
  /\ NoTenant \notin Tenants /\ NoAccount \notin Accounts /\ NoMail \notin Addresses
  /\ Unlimited \notin Limits
  /\ Unsaid \notin BOOLEAN /\ Unsaid \notin Limits \cup {Unlimited}
  /\ Unsaid \notin Addresses \cup {NoMail}

VARIABLES
  org,             \* the rows of organizations
  suspended,       \* the organizations whose status is INACTIVE
  accounts,        \* the rows of users, with their organizations
  orgCall,         \* the local state of each request
  blurred          \* history: what requests wrote from stale reads

orgVars == <<org, suspended, accounts, orgCall, blurred>>

UserLimit == Limits \cup {Unlimited}

Policy == [teacherOnly : BOOLEAN, student : BOOLEAN, parent : BOOLEAN,
           studentLimit : UserLimit, parentLimit : UserLimit]

Patch == [teacherOnly : BOOLEAN \cup {Unsaid}, student : BOOLEAN \cup {Unsaid},
          parent : BOOLEAN \cup {Unsaid},
          studentLimit : UserLimit \cup {Unsaid}, parentLimit : UserLimit \cup {Unsaid}]

Silent == [teacherOnly |-> Unsaid, student |-> Unsaid, parent |-> Unsaid,
           studentLimit |-> Unsaid, parentLimit |-> Unsaid]

\* Before anything is said of it
Closed == [teacherOnly |-> FALSE, student |-> FALSE, parent |-> FALSE,
           studentLimit |-> Unlimited, parentLimit |-> Unlimited]

Org == [state : {"none", "open", "archived"}, mail : Addresses \cup {NoMail},
        admin : Accounts \cup {NoAccount}, policy : Policy,
        parent : Tenants \cup {NoTenant}]

NewTenant == [state |-> "none", mail |-> NoMail, admin |-> NoAccount, policy |-> Closed,
              parent |-> NoTenant]

\* An account that administrators deleted has the address of nobody; one whose
\* user has left, by deleting it himself, is as it was
Account == [state : {"none", "there", "left", "deleted"}, mail : Addresses \cup {NoMail},
            orgs : SUBSET Tenants]

NewAccount == [state |-> "none", mail |-> NoMail, orgs |-> {}]

Deleted(a) == [accounts[a] EXCEPT !.state = "deleted", !.mail = NoMail, !.orgs = {}]

OrgCall ==
  [phase : {"idle", "creating", "updating", "deleting", "archiving"},
   org : Tenants \cup {NoTenant}, partner : Tenants \cup {NoTenant},
   mail : Addresses \cup {NoMail, Unsaid}, changes : BOOLEAN,  \* the address changes
   admin : Accounts \cup {NoAccount},  \* the primary administrator read, or to delete
   patch : Patch,
   policy : Policy,                    \* resolved from what was read
   grant : Policy,                     \* the partner's, as read
   pool : SUBSET Accounts,             \* the users to archive
   stale : SUBSET {"admin", "policy"}] \* history: rows written since they were read

Resting == [phase |-> "idle", org |-> NoTenant, partner |-> NoTenant, mail |-> Unsaid,
            changes |-> FALSE, admin |-> NoAccount, patch |-> Silent, policy |-> Closed,
            grant |-> Closed, pool |-> {}, stale |-> {}]

RowsTypeOK ==
  /\ org \in [Tenants -> Org]
  /\ accounts \in [Accounts -> Account]
  /\ orgCall \in [OrgCalls -> OrgCall]
  /\ blurred \subseteq {"admin", "policy"} \X Tenants

OrganizationsTypeOK == RowsTypeOK /\ suspended \subseteq Tenants

OrganizationsInit ==
  /\ org = [o \in Tenants |-> NewTenant]
  /\ suspended = {}
  /\ accounts = [a \in Accounts |-> NewAccount]
  /\ orgCall = [c \in OrgCalls |-> Resting]
  /\ blurred = {}

-----------------------------------------------------------------------------
(***************************************************************************)
(* The policy.                                                             *)
(***************************************************************************)
Given(said, otherwise) == IF said = Unsaid THEN otherwise ELSE said

\* resolveOrganizationRolePolicy
Resolve(patch, seen) ==
  LET alone == Given(patch.teacherOnly, seen.teacherOnly)
      parent == ~alone /\ Given(patch.parent, seen.parent)
  IN [teacherOnly |-> alone,
      parent |-> parent,
      student |-> ~alone /\ (parent \/ Given(patch.student, seen.student)),
      studentLimit |-> IF alone THEN 0 ELSE Given(patch.studentLimit, seen.studentLimit),
      parentLimit |-> IF parent THEN Given(patch.parentLimit, seen.parentLimit) ELSE 0]

\* A mutant of Written: only the columns that were said
WrittenAsSaid(patch, resolved, row) ==
  [column \in DOMAIN row |-> IF patch[column] = Unsaid THEN row[column] ELSE resolved[column]]

\* The columns an update writes: those that were said, and those they decide
Written(patch, resolved, row) ==
  LET alone == patch.teacherOnly # Unsaid
      parent == alone \/ patch.parent # Unsaid
  IN [teacherOnly |-> IF alone THEN resolved.teacherOnly ELSE row.teacherOnly,
      parent |-> IF parent THEN resolved.parent ELSE row.parent,
      student |-> IF parent \/ patch.student # Unsaid THEN resolved.student ELSE row.student,
      studentLimit |-> IF alone \/ patch.studentLimit # Unsaid
                       THEN resolved.studentLimit ELSE row.studentLimit,
      parentLimit |-> IF parent \/ patch.parentLimit # Unsaid
                      THEN resolved.parentLimit ELSE row.parentLimit]

AtMost(limit, allowed) == Unlimited \notin {limit, allowed} => limit <= allowed

\* assertPartnerCustomerPolicyWithinGrant
WithinGrant(policy, grant) ==
  /\ policy.student => grant.student
  /\ policy.parent => grant.parent
  /\ AtMost(policy.studentLimit, grant.studentLimit)
  /\ AtMost(policy.parentLimit, grant.parentLimit)

-----------------------------------------------------------------------------
(***************************************************************************)
(* The support e-mail.                                                     *)
(***************************************************************************)
\* ensureSupportEmailAvailable
Available(m, o, admin) ==
  /\ \A a \in Accounts \ {admin} : accounts[a].state = "there" => accounts[a].mail # m
  /\ \A p \in Tenants \ {o} : org[p].state = "open" => org[p].mail # m

\* The unique column, of deleted users too
Unused(m, admin) == \A a \in Accounts \ {admin} : accounts[a].mail # m

OrgBegins(c, record) ==
  /\ orgCall[c].phase = "idle"
  /\ orgCall' = [orgCall EXCEPT ![c] = record]
  /\ UNCHANGED <<org, suspended, accounts, blurred>>

\* The request ends, and what others have read of these organizations is stale
OrgEnds(c, mailed, ruled) ==
  orgCall' = [d \in OrgCalls |->
    IF d = c THEN Resting
    ELSE [orgCall[d] EXCEPT !.stale =
            @ \cup (IF orgCall[d].org \in mailed THEN {"admin"} ELSE {})
              \cup (IF orgCall[d].org \in ruled THEN {"policy"} ELSE {})]]

\* A super administrator creates any organization, a partner's a customer
AskCreateOrg(c, o, partner, m, patch) ==
  LET policy == Resolve(patch, Closed)
      grant == IF partner = NoTenant THEN Closed ELSE org[partner].policy
  IN /\ org[o].state = "none"
     /\ partner # NoTenant => org[partner].state = "open" /\ WithinGrant(policy, grant)
     /\ m # NoMail => Available(m, NoTenant, NoAccount)
     /\ OrgBegins(c, [Resting EXCEPT !.phase = "creating", !.org = o, !.partner = partner,
                     !.mail = m, !.changes = m # NoMail, !.patch = patch,
                     !.policy = policy, !.grant = grant])

Onboards(a, m, o) ==
  /\ a # NoAccount /\ accounts[a].state = "none" /\ Unused(m, a)
  /\ accounts' = [accounts EXCEPT ![a] = [state |-> "there", mail |-> m, orgs |-> {o}]]

NobodyNew(a) == a = NoAccount /\ UNCHANGED accounts

\* a: the account that is created, if any
CreateOrg(c, a) ==
  LET x == orgCall[c]
      o == x.org
  IN /\ x.phase = "creating" /\ org[o].state = "none"
     /\ IF x.changes THEN Onboards(a, x.mail, o) ELSE NobodyNew(a)
     /\ org' = [org EXCEPT ![o] =
          [state |-> "open", mail |-> x.mail, policy |-> x.policy, admin |-> a,
           parent |-> x.partner]]
     /\ OrgEnds(c, {o}, {o})
     /\ UNCHANGED <<suspended, blurred>>

AskUpdateOrg(c, o, m, patch) ==
  LET changes == m \notin {Unsaid, NoMail, org[o].mail} IN
  /\ org[o].state = "open"
  /\ changes => Available(m, o, org[o].admin)
  /\ OrgBegins(c, [Resting EXCEPT !.phase = "updating", !.org = o, !.mail = m,
                  !.changes = changes, !.admin = org[o].admin, !.patch = patch,
                  !.policy = Resolve(patch, org[o].policy)])

\* The primary administrator that was read gets the new address, whatever has
\* become of him; without one an account is created
Readdressed(x, a) ==
  IF ~x.changes THEN NobodyNew(a)
  ELSE IF x.admin = NoAccount THEN Onboards(a, x.mail, x.org)
  ELSE /\ a = NoAccount /\ Unused(x.mail, x.admin)
       /\ accounts' = [accounts EXCEPT ![x.admin].mail = x.mail, ![x.admin].orgs = @ \cup {x.org}]

\* From stale reads; anew, and so in order again; or not at all
Blurs(what, o, stale, anew) ==
  {e \in {<<what, o>>} : stale} \cup {e \in blurred \cap {<<what, o>>} : ~anew}

\* With the rest of an update, if the request says so; nothing depends on what it
\* was
StatusOf(o) == suspended' \in {suspended, suspended \cup {o}, suspended \ {o}}

\* An account that no administrator has deleted
Remains(a) == accounts[a].state \in {"there", "left"}

UpdateOrg(c, a) ==
  LET x == orgCall[c]
      o == x.org
      mails == x.mail # Unsaid
      rules == x.patch # Silent
      anew == /\ "admin" \notin x.stale /\ x.changes
              /\ x.admin = NoAccount \/ Remains(x.admin)
      anewRules == "policy" \notin x.stale /\ x.patch.teacherOnly # Unsaid
  IN /\ x.phase = "updating"
     /\ Readdressed(x, a)
     /\ org' = [org EXCEPT
          ![o].mail = Given(x.mail, @),
          ![o].admin = IF ~x.changes THEN @ ELSE IF x.admin = NoAccount THEN a ELSE x.admin,
          ![o].policy = Written(x.patch, x.policy, @)]
     /\ StatusOf(o)
     /\ blurred' = {e \in blurred : e[2] # o}
          \cup Blurs("admin", o, mails /\ "admin" \in x.stale, anew)
          \cup Blurs("policy", o, rules /\ "policy" \in x.stale, anewRules)
     /\ OrgEnds(c, IF mails THEN {o} ELSE {}, IF rules THEN {o} ELSE {})

-----------------------------------------------------------------------------
(***************************************************************************)
(* Users and archived organizations.                                       *)
(***************************************************************************)
CreateAccount(a, m, o) ==
  /\ org[o].state = "open"
  /\ Onboards(a, m, o)
  /\ UNCHANGED <<org, suspended, orgCall, blurred>>

\* updateUser: a primary administrator stays one where he is no longer a member
MoveAccount(a, o) ==
  /\ accounts[a].state = "there" /\ org[o].state = "open"
  /\ accounts' = [accounts EXCEPT ![a].orgs = {o}]
  /\ UNCHANGED <<org, suspended, orgCall, blurred>>

\* The user's own deletion sets deletedAt and no more: the address stays in use,
\* and he the primary administrator of his organizations
DeleteMe(a) ==
  /\ accounts[a].state = "there"
  /\ accounts' = [accounts EXCEPT ![a].state = "left"]
  /\ UNCHANGED <<org, suspended, orgCall, blurred>>

AskDeleteAccount(c, a) ==
  /\ accounts[a].state = "there"
  /\ OrgBegins(c, [Resting EXCEPT !.phase = "deleting", !.admin = a, !.mail = accounts[a].mail])

\* A mutant of Orphaned: the address stays
OrphanedKeepingMail(o) == [org[o] EXCEPT !.admin = NoAccount]

Orphaned(o) == [org[o] EXCEPT !.mail = NoMail, !.admin = NoAccount]

DeleteAccount(c) ==
  LET x == orgCall[c]
      a == x.admin
      freed == {o \in Tenants : org[o].admin = a \/ org[o].mail = x.mail}
  IN /\ x.phase = "deleting"
     /\ accounts' = [accounts EXCEPT ![a] = Deleted(a)]
     /\ org' = [o \in Tenants |-> IF o \in freed THEN Orphaned(o) ELSE org[o]]
     /\ OrgEnds(c, freed, {})
     /\ UNCHANGED <<suspended, blurred>>

\* Children that are ACTIVE have to be archived first
AskArchiveOrg(c, o) ==
  /\ org[o].state = "open"
  /\ \A p \in Tenants \ suspended : org[p].parent = o => org[p].state # "open"
  /\ OrgBegins(c, [Resting EXCEPT !.phase = "archiving", !.org = o,
                  !.pool = {a \in Accounts : accounts[a].state = "there" /\ o \in accounts[a].orgs}])

\* Other organizations keep a primary administrator that is deleted with this one
ArchiveOrg(c) ==
  LET x == orgCall[c]
      o == x.org
  IN /\ x.phase = "archiving"
     /\ accounts' = [a \in Accounts |-> IF a \in x.pool THEN Deleted(a) ELSE accounts[a]]
     /\ org' = [org EXCEPT ![o] = [Orphaned(o) EXCEPT !.state = "archived"]]
     /\ suspended' = suspended \cup {o}
     /\ blurred' = blurred \cup ({"admin"} \X {p \in Tenants \ {o} : org[p].admin \in x.pool})
     /\ OrgEnds(c, {o}, {})

OrgCallFails(c) ==
  /\ orgCall[c].phase # "idle"
  /\ orgCall' = [orgCall EXCEPT ![c] = Resting]
  /\ UNCHANGED <<org, suspended, accounts, blurred>>

-----------------------------------------------------------------------------
OrgStep ==
  \E c \in OrgCalls :
    \/ \E o \in Tenants, m \in Addresses \cup {NoMail}, patch \in Patch :
         \E partner \in Tenants \cup {NoTenant} : AskCreateOrg(c, o, partner, m, patch)
    \/ \E o \in Tenants, m \in Addresses \cup {NoMail, Unsaid}, patch \in Patch :
         AskUpdateOrg(c, o, m, patch)
    \/ \E a \in Accounts \cup {NoAccount} : CreateOrg(c, a) \/ UpdateOrg(c, a)
    \/ OrgCallFails(c)

LeaveStep ==
  \E c \in OrgCalls :
    \/ \E a \in Accounts : AskDeleteAccount(c, a)
    \/ \E o \in Tenants : AskArchiveOrg(c, o)
    \/ DeleteAccount(c) \/ ArchiveOrg(c)

AccountStep ==
  \E a \in Accounts, o \in Tenants :
    (\E m \in Addresses : CreateAccount(a, m, o)) \/ MoveAccount(a, o) \/ DeleteMe(a)

OrganizationsNext == OrgStep \/ LeaveStep \/ AccountStep

OrganizationsSpec == OrganizationsInit /\ [][OrganizationsNext]_orgVars

-----------------------------------------------------------------------------
\* The support e-mail of an organization is the address of its primary
\* administrator, whose account is there or was deleted by the user himself: no
\* administrator has deleted it and left the organization its address.  Unless the
\* organization was written from stale reads, or the account deleted with another
\* organization (createOrganization, updateOrganization, deleteUser, deleteMe).
AdminIsThere ==
  \A o \in Tenants :
    org[o].state = "open" /\ org[o].mail # NoMail /\ <<"admin", o>> \notin blurred =>
      /\ org[o].admin \in Accounts
      /\ Remains(org[o].admin)
      /\ accounts[org[o].admin].mail = org[o].mail

\* Whatever an update leaves out, nobody but teachers is let in where there are
\* teachers only, and parents are not let in without students, unless two
\* updates read the same policy (resolveOrganizationRolePolicy).
Coherent(policy) ==
  /\ policy.teacherOnly => /\ ~policy.student /\ ~policy.parent
                           /\ policy.studentLimit = 0 /\ policy.parentLimit = 0
  /\ policy.parent => policy.student

PolicyCoherent ==
  \A o \in Tenants : <<"policy", o>> \notin blurred => Coherent(org[o].policy)

\* "cannot exceed partner organization limit": a customer that a partner creates
\* has no higher limit than the partner (assertPartnerCustomerPolicyWithinGrant).
Exceeds(limit, allowed) ==
  allowed # Unlimited /\ (limit # Unlimited => limit > allowed)

CustomersWithinLimit ==
  \A c \in OrgCalls :
    orgCall[c].phase = "creating" /\ orgCall[c].partner # NoTenant =>
      ~Exceeds(orgCall[c].policy.studentLimit, orgCall[c].grant.studentLimit)

=============================================================================
