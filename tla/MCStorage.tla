----------------------------- MODULE MCStorage ------------------------------
(***************************************************************************)
(* Organizations, the cloud storage of one, and exports and imports, for   *)
(* TLC.  part says which of them a behaviour moves (see MCAccess).         *)
(* Organizations take two parts and cloud storage three:                   *)
(*   offices   two organizations, one of them archived, and their addresses*)
(*   policies  what updates of one organization, and its partner, rule     *)
(*   lists     two providers connected and edited at once                  *)
(*   dropbox   one provider that users could once connect for themselves   *)
(*   onedrive  one provider of the organization only                       *)
(***************************************************************************)
EXTENDS Organizations, CloudStorage, ContentTransfers, TLC

CONSTANTS Home, Dropbox, OneDrive

VARIABLE part

vars == <<orgVars, storageVars, transferVars, part>>

Init ==
  /\ OrganizationsInit /\ StorageInit /\ TransfersInit
  /\ part \in {"offices", "policies", "lists", "dropbox", "onedrive", "exports", "imports"}

\* No organization is made INACTIVE but by archiving it
WriteOrg(c) == /\ \E a \in Accounts \cup {NoAccount} : CreateOrg(c, a) \/ UpdateOrg(c, a)
               /\ UNCHANGED suspended

\* One organization gets users, loses its address and is archived; of the
\* users, its primary administrator may leave by himself
OfficesNext ==
  \/ \E c \in OrgCalls :
       \/ AskArchiveOrg(c, Home) \/ AskUpdateOrg(c, Home, NoMail, Silent)
       \/ ArchiveOrg(c) \/ WriteOrg(c) \/ DeleteAccount(c)
       \/ \E a \in Accounts : AskDeleteAccount(c, a)
       \/ \E o \in Tenants, m \in Addresses :
            AskCreateOrg(c, o, NoTenant, m, Silent) \/ AskUpdateOrg(c, o, m, Silent)
       \/ orgCall[c].phase = "creating" /\ OrgCallFails(c)
  \/ \E a \in Accounts :
       \/ \E m \in Addresses : CreateAccount(a, m, Home)
       \/ accounts[a].orgs # {Home} /\ MoveAccount(a, Home)
       \/ org[Home].admin = a /\ (\A b \in Accounts : accounts[b].state # "left") /\ DeleteMe(a)

\* A request rules on one thing
Ruling(word, values) == {[Silent EXCEPT ![word] = v] : v \in values}

Rulings ==
  UNION {Ruling(word, BOOLEAN) : word \in {"teacherOnly", "student", "parent"}}
    \cup Ruling("studentLimit", {1})

\* Of customers, what was read and resolved is looked at and nothing written
PoliciesNext ==
  \E c \in OrgCalls :
    \/ IF orgCall[c].partner = NoTenant THEN WriteOrg(c) ELSE OrgCallFails(c)
    \/ \E patch \in Rulings :
         \/ AskCreateOrg(c, Home, NoTenant, NoMail, patch) \/ AskUpdateOrg(c, Home, Unsaid, patch)
         \/ /\ \A d \in OrgCalls : orgCall[d].phase = "idle"
            /\ \E o \in Tenants \ {Home} : AskCreateOrg(c, o, Home, NoMail, patch)

\* One provider, credentials of one scope, one request that connects
Only(p) ==
  /\ \A q \in Providers \ {p} : conn'[q] = NoConn /\ q \notin link'
  /\ \A c \in StorageCalls : /\ storageCall'[c].provider \in {p, NoProvider}
                             /\ storageCall'[c].phase # "editing"
  /\ Cardinality({c \in StorageCalls :
        storageCall'[c].phase \in {"exchanging", "enabling", "writing"}}) <= 1
  /\ config' \subseteq {"GLOBAL"} \X {p}

\* The lists of providers, as administrators connect and edit them
Listing == link' = {} /\ UNCHANGED <<config, own>>

NextOf(name, A) == part = name /\ A /\ UNCHANGED <<part, orgVars, transferVars>>

TransfersOf(name, A) ==
  part = name /\ (A \/ \E t \in Transfers : TransferLost(t)) /\ UNCHANGED <<part, orgVars, storageVars>>

OrganizationsOf(name, A) ==
  part = name /\ A /\ UNCHANGED <<part, storageVars, transferVars>>

DropboxNext == NextOf("dropbox", StorageNext /\ Only(Dropbox))

Next ==
  \/ OrganizationsOf("offices", OfficesNext)
  \/ OrganizationsOf("policies", PoliciesNext)
  \/ NextOf("lists", (ConnectStep \/ AdminStep) /\ Listing)
  \/ DropboxNext
  \/ NextOf("onedrive", StorageNext /\ Only(OneDrive))
  \/ TransfersOf("exports", ExportStep)
  \/ TransfersOf("imports", ImportStep)

Spec == Init /\ [][Next]_vars

\* One provider, whose rows no administrator writes
PersonalStep ==
  ConnectStep \/ TokenStep \/ \E s \in Scopes, p \in Providers : SetCredential(s, p)

ConnectionsSpec ==
  Init /\ part = "dropbox" /\ [][NextOf("dropbox", PersonalStep /\ Only(Dropbox))]_vars

\* Customers of the organization that is created first
PartnersSpec == Init /\ part = "policies" /\ [][OrganizationsOf("policies", PoliciesNext)]_vars

\* Requests are model values, users and external accounts are; the sets have the
\* same elements in every module
Interchangeable == Permutations(StorageCalls) \cup Permutations(Grants)
=============================================================================
