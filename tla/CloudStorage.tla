---------------------------- MODULE CloudStorage ----------------------------
(***************************************************************************)
(* An organization's connections to Dropbox, Google Drive and OneDrive     *)
(* (integrations.service.ts): OAuth, token refresh and disconnection, and  *)
(* the administrators' writes to the same rows (admin.service.ts).  A      *)
(* connection and the organization's list of providers are written by      *)
(* different statements, and a refresh writes back what it read before it  *)
(* asked the provider.                                                     *)
(***************************************************************************)
EXTENDS Naturals, FiniteSets

CONSTANTS
  Providers,     \* the values of OrganizationStorageProvider
  Personal,      \* those a user could connect without an organization
  Grants,        \* external accounts that may be connected
  NoGrant,
  NoProvider,
  EnvLegacy,     \* providers with client credentials in the environment
  StorageCalls   \* requests in flight

ASSUME StorageAssumption ==
  /\ Personal \subseteq Providers /\ EnvLegacy \subseteq Providers
  /\ NoProvider \notin Providers /\ NoGrant \notin Grants

VARIABLES
  office,        \* the organization's storage columns
  conn,          \* per provider, the row of organization_storage_connections
  own,           \* per provider, the tokens of the user's oauth_connections row
  config,        \* the rows of storage_credential_configs: scope and provider
  link,          \* providers for which a signed OAuth state is outstanding
  storageCall,   \* the local state of each request
  account,       \* history: the account each connection was last made with
  muddled        \* history: what requests wrote from stale reads

storageVars == <<office, conn, own, config, link, storageCall, account, muddled>>

NoTokens == [grant |-> NoGrant, fresh |-> FALSE, renewable |-> FALSE]

Tokens == [grant : Grants \cup {NoGrant}, fresh : BOOLEAN, renewable : BOOLEAN]

Status == {"CONNECTED", "NOT_CONFIGURED"}

Office == [active : BOOLEAN, internal : BOOLEAN, enabled : SUBSET Providers,
           main : Providers \cup {NoProvider}, status : Status]

NewOffice == [active : {TRUE}, internal : BOOLEAN, enabled : {{}},
              main : {NoProvider}, status : {"NOT_CONFIGURED"}]

Choice == [enabled : SUBSET Providers, main : Providers \cup {NoProvider}]

NoChoice == [enabled |-> {}, main |-> NoProvider]

NoConn == [row |-> FALSE, status |-> "NOT_CONFIGURED", tokens |-> NoTokens]

Scopes == {"GLOBAL", "ORGANIZATION"}

StorageCall == [phase : {"idle", "exchanging", "enabling", "writing", "editing", "refreshing"},
                provider : Providers \cup {NoProvider},
                tokens : Tokens,       \* tokens read, or granted
                shared : BOOLEAN,      \* they are the organization's
                seen : Choice,         \* the organization's choice, as read
                status : Status,       \* the status to write
                stale : BOOLEAN]       \* history: its rows were written since

Quiet == [phase |-> "idle", provider |-> NoProvider, tokens |-> NoTokens,
          shared |-> FALSE, seen |-> NoChoice, status |-> "NOT_CONFIGURED",
          stale |-> FALSE]

StorageTypeOK ==
  /\ office \in Office
  /\ conn \in [Providers -> [row : BOOLEAN, status : Status, tokens : Tokens]]
  /\ own \in [Personal -> Tokens]
  /\ config \subseteq Scopes \X Providers
  /\ link \subseteq Providers
  /\ storageCall \in [StorageCalls -> StorageCall]
  /\ account \in [Providers -> Grants \cup {NoGrant}]
  /\ muddled \subseteq ({"tokens", "list"} \X Providers)

\* Users connected accounts of their own before connections belonged to
\* organizations; no endpoint adds such a row any more
StorageInit ==
  /\ office \in NewOffice
  /\ conn = [p \in Providers |-> NoConn]
  /\ own \in [Personal -> {NoTokens} \cup
                [grant : Grants, fresh : {TRUE}, renewable : {TRUE}]]
  /\ config = {}
  /\ link = {}
  /\ storageCall = [c \in StorageCalls |-> Quiet]
  /\ account = [p \in Providers |-> NoGrant]
  /\ muddled = {}

-----------------------------------------------------------------------------
\* resolveStorageCredential: the organization's, else the global one, else the
\* environment's
Credential(p) == (\E s \in Scopes : <<s, p>> \in config) \/ p \in EnvLegacy

\* resolveStorageOrganizationId
Enabled(p) == office.active /\ (office.internal \/ p \in office.enabled)

InPhase(c, phase) == storageCall[c].phase = phase

Moves(c, record) == storageCall' = [storageCall EXCEPT ![c] = record]

\* A call that writes rows the others hold makes what they hold stale
Writes(c, holders) ==
  storageCall' = [d \in StorageCalls |->
    IF d = c THEN Quiet ELSE [storageCall[d] EXCEPT !.stale = @ \/ d \in holders]]

SetCredential(s, p) ==
  /\ config' = config \cup {<<s, p>>}
  /\ UNCHANGED <<office, conn, own, link, storageCall, account, muddled>>

DeleteCredential(s, p) ==
  /\ <<s, p>> \in config
  /\ config' = config \ {<<s, p>>}
  /\ UNCHANGED <<office, conn, own, link, storageCall, account, muddled>>

-----------------------------------------------------------------------------
(***************************************************************************)
(* Connecting.  The signed state is good for ten minutes, whatever happens *)
(* to the organization meanwhile.                                          *)
(***************************************************************************)
AskLink(p) ==
  /\ Enabled(p) /\ Credential(p)
  /\ link' = link \cup {p}
  /\ UNCHANGED <<office, conn, own, config, storageCall, account, muddled>>

LinkExpires(p) ==
  /\ p \in link
  /\ link' = link \ {p}
  /\ UNCHANGED <<office, conn, own, config, storageCall, account, muddled>>

\* The provider exchanges the code for tokens
Callback(c, p, g, renewable) ==
  /\ InPhase(c, "idle") /\ p \in link /\ Credential(p)
  /\ Moves(c, [Quiet EXCEPT
       !.phase = "exchanging", !.provider = p, !.status = "CONNECTED",
       !.tokens = [grant |-> g, fresh |-> TRUE, renewable |-> renewable]])
  /\ UNCHANGED <<office, conn, own, config, link, account, muddled>>

\* storeOrganizationConnection, first statement
StoreConnection(c) ==
  LET x == storageCall[c]
      p == x.provider
  IN /\ InPhase(c, "exchanging")
     /\ conn' = [conn EXCEPT ![p] = [row |-> TRUE, status |-> "CONNECTED",
                                     tokens |-> x.tokens]]
     /\ account' = [account EXCEPT ![p] = x.tokens.grant]
     /\ muddled' = muddled \ {<<"tokens", p>>}
     /\ storageCall' = [d \in StorageCalls |->
          IF d = c THEN [x EXCEPT !.phase = "enabling"]
          ELSE [storageCall[d] EXCEPT !.stale =
                  @ \/ (InPhase(d, "refreshing") /\ storageCall[d].provider = p)]]
     /\ UNCHANGED <<office, own, config, link>>

\* upsertOrganizationStorageConnection, first statement: the status is the
\* administrator's to say, the tokens are kept or cleared
AdminUpserts(c, p, status, clear) ==
  /\ InPhase(c, "idle") /\ office.active
  /\ conn' = [conn EXCEPT ![p] = [row |-> TRUE, status |-> status,
       tokens |-> IF clear THEN NoTokens ELSE conn[p].tokens]]
  /\ Moves(c, [Quiet EXCEPT !.phase = "enabling", !.provider = p, !.status = status])
  /\ UNCHANGED <<office, own, config, link, account, muddled>>

Chosen == [enabled |-> office.enabled, main |-> office.main]

ReadOffice(c) ==
  /\ InPhase(c, "enabling")
  /\ Moves(c, [storageCall[c] EXCEPT !.phase = "writing", !.seen = Chosen])
  /\ UNCHANGED <<office, conn, own, config, link, account, muddled>>

ProvidersAfterReplacing(seen, p) == {p}

ProvidersAfter(seen, p) == seen.enabled \cup {p}

ListHolders == {d \in StorageCalls : storageCall[d].phase \in {"writing", "editing"}}

\* The list loses what others have added since it was read
WriteOffice(c) ==
  LET x == storageCall[c]
      first == IF x.seen.main = NoProvider THEN x.provider ELSE x.seen.main
  IN /\ InPhase(c, "writing")
     /\ office' = [office EXCEPT
          !.enabled = ProvidersAfter(x.seen, x.provider),
          !.main = first,
          !.status = IF first = x.provider THEN x.status ELSE @]
     /\ muddled' = IF x.stale THEN muddled \cup ({"list"} \X Providers) ELSE muddled
     /\ Writes(c, ListHolders)
     /\ UNCHANGED <<conn, own, config, link, account>>

-----------------------------------------------------------------------------
(***************************************************************************)
(* The administrators' other writes: updateOrganization reads what the     *)
(* organization has and replaces it with what it was given, in one         *)
(* transaction with the connections; deleteOrganization clears everything. *)
(***************************************************************************)
ReadOrganization(c) ==
  /\ InPhase(c, "idle") /\ office.active
  /\ Moves(c, [Quiet EXCEPT !.phase = "editing", !.seen = Chosen])
  /\ UNCHANGED <<office, conn, own, config, link, account, muddled>>

\* resolveStorageSelection
MainOf(chosen, enabled) ==
  IF chosen # NoProvider THEN {chosen}
  ELSE IF enabled = {} THEN {NoProvider} ELSE enabled

\* syncOrganizationStorageConnections
ConnectionsOf(enabled, main, status) ==
  [p \in Providers |->
     IF p \notin enabled THEN NoConn
     ELSE IF conn[p].row THEN conn[p]
     ELSE [NoConn EXCEPT !.row = TRUE,
                         !.status = IF p = main THEN status ELSE "NOT_CONFIGURED"]]

UpdateStorage(c, given, chosen, said) ==
  LET old == storageCall[c].seen
      wanted == IF chosen = NoProvider THEN old.main ELSE chosen
      enabled == (given \cup {wanted}) \ {NoProvider}
      status == IF enabled = {} THEN "NOT_CONFIGURED" ELSE said
  IN /\ InPhase(c, "editing")
     /\ \E main \in MainOf(wanted, enabled) :
          /\ office' = [office EXCEPT !.enabled = enabled, !.main = main, !.status = status]
          /\ conn' = ConnectionsOf(enabled, main, status)
     /\ Writes(c, ListHolders)
     /\ muddled' = muddled \ {<<"list", p>> : p \in Providers \ enabled}
     /\ UNCHANGED <<own, config, link, account>>

ArchiveOffice ==
  /\ office' = [office EXCEPT !.active = FALSE, !.enabled = {}, !.main = NoProvider,
                            !.status = "NOT_CONFIGURED"]
  /\ office.active
  /\ conn' = [p \in Providers |-> [NoConn EXCEPT !.row = conn[p].row]]
  /\ storageCall' = [d \in StorageCalls |->
       [storageCall[d] EXCEPT !.stale = storageCall[d].phase # "idle"]]
  /\ UNCHANGED <<own, config, link, account, muddled>>

Disconnect(p) ==
  /\ Enabled(p)
  /\ conn' = [conn EXCEPT ![p].status = "NOT_CONFIGURED", ![p].tokens = NoTokens]
  /\ storageCall' = [d \in StorageCalls |->
       [storageCall[d] EXCEPT !.stale =
          @ \/ (InPhase(d, "refreshing") /\ storageCall[d].provider = p)]]
  /\ UNCHANGED <<office, own, config, link, account, muddled>>

-----------------------------------------------------------------------------
(***************************************************************************)
(* Using a connection: every list, import, upload and folder request gets  *)
(* an access token first, the organization's if it has a row, and renews   *)
(* it when it is about to expire.                                          *)
(***************************************************************************)
TokenExpires(p) ==
  \/ /\ conn[p].tokens.fresh
     /\ conn' = [conn EXCEPT ![p].tokens.fresh = FALSE]
     /\ UNCHANGED <<office, own, config, link, storageCall, account, muddled>>
  \/ /\ p \in Personal /\ own[p].fresh
     /\ own' = [own EXCEPT ![p].fresh = FALSE]
     /\ UNCHANGED <<office, conn, config, link, storageCall, account, muddled>>

\* The tokens a request finds: OneDrive's only while the row says CONNECTED
Found(p) ==
  IF conn[p].row
  THEN IF p \in Personal \/ conn[p].status = "CONNECTED" THEN conn[p].tokens ELSE NoTokens
  ELSE IF p \in Personal THEN own[p] ELSE NoTokens

StartRefresh(c, p) ==
  /\ InPhase(c, "idle")
  /\ Enabled(p)
  /\ Found(p).grant # NoGrant /\ ~Found(p).fresh
  /\ Found(p).renewable /\ Credential(p)
  /\ Moves(c, [Quiet EXCEPT !.phase = "refreshing", !.provider = p,
                            !.tokens = Found(p), !.shared = conn[p].row])
  /\ UNCHANGED <<office, conn, own, config, link, account, muddled>>

Renewed(tokens) == [tokens EXCEPT !.fresh = TRUE]

WritesSharedAlways(x) == conn[x.provider].row

\* The organization's row is written only if it is the one that was read
WritesShared(x) == x.shared /\ conn[x.provider].row

\* The update of a row that is gone fails
StoreRefreshed(c) ==
  LET x == storageCall[c]
      p == x.provider
  IN /\ InPhase(c, "refreshing")
     /\ IF WritesShared(x)
        THEN /\ conn' = [conn EXCEPT ![p].tokens = Renewed(x.tokens)]
             /\ muddled' = IF x.shared /\ x.stale THEN muddled \cup {<<"tokens", p>>}
                           ELSE muddled
             /\ UNCHANGED own
        ELSE /\ own' = IF x.shared \/ p \notin Personal THEN own
                       ELSE [own EXCEPT ![p] = Renewed(x.tokens)]
             /\ UNCHANGED <<conn, muddled>>
     /\ Moves(c, Quiet)
     /\ UNCHANGED <<office, config, link, account>>

\* The provider refuses, the process dies, or a statement fails
StorageCallFails(c) ==
  /\ storageCall[c].phase # "idle"
  /\ muddled' = IF storageCall[c].phase \in {"enabling", "writing"}
                THEN muddled \cup {<<"list", storageCall[c].provider>>} ELSE muddled
  /\ Moves(c, Quiet)
  /\ UNCHANGED <<office, conn, own, config, link, account>>

ConnectStep ==
  \/ \E p \in Providers : AskLink(p) \/ LinkExpires(p)
  \/ \E c \in StorageCalls :
       \/ \E p \in Providers, g \in Grants, b \in BOOLEAN : Callback(c, p, g, b)
       \/ StoreConnection(c) \/ ReadOffice(c) \/ WriteOffice(c) \/ StorageCallFails(c)

AdminStep ==
  \/ ArchiveOffice
  \/ \E p \in Providers, s \in Scopes : SetCredential(s, p) \/ DeleteCredential(s, p)
  \/ \E c \in StorageCalls :
       \/ ReadOrganization(c)
       \/ \E p \in Providers, s \in Status, b \in BOOLEAN : AdminUpserts(c, p, s, b)
       \/ \E given \in SUBSET Providers, chosen \in Providers \cup {NoProvider}, s \in Status :
            UpdateStorage(c, given, chosen, s)

TokenStep ==
  \/ \E p \in Providers : Disconnect(p) \/ TokenExpires(p)
  \/ \E c \in StorageCalls :
       StoreRefreshed(c) \/ \E p \in Providers : StartRefresh(c, p)

StorageNext == ConnectStep \/ AdminStep \/ TokenStep

StorageSpec == StorageInit /\ [][StorageNext]_storageVars

-----------------------------------------------------------------------------
Storing(p) == \E c \in StorageCalls : /\ storageCall[c].phase \in {"enabling", "writing"}
                                      /\ storageCall[c].provider = p

\* The tokens of a connection are those of the account it was last made with,
\* and a disconnected one has none, unless a refresh that had read the row
\* before wrote it afterwards: the user's own tokens never get there
\* (getDropboxAccessToken, storeOrganizationConnection).
TokensOfAccount ==
  \A p \in Providers :
    conn[p].tokens # NoTokens /\ <<"tokens", p>> \notin muddled
      => conn[p].tokens.grant = account[p]

\* A provider that is connected is one the organization may use, unless its list
\* was written from a stale read or not at all (storeOrganizationConnection,
\* upsertOrganizationStorageConnection, syncOrganizationStorageConnections).
ConnectedIsEnabled ==
  \A p \in Providers :
    conn[p].status = "CONNECTED" /\ ~Storing(p) /\ <<"list", p>> \notin muddled
      => p \in office.enabled

\* "Organization cloud storage must be connected before saving organization
\* content" (ensureOrganizationStorageReady): the organization passes that check
\* only while the connection to its provider is there.
StorageReadyIsConnected ==
  office.main # NoProvider /\ office.status = "CONNECTED" /\ ~Storing(office.main)
    => conn[office.main].status = "CONNECTED"
=============================================================================
