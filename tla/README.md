# A formal model of the SoftLogic backend

TLA+ specifications of the parts of this backend whose correctness depends on
what happens *between* two statements: AI credits, the licensing of devices,
signing in and sessions, organizations, live lessons and whiteboards, cloud
storage, exports and imports, users and seats, support, feedback and releases. TLC checks them on
small instances; TLAPS proves all of them but liveness for every instance.

All paths start at the repository's `src/` (`src/src/modules/...`,
`src/prisma/schema.prisma`).

## 1. Inventory

The backend is a TypeScript Express application over Prisma and PostgreSQL,
deployed as a serverless function (`src/vercel.json`: a handler may be killed
after 300 s; one cron job calls the subscription sweep at 06:00 every day).
There is hardly any process state (the socket rooms, the pre-rendered
translations): requests interact through database rows, and the interesting unit
is the statement or the transaction. Prisma's interactive transactions run at
PostgreSQL's default READ COMMITTED and no code asks for another level or locks
a row, so "read, decide, write" can always be overtaken, inside a transaction
too. The tests (jest, mocked Prisma, about forty files) are sequential and
cannot see any of this.

| Component | State | Operations | What is hard | What makes it correct | Status |
|---|---|---|---|---|---|
| AI usage (`ai.service.ts`) | credit accounts | reserve, call Gemini, commit or refund | concurrent spenders, killed handlers, lost replies, an account re-parented or disabled on the way | reservations balance, no overdraft, calls settle | modelled, proved |
| AI allocation | the same rows, parent links | topUp, allocate, setAllocation; a user changes organization, an organization is archived | values computed from stale rows, moves over three rows, writes before validation | credits conserved | partly, proved |
| AI reconciliation | the same rows | repairs made by every overview page | stale lists, two pages at once | forgives only debt | modelled, proved |
| AI feature attempts | the attempts of 24 h | reserve, commit, fail | counting then inserting, settling twice | the daily limit | modelled, proved |
| AI prices, Google billing | price and cost rows | estimate, synchronise | arithmetic, overlapping runs | estimate agrees with a reference | not modelled |
| Subscriptions (`admin.service.ts`) | subscription rows, organization status | request, approve, reject, update, archive, restore, renew | decisions on a status read earlier | seats respected, what is over goes dark | partly, proved but for liveness |
| Hardware keys (`licensing.service.ts`) | keys, activations | create, bind, verify, reset, revoke, replace | binds in flight, two-statement resets, revivals | one device per key, coherent pointer, revoked stays revoked | partly, proved |
| Subscription sweep | all of the above | expire, list, disable | calls in flight, killed half way | what is over goes dark | partly |
| User seats | active users, subscriptions with limit, usage and alert tier | check, write the user, count, store, warn; request, approve, resize, renew, end a subscription; a user's own deletion | counting then writing, two counts at once, seats that change under the users | users fit the seats, usage is the count, one warning per tier | partly, proved |
| Organizations and users | organizations with address, administrator and login policy; users, memberships, parent links | create, update, move, link, delete, archive; a user deletes himself | checks before the transaction, updates that leave columns out, a list of users that grows old | the address is the administrator's, the policy is coherent, an archived organization is empty | partly, proved |
| Sign-in codes (`auth.service.ts`) | codes and links | send, check, count, use, mark | double use, parallel guesses and sends | a code is used once, limits hold | modelled, proved |
| Sessions | login sessions, tokens | sign in, refresh, heartbeat, sign out, revoke | two reads and a write by id; merging | a revoked session stays out, no token lost for nothing | modelled, proved |
| Desktop sign-in | attempts | start, callback, poll, expire | callbacks and polls that overlap | at most one hand-over | modelled, proved |
| Live sessions, sockets, classroom | sessions, invitations, participants, events, rooms | create, start, end, code, join, leave, record | ways in with different checks; codes replaced; a feed folded from events | students come by a code, an invitation works once, the feed is current | partly, proved |
| Canvases and slides | canvases, slide order | create, add, delete, reorder | concurrent editors | places are distinct | partly, proved |
| Cloud storage integrations | connections, credentials, selection | connect, refresh, disconnect, select | refresh against disconnect; lists written back | tokens belong to the connected account, what is connected is enabled | partly, proved |
| Export, import | job rows, files | generate, upload, convert, delete | failures between statements, late failures | rows say what became of a transfer | partly, proved |
| Support threads | thread, last message, mails | open, reply, decide, act | a status written from a stale read; an action without a record | the status is the one decided, actions are recorded | modelled, proved |
| Feedback | threads, comments | open, comment, resolve, edit, delete | counting then deleting | nobody else's comment goes | modelled, proved |
| Application releases | release rows | publish, update | two statements that do not see each other | one current release | modelled, proved |
| The rest (organization views, users, settings, filter, i18n, media) | single rows or none | queries, single updates | nothing over several steps; `DELETE /users/me` is an action of the components it concerns | — | not modelled |
| Shared services, middleware | — | mails, encryption, uploads, HTTP | input and output | — | partly |

Components call each other inside a request (administration calls
`licensingService` for seats, sign-in calls the organization's status, live
sessions create users and check the storage) and otherwise share rows: the
organization's status and its archiving reach the keys, the subscriptions, the
users and the AI accounts. Most calls of another component are a check that can
refuse at any time, and are modelled as such where they occur; calls that write
(a password reset that ends the sessions, an invitation that creates a user,
a user who deletes himself, a support action that disables the organization) are actions of the component
whose rows they write. `PROJECT.json` lists every component with its sources,
and under `hazards` what a test would hardly reach, with the properties about it.

## 2. Modules

```
AiAccounts ──┬─ AiUsage ──────────┐
             ├─ AiAllocation ─────┼─ AiCredits ── MCAiCredits
             └─ AiReconciliation ─┘        (implements CreditLedger)
Subscriptions ── HardwareKeys ── Licensing ── MCLicensing ──┬─ MCKeys
                           (implements KeyCustody)          └─ MCSweep
Sessions, SignInCodes, DesktopSignIn (implements HandOver) ── MCAccess
LiveSessions, Whiteboards ── MCTeaching
Organizations, CloudStorage, ContentTransfers (implements ExportJobs) ── MCStorage
Members, SupportThreads, Feedback, AppReleases, AiFeatures ── MCOffice
```

The proofs are beside the modules they are about, one module of proofs for each
group of components: `AiCreditsProofs` (the AI accounts), `LicensingProofs`,
`SignInProofs` (`SignInCodes`, `DesktopSignIn`), `SessionsProofs`,
`TeachingProofs` (`LiveSessions`, `Whiteboards`), `StorageProofs`
(`Organizations`, `CloudStorage`, `ContentTransfers`), `MembersProofs` and
`OfficeProofs` (`SupportThreads`, `Feedback`, `AiFeatures`, `AppReleases`).

### How code becomes steps

* A statement on its own is one step. "Read, decide, write" is two: the read
  takes what the code keeps of it and checks it, the write applies the changes.
  Several reads in a row are taken as one step where nothing is decided between
  them; the writes of a transaction become visible together.
* A Prisma `increment` or `decrement` is applied to the current row; a value that
  the code computes from what it read is computed from the snapshot, and a write
  by id lands on the row whatever has become of it. An `updateMany` with a
  condition looks at the row as it is. These differences are what the races are
  made of.
* A handler may be killed, and a statement may fail, between any two of its
  steps (`Crash`, `Abort`, `ClientAborts`, `TaskAborts`, `SweepAborts`, `Fails`,
  `CodeCallFails`, `CallbackLost`, `PollLost`, `StorageCallFails`,
  `TransferLost`, `MemberCallFails`, ...). An open transaction then leaves nothing.
* Time is a fact that becomes true: an end date is over (`ended`, `past`,
  `over`), an hour or a day has passed (`recent`), a token has run out (`fresh`).
* Names, texts, hashes and file contents are members of small sets; a code is
  the row it was made for, and a guess is right if it names that row.
* History variables (`overtaken`, `minted`, `returned`, `revived`, `torn`,
  `crowded`, `stale`, `fate`, `admitted`, `entries`, `muddled`, `outcome`,
  `excused`, `drifted`, `decided`, `emptied`, `doubled`, `exceeded`, ...) record
  what happened; no action is guarded by one. They let a property say *exactly
  when* a promise is kept: a limit holds *unless* two requests counted at once.
  The excuse is as narrow as the race it names, so that a weaker code (a check
  dropped, a field not reset) breaks the property without it.

### AI credits

`AiAccounts` holds the rows of `ai_credit_accounts` (`account`), the users'
organizations (`homeOrg`) and the balance arithmetic (`Available`, `Spent`,
`Deficit`, `SubtractChildAllocation`). An organization is identified with its
account. Ledger entries and notifications are left out: they are written in the
same transactions and never read back to decide anything.

`AiUsage` is `proxyGeminiGenerate`, one call per element of `Requests`:

```
new ─Estimate→ estimated ─ReserveRead→ reserving ─ReserveWrite→ reserved ─GeminiAnswer→ answered ─CommitRead→ committing ─CommitWrite→ charged
                  │ (402) ↓                                        │ GeminiFailure                             │ CommitFails, CommitReplyLost
               rejected                                            └──────────→ failing ←──────────────────────┘
                                                                                  └─Refund→ refunded        (Crash → rejected or leaked)
```

The estimate and the usage are any numbers up to `MaxCredits`: the code's
arithmetic allows usage above the estimate, which is what the cap in
`commitUsage` is for. `CommitReplyLost` is a commit the database performed and
whose answer did not arrive; the catch block then refunds.

`AiAllocation` has `topUp`, `allocate` and `setAllocation`, the latter two in
three steps (`Resolve` outside the transaction, `Check`, one of the writes), and
two operations of `admin.service.ts` that change what they depend on
(`AssignHome`, `DisableOrganization`). `AiReconciliation` is the pair of repairs
every `getOverview` makes: list, then treat one account per transaction.
`AiCredits` composes the three and states the properties.

`CreditLedger` is the promise to those who pay, with none of the statements,
snapshots and failures that keep it: an entry per call (`Hold`, `Report`, `Bill`,
`Release`), what is held on each account and what it has used. `Ledger == INSTANCE
CreditLedger` maps a call's phase and history to its entry (`LedgerState`), and
the reserved and used columns to the two functions. Two things in it are the
code's and not a wish: a hold may be lifted a second time when the reply of a
commit was lost (`"unheard"`, then `"lifted twice"`), and `Forgive` lowers what a
limited account has used. Everything else that happens to the accounts (top-ups,
allocations, moves, archiving, repairs of parents) is invisible to it, and that is
what it says of them.

`AiFeatures` is apart:
one user's attempts at a limited feature, counted over a sliding day.

### Licensing

`Subscriptions` has the subscriptions and the status of one organization;
approving and rejecting are two statements each. `HardwareKeys` adds the keys,
the devices' activations, device calls (`client`) and super admins' calls
(`task`). `Licensing` adds what touches both: resizing, renewal, archiving of the
organization, and the daily sweep in three statements (`SweepExpire`,
`SweepList`, `SweepDisable`). A key is created with room for one device
(`MaxDevices`), as `createHardwareActivationKey` does whatever it is asked for.
One organization is enough: no operation relates two.

`KeyCustody` is the promise to the devices: who holds a key (has an active
activation of it), which keys are revoked, and that a key is taken by one device
at a time and only when it is free and not revoked. Subscriptions, statuses,
pointers, dates and calls are invisible to it. `Custody == INSTANCE KeyCustody`
reads the holders off the activations. It promises nothing of a key that is
disputed: two calls got in each other's way on it, or a device came back to it
after losing it, as the run `LicensingRebind` shows.

### Signing in

* `Sessions`: every request of `auth.service.ts` that touches a session goes
  through `touchOwnSession`: `TouchRead` (the session of the token shown and the
  session of the client), `TouchMerge` (the token's session ends when the client
  has another) and `TouchWrite`, by id. `SignIn`, `Refresh` and `Heartbeat` are
  the beginnings that differ; `Logout`, `RevokeRead`/`RevokeWrite`, `RevokeAll`,
  `RevokeOthers`, `DeleteUser` end sessions; `DeleteMe`, the user's own deletion,
  ends none. The middleware looks at the client that the *header* names; a
  heartbeat takes one from its body too, and then nobody has looked at it
  (`ClientChecked`, the field `checked` of a request). A token is minted before the row is
  written and `handed` to the client afterwards, if the answer arrives.
* `SignInCodes`: codes of one account, in the order of their creation. Sending
  is `SendCount`, `Invalidate`, `CreateCode`; checking is `Check` (the newest
  open row and a comparison), then `CountGuess` or `UseCode`, `MarkUsed` and,
  for a password, `ClearSessions`. Links are checked by `CheckLink`, by row.
* `DesktopSignIn`: attempts, browser callbacks and polls. `HandOver` is what it
  promises: per attempt at most one login is given, once, and one that was made
  for it. `Promise == INSTANCE HandOver` is the refinement.

### Teaching

* `LiveSessions`: sessions with their join code, the participants (`roster`),
  invitations, socket rooms and the events (`log`), of `live-session.service.ts`,
  `sockets/index.ts` and the part of `classroom.service.ts` that folds events.
  Reading a code and replacing it (`coding`), reading an invitation, letting its
  user in and marking it (`clearing`, `entering`, `marking`) are steps apart; so
  are the two statements of a socket's join and leave. The classroom lists some
  sessions of its user (`Listings`: all, or a hundred in the order of their status)
  and folds the events of those.
* `Whiteboards`: the slides of a canvas, whose next place and present set are
  read before they are written.

### Storage

* `Organizations`: organizations with their support e-mail, primary administrator,
  login policy and partner, and the users as far as these depend on them. A
  request reads and checks (`AskCreateOrg`, `AskUpdateOrg`, `AskDeleteAccount`,
  `AskArchiveOrg`); the transaction then writes what was resolved and checks
  nothing but the unique address. An update writes the columns that were said or
  that these decide. `DeleteMe` sets `deletedAt` of the caller's account and leaves
  his address, his memberships and the organizations he administers as they are
  (state `"left"`, next to `"deleted"` of an administrator's deletion).
* `CloudStorage`: the organization's selection of providers (`office`), its
  connections, a user's own older connections, client credentials and the signed
  OAuth state. A callback exchanges, stores the connection, then reads and writes
  the selection; a refresh reads tokens, asks the provider and stores.
* `ContentTransfers`: an export's row, its file and the handler that renders it;
  an import in object storage (with a row) or in Cloudinary (without one), its
  upload, conversion, settling and cleaning, which only a request that names the
  file in Cloudinary does (`named`). A client's export is recorded with whatever
  file the client says, and can be downloaded like any other (`client`). `ExportJobs` is what a client may
  expect of its export, `Job == INSTANCE ExportJobs` the refinement: how far a
  job is follows from its row and from whether a request is at it (`StageOf`).
  A job whose request was lost is *abandoned*: its row stays `PENDING` or
  `PROCESSING`, and no operation ever moves it again.

### Office

* `Members`: `user`, `member` and `linked` rows, and the rows `sub` of subscriptions
  with limit, status, `usage` and alert tier. `seats[o].current` is the one in
  force, which `getActiveOrganizationSubscription` finds: of the active ones the
  one written last. A request checks for a seat, writes the user, and for each
  organization it changed counts, stores and warns. Requests about subscriptions
  read (`AskSubscribe`, `AskDecide`, `AskResize`, `AskRenew`) and then write
  (`WriteTerms`), and only a resize asks whether the users fit; the sweep ends them
  (`SweepSubscription`). Every write of an active row may change which one is in
  force (`Rewrites`), the stored usage and the noted tier included. Invitations to
  lessons, archiving and a user's own deletion (`DeleteMe`, which counts nothing)
  write users too. The keys of a subscription are in `Licensing`.
* `SupportThreads`: threads with status and last message; replying reads first,
  deciding is one statement, an action is applied, then recorded. Of the actions
  one on the organization stands for all. `notice` is who was mailed.
* `Feedback`: threads and comments; deleting counts the comments first.
* `AppReleases`: publishing and updating clear the current release, then write.
* `AiFeatures`: see above.

## 3. What the runs show

| Run | Instance | Properties |
|---|---|---|
| `AiAccounts` | either two calls that spend from `u1`'s account and its organization beside one top-up or archiving, or two administrators with three operations on two organizations and a user; fair | `ReservationsAccounted`, `NoOverdraft`, `CreditsConserved`, `CallsSettle` |
| `AiCombined` | a call from an organization's account, an administrator with one operation, two overview pages | `TypeOK`, `ForgivesOnlyDebt`, `KeepsLedger` |
| `LicensingKeys` | parts `devices`, `races`, `seats`, `terms` | `OneDevicePerKey`, `PointerIsActiveDevice`, `SeatsRespected` |
| `LicensingSweep` | parts `terms`, `devices`; fair sweep | `TermOverGoesDark`, `RevokedStaysRevoked`, `KeysAreInCustody` |
| `Access` | parts `requests`, `users`, `logins`, `resets`, `desktop` | `CodeUsedOnce`, `CodesLimited`, `RevokedStaysOut`, `TokenLostForAReason`, `HandsOverOnce` |
| `Teaching` | parts `codes`, `rooms`, `records`, `slides` | `StudentsComeByCode`, `InviteUsedOnce`, `FeedIsCurrent`, `PlacesDistinct`, `CodeReplacedForAReason` |
| `Storage` | parts `offices`, `policies`, `lists`, `dropbox`, `onedrive`, `exports`, `imports` | `AdminIsThere`, `PolicyCoherent`, `TokensOfAccount`, `ConnectedIsEnabled`, `ExportsSayOutcome`, `ImportsSayOutcome`, `ExportsAreJobs` |
| `Office` | parts `seats`, `terms`, `people`, `support`, `actions`, `feedback`, `releases`, `features` | `UsersHaveSeats`, `UsageIsCount`, `ArchivedIsEmpty`, `StatusAsDecided`, `UnreadIsNotified`, `ActionIsRecorded`, `OneCurrentRelease`, `AttemptsBounded`, `WarnsOnce`, `CommentsOfOthersKept` |

`ForgivesOnlyDebt`, `RevokedStaysRevoked`, `RevokedStaysOut`,
`TokenLostForAReason`, `CodeReplacedForAReason`, `WarnsOnce` and
`CommentsOfOthersKept` are action properties, `CallsSettle` and
`TermOverGoesDark` liveness properties, `HandsOverOnce`, `KeepsLedger`,
`ExportsAreJobs` and `KeysAreInCustody` are refinements, the others are invariants. Type invariants are
proved for every component and checked where the components meet on the same
rows (`AiCombined`). Deadlock is not checked: the models have bounded numbers
of rows, changes and operations and really stop.

Four runs end in a violation, each of one sentence the code or its tests state:

| Run | Property | What happens |
|---|---|---|
| `AiSelfParent` | `NoAccountIsItsOwnParent` | an allocation of an account to itself is refused after the account was stored as its own parent |
| `LicensingRebind` | `DeviceLimit` | bind A, reset A, bind B, bind A: two active devices, the limit being one |
| `StorageReady` | `StorageReadyIsConnected` | an organization disconnects its provider, stays `CONNECTED` itself, and content is saved without storage |
| `PartnerLimit` | `CustomersWithinLimit` | a partner with a limit creates a customer and leaves the limit out: none at all passes the check against the partner's |

The exceptions the passing properties make are themselves worth knowing; each of
them does happen, and removing it from the property makes TLC show how:

* a limited account can be overdrawn when two transactions that both read it both
  write (`overtaken`);
* the keys of a subscription can exceed its seats when a renewal revives expired
  keys (`revived`) or two super admins give out the last seat (`crowded`), and its
  users when two are activated at once or one is invited to a lesson; users also
  exceed seats that take over without anyone asking (an approval, a new
  subscription or the end of the one in force) or that were changed by another
  request while a user was activated;
* the usage of a subscription is wrong when two requests count at once or a count
  is lost, after a user has deleted himself, and when a subscription comes into
  force by the end of another, until somebody counts;
* a seat warning is mailed again after a renewal, which clears the tier on purpose,
  and when two requests judge the same tier or the note of a mail fails;
* a code signs in twice when two requests check it at once or a handler is lost
  before it marks it, and each parallel request is one guess or one mail more;
* a revoked session comes back when a heartbeat or refresh had read it before, and
  when a heartbeat without a token names its client in the body, where the
  middleware does not look (`auth.controller.ts:50`, `auth.middleware.ts:17`);
* a refresh that was waiting for the provider stores its tokens over those of an
  account connected meanwhile, or brings back tokens that were disconnected;
* an organization's address is that of a user who was deleted, or is no longer its
  administrator, when the update had read the user before; a user who deletes
  himself stays the primary administrator; two updates of one policy, each
  coherent, are not coherent together;
* an import's file stays in Cloudinary when the request does not name it; of the
  file a client claims for its export nothing is known;
* a lesson beyond the hundred that are listed is not on the classroom's page, with
  its hands and quizzes;
* a reply to a support thread undoes a decision made while it was written;
* two attempts at a feature, two releases or two slides made at once exceed the
  limit, are both current, or share a place.

### Parts

`MCAccess`, `MCTeaching`, `MCStorage` and `MCOffice` hold several components that
share no variable and no action. A variable `part`, chosen in the initial state
and never changed, says which of them a behaviour moves. Since no component can
see another, every reachable state of one is reached in its own part, and the
states of a run are the sum of the components' states and not their product.
`MCKeys`, `MCSweep` and some components are divided further, because their interesting
cases need different bounds; what a part leaves out is written beside it in the
MC module:

* `LicensingKeys`. `devices`: one key, two devices, one device call at a time, one
  super admin, two changes, the
  second while the super admin is at rest; `races`: two device calls in flight, no change;
  `seats`: two keys, two super admins, limits 1 and 2, a request and its
  reviewer, no device; `terms`: two keys, one super admin, three changes, so that
  the keys of a term that is over come back with its renewal. Steps that would put a key into `overtaken`, or the
  subscription into `crowded`, are cut: the properties say nothing of it from
  then on, and the histories never shrink. `VIEW ForPart` drops the histories of
  the other parts' properties (they guard no action) and what was seen only to
  update them.
* `LicensingSweep`. One key, one device call and one super admin at a time.
  `terms`: one device and two changes, so that a term ends and is renewed;
  `devices`: two devices and one change, so that the key goes from one to the
  other through a reset, a sweep or a revocation. Neither part
  holds back a step of the sweep, which the fairness needs.
* `AiAccounts`. Either calls start or administrators act; `AiCombined` has one of
  each, and the two pages, which may change places (`LikePages`: no definition
  names one).
* `Access`. `requests`: two requests at once on the sessions of one user; `users`:
  two users, one request at a time, whose client and tokens may meet: the moves
  of a session from one user to the other are found there. A user is suspended
  beside one request at most; users of `requests` may delete themselves; one attempt at most of `desktop` runs out of
  time. `logins` and `resets` are rows of different types that no statement
  touches together; resets, whose requests have more steps, get one row less.
* `Teaching`. `codes`: one lesson with its codes, an invitation and two requests,
  no sockets; `rooms`: two lessons on one whiteboard, one of them with a code, so
  that a student of one may try the other; `records`: one lesson that was set up
  and has a code that has not run out, another of the host alone, and then three
  events; `slides`: three slides, two editors.
* `Storage`. `offices`: two organizations, one of which gets users, loses its
  address and is archived, while two requests write them, and whose primary
  administrator may delete himself; `policies`: updates of
  one organization that rule on one thing each, and customers a partner creates
  (what is resolved for them is looked at and not written); `lists`: two providers connected and selected at once, credentials
  at rest; `dropbox` (a provider users could once connect for themselves) and
  `onedrive` (one of the organization only): one provider with tokens, refreshes
  and credentials; `exports`, `imports`: two rows, or one, and two requests.
* `Office`. `seats`: students of one organization who are created, activated and
  disabled while others count; `terms`: one user, who may delete himself, and two
  subscriptions that are requested, decided, resized, renewed and ended, one
  request about them at a time, while a count is not asked for in between (a count
  that is under way may be overtaken); `people`: two organizations with users who are
  moved, linked, deleted, invited and archived, one write at a time beside an
  archiving, and counts that are not interrupted (that is what `seats` is for);
  `support`: replies and decisions while the organization may be disabled;
  `actions`: two requests that apply actions; `releases`: a revision gives a
  number, or makes current, or withdraws; the others are unrestricted.

### Bounds

* `MaxCredits`, `Amounts`: one or two credits. Balances only enter comparisons of
  sums, and the start (`MCGranted`, `MCDelegated`) is chosen so that each account
  is one credit away from refusing; two calls exceed it, a move empties it.
* `MaxOperations`: up to three administrators' operations are enough for a move whose
  old parent is read, changed and overwritten.
* `SeatLimits`, `Edits`, `MaxChanges`: limits 1 and 2 for two keys; `MaxChanges`
  bounds what administrators and time do to subscriptions and organization, the
  keys' operations are not bounded.
* `Users`, `Clients`, `Tokens`, `Rows` of `Access`: one client with two rows, and
  three tokens, so that a refresh can be refreshed; a second client is a request
  that names none, and the second user makes one request at a time. `LastCode = 3`, `MaxAttempts = MaxSends = 1`
  (both 3 in the code): two requests pass a limit of one, and a third
  code is one that replaces a replaced one. Proofs cover all limits.
* `Limits = {0, 1}` of `Storage`: a limit that teachers-only forces and one that
  exceeds it, besides none; two addresses for two users, so that one can be taken.
* `FeedTake = 2` (1000 in the code), `MaxLog = 3`: a page that reads everything and
  one that does not. `SessionsTake = 1` (100): a list that leaves a lesson out.
* `LastOrder = 3`: the places three slides can reach, one deleted and added again.
* `Limits = {8, 9}` and `Regulars = 8` of `Office`: eight users that never change and
  two that do, so that the rounded percentages of the code reach 89, 100 and more:
  no tier, the highest, and more users than seats, or than the smaller seats that
  take over. The tiers 90 and 95 are told apart in the
  same comparison; a third user would reach them, and makes the run too long.
* `Limit = 2` (3 in the code) with three attempts and two requests.
* Everything else is two actors, and the fewest rows with which each property's
  mutant is found.
* `Interchangeable` and `LikeDevices` are sound because the permuted values appear
  in no definition by name. One group of permutations serves several components,
  as a configuration gives their sets the same elements. Runs with a liveness
  property use neither symmetry nor a view.

### Fairness

`AiCredits!Fairness` is weak fairness of a live call's own next step: the handler
awaits each promise in turn, the database answers or fails, and the HTTP client
gives up on Gemini by its default timeouts. `Crash` and the lost reply are never
forced, and no fairness is assumed of users, administrators or pages: a call in
phase `new` need not start. `Licensing!Fairness`: the cron entry starts a sweep
every day (weak fairness of `SweepExpire`) and, though any of them may be
killed, not all of them are (strong fairness of the two later statements).
Nothing else is fair: what a user, a browser or a provider does next, the code
cannot force, and a killed handler is not resumed by anything. So an export may
stay `PROCESSING` for ever, and the properties speak of those that end.

## 4. What is proved

For all values of the constants that satisfy the `ASSUME`s of the modules:

| Module | Theorem | Statement |
|---|---|---|
| `AiCreditsProofs` | `TypeCorrect` | `Spec => []TypeOK` |
| | `ReservationsBalance` | `Spec => []ReservationsAccounted` |
| | `OverdraftOnlyByRace` | `Spec => []NoOverdraft` |
| | `OnlyDebtForgiven` | `Spec => ForgivesOnlyDebt` |
| | `NoCreditLost` | `Spec => []CreditsConserved` |
| | `ImplementsLedger` | `Spec => KeepsLedger` |
| `LicensingProofs` | `LicensingTypes` | `Spec => []TypeOK` |
| | `KeyServesOneDevice` | `Spec => []OneDevicePerKey` |
| | `PointerServed` | `Spec => []PointerIsActiveDevice` |
| | `SeatsFit` | `Spec => []SeatsRespected` |
| | `RevokedIsFinal` | `Spec => RevokedStaysRevoked` |
| `SignInProofs` | `CodesUsedOnce` | `CodesSpec => []CodeUsedOnce` |
| | `LimitsHold` | `CodesSpec => []CodesLimited` |
| | `ImplementsHandOver` | `DesktopSpec => HandsOverOnce` |
| `SessionsProofs` | `SessionsStayRight` | `SessionsSpec => []SessionsRight` |
| | `RevokedAreOut` | `SessionsSpec => RevokedStaysOut` |
| | `TokensLostForAReason` | `SessionsSpec => TokenLostForAReason` |
| `TeachingProofs` | `StudentsCameByCode` | `LiveSpec => []StudentsComeByCode` |
| | `InvitesUsedOnce` | `LiveSpec => []InviteUsedOnce` |
| | `CodesReplacedForAReason` | `LiveSpec => CodeReplacedForAReason` |
| | `FeedsAreCurrent` | `LiveSpec => []FeedIsCurrent` |
| | `PlacesStayDistinct` | `BoardSpec => []PlacesDistinct` |
| | `TeachingTypes` | `LiveSpec => []LiveTypeOK`, and so for slides |
| `StorageProofs` | `AdminStays` | `OrganizationsSpec => []AdminIsThere` |
| | `PoliciesCohere` | `OrganizationsSpec => []PolicyCoherent` |
| | `TokensStayWithAccount` | `StorageSpec => []TokensOfAccount` |
| | `ConnectedMayBeUsed` | `StorageSpec => []ConnectedIsEnabled` |
| | `ExportsEndAsSaid` | `TransfersSpec => []ExportsSayOutcome` |
| | `ImportsEndAsSaid` | `TransfersSpec => []ImportsSayOutcome` |
| | `ImplementsJobs` | `TransfersSpec => ExportsAreJobs` |
| | `StorageTypes` | `OrganizationsSpec => []OrganizationsTypeOK`, and so for connections and transfers |
| `MembersProofs` | `MembersStayRight` | `MembersSpec => []MembersRight` |
| | `ArchivedStaysEmpty` | `MembersSpec => []ArchivedIsEmpty` |
| | `UsersStayInSeats` | `MembersSpec => []UsersHaveSeats` |
| | `UsageStaysCounted` | `MembersSpec => []UsageIsCount` |
| | `WarningsAreNew` | `MembersSpec => WarnsOnce` |
| `OfficeProofs` | `StatusHolds` | `SupportSpec => []StatusAsDecided` |
| | `RecordHolds` | `SupportSpec => []ActionIsRecorded` |
| | `NotificationHolds` | `SupportSpec => []UnreadIsNotified` |
| | `NothingElseDeleted` | `FeedbackSpec => CommentsOfOthersKept` |
| | `LimitHolds` | `FeaturesSpec => []AttemptsBounded` |
| | `OneRelease` | `ReleasesSpec => []OneCurrentRelease` |
| | `OfficeTypes` | `SupportSpec => []SupportTypeOK`, and so for feedback, attempts and releases |

The assumptions say that null values are no members of the sets they complete,
that kinds of people, of items and of accounts are disjoint, that no account
starts with more delegated than granted, that limits are natural numbers, and
that the sets something is counted or summed in are finite. Sets whose default
row has to name a member (users, lessons, whiteboards, hosts, seat limits,
attempts) are not empty. The specifications
are those of the components; a run whose parts restrict a component checks a part
of the behaviours that the theorem is about.

Most arguments have one shape. The invariant says of each request in flight
what it still knows: *unless it is stale, what it has read is so*. Being stale is
history, set by every write that changes what the request has read, so the
clause survives the steps of others; and what a step writes is right because what
it has read is. Beyond that:

**AI credits.** `TypeOK` is inductive. Its proof has a lemma per component, a step
per action, and lemmas on record updates (`NumberUpdate`, `GrantUpdate`,
`LinkUpdate`). `ReservationsAccounted` is not inductive on its own: a call that is
refunded after its commit took effect must have been counted once as released,
and a call not yet answered must not be marked committed. `ReservationInv` adds
`CommittedLate` (only a charged, failing, refunded or leaked call has committed).
Counting is done on sets of units, one pair per reserved credit, so that sums
over calls become cardinalities: `AddUnits` says that one call's units joining or
leaving a finite set change its size by the reservation. Every action of the
system is then a *quiet* step (no units, no reserved column changes), a *hold* or
a *release*. `NoOverdraft` needs `ChecksPassed`: a call about to write its
reservation and an administrator about to write an allocation hold snapshots
that passed the checks, the administrator's two accounts differ, and a page
about to forgive holds a row with usage. If the snapshot is still the row, the
check holds of the row; if not, the account is in `overtaken` after the step and
nothing is claimed. `ForgivesOnlyDebt` follows from the same invariant.

`CreditsConserved` is about a sum over all accounts, a fold. `SumUnfolds` shows that
the recursive function behind the fold exists and obeys its equation on the
subsets of a finite set, and `TotalPlus` that adding to one element adds to the
total. Both are inductions over finite sets, written as the search for a smallest
counterexample (`LeastThere`, from the library's well-founded orders, and
`SubsetsByOne`), because a theorem with an operator parameter cannot be cited.
`OwnChanges` then speaks of three rows that change by given amounts, which is what
the largest write (the move of an account: the source, the old parent, the target)
changes. `CreditsInv` needs three facts besides the balance and `ChecksPassed`:
an administrator's target is not the master (`TargetsRight`) and every other
account has a parent (`ParentsThere`), so that a whole allocation is never taken
from a new parent without an old one giving it back; and a page about to move an
account without a parent holds an empty row of it (`MovesRight`), so that what is
booked as clipped is what the organization takes over.

`ImplementsLedger` needs one fact about each call and one about each page. A call
that has not been answered has reported no usage, and one that was has not
committed (`Unanswered`), so that its report is the first and its bill within it:
the cap of `commitUsage` bounds the bill by the usage. A page that is about to
forgive holds the row of a limited account (`PagesSpareUnlimited`). Then each step
of a call is one of the ledger's or leaves its entry and the two columns as they
were (`EstimateKeeps`, `ReserveIsHold`, `AnswerIsReport`, `CommitIsBill`,
`RefundIsRelease`, `QuietCallKeeps`), a page's last step is `Forgive`, and what
administrators do touches neither column (`AllocationsKeepUsage`,
`MovesKeepUsage`, and the lemmas that `ReservationsBalance` rests on). No excuse
by `overtaken` is left here: the ledger holds in every race, because reserving,
charging and refunding are increments.

**Licensing.** `LicensingInv` has what calls may assume: a device call in flight had
read a usable key, and a device new to it only on a key that served none
(`CallsAllowed`); a super admin's counts fit what is about to be written
(`CountsFit`). `PointersRight` is weaker than the property in one place: while a
reset of the very device the key points to is between its two statements
(`Unpointing`), the pointer is wrong and about to be cleared. A revoked key points
nowhere (`RevokedPointsNowhere`), so no reset can find it: that is why revoking is
final until the organization is archived, which leaves pointers behind.
`ImplementsCustody` adds that a revoked key that is not disputed is held by
nobody (`RevokedServesNobody`): only a bind that goes through gives a key away
(`OthersLoosen`), and what it has read says that the key is free (`BindTakes`). The
proof of the invariant goes through one lemma per kind of change (a key's row, an activation, a
call, the history) and one per action.

**Hand-over.** `DesktopInv` adds to the types that what is stored with an attempt
or held by a poll was made for it (`MadeForIt`), and that an attempt somebody
answers or has answered for is consumed, by one poll, and once (`AnswersOnce`).
Under it, `CallbackSignsIn` is `Make`, `PollAnswers` is `Give`, and every other
step a stutter.

**Codes.** `UseInv`: a request in use of a code is placed on one that was sent
(`CallsPlaced`), unsent codes are unused, at most one request uses a code that is
not excused (`OneUser`), and a used one is marked or about to be (`UsedIsMarked`).
`LimitInv` generalises the limits to what is under way: the wrong guesses of a
code and the requests that still have to count one fit in the bound
(`GuessesPlaced`), and so do the codes of an hour and the requests that have yet
to create theirs (`SendsPlaced`); each step moves one from the second to the first.

**Sessions.** `SessionsRight`: what the unique indexes say (`RowsUnique`), no token
on a revoked session (`RowRight`), a refresh or heartbeat was let in by a session
that is in force (`AdmittedRight`; a heartbeat that the middleware looked at by the client of its
header, that is), the sessions it read are the user's and the one
it will write is not revoked (`ReadRight`), the token's session has been merged
into the client's before the write (`MergeRight`), and tokens come from minting.
The first attempt failed with two users: a client and a token that pass from one
user to the other make a request of the first stale in a way the history did not
record. `Overtaken` now says so, and `Access` checks two users.

**Lessons.** `CallRight`: whoever is about to be let in was admitted by a code to a
session of the same whiteboard; a request for an invitation is in the place where
the invitation's count says. Two requests share an invitation only if it is
excused (`InvitesShared`), and a used one is marked or about to be (`InviteRight`).
For the feed, an event that answers another has its session and kind
(`EventRight`), and of the controls set in any set of sessions one is the last
(`LastControls`), so that it does not matter which sessions are listed: an induction over the log, made by the steps themselves.

**Whiteboards.** `ReadRight`: a place to be given is beyond all that are taken, and
a reordering has read every slide, unless stale.

**Organizations.** `OrganizationsInv`: an update knows the administrator and the
address, and the policy it will write is what the patch makes of the one that is
stored (`Knows`, `WrittenCoherent`); one user is the administrator, or about to be,
of one organization only (`ClaimsDisjoint`), so that changing his address for one
does not break another's; a request to create has a coherent policy (`Formed`).

**Cloud storage.** `CallKnows`: a request that is about to write the list of
providers has read it as it is, and one that refreshes the organization's tokens
has those of the connected account.

**Exports and imports.** `Alone`: one request works on an item whose row is not
given up. `WorkIsRight` says for each phase what the request has left in the row
and in the outcome, and items without a request are settled
(`ExportSettled`, `ImportSettled`). On it rests `ImplementsJobs`: since nobody else
is at the same export, a request that goes on, ends or is lost moves the stage of
its own job only (`WorkerMoves`), and the file of an export that a request is at
is partial exactly while it is being written, which the invariant has to say for
the refinement (`ExportWork`). Names of exports and imports are told apart by an
assumption, `Exports \cap Imports = {}`.

**Members.** `MembersRight`: a request that writes a user counts the organization
the user is in and the one it puts him in (`ReadsUser`, `ReadsOrg`), one that
archives has found everybody (`ReadsMembers`), and one about a subscription knows
whose it is (`ReadsSub`); whoever has a subscription in force has an active one of
his own (`SubsRight`). On it rest three invariants. `SeatsRight`: a request that
will activate its user has found a seat (`SeatFound`), one that resizes has found
the users to fit (`LimitFound`), and one that has counted, the subscription to be
in force (`InForce`), so that storing the count changes nothing for the seats.
`UsageRight`: an organization that nobody is still to count, and nothing excuses,
has its count stored on the subscription in force. `WarningsAllRight`, of each
subscription: a mail is noted, or exactly one request is about to note it; a
renewal clears the history of mails (`warned`) with the tier, and makes stale what
others have read of both. `Rewritten` says once what every write of a subscription
does to rows and seats. The first attempt at `UsersHaveSeats` failed with two
organizations: a user activated in the one while a request moves him to the other
takes a seat nobody counted. The code allows it, and the history names it
(`"user"`).

**Feature attempts.** `FeaturesInv`: a request that is still to add an attempt and
was not overtaken has room for it (`RoomIsLeft`), and one still to settle finds
its attempt reserved (`StillReserved`).

**Support.** `SupportInv`: a reply that is not stale holds the thread's status
(`RepliesUpToDate`), an action that is not stale and not recorded yet has left the
organization as it says (`RecordsUpToDate`), calls are addressed to opened
threads, and unopened ones have nothing. For the mails, actions are the super
administrators' (`ActionsBySupers`).

**Feedback.** `FeedbackInv`: the count of a deletion is that of the comments it saw,
its own among them; so a count of none left means that it saw its own only.

**Releases.** `ReleasesInv`: a request about to make a release current has cleared,
or is about to write, every current one (`ClearedAll`): others have only made
fewer current since.

Only model-checked: the liveness properties `CallsSettle` and `TermOverGoesDark`
(liveness under fairness is outside what the prover does) and the four
violations. Every other property of the runs is a theorem.

## 5. Not modelled, and why

* Prices and usage arithmetic: credits are chosen freely, so nothing shown depends
  on them. Google billing: overwrites rows that only reports read.
* Views, settings, filters, translation, media: queries and single updates.
* Inside the modelled components: creation of AI accounts on first use (the rows
  exist from the start), the rights of administrators other than super admins
  over accounts, payments, reminder mails, audit rows, sessions ended by the
  sweep, subscriptions without an organization, editing of a key's label, user
  imports from files, restoring and permanent deletion of users, relayed drawing
  and presence on sockets, the drawing itself, single users' connections to
  storage, conversions on the server and local temporary files. `PROJECT.json`
  says for each component what is left out.
* Hazards that were met and that no property is about, besides the one in
  `PROJECT.json` with a note (two reviewers of one request,
  `admin.service.ts:2703`: it does break the comment of `approveSubscription`; it is
  a behaviour of the licensing runs):
  - two first calls create two AI accounts of an organization (`ai.service.ts:779`);
  - a `TRIAL` that is over is never expired by the sweep
    (`licensing.service.ts:1274`), and the sweep takes all keys of an organization
    one of whose subscriptions is over (1367);
  - a parent stays linked to a student who moves to another organization, since the
    rule of `admin.service.ts:4043` is asked when the link is made; two requests can delete the last two super admins
    (2187);
  - a withdrawn release may be the current one (`app-update.service.ts:188`);
  - two reset links created at once are both open (`auth.service.ts`);
  - a disconnected socket leaves its participant in the lesson, guests never
    leave, and socket board events are stored for whoever sends them
    (`sockets/index.ts`); join codes are unique by chance (`joinCodeHash` has no
    unique index);
  - promises of OAuth URLs are not awaited (`integrations.controller.ts:67`, 215,
    388).

## 6. Plan

Done: AI credits, licensing, sign-in, sessions, desktop sign-in,
organizations, lessons and slides, storage and transfers, members,
support, feedback, releases, feature attempts; the refinements of the hand-over,
the ledger, the export jobs and the custody of keys; and the proofs of section 4. Left, in
this order:

1. `AiPricing`: the price arithmetic against a reference definition on bounded
   inputs; `BillingSync`: overlapping synchronisations.
2. Single users' storage connections; local import files; user imports.
