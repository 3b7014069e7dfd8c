# A TLA+ verification of MySSO

MySSO is a single sign-on server: an OAuth 2 / OpenID Connect provider with
accounts, verification codes, QR and passkey sign-in, and a portal in which
developers restrict who may use their applications. The back end is Go
(`src/backend`), over MySQL; the front end (`src/frontend`) is a React
application with four parts of its own: the sign-in pages, the account page,
the developer's console and the administrator's pages.

The back end has no transactions across handlers and hardly any inside one: a
handler is a sequence of single SQL statements, run by as many goroutines as
there are requests, plus one cleanup goroutine. So **the unit of interleaving in
the modules of the back end is one SQL statement or one transaction** of
`internal/store/mysql`, and what a handler has read so far is carried in a
record of its own (`req`, `dev`) from one statement to the next.

A tab of the front end runs one thing at a time, but its functions stop at every
`await`, and many of them wait at once. So **the unit of interleaving in the
modules of the front end is what runs between two awaits**: the render and the
effects that follow a change, the handling of one answer, one timer. What a
function has captured (the closure of the render it was made in, the page and
the filter it asked for) is carried in a record of its own (`act`, `load`,
`exchange`), and the server's part of a request is an action that may happen
at any moment between its being sent and its answer.

## Inventory

| Component | Source (under `src/backend/internal`) | State | Operations | Hard behaviour | What makes it correct |
|---|---|---|---|---|---|
| OAuth token service | `service/oauth`, `store/mysql/oauth_repo.go` | `authorization_codes`, `refresh_tokens`, signed access tokens | authorize, exchange, refresh, revoke, introspect, logout | concurrent redemption and rotation, replays, lost answers, failing INSERTs, revocation under an exchange | a code is redeemed once, a family never forks, a replay ends it, every token was consented to |
| Consents | `service/consent` | `consents` | grant (at authorize), revoke, purge | revoked while an exchange is under way | revoked access ends |
| Developer access control | `service/accesscontrol`, `store/mysql/developer_access_repo.go` | groups, members, bindings, bans, access versions | ban, unban, bind, move members, delete group; evaluated at every issue and use of a token | rule written before versions are bumped, stale lists, torn reads, half-finished loops | a rule change ends the tokens that were out |
| Accounts and sessions | `service/user`, `service/admin`, `service/auth`, `store/mysql/user_repo.go` | `users`, `sessions`, `auth_challenges` that write a user row | sign-in, edits, security events, freeze, phone number and its forced binding, deletion request, its cancellation and execution | whole-row read-modify-write, version incremented in memory, list-then-delete, challenges that outlive a change of status | a security event ends what was before it; a frozen account stays out; a cancelled deletion does not happen |
| QR sign-in | `service/auth/qr_login.go`, `store/mysql/qr_login_repo.go` | one `auth_challenges` row, the sign-in it leads to | create, scan, confirm, cancel, poll, expire | several scanners, confirm against cancel, polls in parallel, stop halfway | only the recorded decision is delivered, the loser is taken back |
| Verification codes | `service/auth/service.go`, `store/mysql/verification_repo.go` | `verification_codes`, named locks | send, accept, clean up | cooldown and limit read before the insert, midnight, locks, deletions | limits hold |
| Sign-in pipeline | `service/auth/security_policy.go`, `phone_binding.go` | `auth_challenges`, user security policy | MFA, step-up, enrolment, phone binding, deletion challenge | challenges consumed once, policy read-modify-write | no session without the factors required |
| Applications | `service/apps`, `store/mysql/app_repo.go` | `client_apps` and its lists | create, edit, review, disable, rotate secret, delete | whole-row update against review | a disabled application stays disabled |
| Passkeys | `service/passkey` | `passkeys`, challenges | register, sign in, delete | challenge used once, counter | no passkey of another user |
| Risk and attempt limits | `service/risk`, `*/attempts.go` | events, blacklist, counters | record, check | counters read before they are written | limits hold |
| Settings | `service/settings` | key-value rows | read, validate, write | secrets read before the rows are written, one by one; every save writes all rows, also after the page has given it up | what was accepted is stored, a secret is not lost |
| Cleanup | `service/user/cleanup.go`, `store/mysql/cleanup_repo.go` | all tables | delete what has expired | under requests that are using it | nothing comes back |
| Developer console | `pages/developer` | display, caches, requests in flight | change tab, page, filter; edit applications, groups, bindings, bans | answers out of order, forced reloads from an old closure, shared requests, effects that start loads that change what the effects depend on, writes handled after they were given up | the list fits its pager, what was saved is shown, edits add up, the page comes to rest |
| Administrator pages | `pages/admin` | display, drawer, settings form | operations on lists, policy of a user, settings | pages emptied by an operation, late answers for another user, a whole-form save from what was read | no empty page, the policy saved is the one read, settings are not lost |
| Account page | `pages/user` | display, caches that outlive the page | edits, revoking consents, passkeys, ending sessions | late answers of an earlier identity, an operation that ends the session, delayed redirects | only one's own data is shown, what was revoked stays away |
| Browser sessions | `authSession.ts`, `App.tsx`, `pages/auth` | the cookie, the storage shared by the tabs, the storage of each tab | sign in, guards, conflict page, authorization page, callback, log out | two tabs between two awaits, a sign-in for an authorization only, a page left between the cookie and the answer, reloads | the stored session is the cookie's, a tab enters as the account it is answered for, a code is exchanged once |

(The last four rows are under `src/frontend/src`.)

The components meet in the database. `UpdateUserAndInvalidateAuth` (every
security event) and `DeleteUser` touch the tables of all of them in one
transaction; the token service reads accounts, applications and the access rules;
the QR sign-in ends in the sign-in pipeline, which ends in `createLoginSession`. The
front end meets the back end in its requests: the console's edits are the
operations of `AppAccess`, the callback page redeems the codes of
`TokenEndpoint`, the account page revokes its consents and ends the sessions of
`Accounts`. Each module of the front end keeps only as much of the server as
its own question needs (a version, a set, the account of the cookie).

## Modules

| Module | What it models |
|---|---|
| `TokenEndpoint` | The token service and consents. `codes`, `refresh`, `consents` are tables; `req` the requests; `known` and `bearer` what clients have been told. `account`, `approved`, `allowed`, `appVersion` are what the rest of the system does to it, changed by the actions of `Environment`. |
| `GrantLifecycle` | What the token service promises, in one variable per code: none, code, redeeming, token, over, and never back. |
| `TokenEndpoint_proofs`, `AppAccess_proofs`, `Accounts_proofs`, `VerificationCodes_proofs`, `DeveloperConsole_proofs`, `AdminConsole_proofs`, `AccountPage_proofs` | The theorems about the module each is named for, and their proofs. |
| `SignIn_proofs` | The theorems about `BrowserTabs` and about `QRLogin`. The names of `QRLogin` begin with `QR` where the modules would share them. |
| `AppAccess` | Rules of developers (`groups`, `members`, `bindings`, `ban`, `version`) and the token requests that evaluate them. A refresh-token family is one value here; its rotation is the matter of `TokenEndpoint`. |
| `Accounts` | Rows of `users` and `sessions`; every handler as a read and a later write of the whole row, among them the ones that change a phone number (`UpdateUserPhone`) and those that complete what a challenge asks for: a phone number (`CompletePhoneBinding`), a second factor (`CompleteForcedMFAEnrollment`), the cancellation of a deletion. |
| `QRLogin` | One QR challenge, the sign-ins made for it, and what was delivered to the browser. |
| `VerificationCodes` | The rows of one e-mail address (or phone), the lock of each day, the clock, and what was sent. |
| `DeveloperConsole` | `useDeveloperPageController` over the caches of `developerApi.ts`: `view` is what is selected, `shown`/`listed`/`bound` what is displayed, `act` the operations and loads in flight with their closures, `late` the writes the page has given up and the server may still handle. |
| `AdminConsole` | `useAdminData` and the effects of `admin/index.tsx` (`page`, `shown`, `act`), the drawer of `useBatchUserActions` (`drawer`, `asked`), and the settings of two administrators over `UpdateSystemSettings` (`site`, `db`; `late` are the saves a page has given up). A behaviour is a visit to one page. |
| `AccountPage` | `useUserPageController` over the caches of `userApi.ts`, for a tab whose identity (`token`) changes by sign-ins here and in other tabs, over several visits. |
| `BrowserTabs` | `authSession.ts` and the pages that use it: the cookie and the local storage (`keys`, `meta`, `context`) shared by the tabs, the session storage (`tabMeta`, `session`) of each, and the page each is on. |
| `MC*` | Symmetry sets and constants for TLC. |

How definitions correspond to code: an action has the name of the Go function or
of the statement it stands for, with a pc that names the next statement. A
deleted row keeps its columns, and some variables (`origin`, `ended`, `floor`,
`frozen`, `kept`, `scanner`, `outcome`, `dropped`, `seen`, and in the front end `failed`,
`hurried`, `ahead`, `disorder`, `wanted`, `belated`, `saved`, `accepted`, `overlap`, `blind`, `ended`, `left`,
`crossed`, `foreign`, `behind`) are history: no guard reads
them, only properties do. Definitions whose comment begins with "Mutant" are not
part of the system: each is one that a plausible slip in the code would give, and
shows that the property it breaks can be broken.

Abstractions worth knowing:

- Strings (uuids, scopes, e-mail addresses) are model values or small sets. A
  token value that is guessed is not modelled.
- `expired` stands for `expires_at` in the past and is set by an action at any
  moment, so every order of expiry is covered. Where distances in time matter
  (`VerificationCodes`, the grace period in `Accounts`) there is a clock.
- Checks that depend on the request alone (redirect URI, PKCE, secrets, lengths)
  are one Boolean, or left out when failing them changes nothing.
- `MayFail`: an INSERT whose error is dropped may not happen. `MayAbort`: a
  handler may stop after any statement (process death, time-out, database error).
- A row of `users` is its status (`pending` among them, which lets nobody in and which a
  phone number ends), its version and `deletion_scheduled_at`.
- Administrators cannot be frozen or deleted; `User` contains none.
- An access token is its claims; `bearer` never forgets, so properties cover
  tokens until their natural end.
- The contents of lists are version numbers, or small sets where an edit is computed
  from what is displayed; a page of a list holds one row (`AdminConsole`).
- An answer of a read carries any state the resource had since the request was
  sent, which covers the server's handling it at any moment in between.
- A failed request of the front end is one action whether the server handled it or not: the
  server's step is an action of its own, before it or, because the client gives up after 5
  seconds (`fetchWithTimeout`, `api/client.ts:96`) and no handler is told, after it: `HandleLate`
  of `DeveloperConsole`; `LateSaves`, `HandleElsewhere` and `OtherSavesPolicy` of
  `AdminConsole`. It may also never happen.
- Rows of the settings are taken together by tab of the settings page, the secrets
  together as one.
- Ownership checks at the start of developer requests read rows nothing changes.

## Runs

All runs bound the number of concurrent requests by `Worker` (`Dev`), of rows by
`Code`, `Token`, `Grant`, `Session`, `Login`, and versions and clocks by
`MaxVersion`, `MaxDay`, `MaxTime`. `Ops` selects the operations of an instance, so
that an instance can afford the processes its question needs. Deadlock is not
checked: rows are finite, and a system out of uuids, turns or operations stops.
In the front end `Slot` bounds what runs at one time in a tab, `MaxOps`, `MaxTurns`,
`MaxVisits` and `MaxSigns` what its users do, `MaxFails` the requests that fail.

| Run | Question | Instance |
|---|---|---|
| `TokenRotation` | Are codes redeemed once, do families stay chains with one live end, is what a client holds consented to? | 1 user, 2 clients, 1 code, 3 tokens, 2 requests, aborts, expiry, cleanup |
| `TokenReplay` | Does a detected replay end the family? | 3 tokens, 2 requests, access and applications withdrawn and given back, logout, under fairness |
| `TokenEnvironment` | Does the service keep the invariant of the proofs, and implement `GrantLifecycle`, when consents, accounts, applications, logouts and cleanup interfere? | 2 tokens, 2 requests, versions to 2, failing INSERTs |
| `AccessRules` | Does a completed change of a rule end the tokens that were out? | 1 user, 1 application, 2 groups, one console request at a time, aborts, failing revocations and reads, expiring bans, deletions, consents |
| `AccountsRaces` | Does an unraced security event, freeze or cancellation hold? | 1 user, 1 place for a session, 2 requests, versions to 2, one grace period |
| `QRRaces` | Is only the recorded confirmation delivered, the decision final, the loser cleaned up? | 2 users, 3 sign-ins, 3 requests, each of which may stop |
| `CodesLimits` | Do the daily limit and the spacing hold in the table? | limit 2, 3 codes, 2 requests, 2 days of 2 ticks, failures |
| `ConsoleLoads` | Do lists and pagers fit, are saved changes shown, do edits add up, does the page come to rest? | 3 tabs, 2 pages, 1 filter, 1 group, 2 slots, 2 operations, 3 turns and a failure whose write may still be handled; liveness under fairness |
| `AdminPages` | Are emptied pages left, is the policy saved the one read, do settings and secrets survive? | 4 kinds of page, 3 rows on 3 pages, 2 slots, 2 operations, 2 administrators, 2 tabs of settings, 2 users, a failure whose save may go on |
| `AccountVisits` | Does a tab show only its own data, and nothing that was revoked? Does it leave when its session ended? | 2 accounts, 2 sign-ins in this tab or another, 2 visits, 2 sections, 2 operations, a failure |
| `BrowserSessions` | Is the stored session the cookie's, do tabs enter as the account they are answered for, are codes exchanged once? | 2 tabs, 2 accounts, 3 sign-ins, 1 visit by address or from an application, 2 turns, a failure |

Exact values are in the `.cfg` files. Symmetry (`MC*`) permutes accounts, tabs,
requests and rows that no definition names; the two runs that check liveness use none.

Why the bounds are enough: every race here is between two statements of one
request and one statement of another, and two requests show it. A family needs three
tokens for a rotation of a rotated token. A version needs two values for an event;
that two events at one time do not lose one is left to the proof, which has no bound. Two groups are needed to be removed from one and
kept in another. In `CodesLimits` a request can hold yesterday's date, and the third
code is the one that would exceed a limit or stand too near to a second. The
console requests of `AccessRules` run one after another, because two that overlap
break the promise (`SettledRulesEndTokens`, below). In the front end two loads, or a load and
an operation, are enough for any two answers to cross; three sign-ins are two of one account and one
of another in any order; a code needs a failed exchange and two others; and two
visits let a first visit's answer arrive in the second. What TLC shows of safety on these
instances, the proofs show for every instance (below).

### Where the code and a promise part

A run whose expectation is a violation states a promise of the documentation as an
invariant; its trace shows how the code leaves it. There is one:
`TokenConsentRevocation`. The help center says that after revocation the
application can no longer access resources; codes and access tokens are not revoked
and consent is not asked again, so an exchange in flight completes and an access
token works until it expires.

#### Known disagreements

Four more are stated as properties in the modules, each found violated by TLC, and
have no run of their own; adding the invariant to the configuration named shows
the trace.

| Property | Add to | Promise | What happens |
|---|---|---|---|
| `SettledRulesEndTokens` of `AppAccess` | `AccessRules.cfg`, with a second value in `Dev` | `pages/developer/locales/en-US.ts:645`: after a rule change existing refresh tokens are revoked and access tokens stop working | the applications to bump are listed (`accesscontrol/service.go:573`) before the membership is written; a binding made in between is missed |
| `FrozenBlocksSignIn` of `Accounts` | `AccountsRaces.cfg` | `i18n/locales/en-US.ts:591`: a frozen account cannot sign in | `createLoginSession` writes the whole row it was handed, so a sign-in that read it before the freeze writes `active` back; and with no race at all, the phone-binding challenge of a pending account outlives its freeze (`admin/service.go:337`), and `CompletePhoneBinding` writes `active` without a look at the status (`auth/phone_binding.go:275`) |
| `ScannerDecides` of `QRLogin` | `QRRaces.cfg` | `qr_login.go:154`: `qr login user mismatch` | the check reads the row before the sign-in, the write accepts any scanner |
| `SentWithinLimit` of `VerificationCodes` | `CodesLimits.cfg` | `pages/admin/locales/en-US.ts:732`: maximum of codes per day | expired rows are deleted and no longer counted |

The passing properties of `Accounts` are the strongest that survive this: they
speak of events that no other request carrying a copy of the row overlapped
("settled"), and of the freeze of an account that was active. What is left out is what the violation
shows.

Other disagreements were met while modelling and have no property. A change of memberships
drops the error of a revocation, and skips an application that `GetApp` cannot read
(`accesscontrol/service.go:494`, `:612`): it completes with refresh tokens left
live, against the same `en-US.ts:645`. An access version that cannot be read counts as 1
(`:76`), so that for this check a token of version 1 is good again. `DeleteDeveloperGroup`
changes who is admitted and bumps no version. An edit that read a row of `users` before
a sign-in cancelled the deletion writes `deletion_scheduled_at` back, and the account is
deleted (`SettledCancellationHolds` is what is left). The public endpoints that send
codes do not enforce the cooldown the settings page says the server enforces
(`SendVerificationCode` with `enforce` FALSE), and those that do skip it when the latest code cannot be
read (`auth/service.go:789`).

#### Met in the front end

The exceptions in the properties of the front end (`hurried`, `crossed`, `left`, `behind`
and the like) are not conveniences: each is a behaviour of the code that TLC showed.

- Developer console. A change to the tab of users with its pager on page 2 starts two
  loads, one with the old page; each answer selects its page and thereby asks
  for it again, so that the two can alternate for ever (`Crossing`). An operation's forced
  reload asks with the page and filter of the click. The answer of a request that was
  given up for a forced one still goes into the cache, and may be older than what is there.
  Deleting a group does not refresh the cached bindings of applications. An edit of the bindings
  that was given up after 5 seconds may be handled after the page has read them again: it
  replaces what was edited since, and the page goes on showing the set of before (`belated`).
- Administrator pages. The list of users has no effect that leaves an emptied page. A late
  answer is displayed under whatever page is selected. A save of settings sends all that is
  displayed: saved before the settings were read, or after the read failed, it
  writes defaults; a save that failed half-way is undone by the next one from another tab;
  two overlapping saves can bring an old secret back, and the save of a page that
  gave up after 5 seconds overlaps with the next one of the same page.
- Account page. A list changed by an operation whose page was left before the answer
  keeps the removed entry in its cache. A page left idle sends its edits under the cookie of
  whoever signed in since in another tab. A delayed redirect or a late 401 clears the
  stored session of a newer sign-in. A session ended elsewhere is served from the caches.
  A late answer of an earlier identity makes the next visit ask for what is already on its way, and the older of
  the two answers can bring back a consent that was revoked.
- Browser sessions. An authorization sign-in changes the cookie but not the stored session,
  so the other tabs act for the new account under the old name. A sign-in is lost after its cookie was
  set when the sign-in page replaces itself, its settings having arrived while it waits for
  `/me` (`LoginPage.tsx:256`), or when the poll that signed in is answered after the QR tab was left
  (`:324`): the cookie is the new account's, the stored session the old one's. A tab that takes over
  a session between its sign-in and the answer of `/me` holds an anonymous one,
  and is later sent to the conflict page over one and the same sign-in. "Switch to
  this window's account" clears the browser's session and does not restore the
  tab's; with no browser session stored (`SessionConflictPage.tsx:100`) the guards let a tab in under the account it
  remembers while the cookie is another's. If the session ends between `/me` and the authorization and the tab
  has a stored session, the authorization page stays blank. A reload during the exchange of a code
  leaves its lock, and the callback page waits for ever. A failed exchange is sent again though the
  server may have consumed the code. When `/me` fails the consent page is shown without an account.

Some passing properties hold only without certain faults, or name them as exceptions.

- `HeldIsConsented` is checked with `MayFail = FALSE`: `SaveConsent` drops its error, so a failing
  INSERT leaves a code without consent.
- `ReplayEndsFamily` is checked without failing or stopping statements: the revocation after a
  detected replay drops its error.
- `NoStrayLogin` excepts a process that dies between a QR sign-in and its write, which leaves the
  session until it expires (`dropped`).
- `RuleChangeEndsTokens` is checked with revocations and version reads that fail. It excepts the
  families whose revocation a change of memberships has missed, and, for a check that cannot
  read the version, tokens of version 1.
- `SpacedFromSeen` speaks of the codes a request could see (`seen`): one whose read of the
  latest code fails has seen none, and one on its way at the same time is not seen either.
- `EditsAddUp` holds until the server handles an edit the page has given up (`belated`);
  `AcceptedIsStored` and `SecretKept` hold until a save is sent while the server is
  at another one, which may be one given up (`overlap`).
- `MetaIsCookie` and `EntersAsItself` hold until the cookie changes without the stored session
  (`behind`, with its ways listed at `Settled` in `BrowserTabs`).

### Fairness

`TokenReplay`: `FairSpec` adds weak fairness of the steps
of each request that is under way: a goroutine that has begun a handler runs it to
its end unless the process dies, and `MayAbort = FALSE` leaves that out. Nothing is
assumed of arrivals, of the clock, of cleanup or of the environment. No request
waits for another at these statements (row locks last for one transaction), so weak fairness is enough.

`ConsoleLoads`: `Fairness` is weak fairness of what finishes a slot's load, of the
next step of each operation and of each request's being answered or failing. A
request ends within its time-out (`fetchWithTimeout`, 5 seconds, `api/client.ts:96`), and a
tab that has something to run runs it. Nothing is assumed of the developer.

The other modules state no fairness and no liveness.

## Proofs

The theorems hold for every value of the constants: any number of accounts,
clients, rows, tabs, slots and concurrent requests, all bounds on versions, time,
turns and failures, every set `Ops`.

| Module | Theorem | Statement |
|---|---|---|
| `TokenEndpoint_proofs` | `TokenStoreInvariant` | `Spec => []IndInv` |
| | `TypeCorrect` | `Spec => []TypeOK` |
| | `OneLiveToken` | `Spec => []AtMostOneLiveToken` |
| | `CodeRedeemedOnce` | `Spec => []RedeemedOnce` |
| | `RotationKeepsGrant` | `Spec => []RotationChain` |
| | `HeldTokensAreConsented` | `~MayFail` implies `Spec => []HeldIsConsented` |
| | `EndpointImplementsLifecycle` | `Spec => ImplementsLifecycle` (refinement of `GrantLifecycle`) |
| `AppAccess_proofs` | `AccessInvariant` | `Spec => []IndInv` |
| | `AccessTypeCorrect` | `Spec => []TypeOK` |
| | `RuleChangesEndTokens` | `Alone` implies `Spec => []RuleChangeEndsTokens` |
| `Accounts_proofs` | `AccountsInvariant` | `Spec => []IndInv` |
| | `AccountsTypeCorrect` | `Spec => []TypeOK` |
| | `EarlierAuthEnds` | `Spec => []SettledEventEndsAuth` |
| | `FreezeHolds` | `Spec => []SettledFreezeHolds` |
| | `CancellationHolds` | `Spec => []SettledCancellationHolds` |
| `VerificationCodes_proofs` | `CodesInvariant` | `Spec => []IndInv` |
| | `CodesTypeCorrect` | `Spec => []TypeOK` |
| | `DailyLimitHolds` | `Spec => []StoredWithinLimit` |
| | `CooldownKept` | `Spec => []SpacedFromSeen` |
| `DeveloperConsole_proofs` | `ConsoleInvariant` | `Spec => []IndInv` |
| | `ConsoleTypeCorrect` | `Spec => []TypeOK` |
| | `PagerFitsItsList` | `Spec => []ListsFit` |
| | `BindingEditsAddUp` | `Spec => []EditsAddUp` |
| | `SavedChangesAreShown` | `Spec => SavedIsShown` (an action property) |
| `AdminConsole_proofs` | `AdminInvariant` | `Spec => []IndInv` |
| | `AdminTypeCorrect` | `Spec => []TypeOK` |
| | `RowsAreOfPage` | `Spec => []RowsFit` |
| | `EmptyPagesAreLeft` | `Spec => []NoEmptyPageLeft` |
| | `PolicyWasRead` | `Spec => []SavedPolicyWasRead` |
| | `TabsKeepTheirValues` | `Spec => []AcceptedIsStored` |
| | `SecretSurvives` | `Spec => []SecretKept` |
| `AccountPage_proofs` | `AccountPageInvariant` | `Spec => []IndInv` |
| | `AccountPageTypeCorrect` | `Spec => []TypeOK` |
| | `ContentIsOwn` | `Spec => []OwnContent` |
| | `PageUpToDate` | `Spec => []UpToDate` |
| | `EndedIdentityIsLeft` | `Spec => []EndedIsLeft` |
| `SignIn_proofs` | `BrowserInvariant` | `Spec => []IndInv` |
| | `BrowserTypeCorrect` | `Spec => []TypeOK` |
| | `StoredIsCookie` | `Spec => []MetaIsCookie` |
| | `TabsEnterAsThemselves` | `Spec => EntersAsItself` (an action property) |
| | `CodeExchangedOnce` | `Spec => []ExchangeOnce` |
| | `QRLoginInvariant` | `QRSpec => []QRInv` |
| | `QRLoginTypeCorrect` | `QRSpec => []QRTypeOK` |
| | `OnlyConfirmedDelivered` | `QRSpec => []DeliveredIsConfirmed` |
| | `LostConfirmationsCleaned` | `QRSpec => []NoStrayLogin` |
| | `DecisionIsFinal` | `QRSpec => OutcomeIsFinal` (an action property) |

### What they rest on

The named assumptions of the modules, which TLC evaluates in every run: the sets of model
values do not contain `None`, or `Null` in `QRLogin` (`DeveloperConsole` shows and caches numbers and records, which are not `None`
either); bounds are numbers (`MaxVersionAssumption`,
`MaxDayAssumption`, `BoundsAssumption`), `Ops` is a set of operations, flags are
Boolean; and what keeps values of two kinds apart, which in the code are drawn as different uuids or are
of different types: `ValuesAssumption` (a code is no refresh token), `FamilyAssumption` (a
family is no access token), `SlotAssumption` (a slot is no stage of the drawer),
`TabAssumption` (the secret is no tab),
`ItemAssumption` (an entry of the start is none that an operation adds). The tab of `AccountPage` starts
signed in, so there is an account (`AccountAssumption`), and the page of `DeveloperConsole` starts with a load, so
there is a slot for it (its `SlotAssumption`).

Two theorems have a hypothesis:

- `HeldTokensAreConsented` needs `~MayFail`. `SaveConsent` drops its error, so with a
  failing INSERT the property is false (see below the runs). Requests may stop at any
  statement.
- `RuleChangesEndTokens` needs `Alone`: either one console request at a time, or not both bindings
  and memberships among the operations. Without it the promise is broken
  (`SettledRulesEndTokens`), and only by a binding made between the listing of a membership
  change's applications and its write. For bans and bindings, and for memberships alone, any
  number of requests may overlap.

### How they go

No property but some of the type invariants is inductive. Each component has an `IndInv` (`QRInv` for `QRLogin`; `HeldInv` and `RuleInv` for the
two with a hypothesis), a conjunction of named parts that TLC checked before it was
proved, and which the proof takes through `Init` and every action. What each has to say beyond the properties:

- `TokenEndpoint`: the row a rotation spends is live and no live row has a successor
  (`RowsOK`); a request past `ConsumeAuthorizationCode` is alone with its code, the code
  is spent, and the request carries its columns (`RedeemingOK`); a request has what its step needs
  (`RequestOK`). Rows never leave `used`, `revoked`, `deleted`, so lemmas on rows that
  only lose their life carry expiry, cleanup and revocation at any moment. `HeldInv` adds that what a request is about to
  store or hand out is consented to. The refinement maps each action to a step of one grant
  or to a stutter; a family being a chain with one live end is what makes a
  rotation a stutter.
- `AppAccess`: `AccessInvariant` ties each token that is out to a consent and to a version that
  was current; `RuleInv` says which of the tokens of before a change a console request still owes, and that they are
  among the ones its remaining steps end.
- `Accounts`: each request's copy of a row is either as old as a race the property excuses or not older than the last settled
  event, freeze or cancellation; so are the list and the recheck of the cleanup. After a settled freeze no
  request is on its way to `active`, and no challenge that leads there is left.
- `QRLogin`: a sign-in exists for each confirmation under way and is undelivered until the row names it;
  what a poll carries is what the row said, and the row's decision does not change.
- `VerificationCodes`: the holder of the day's lock is alone between count and insert, and the
  count it read is at least the number of rows (`FiniteSetTheorems` gives the insertion its
  cardinality).
- `DeveloperConsole`: a load waits for what its tab needs, by requests of its own or of others; the request that a
  cache holds as in flight is under way; no copy is newer than the server (`SlotsOK`). `ListsFit`: a list that does not fit its pager has a
  load to come that fetches it, or one failed (`PagesFit`); without haste all that is under way is of the tab that is displayed,
  and only the first of several loads can have the old filter (`OfTheTab`, `FirstIsOld`), so that the
  last to end in order shows the list of the filter selected. `EditsAddUp`: an edit made at rest is alone until its answer and carries
  the set that was asked for (`EditAlone`), and whatever copy of the bindings is in a cache or on its way once it has
  been answered leads to the set that is stored (`CopiesOK`, `BoundIsWanted`); an edit that failed owes this to the
  forced load in its `catch` block. `SavedIsShown`: a forced load shares no request with a load of
  before, so what it has got is not older than what its operation wrote.
- `AdminConsole`: the queue `order` enumerates the loads under way, and the last answer will be of
  the selected page unless a history says otherwise; a drawer's value was read for its user; a save the server is at, of a page or
  given up, carries what its page had read and the secret that is stored, and a second one would be an overlap
  (`SecretInv`, `TabsInv`).
- `AccountPage`: `Contents` says whose contents are where: a load waits for a request of its own
  identity, and what is cached, displayed or on its way is of the account its identity signed in with, unless
  that is excused. `Endings` says that an identity that has ended its sessions has a redirect to come, and that the
  tab never changes back to it. `Fresh` says by how much the page and the caches differ from the server while
  nothing the property excepts has happened: by the operations that the server has handled and not answered, and
  by nothing else. The redirects to come and the slots that
  are busy are together never more than the operations begun (`Scheduled`), which keeps `timers` in its range.
- `BrowserTabs`: what a tab waits for, is about to store and has stored, against the cookie and the shared
  storage, as long as no sign-in has left the stored session behind.

The proof of `AcceptedIsStored` found the model wrong where TLC's instance was too small to: an answer of
the settings that arrived during a save cleared the history that marks the page as out of date,
so that the property was false from four saves and two failures on. `SettingsLoaded` now keeps the mark.

The proof of `UpToDate` did the same in `AccountPage`. With four visits TLC found a run in which no
operation overlaps anything and the page still shows a consent that was revoked: the late answer of an
earlier identity empties a cache and with it the note that a request is in flight, the next visit asks a second
time, and the older of the two answers comes last. The code does so (`readSessionScopedCache` forgets `inflight`), so
the exception the property names, requests that crossed (`crossed`), now covers two loads of one resource too.

The safety properties of `DeveloperConsole` were checked on larger instances before they were proved (three slots,
two failures, the logs too). `ListsFit` failed there: the load of page 2 fails, then an older load of
another tab ends well, and the list of page 1 stays under a pager that says 2. The history `failed` is therefore
now cleared by a load of the tab that is displayed only. The order of the loads, a sequence before, is now the set
`ahead` of those that started earlier, for each load: the proof asks only which of two was first, and it is what
showed that a load which fails ahead of its turn has to count as out of order. `EditsAddUp` was found to need no
exception for answers that come out of order, and has none any more.

### What is only model-checked

The two liveness properties, `ReplayEndsFamily` and `Settles`. Every other property of a passing run has a
theorem. Out of the prover's reach: liveness under
fairness and `ENABLED`, induction over data, and anything in a module that reaches a
RECURSIVE operator; no module here declares one.

## Not modelled

See `components` in `PROJECT.json`, each with its reason. In short: pure
functions (JWT, passwords, PKCE, captcha images, geo-IP), external services,
configuration and installation, the SDK, the in-memory development store, logs.

Of the front end: most of its lines are texts (the locale files are more than
half of them), rendering, styles, manuals and code samples, which have no state to model and
whose share in what the definitions cover is therefore nil. Left out though they keep
state: the search fields and drafts of forms, selections of rows, the WebAuthn ceremony
inside an operation, the captcha dialog, the pages for second factors, phone binding,
registration, forgotten passwords and installation, the polling of the QR page (the
server's side of it is `QRLogin`), and the client's trying a second base
URL, which happens in development only.

Hazards of the back end known and outside `hazards` for want of a model:
`RevokeTokenByClient` revokes the row it was shown and not a successor
(`oauth/service.go:446`); access tokens of a disabled application stay valid
(`:555`); deleting a group bumps no version (`accesscontrol/service.go:260`); revoked consents
are purged, and their users are no longer bumped (`cleanup_repo.go:11`); two cleanups
list the same account and the second reports an error (`user/service.go:724`); two polls
deliver the same confirmed sign-in (`qr_login.go:87`); `RELEASE_LOCK` runs under the context of its
request (`verification_repo.go:140`); two requests can be accepted with one code
(`:85`); `UpdateApp` writes the whole row (`app_repo.go:98`).

## Plan

Done: token service and its abstract life cycle; access control;
accounts; QR sign-in; sending verification codes; the developer's console, the
administrator's pages, the account page, the sessions of a browser; the proofs listed above.

1. `LoginChallenges`: acceptance of verification codes (lookup, then unconditional
   consumption), MFA, step-up, enrolment and phone-binding challenges consumed by a
   conditional UPDATE, the security policy's read-modify-write. Properties: one
   session per challenge, no session without the factors the policy asked for, a code accepted
   once, a policy cleared only by the login that satisfied it.
2. `AppRegistry`: whole-row `UpdateApp` against review, disabling and secret
   rotation; `DeleteApp`. Properties: a disabled application is not enabled by its
   owner's edit, a secret that was rotated does not come back; access tokens of disabled applications.
3. `Attempts` and `ReplayCache`: failed-attempt counters, rate limiter, nonces of
   device signatures; bounds under concurrency.
4. `Passkeys`: registration and login challenges, counter.
5. Composition: `AppAccess` and `Accounts` shown to take only the steps that the
   `Environment` of `TokenEndpoint` allows; a module that joins `AppAccess` with
   rotation, so that families split over several tokens.
6. Faults: weaker forms of `HeldIsConsented` and `ReplayEndsFamily` that hold when
   statements fail; two consoles in `AccessRules`, for changes that do not overlap.
