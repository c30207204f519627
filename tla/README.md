# A TLA+ model of epr-frontend

epr-frontend is the web front end of the packaging producer-responsibility
service: a hapi application that signs operators and regulators in, keeps their
session, and shows and changes data the backend (epr-backend) owns. It keeps
little state of its own, but that state is shared by every request of a browser
and by every instance of the service, and nearly every handler awaits a network
call between what it reads and what it writes. This directory models that state
and those handlers, checks them with TLC and proves what matters most with
TLAPS.

## Inventory

| Part | State | Operations | What is hard | What makes it correct |
|---|---|---|---|---|
| User session (`auth/helpers`) | one entry per session id in the Redis cache all instances share (`server.app.cache`), the mark `idTokenRefreshInProgress` in it | `validate` on every request, mark, refresh (three reads and two writes of the entry, two calls), end | every step is an await; read-modify-write of the whole entry without a lock; a background refresh outlives its request; crash with the mark set; Redis command fails in the catch | permissions belong to the token; an ended session stays ended; a mark means a refresh; nobody waits for ever |
| Sign-in, sign-out, linking (`auth/callback`, `logout`, `account/linking`, `logged-out`, `home`) | the same entry, the session cookie, yar's flash `referrer`, the `signedOutProvider` cookie | two callbacks, logout, POST linking, the start page, the greetings, `catchAll` on 401 | a refusal after the session was stored; writes of the credentials of a request over a newer entry; a flash and a cookie that outlive what they were set for; half a dozen handlers that redirect to one another | no role, no session; the linked organisation stays; no link is refused, no redirect runs in a circle, a sign-in leads in |
| Reports (`reports`) | the backend's report (status, version), yar `reportStaleErrorContext` | create, data pages, check, submit, delete, make changes, resubmission | several browser tabs; the report goes stale when waste records change; optimistic lock by version on some steps and none on others | only a fresh, complete report is submitted, by the version that was reviewed |
| PRNs (`prns`) | the backend's note (draft to accepted), the waste balance, yar `prnDraft`, `prnCreated`, `prnIssued` | create draft, confirm, discard, issue, cancel, delete | check-then-act on status and balance; yar overwritten by whole; the number of the note appears after a delay | a note is issued once; a draft that exceeds the balance is not raised |
| Summary logs (`summary-log`, `summary-log-upload`) | the backend's summary log, yar `summaryLogs.freshDataMap` | upload, poll status, submit | polling against a background validation; double submit; upload superseded by another | a log is submitted once, after validation |
| yar session store | a record per browser, read when a request arrives and written whole with its answer | every handler that keeps something for the next page | last writer wins on the whole record | what one handler stores the next one sees |
| Write guard and scopes (`auth/block-unauthorised-writes.js`, `auth/scopes.js`) | none | `onPostAuth` | decides from the scopes of the session as it was read | no write without the write scope |
| Organisations, registrations, accreditations (`organisations`, `registrations`, `common/helpers/organisations`) | none: the organisation is read from the backend by every page | pages of an organisation, a registration, its notes and reports | the accreditation is used as it is in one place and only while it is live in another | a page offers what the routes admit, and every granted registration can be reached |
| Waste balance ledger (`waste-balance-ledger`) | none | look at the organisation, then read the events | the accreditation may change in between | it shows the ledger of its address |
| Regulators' pages (`regulators`) | none | search, paging, the greeting | pages past the end, a flag that removes the routes | as above |
| Waste organisations plugin, OIDC discovery | lists fetched at start and on a timer | refresh | none of order | rendering |
| i18n, nunjucks, metrics, audit, logging, health, static files, content security policy, user agent protection, config, client scripts | none that a handler decides from | | | formatting and I/O |

How they interact: hapi runs `validate` (session), then `onPostAuth` (write
guard), then the route's handler, which calls the backend with the session's
token, then `onPreResponse` (`catchAll`, and the reports' own handler of stale
reports), then yar writes its record. A background refresh runs beside all of
it. The backend, the identity providers and Redis are other processes.

## Plan

1. `Session` with its abstract specification `SessionLifecycle`, its runs and
   `SessionProofs`: it is under every page, and all its state is shared. *Done.*
2. `ReportPages` and `Reports`: one reporting period, the backend's reports with
   status and version, tabs, waste records that change. *Done.*
3. `Prns`: notes from draft to issued or cancelled, the balance, the record of
   the browser, reads that lag. *Done.*
4. `SummaryLog`: uploads, validation, polling tabs, submission and the answers
   kept after it, with `SummaryLogProofs`. *Done.*
5. `SignInPages`, `OrganisationPages` and the composition `Journey`: from the
   start page to the reports of a registration. *Done.*
6. Proofs: `SignInProofs`, `OrganisationProofs`, `PrnsProofs`, `ReportsProofs`,
   `SessionMarkProofs` for `MarkMeansRefreshing`, and `JourneyProofs`, which carries
   those of the parts over to the composition. *Done.*
7. `Session` implements `SessionLifecycle` as a theorem (`SessionProofs`). *Done.*
8. `Announcements`, what the pages of notes and logs promise, which `Prns` and
   `SummaryLog` implement; `LinksHold` and `DraftIsFound` of `Reports`; and the safety
   under the liveness properties: `RedirectsDescend`, `NobodyWaitsInVain`,
   `EndsDrawNearer`, `KeptAnswersRunOut`. All of them as theorems. *Done.*
9. Left: the session composed with a handler that swallows a 401
   (`issue-controller.js`), one record of the browser shared by `Prns`,
   `Reports` and `SummaryLog`, and failing fetches of pages.

## The modules

`MC*` modules hold definitions for TLC only: sets of homes, of registrations,
symmetry. An action is the code between two awaits, or a whole handler where it
awaits one call and decides from its answer.

### Session

A request `req[r]` is one of the requests in flight on any instance; `job[r]` is
the token refresh it started, which may outlive it. `creds` is what hapi gave
the request when it read the cache, `base` what the refresh read last.

| Actions | Code |
|---|---|
| `SignIn`, `SignedIn`, `SignedInLinked`, `SignInRefused` | the two callback controllers, `catchAll` on their 401 |
| `Arrive` | `getUserSession` in `validate` |
| `Refuse`, `Admit`, `StartRefresh` | the rest of `validate`, with `markSessionAsIdTokenRefreshInProgress` |
| `PostRefresh` | `selectAuthProvider`, `refreshIdToken` |
| `ProviderIssues`, `ProviderRejects` | the provider (external) and `validateRefreshedTokens` |
| `ReadLatest`, `Identify`, `IdentifyFails`, `StoreRefreshed` | the second read, `updateUserSession` |
| `EndSession` | the catch, or a withdrawn role: `removeUserSession` |
| `Answer`, `BackendRefuses`, `LinkOrganisation`, `StoreLinked`, `RemoveSession` | handlers, `catchAll`, linking, logout |
| `Tick`, `Evict`, `Crash`, `RequestFails`, `RefreshFails`, `RemovalFails` | time, the entry's time to live, faults |

A token stands for the id, backend and refresh token of one answer of a
provider, an identity for role and scopes. The expiry is one of four ages, cut
at five minutes, ten seconds and zero as `validate` cuts it. `grant` is a
history variable: for whom a token was issued and what the backend answered for
it. A failed `validate` is taken to answer as @hapi/cookie documents it: 401,
or an unauthenticated handler on the logout route.

`SessionLifecycle` is what a session id promises: unused, live, ended (somebody
still holds a copy and may write it back), closed for good.

### Reports

`ReportPages` is what the code writes down in a dozen modules about pages: the
kinds of registration, which figures each fills in, the page a draft is taken up
at, the page after and before each, the guard of each page. It has no state.
`Reports` adds the backend's reports of one period (`report[n]`, by submission
number), the tabs of one browser and `reportStaleErrorContext`.

| Actions | Code |
|---|---|
| `GetList`, `GetPage` | the list, every page that fetches the report and guards by its status |
| `GetSubmit`, `MakeSubmit` | the submit page: two fetches |
| `GetStaleReading`, `GetStale`, `ShowStale`, `StaleRedirect` | the page about a stale report, and `onPreResponse` that sends a tab there |
| `PostCreate` | create, with the backend's conflict |
| `PostData`, `SaveNothing`, `PostFree`, `SaveFree` | the data pages; free tonnage is compared with a fetched report, then stored |
| `PostCheck`, `PostSubmit` | `updateReportStatus` with the version of the hidden field |
| `PostDelete`, `PostMakeChanges` | delete from the delete page or the stale page, and its new draft |

A tab knows what its page was made from (`seen`), where it is sent (`to`) and what
it waits for (`awaits`, `got`). `walk` and `from` are history: the draft whose pages
the tab went through by Continue, and where it came from. A report's `edits`
count its updates and with its id name its content.

What the backend is taken to do: it updates a report only in progress and fresh,
changes its status only at the version named, deletes any draft, answers 409 to
a second create. `FreshVersions` says that no report gets a version an earlier
one had. This is an assumption, not something the frontend sees to: with
`FreshVersions = FALSE` a report that was deleted and made again gets the version
of the old one, the form of the old one is accepted, and `AdvancedAsReviewed` is
violated.

### Prns

The notes of one accreditation with the backend's status, a `replica` the backend
may still read from, and the `available` balance; the record of each browser
(`prnDraft`, `prnCreated`, `prnIssued`); tabs with a page and what they wait for.

| Actions | Code |
|---|---|
| `GetList`, `GetCreate`, `GetView`, `GetDiscard`, `GetAction`, `GetDelete`, `GetCancel`, `GetCancelled` | pages made from one fetch and the record |
| `GetCreated`, `ShowCreated`, `GetIssued`, `ShowIssued` | the pages that take an entry out of the record |
| `PostCreate`, `CreateDraft` | the form: `createPrn`, the draft in the record |
| `PostConfirm`, `Confirm` | the check page: the balance is fetched, then the note is raised or discarded |
| `PostDiscard`, `Discard`, `PostIssue`, `Issue`, `PostDelete`, `Delete`, `PostCancel`, `Cancel` | the others |
| `Fails` | a call that fails without effect; lost answers are part of the actions above |
| `Replicate`, `Respond` | the backend and the producer (external) |

A request copies its browser's record when it arrives and stores the whole copy,
changed, with its answer. That is yar: it reads its store before the handler and
commits after, whether the record is small enough for the cookie or kept on the
server. Two overlapping requests of one browser overwrite each other's entries.
`Homes` says which tabs share a browser.

### SummaryLog

The logs of a registration, or of several, with status and replica as above, the
`freshDataMap` of each browser, and tabs.

| Actions | Code |
|---|---|
| `GetUpload` | the upload page, which makes a log |
| `Upload` | the uploader (external) stores the file and sends the browser to the log |
| `GetLog`, `ShowLog` | the page of a log: the record when it arrives, the fetch or the kept answer when it is shown; a log that must be uploaded again gets a form, that is another log |
| `Poll` | the meta refresh: `GetLog` of the page's own log |
| `PostSubmit`, `Submit` | submission, skipped if the record has an answer; 409 is the conflict page |
| `Fails` | calls that fail |
| `Progress`, `Supersede`, `Replicate` | the backend (external) |

Statuses the frontend shows alike are one: preprocessing and validating;
invalid, rejected and validation_failed. The backend is taken to submit only a
validated log, to replace only logs that were not submitted, and never to take a
submitted log back.

### Announcements

What the pages promise that tell what has become of a note or a log (created,
issued, cancelled; submitted, replaced, failed). Something comes to be so
(`Happen`); by a later step a tab is told (`Tell`); what is so stays so. A tab may
leave its page while something comes to be so (`Leave`): it has sent a form. `Prns`
and `SummaryLog` implement it: there `so` is what the backend's statuses make
true and `told` what the tabs show. In the code this is what post, redirect, get
is for: no POST shows what it has brought about, it redirects to a page that
asks. The one page a POST renders, that a log cannot be submitted, tells what was
so before.

### UserScopes and OrganisationData

What is known of a user (`/v1/me`: provider, role, scopes) and of an organisation
(`/v1/organisations`: registrations with type, status and accreditation). They
have no state. What the backend is taken to do is in their assumptions:
`UsersAssumption` (operators sign in with Defra ID and may write, regulators sign
in with Entra ID and may search) and `OrganisationsAssumption` (a registration
names an accreditation there is).

### SignInPages

The way in and out, in the windows of one browser. A window shows a page, that is
the links it was made with, or is sent on by a redirect. Both stay as they are
when another window changes the session; `fresh` says that nothing has.

| Actions | Code |
|---|---|
| `Visit` | GET of any page here: the route's scope and flag, then the handler's redirect or page; 401 by `catchAll`, which drops the session |
| `VisitFails` | the same handlers when the backend fails |
| `Begin` | the two login routes and `recordSignInReferrer` |
| `SignInDefra`, `SignInEntra`, `SignInFails`, `NotSignedIn` | the two callback controllers and `referrerIfPresentElseDefault` |
| `Link` | POST linking behind the write guard |
| `Logout`, `PostLogout` | sign-out by way of the provider, `rememberSignedOutProvider`, `signedOutOfRegulatorService` |
| `Expire`, `Elsewhere` | time, and other windows of the browser: what they do to the session, the flash and the cookie |

### OrganisationPages

From the page of an organisation to those of a registration, an accreditation and
a ledger, and the regulators' list of organisations. Each handler reads the
organisation anew; the backend changes it, one registration or accreditation at
a time, under open pages. `LinksOf` is what the views offer, `Answer` what the
routes and handlers admit: the code writes both down apart, and so do the
definitions.

| Actions | Code |
|---|---|
| `Get` | GET of every page but the ledger, its redirect for a page past the end of a search, its refusals |
| `GetLedger`, `ShowLedger` | the ledger: `requireCurrentAccreditation`, then the events |
| `OrganisationChanges`, `SearchChanges` | the backend (external) |

### Journey

One journey through three parts, by INSTANCE of `SignInPages` and
`OrganisationPages` and with `Reports` extended: `ReachOrganisation` hands over who
is signed in, `ReachReports` what kind of registration was opened. So
`OrganisationPages` begins with visitors a sign-in can produce and `Reports` with
registrations a page links to, the accreditation `OrganisationPages` found live.
A part that was left is put to rest.

## Runs

| Run | Shows | Bounds |
|---|---|---|
| `session_shared` | types, `PermissionsMatchToken`, `EndedForGood` | two requests of every kind, one id, two tokens (a sign-in and a refresh, or two refreshes) |
| `session_rolling` | `RegulatorsRecognised`, `ImplementsLifecycle` | two requests on different instances, one without Entra ID; two ids, one stored by an older release; expiry; one fault |
| `session_liveness` | `MarkMeansRefreshing`, `NobodyWaitsInVain`, `EndsDrawNearer`, `MarkIsCleared`, `EveryRequestEnds`, `ExpiredSessionsHeal` | two requests that are pages or sign-ins, one fault; no linking, which brings marks back (below) |
| `reports_tabs` (`Journey`) | the entry: `WaysAreOpen`, `RedirectsStop`, `SignInLeadsIn`; organisations: `LinksAnswer`, `EveryRegistrationIsListed`, `LedgerIsItsAddress`; reports: types, `WalkedIsComplete`, `LinksHold`, `DraftIsFound`, `AdvancedAsReviewed`, `FreeIsChecked` | one window and whatever further windows do (`Elsewhere`), four users, two recorded referrers; 120 organisations of two registrations and two accreditations, one change of organisation or search, two pages of results; then two tabs, a registration with two figures, two drafts, three updates, one lost answer, fresh versions |
| `reports_links` | `LinksHold`, `RedirectsDescend`, `RedirectsEnd` | one tab that follows links and types paths, every kind of registration, two submissions, three drafts, one update, one change of the records; versions may repeat |
| `prns_tabs` | types, `PagesTellTheTruth`, `NumberIsOwn`, `JudgedByItsTonnage`, `ImplementsAnnouncements` | two tabs in any of two browsers, two notes of one or two tonnes, a balance of one, reads that lag behind the issue |
| `summarylog_tabs` | types, `PagesTellTheTruth`, `NoSubmissionIsDropped`, `SubmissionBridgesLag`, `ImplementsAnnouncements`, `KeptAnswersRunOut`, `PollingEnds` | two tabs in one browser or in two, two logs, reads that lag behind a submission |
| `session_logout_race`, `session_no_role`, `reports_submit_page`, `reports_stale_delete`, `prns_issued_lag` | findings | the smallest instance that shows them |

Why the bounds are enough. Every race of this code is between a read and the
write that follows it and one other writer: two requests, or two tabs, are two
such writers, and `job[r]` is a third. Two tokens let one refresh overlap a
sign-in or another refresh. Two drafts let a report be deleted and made again
under an open page; three updates let a figure change after it was reviewed; two
submissions are a resubmission. Two notes and two tonnages let one draft be
taken for another, within the balance and above it. Two referrers are an older
one behind which a newer hides. A registration that is granted or not, with an
accreditation that is granted, cancelled, replaced or none, of either type beside
one of the other, is every case the pages tell apart; one change is what can come
between the two reads of a ledger, and the theorems lift all of these. Two logs let one replace the
other, or both wait in one record.

Fairness:

* `Session`: `FairSpec` is weakly fair for the next step of each request and of each
  refresh: the event loop runs every continuation and every call is answered or
  fails. `ReachableSpec` adds that a page that presents an expired token is
  refused by the backend again and again (strong fairness of `BackendRefuses`).
  Neither time, nor new requests, nor faults are fair.
* `Reports`: a browser follows a redirect, and a call is answered.
* `SummaryLog`: a page that polls asks again (its meta refresh, every three
  seconds) and is answered; the backend gets done with what it works on and
  replicates it. `PollingEnds` would fail without either: a page polls as long as
  its log is being worked on. Submissions, uploads and operators are not fair.

* `SignInPages` and `OrganisationPages` state no liveness: nothing obliges a user to
  go on, and a redirect that ends is a safety property here (`RedirectsStop`).

The runs of `Session` do not check for deadlock: two tokens are used up and
sessions end, so the instance really stops. Neither does `reports_tabs`: with the
bounds on drafts and updates used up the last part stops. The others do.

## Findings

* `session_logout_race`: a refresh checks once that the session exists and
  writes after two more calls. A logout in between, even the one whose own
  request started the refresh, is undone: the session is in the cache again
  with a fresh token.
* `session_no_role`: the Defra ID callback gives an unrecognised user a session
  and a cookie, which `roles.js` says it does not.
* `reports_submit_page`: the submit page is decided on one fetch and made from
  another; the report may be submitted, or a new draft, by then.
* `reports_stale_delete`: the page about a stale report deletes the fresh report
  another tab has begun since.
* `prns_issued_lag`: the number kept for the page of an issued note, in case the
  write has not replicated, is cleared and not shown when it has not.

Known from modelling, with no run of its own:

* POST linking writes back the credentials of its request. With the mark in them
  the session is marked with no refresh behind it, until the backend refuses its
  token. A refresh that overlaps POST linking overwrites the link.
* A create of a report that comes second is sent to the first data page, whatever
  has become of the report: a page that is not found once it is ready. While it is
  in progress the page is found (`DraftIsFound`).
* The page for supporting information is shown for any report, or none.
* A lost answer to a confirmation, or an overlapping request that stores its copy,
  leaves the draft of a raised note in the record: the note's page is then the
  check page, with the button to create it, until another draft replaces it. The
  backend refuses the second confirmation.
* Drafts whose answer was lost, or that another tab's draft replaced, stay in the
  backend with no page that leads to them.
* Whatever goes wrong with an issue, a refused session included, the operator is
  told that issuing failed, even if the note was issued and the answer lost.
* The kept answer bridges the lag for one page. The refresh three seconds later,
  or a second tab that took the answer first, may read the log as validated and
  offer it again. A second submission is refused, and the conflict page says that
  somebody else uploaded different data, or that the operator waited too long.
* Every load of a page of a refused log makes another log, and those stay.

* Both callbacks skip referrers that are start or greeting pages, and sign-ins
  begin on no others: the flash returns a user only to a start page with a query.
  A sign-in without an organisation does not empty the flash.
* A regulator whose session has ended is sent to the operators' greeting, and an
  operator who signs out with a regulator's cookie left over to the regulators'.
* A start page that was open before the organisation was linked leads its user to
  the page that says the e-mail address is not recognised.
* The link to the ledger goes by the scope alone, not by `featureFlags`; a session
  with that scope is a regulator's, who is signed in only where the flag is set.

## Proofs

`SessionProofs` proves for every number of requests, ids, tokens and faults, and
every assignment of providers to instances:

* `TypeCorrect`, `PermissionsAlwaysMatch`, `RegulatorsAlwaysRecognised`: all three
  follow from the inductive invariant `GrantInv`. The properties are not inductive
  alone. A refresh holds a token that no session has yet, so the invariant
  says (`TokensHeld`) that such a token was issued for the session being
  refreshed, that its identity is not yet asked for or was accepted, and that no
  other refresh has it; `TypeInv` says that requests past validation and refreshes
  past their second read hold a whole session; `WaitsForOwn` that a request
  waits for the refresh of its own session. The induction goes action by action
  over one lemma, `GrantStep`: a step that replaces one request, one refresh and
  at most one entry keeps the invariant if what it writes fits (`Fits`).
* `EndedStaysEnded`: from the same invariant, each writer of an entry holds a copy
  of it, so no step writes the entry of a settled session.
* `ImplementsTheLifecycle`: `Session` implements `SessionLifecycle`. The abstract
  specification lets one session change its phase at a time, so most of the
  argument is that a step concerns one session only (`Moved`, `OnePhase`). This
  needs `OwnSession`, that a request and the refresh it started are about the same
  session: a crash that ends both would otherwise close two. That an id is minted
  by the sign-in that stores it and by nothing else is `MintedBySignIn`; it needs
  that a refresh gets its token for a session that was minted. The way a phase
  goes (`PhaseGoes`) then follows from that and from `EndedStaysEnded`'s lemma.

* `NobodyEverWaitsInVain`: a request waits only for a refresh of its own that runs
  or has ended with an answer for it. It is `WaitsForOwn` of `GrantInv`.
* `EndsAlwaysDrawNearer`: `StepsLeft` counts the steps a request and its refresh have
  to go, ten at most. `Nearer(r)` says that request `r` or its refresh has fewer left
  and that nothing about the others changes; every step but those of time and
  eviction is one of these (`RequestStepNearer`, `RefreshStepNearer`, `FaultNearer`)
  or begins a request. This is
  what `EveryRequestEnds` comes to without fairness: whoever keeps taking steps
  arrives, whatever others do.

They use only the assumptions the module names (`KindsAssumption` to
`NoSessionAssumption`).

`SummaryLogProofs` proves for every number of tabs, browsers and logs, whatever
tabs share a browser and whatever writes lag:

* `TypeCorrect` and `PagesAreTrue`, from the inductive invariant `IInv`. What a page
  says cannot be kept true by looking at pages alone: they are made from the
  replica, from the record and from copies of the record that are older than it.
  So the invariant says that all of these tell the truth of their logs (`Truth`),
  and `TruthStays` that what was true of a log stays true however its status
  moves. The induction goes action by action over `TabStep`: a step of one tab
  keeps the invariant if the new tab and the new record tell the truth.
* `NoneDropped`: a submission that is skipped found an answer in the record, which
  tells the truth.
* `LagIsBridged`: in a browser with one tab, `Bridged` says that the answer is in
  the record until the tab asks for the page, and in its copy from then on.
* `ImplementsTheAnnouncements`: what is so only grows because statuses only move
  forward (`TruthStays`); what a tab is told is so by `PagesAreTrue`, and was so
  before the step because a step that makes anything so leaves its tab elsewhere.
* `AnswersRunOut`: overlapping requests of one browser store copies of its record
  that are older than the record, so an entry that was taken may come back, and no
  number of entries measures progress. `Chances` does: for each set of entries, who
  may still be shown one out of a record with just these. A tab that is shown one
  stores its copy with one entry less: the chances of the copy's set are fewer
  from then on, and chances come up only for the smaller set. Sets are finite, so
  that cannot go on. `Calm` and `TakingRunsOut` are the two kinds of steps. This
  holds the hard half of `PollingEnds`; the other is that the backend gets done.

They use `HomesAssumption` only. What the backend does with statuses (`Moves`) is an
assumption in the shape of the model, named in the section on `SummaryLog`.

`SessionMarkProofs` proves `MarkAlwaysMeansRefreshing` under one more assumption, that
no request is a linking one (`"link" \notin Kinds`), which is that of the run:
the linking handler brings a mark back. `MarkInv` adds to `GrantInv`'s types that
a request about to write its credentials back holds an unmarked copy.

`PrnsProofs` proves for every number of tabs, browsers and notes, any tonnages and
balance, and any lag:

* `TypeCorrect`, `PagesAreTrue`, `NumbersAreOwn`, from `IInv`: as in `SummaryLog`, the
  pages are made from a replica, a record and copies of the record, and all of
  these tell the truth of their notes (`RecordTruth`, `PageTruth`, `CheckTruth`),
  which `Implies` says no later status takes back. In particular a draft in any
  copy of the record has the tonnage its note has.
* `DraftsAreJudged`: from that, the tonnage a request compares with the balance is
  the one of the note it raises.
* `ImplementsTheAnnouncements`: as in `SummaryLogProofs`.

`OrganisationProofs` proves types, `LinksAlwaysAnswer`, `EveryRegistrationAlwaysListed`
and `LedgersAreTheirAddress` for any users, windows, registrations and
accreditations and any number of changes. The invariant says that a page that is
fresh has the links that would be made for it now and stands on an address that
is admitted (`IsFresh`, `Stands`), and that a ledger asked for has been written to
(`IsLedger`); the rest is the argument that `LinksOf` and `Answer` agree, page by
page.

`SignInProofs` proves types, `WaysAlwaysOpen`, `SignInAlwaysLeadsIn` and
`RedirectsAlwaysStop` for any users, windows and number of sign-ins given up.
`WaysAreOpen` is not inductive: nobody is refused on the way through the
regulators' greeting, because nothing links to it and who is sent there is signed
out; a sign-in
leads in because the flash holds only pages sign-ins begin on (`SignInFrom`), and
because only a regulator whom the flag admits has an Entra ID session
(`SessionOK`).

These use the assumptions of `UserScopes` and `OrganisationData` only.

`ReportsProofs` proves for every number of tabs, submissions, drafts, updates, lost
answers and changes of the records, every kind of registration, and whether or
not paths are typed:

* `TypeCorrect`, `WalkedAlwaysComplete`, `FreeAlwaysChecked`, and, if `FreshVersions`,
  `AlwaysAdvancedAsReviewed`. They follow from one invariant, `IInv`, because none is
  inductive alone. That the list shows a submission of the period needs that the
  submitted reports are the first ones and at most the next is a draft
  (`Reaches`). That the check page has every figure needs what `Before` says of
  each page on the way (`WalkOK`), and that a page is shown only to whom it admits
  (`PageOK`): `NextAsksOn` is the argument that the next pages, page by page, leave
  no figure out. That a page with the version of a report shows what it holds
  (`SeenOK`) needs that ids and versions only grow; that the issued tonnage of an
  answer is still the one of its report (`GotOK`), that it is set once.
* The induction has one lemma about the backend, `BackStores` (what a stored report
  may be: `Keeps`), and a few about the tab that acts: `LeadsKeeps`, `ShowsKeeps`,
  `StaleKeeps`, `DoneKeeps`; each handler is then one lemma that says which of them
  it is. For the action properties `StepTells` says which steps advance a
  report or store too much free tonnage.

* `LinksAlwaysHold` and `DraftsAreFound`: what a tab shows and where it is sent
  agree with the answer they were made from (`LinksOK`), which is about each tab
  alone: other tabs may change the report, but not that. The rest is that the
  tables of pages agree, one lemma each: the entry page, the next and the back
  page, the pages of the check page's links and of a row of the list are found by
  who holds such an answer (`EntryFills`, `NextFills`, `BackFills`, `ChangesFill`,
  `RowAnswers`).
* `RedirectsAlwaysDescend`: every redirect a tab follows leads to a page of lower
  rank (`HopsLeft`, four at most), action by action (`GetMoves`, `WakeMoves`,
  `PostMoves`). It needs `Settled` of `LinksOK`: a tab that is sent somewhere has
  left its page and awaits nothing.

They use `KindsAssumption` and `SubmissionAssumption` only. Without `FreshVersions`,
`AdvancedAsReviewed` cannot be proved, for it is not true (see the section on
`Reports`).

`JourneyProofs` carries the theorems about the entry, the organisations and the
reports over to `JourneySpec`, whose properties the run of `Journey` checks. `JInv`
says that the invariant of a part holds while the journey is in it, and that it is
at rest otherwise. What is left to show is that a part is entered in a state of
its invariant: for `ReachOrganisation` (`Reached`, `ReachedIInv`) this needs what
`SignInProofs` knows of the page that is left, that the regulators' home is shown
only to who may search; for `ReachReports` (`ReportsReached`) that the reports are
untouched until then. `EntrySame` and `OrgSame` say that the instances of a module
in `Journey` and in its proofs are the same. Nothing is assumed beyond what the
parts assume.

Checked by TLC only: liveness, which is out of the prover's reach
(`MarkIsCleared`, `EveryRequestEnds`, `ExpiredSessionsHeal`, `RedirectsEnd`,
`PollingEnds`). What they rest on apart from fairness is proved: `RedirectsDescend`
for `RedirectsEnd`, `NobodyWaitsInVain` and `EndsDrawNearer` for `EveryRequestEnds`,
these and `MarkMeansRefreshing` for `MarkIsCleared`, `KeptAnswersRunOut` for
`PollingEnds`. For `ExpiredSessionsHeal`, which needs that the backend is asked
again and again, there is no such part.

## Not modelled

Rendering, formatting and validation of forms beyond whether they are accepted;
figures beyond their presence and the comparison of free tonnage; other
reporting periods, which do not influence this one; a fetch for a page of
`Reports` or `Prns` that fails; changes of the balance by other notes and by
summary logs; the expiry of the browser's record, and one record shared by the
modules; the time a call takes. Of the entry: the handshake with the providers,
the check that a redirect target is an address of the service, contact and
cookies. Of the organisations: texts and tags, the link to reapply, the waste
balance on the page of a registration (which shows 0.00 when it cannot be
fetched), the rows of a ledger and of a search. PROJECT.json lists the parts of
the system that keep no state.
