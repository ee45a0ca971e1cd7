# My Tax Diary backend: specifications and proofs

The backend (NestJS, TypeORM over MySQL) serves firms of accountants who act
for clients under HMRC's Making Tax Digital.  This directory holds TLA+ modules
that model it, the TLC configurations that check them on small instances, and
proofs, checked by TLAPS, that some of the properties hold for every instance.
Paths below are under `src/src/modules/` of the repository unless they say
otherwise.

## 1. The system

One Node process (several in production, and serverless instances) runs
requests and cron jobs as async functions.  A request runs alone from one
`await` to the next and interleaves with every other request at each.  All
lasting state is in MySQL.  Almost nothing is in a database transaction, so the
usual shape of an operation is

    const row = await repo.findOne(...);  // read
    if (...) throw ...;                   // decide
    row.column = ...;                     // change the copy
    await repo.save(row);                 // write back EVERY loaded column

The hard behaviour of this program is what becomes of such a copy while others
write the row, or when the process stops between two statements.  Outside the
process are HMRC, Stripe, mail providers and browsers.

### Components

| Component | State | Operations | Interacts with | What makes it correct |
|---|---|---|---|---|
| Client pipeline and invitation (`clients/client-pipeline.service.ts`, parts of `clients/clients.service.ts`, `dashboard/pipeline-status.ts`) | a client's row: stage, invitation, `authorised_at`; its history | create, resend, poll, relationship check, gate, transitions, edits | HMRC's invitations, relationships, obligations; dashboard; notifications | the stage claims only what happened, climbs, agrees with its history; no MTD call without authority; an acceptance arrives and is told once |
| Clients, calls to HMRC | nothing here; figures, coding out and opt-out at HMRC | read and file figures, obligations, account, coding out, summaries | HMRC's MTD APIs, HMRC connection | the firm is shown what HMRC holds, and which answers a failed call makes false is known (`AnswersTrue`) |
| Clients, the rest | notes, imported rows | bulk import, notes | | all rows of an import or none; a NINO once per firm |
| Dashboard | none; it moves clients to `submitted` | summary | clients, chase logs, HMRC obligations | shows what the row and the quarter say |
| Auth (`auth/auth.service.ts`, `auth/strategies/`) | refresh tokens, reset and verification tokens, JWTs in circulation | register, login, MFA, refresh, logout, reset, verify | users, tenants, billing, mail | tokens rotate, links work once, ended sessions stay ended, MFA is earned |
| Token clean-up | deletes token rows | two cron jobs | auth | deletes nothing that still works |
| Users, team | user rows, staff invitations | invite, accept, cancel, edit, remove | auth, clients, mail | an invitation makes one user; a removed user stays removed |
| Platform administration (`admin/`) | audit log; `tenants.is_active` | (de)activate a firm, force logout, purge | auth, tenants, everything | a deactivated firm is out at once |
| Billing (`billing/`) | billing columns of the tenant row; trial domains | webhooks, checkout, trial cron, access rule | Stripe, mail, tenants, auth | the row follows Stripe; one trial per domain |
| HMRC connection (`hmrc/`) | one row of OAuth tokens per firm | connect, refresh, status, ARN, disconnect; scheduler | HMRC OAuth | a connection marked expired is dead; a refresh token that was used is not kept; a token that is due is refreshed |
| Client portal (`client-portal/`) | portal users, messages, files | invite, setup, login, revoke; chat, files | clients, mail, HMRC | a setup link works once; revoked access stays revoked; a mark "viewed" is true |
| Account deletion (`account/`) | deletion requests | request, cancel, hourly job | users and all tenant data | one pending request; a cancelled one is not executed; one that is due is; nothing is left after it |
| Chase (`chase/`, `chase-logs/`, `chase-templates/`) | chase logs, templates | list, daily job, log, dispatch | clients, HMRC obligations, mail | one chase per period within the cooldown; a client is chased for the quarter that has ended |
| Email connections | OAuth tokens per user | as the HMRC connection; send a mail | Google, Microsoft, SMTP | as the HMRC connection; a mail goes out once, whichever way |
| Notifications, mail | little or none | inserts, output | | parts, where a property needs them |
| Enquiries, health, guards, configuration, fraud headers | little or none | inserts, checks of one request | | not modelled |

`PROJECT.json` lists them all with their status, and every hazard at its line.

### What is hard

- *Stale copies.*  A whole-row save undoes what others wrote since the read.
- *Check, await, act.*  Uniqueness, single use and "only the first" are
  decided on what was read before an await.
- *Half-done requests.*  Two statements without a transaction, or HMRC or Stripe
  changed and the row not.
- *Order.*  Polls, webhooks and cron jobs apply news in the order it arrives.
- *Sessions.*  Credentials outlive the event that should end them.

## 2. The modules

| Module | Models |
|---|---|
| `PipelineStatus` | the six stages and the pure functions on them |
| `PipelineLadder` | the abstract specification of a client's stage |
| `ClientRow` | one client row, HMRC, and every request that writes the row |
| `ClientRow_proofs` | theorems about `ClientRow` |
| `AuthSessions` | the sessions of one user of one firm |
| `AuthSessions_proofs` | theorems about `AuthSessions` |
| `TenantBilling` | the billing columns of one firm's row, and Stripe |
| `TenantBilling_proofs` | theorems about `TenantBilling` |
| `OAuthConnection` | one stored OAuth connection, with HMRC or of a mailbox, and its provider |
| `OAuthConnection_proofs` | theorems about `OAuthConnection` |
| `PortalAccess` | portal accounts, setup links, sessions, removal |
| `PortalChat` | messages and files of one portal client, with their marks |
| `PortalChat_proofs` | theorems about `PortalChat` |
| `StaffInvites` | staff invitations, acceptance, changes and removal of staff |
| `StaffInvites_proofs` | theorems about `StaffInvites` |
| `Registration` | firms, trials of a mail domain, owners, purges |
| `Registration_proofs` | theorems about `Registration` |
| `AccountDeletion` | deletion requests, the hourly job, the data it deletes |
| `ChaseRun` | the scheduler's daily run for one firm, chases by hand, templates |
| `HmrcCalls` | the calls to HMRC about one client: figures, account, coding out |
| `MCClientRow`, `MCAuthSessions`, `MCTenantBilling` | symmetry sets for TLC |
| `MCOffice` | the eight modules from `OAuthConnection` to `HmrcCalls` in one instance |
| `MCOffice_proofs` | theorems about the office, and with it about `PortalAccess`, `AccountDeletion`, `ChaseRun` and `HmrcCalls` |

### How requests are modelled

`req` gives each of a fixed number of request slots a record: where it stands
(`at`), the copy of the row it loaded, and what else it carries to its next
step.  An action is the code from one await to the next.  `Starts(p)` are the
entry points, `Continues(p)` the later stretches, `Fails(p)` and `Dies(p)` the
errors and crashes.  A save of an entity writes the copy over the row; an
`update` of named columns changes those columns alone.  Guards are the code's
conditions and early returns; an error path goes back to `Idle`.

TypeORM's `save` reads the stored row, and updates the columns in which the
entity differs from it.  The two are modelled as one step.

### `ClientRow`

`row` is the client's row; `history` is `client_status_history` (a set: order
among entries is not used); `invitation`, `relationship` and `fulfilled` are
HMRC's side, free to move by itself; `chased`, `quarter` are what the dashboard
derives from; `asked` and `announced` record what agents asked for and what the
firm was told.

| Actions | Code |
|---|---|
| `PollLoad`, `Fetch`, `SaveStatus`, `Verify`, `SaveAuth`, `Notify` | a list view polls the invitation, saves its status, verifies the relationship, saves `authorised_at`, notifies the firm |
| `CheckLoad`, `GateUnverified`, `Decide`, `MtdCall` | the status endpoints and the gate before MTD calls |
| `Find`, `SaveStage`, `Record` | `transition()`: read, save the stage, append to the history |
| `AgentSets`, `DashboardFindsSubmitted` | who starts a transition; polls start one after `SaveAuth` |
| `ResendLoad`, `CreateInvitation`, `CreationRefused`, `SaveInvite` | resending an invitation |
| `EditLoad`, `EditSave` | edits that save the whole row |
| `ClientAnswers`, `ClientSignsUp`, `InvitationLapses`, `ClientDeauthorises`, `QuarterFiled` | HMRC and the client, external |
| `ChaseClient`, `NextQuarter` | a chase is logged; the calendar |

Names, addresses, NINOs, mail and the MTD payloads are left out.  Requests on
different clients touch different rows, so one client is enough.

`PipelineLadder` says what a stage is meant to do whoever moves it: a system
step goes up, an agent's step is the next manual one, nothing goes back.
`ClientRow` instantiates it with `stage <- row.pipeline`.

### `AuthSessions`

`account` is the user's row, the password named by its version (the number of
changes before it).  `refresh` holds the refresh tokens; each stands also for
the access JWT issued with it (`iat`).  `parent` is the token it replaced, and
`login` the login it descends from.  `logins` keeps the password version each
login was checked against; `challenges` are the logins whose MFA challenge JWT
can still be answered; `proved` are those that were followed by a valid code.
`links` are reset links, `passwords` the links that changed the password, in
order.  `crashed` remembers that a request died.
`clock` counts seconds, the unit of a JWT's `iat`.  `forced` are the
tokens that existed when a forced logout last stamped the user.

| Actions | Code |
|---|---|
| `Login`, `LoginFirm`, `AnswerChallenge`, `VerifyFirm`, `Issue` | `login`, `verifyMfaChallenge`, `issueTokens` |
| `Refresh`, `Rotate`, `RefreshFirm` | `refreshTokens` (`restoreSession` calls it) |
| `Logout`, `RevokeAll` | `logout`; the revocation that ends a reset, a forced logout, a deactivation |
| `Forgot`, `RetireLinks`, `MailLink` | `forgotPassword` |
| `Reset`, `UseLink`, `SetPassword` | `resetPassword` |
| `ToggleFirm`, `Activate`, `Deactivate`, `ForceLogout`, `Stamp` | the administrator |
| `EnableMfa`, `DisableMfa`, `ClearMfa`, `ClearSecret` | MFA settings |
| `EditUser`, `SaveUser` | `updateName`, `updatePermissions`: whole-row saves |
| `ChallengeExpires`, `TokenExpires`, `LinkExpires`, `Tick` | time |

Wrong passwords and codes change nothing, so requests come with right ones.
`users.is_active` is never cleared by the code, so its tests are left out.
Sessions are per user, and a firm matters only by its flag, so one user is
enough.

### `TenantBilling`

`tenant` is the firm's row.  `sessions` are the checkout sessions, each of which
becomes, when it is paid, the subscription of the same number; `customers`
counts the customers created at Stripe.  A change of a subscription gets the
next number of `news`, and its events, with the subscription as it was, are put
in `due`.  `left` is what is left of the trial, cut where the daily job looks:
more than two days, the second day before the end, the last, over.  `told` are
the mails on the trial that the owner got.  `legacy` is a firm older than
billing, which the migration made active.  `owner` says whether the firm has an
active owner: the daily job passes over a firm that has none.

| Actions | Code |
|---|---|
| `CheckoutLoad`, `CreateCustomer`, `SaveCustomer`, `CreateSession` | `createCheckoutSession` |
| `OnCheckoutCompleted`, `OnSubscriptionChanged`, `OnInvoicePaid`, `OnInvoicePaymentFailed`, `Retrieve`, `SaveEvent` | the webhooks |
| `RunDailyTrialEmails`, `MailTrialEnding`, `MailTrialExpired`, `SaveTrial` | the daily job |
| `EditLoad`, `EditSave` | `TenantsService.update`, `setFirmActive`: whole-row saves |
| `Pays`, `InvoicePaid`, `InvoiceFails`, `SwitchesCancelling`, `Ends` | the owner and Stripe, external |
| `TrialRuns`, `OwnerLeaves` | time; the deletion of the owner's account, which leaves the firm's row |

A subscription ends as `canceled` or, its first invoice never paid, as
`incomplete_expired` (`Ended`); only the first clears the date it would be cancelled at.
Dates, quantities and prices are left out.  Events carry the firm's id, which
checkout put in their metadata, so the search by other ids is left out.  With
`Faults`, an event may be delivered in any order and again after it was
handled; without, in the order of its change and once.  The daily job handles
the firms in turn, so the time other firms' mails take is the time between
`RunDailyTrialEmails` and this firm's mail.

### `OAuthConnection`

`row` is the connection's row.  Each answer of the provider's token endpoint has
a number, which names the access token, the refresh token and the dates it
carries: the row says from which answer each of its columns is.  `live` are the
refresh tokens the provider would honour, `spent` those of HMRC's that were
used, `passed` the answers whose refresh date is over, `age` how near each
access token is to its end, cut where the code looks (an hour before it for the
job, a minute for a request with HMRC, five for a mailbox).  `kind` says whether
the row is a firm's with HMRC or an agent's mailbox; what differs between the
two services is in the guards: HMRC's refresh tokens are single-use, a
mailbox has a profile and its row is marked deleted and revived.  HMRC may or may
not say when a refresh token ends (`dated`).

| Actions | Code |
|---|---|
| `Connect`, `FetchProfile`, `FindRow`, `RestoreRow`, `SaveGrant` | the OAuth callback of both services |
| `RefreshAsked`, `TokenNeeded`, `Schedule`, `LoadRow` | who refreshes: the refresh endpoint, a call that needs a token, the job of every half hour |
| `Honoured`, `TokenRefused`, `NotAnswered`, `SaveFresh`, `SaveRefused` | the provider's answer, or none, and the save of the row as loaded |
| `GetStatus`, `UpdateArn`, `SaveCopy`, `Disconnect`, `RemoveRow` | the other operations on the row |
| `SendMail`, `SendByMailbox`, `MailboxFails`, `SendBySmtp` | `MailService.sendClientFacing` |
| `Ages`, `DatePasses`, `Withdraw`, `Stop` | time, the provider's user, a process that stops |

### `PortalAccess` and `PortalChat`

`account` is the `client_users` row of each client, known by the setup link it
was created with; `used` counts the passwords each link set, `cookies` are the
sessions handed out, `revoked` the last account taken from each client.  The
save that does not clear the token (section 3) is in `SetUp`.  `chat` is the
messages in order; `viewed` the rows of files; `shown` and `listed` what a page
or list of the agent's held.

| Actions | Code |
|---|---|
| `CreateClient`, `InvitePortalClient`, `SaveClient`, `ResendInvite`, `FindAccount`, `SaveInvite`, `MailInvite` | invitations, from either controller |
| `Setup`, `SaveSetup`, `Login`, `SaveLogin`, `LetIn` | `setup`, `login`, the strategy of the portal's JWT |
| `Revoke`, `RemoveAccount`, `RemoveClient` | `revokeAccess`, and the removal of a customer |
| `AgentSends`, `ClientReplies`, `Notify`, `ClientMarks`, `OpenChat`, `MarkMessages` | messages and `read_at` |
| `WriteFile`, `InsertFile`, `ListFiles`, `MarkFiles` | `uploadFile`, `getFilesForAgent` |

### `StaffInvites`

`invite` are the rows; an invitation is known by its number.  `mailed` are those
whose link reached somebody, `staff` the user with each address, named by the
invitation that made it, `removed` how many invitations there were when someone
was last removed from a firm.
Every user is made active, and nothing in the code clears `users.is_active`, so the
tests of it always pass and are left out.

| Actions | Code |
|---|---|
| `InviteStaff`, `RevokePending`, `SaveInvite`, `MailInvite`, `MailFails`, `DropInvite` | `inviteStaff` |
| `AcceptInvite`, `CheckEmail`, `CreateStaff`, `SaveAccepted` | `acceptInvite` |
| `CancelInvite`, `SaveRevoked` | `cancelInvite` |
| `LoadStaff`, `SaveStaff`, `DeleteStaff` | `updatePermissions`, `removeStaff` |

### `Registration`

`tenant` are the firms, each with the domain its trial was started for; `lock`
is `trial_email_domains`; `cleared` are the domains whose lock support removed.

| Actions | Code |
|---|---|
| `Register`, `CheckDomain`, `SaveTenant`, `SaveLock`, `SaveTrial`, `CreateUser` | `register` and what it calls of billing, tenants, users |
| `ClearDomain`, `RemoveLock`, `PurgeFirm`, `Purge` | support: clear a domain, purge a firm (one transaction) |
| `Join`, `DeleteAccount` | staff that joins a firm; an account deleted softly |

### `AccountDeletion`

The owner's `wish` is what they were last answered; `notes`, `portal`, `disk`
and `firm` are the data that must go, told apart by how the code finds them.

| Actions | Code |
|---|---|
| `RequestDeletion`, `CheckPending`, `SaveRequest`, `CancelDeletion`, `SaveCancelled` | asking and cancelling |
| `RunJob`, `LoadClients`, `Wipe`, `WipeFails`, `RemoveFiles` | `processPendingDeletions`, `executeAccountDeletion` |
| `ClearData` | `UsersService.clearData` |
| `AddClient`, `AddContent`, `RemoveCustomer`, `DaysPass` | the firm's other requests; time |

### `ChaseRun`

Days are counted from 6 April.  `ChaseQuarter` is `currentChaseQuarter`, the
calendar's choice of a quarter; `run` is the scheduler's place in the firm's
pages; `logs` the chase logs.  The scheduler has no browser behind it, so it
cannot ask HMRC, and the calendar decides.  A page past the last is read as the
last (`SafePage`); clients that leave the firm are not modelled, so no list
shrinks under a run.  `ChaseLogsService.create` checks nothing, so agents chase
any client for any business; the bound (`ChasedByHand`) keeps them to quarters that
the calendar names or that ended within the overdue window, and to one chase per
key as long as its log is kept.

| Actions | Code |
|---|---|
| `StartRun`, `ReadClients`, `ReadLogs`, `ReadTemplates`, `Seed`, `ReadSeeded`, `ChaseRow`, `SkipRow` | `runDailyChase`, `processTenant` |
| `Deliver`, `LoseMail` | dispatch, which the request that logs a chase does not wait for |
| `Chase`, `ListTemplates`, `SeedListed`, `CreateTemplate`, `DeleteTemplate`, `Authorise` | users of the firm |
| `Tick`, `Stop` | a new day; a restart in the middle of a run |

### `HmrcCalls`

A request is the list of its steps, each a check, a read or a write; `Steps`
gives the list of every operation, translated from its function.  `held` is what
HMRC holds; `ans` the latest answer of a slot, with what HMRC held when the last
read was answered.  A busy answer (429, 503) is retried up to `MaxRetries`.
`unread` and `unsummed` are the businesses whose figures, and whose summary, were
lost to calls that failed without failing the request.  `SourcesOf` gives what an
answer calls its data (`hmrc`, `empty`, the sandbox's `test`): in the sandbox a
property with nothing but zeros is answered with test figures, too, when HMRC
gives no date of submission.  `Huge` is the amount that HMRC's sandbox puts for
none; it may be filed like any other, and is shown as 0.

| Actions | Code |
|---|---|
| `Start`, `PassCheck`, `Validate` | the gate, the token, the scope, the input |
| `ReadAnswered`, `ReadFails`, `WriteAnswered`, `WriteFails`, `HmrcBusy` | one call; what its caller makes of a failure is in `Forgives` and `FailedRead` |
| `AskSummaries`, `SummaryAnswered`, `SummaryFails` | `getIncomeSummary`, which asks for all businesses at once |
| `Authorise`, `Connect`, `FileElsewhere` | the client, the firm's connection, other software |

### `MCOffice`

The eight modules above share no table in what is modelled of them, so nothing
is gained by a product of their states.  `MCOffice` is their sum: `scene`, chosen
once, names the service whose steps are taken, and the others stay as they
begin.  One run then asks all of them the same question: what survives two
requests at once and failures, or what holds one request at a time.  `Requests`
and `Faults` are common to all; `HmrcFails` is `Faults` of `HmrcCalls`, which has
failures in both runs.

## 3. The runs

Bounds are constants of the modules or guards marked `Bound:`.

| Run | Instance | Shows |
|---|---|---|
| `client_concurrent` | 2 requests, 1 invitation, 1 quarter | whatever stale copy is written back, the row claims only what happened (`StagesEarned`), the history climbs (`AuditClimbs`), no MTD call precedes a confirmation (`CallsConfirmed`) |
| `client_serial` | 1 request, 2 invitations, 2 quarters, failures | the pipeline implements the ladder, whatever fails (`ClimbsLadder`) |
| `client_faultless` | 1 request, 2 invitations, fairness | between requests row, history and HMRC agree, and an acceptance was announced once (`HistoryComplete`, `InvitationTracked`); an acceptance reaches the row and an authorised client leaves the first stage (`AcceptanceArrives`, `AuthorisedLeavesPending`) |
| `auth_concurrent` | 2 requests, 3 tokens, 2 logins | the MFA flag is earned (`MfaEarned`); an ended session stays ended (`EndedStaysEnded`) |
| `auth_serial` | 1 request, 3 tokens, 2 links, 2 seconds, failures | a token has one successor (`RotatedOnce`); one link works at a time, once, and the last password set is in force (`ResetTakes`); a forced logout rejects what is older (`ForcedOut`); if no request stopped half-way, a deactivated firm has no live token (`InactiveFirmSilent`) and a reset ends all sessions but those of an open challenge (`ReloginButForChallenges`) |
| `billing_concurrent` | 2 requests, 2 sessions, 2 customers, 2 changes, failures, events again and out of order | the row claims no payment, end or mail that did not happen (`StatusEarned`); the stored customer owns the stored subscription (`PairMatches`) |
| `billing_serial` | 1 request, 2 sessions, 3 changes, fairness | once its events are applied the row agrees with Stripe (`FollowsStripe`); each trial mail is sent once (`ToldOnce`); a trial that is over ends, or the firm has no owner (`TrialRunsOut`); a subscriber is let in (`SubscriberLetIn`) |
| `office_concurrent` | 2 requests in each of the eight services, failures and stops | a connection marked expired is dead (`ExpiredIsDead`); a spent invitation stays spent (`SpentStaysSpent`); a domain has one trial (`OneTrialADomain`); a file marked viewed was listed (`ViewedWasListed`); all types (`AllTypesOK`) |
| `office_serial` | 1 request, failures of HMRC's interfaces only, fairness | who is removed stays out (`RevokedStaysOut`, `RemovedStaysOut`); no used refresh token is kept (`NewestKept`) and a due one is refreshed (`DueIsRefreshed`); a mail goes out once (`MailedOnce`); an account is deleted as asked, and is (`DeletedAsAsked`, `DeletionCarriedOut`); a domain's lock has a firm (`LockHasFirm`); chases keep their distance and arrive (`ChaseSpaced`, `ChaseArrives`); answers on figures are what HMRC holds, but for what `AnswersTrue` excepts (below) |

Why these bounds are enough: a race needs two requests, a stale copy and the
write that outdates it; a third adds a second stale copy, and the proofs cover
any number for the properties that must hold under concurrency.  Two
invitations are what a resend needs, two quarters a rollover.  Three tokens make
a login, its rotation and one more; two links, a link that replaces another; two
seconds, a token of the second before the stamp and one of the same.  Two
sessions and two customers are what overlapping checkouts make; three changes
are a payment, an end and a second subscription, or a payment, a failure and
its repair.  The owner's account is deleted in `billing_serial` alone
(`OwnersLeave`): without an owner the daily job does nothing for the firm, so its
leaving adds nothing to the safety properties of `billing_concurrent`.

In `office_concurrent`: two answers of a provider are a grant and the refresh
that a race is about; two invitations to one address, two setup links, two
registrations of one company's domain and of a public one, two messages and
files, two deletions are what a race of each service needs.  Pages hold one of
two clients, so a run has two; days 90 and 91 are the end of a quarter and the
first day the scheduler acts on.  HMRC is its sandbox, with an amount of 0.  A
busy HMRC is retried once, and three operations stand for the three shapes of a
call: a read, a write with its read, and calls at once.

In `office_serial`: a third link, invitation and firm come after a removal or a
purge; two people share a domain; days 90 to 97 hold the first chase and the day
its cooldown of six days is over; all 28 operations run, retried once and with two
writes, over a figure of nothing, of one, and the sandbox's placeholder (`Huge`), which
is shown as 0.

Deadlock is checked but in the runs of the eight services, which come to a stop
when their bounds are used up: the last day, answer, link or firm.

The properties that only hold one request at a time, or without failures, are
checked there, and the next list shows what breaks them.  Section 4 proves them
under the same two hypotheses, or without the second where failures do no harm.

### Where the code departs from its comments

Three runs find a counterexample; `PROJECT.json` quotes the lines.

| Run | The text | What happens |
|---|---|---|
| `client_overlap_downgrade` | "System never downgrades" | two overlapping transitions: the later save writes the lower stage |
| `chase_overdue` | "Overdue (daysOverdue >= 1): send on day 1" | days 216 and 217: of two overdue quarters the calendar names the older, for all clients; the newer is not chased |
| `deletion_leftovers` | "permanently delete all your clients, notes, chase history, portal messages, and uploaded files" | a portal customer removed before is not among the ids that rows and files are deleted by |

Other departures met while modelling, with the definition that shows each:

| Where | The text | What happens |
|---|---|---|
| `clients.service.ts:853` | "throws if relationship is not active" | `authorised_at` outlives the relationship (`GateFollowsHmrc` of `ClientRow`) |
| `dashboard/pipeline-status.ts:69` | "quarter-aware" | last quarter's `submitted` is shown in this one (`SubmittedIsCurrent`) |
| `auth.service.ts:490` | "Revoke used token immediately (rotation)" | two overlapping refreshes both succeed (`RotatedOnce` with two requests) |
| `billing-stripe.service.ts:63` | "This firm already has an active subscription." | two checkouts opened before either is paid are both paid (`OneSubscription` of `TenantBilling`) |
| `admin.service.ts:706` | "Reject register when a corporate domain already used a trial." | purging a firm by a staff address of another domain frees that domain (`cleared` of `Registration`) |
| `chase-logs.service.ts:240` | "or a manual chase was sent recently" | the scheduler looks for logs without a business; a chase by hand has one (`ChaseSpaced` is about one key) |
| `clients.service.ts:3077` | "GET that returns null on 404 / empty" | null on any failure: the firm reads that HMRC holds nothing of a self-employment (`EmptyIsEmpty` of `HmrcCalls` excepts a read that was lost, `unread`) |
| `clients.service.ts:2105` | "silently skip any that return 404/no-data" | a summary that failed for any reason is left out of the totals (`TotalsComplete` excepts that business, and no other) |
| `portal.service.ts:176` | "one-time setup token" | the token is set to undefined, which the save skips: the link works until it expires (`SetUp`) |
| `clients.service.ts:1194` | "Sandbox: same STATEFUL store as PUT/DELETE" | the option is commented out |

Two more are plain readings of the code, without a text against them: the
calendar of the chases turns on 1 April (`TaxYearStart`), five days before the
tax year; and the portal answers "no submissions yet" when HMRC fails
(`PortalSubmissions` is a read that forgives).

Most of the other properties of `client_faultless`, `auth_serial`, `billing_serial` and
`office_serial` fail in the same way when they are given a second request: two
overlapping polls announce an acceptance twice (`InvitationTracked`); two
requests for a reset link leave two that work, two resets use one link, and a
name saved during a reset restores the old password (`ResetTakes`); a
deactivation during a login revokes what it finds and the login's token comes
after (`InactiveFirmSilent`), and so does a stop between the deactivation and
the revocation; an edit of firm details that overlaps a webhook undoes it
(`FollowsStripe`), and two overlapping daily jobs, or a stale save between two
of them, repeat a mail (`ToldOnce`); a portal login, or a change of a staff
member's permissions, that loaded the row before it was removed inserts it again
(`RevokedStaysOut`, `RemovedStaysOut`); two refreshes at once use one token of
HMRC's, and the one refused saves its stale row last (`NewestKept`); two
requests to delete leave two rows, and a cancellation takes one
(`DeletedAsAsked`); a registration that fails after it took the lock leaves the
domain locked (`LockHasFirm`); a client authorised during a run shifts the
pages, and is chased twice (`ChaseSpaced`).

`ReloginButForChallenges` excepts the sessions of an MFA challenge, because one
opened with the old password can be answered after the reset.  `ForcedOut`
excepts the JWTs signed in the second of the forced logout because the code
accepts those.  `ExpiredIsDead` excepts mailboxes with a date of Outlook's: the
code takes `ext_expires_in` for the end of the refresh token, which it is not,
so it may mark a mailbox expired that Microsoft would still honour.
`AnswersTrue` says, of one request at a time and whatever fails: a property is
answered as empty only when HMRC holds nothing of it; a self-employment also when
its read was lost, because `fetchHmrcOptionalJson` answers any failure like no data;
figures given as HMRC's are those held, `Huge` shown as 0; after a put that is
answered without an error HMRC holds what was put, even when the answer says
"empty"; a coding-out write is answered with what was written, but for the sandbox's
debts, which are read from another store; in the totals every business is as held
unless its own call failed, and the total is the sum of them when no summary
failed, or that of the periods when every one did.  It says nothing of the answers that are
only passed on (obligations, accounts, penalties).
`LockHasFirm` excepts domains where an account was deleted: its address is free
to `emailExists` and taken to the table.

### Fairness

`client_faultless` and `billing_serial` assume fairness of the requests that
have started, `WF_vars(Continues(p))`: a request is a chain of awaits on the
database, HMRC, Stripe or mail, none of which waits for another request, and
those runs have no failures.  That lists are opened again and again is not
something the code does, so it is not in the specification: `AcceptanceArrives`
assumes it, as its hypothesis.  `billing_serial` has strong fairness of the
daily job, which `@Cron` starts every day, and of the webhooks, which Stripe
sends until they are answered; strong, because other requests come between.
`office_serial` has the same of its services: weak fairness of a request's, the
job's or the daily run's next step (`GoesOn`), of the seeding of templates and
of each mail under way; strong fairness of the two jobs that `@Cron` starts
(`Scheduled`: every half hour the refresh of tokens, every hour the deletions).
The clock of the chases need not tick, nor need any user act.  As every scene
has one service, fairness of the disjunction is fairness of that service; with
one request, of that request.

## 4. The proofs

Every invariant and every action property of the passing runs is proved, for
every value of the constants; the liveness properties are not (see the end of
this section).  The proofs rest on the `ASSUME`s of the modules (the NULL values
are not values, bounds are naturals) and on the hypotheses the theorems name.
`StaffAssumption`, `RegistrationAssumption`, `ChatAssumption`,
`PortalAssumption`, `CallsAssumption` and `ChaseAssumption` are definitions of
the modules of proofs: there is an address, a domain, a portal client or an
amount, bounds are naturals, the operations are those `HmrcCalls` has, a page
has a size.  `ChaseAssumption` also says that the days are of two tax years,
because `ChaseRun` numbers the quarters of two.

### Whatever overlaps and fails

For any number of requests, invitations, tokens, links, logins, quarters,
seconds, sessions, customers, events, answers, firms, domains, messages, files,
clients and pages, with or without failures:

| Theorem | Says |
|---|---|
| `ClientRow_proofs!TypeCorrect`, `EarnedCorrect`, `AuditCorrect`, `CallsCorrect` | `TypeOK`, `StagesEarned`, `AuditClimbs`, `CallsConfirmed` are invariants |
| `AuthSessions_proofs!TypeCorrect`, `MfaCorrect` | `TypeOK`, `MfaEarned` are invariants |
| `AuthSessions_proofs!EndedCorrect` | no step revives an ended session |
| `TenantBilling_proofs!TypeCorrect`, `EarnedCorrect`, `PairCorrect` | `TypeOK`, `StatusEarned`, `PairMatches` are invariants |
| `OAuthConnection_proofs!TypeCorrect`, `ExpiredCorrect` | `TypeOK`, `ExpiredIsDead` are invariants |
| `StaffInvites_proofs!TypeCorrect`, `SpentCorrect` | `TypeOK` is an invariant, no step makes a spent invitation work |
| `Registration_proofs!TypeCorrect`, `OneTrialCorrect` | `TypeOK`, `OneTrialADomain` are invariants |
| `PortalChat_proofs!TypeCorrect`, `ViewedCorrect` | `TypeOK`, `ViewedWasListed` are invariants |
| `MCOffice_proofs!TypesCorrect` | `AllTypesOK` is an invariant, the types of all eight services |
| `MCOffice_proofs!ViewedCorrect`, `SpentCorrect`, `TrialCorrect` | the last three facts, of the office |

*The client row.*  `StagesEarned` is not inductive: a request may hold a copy
that claims anything and write it back.  `IInv` says of every copy in flight
what it says of the row (`GoodRow`), and of every transition in flight what
entitles it to its target (`Entitled`).  It is kept because what a copy claims
rests on facts that are never undone (`Grows`): HMRC did confirm, the quarter
was fulfilled, the agent did ask.  So a stale copy may be out of date and never
false.  `AuditClimbs` follows from the guard `Allowed`, which is judged on the
copy the entry is written from.

*Sessions.*  `MfaEarned` needs that a request on its way to issue a token
carries the flag only for a proved login (`GoodRequest`); rotation hands it
from token to request and back.  `EndedStaysEnded` is an action property: by
`NoCarrier` and `NoRevival`, every step takes a login from a live token, a
request or a challenge, and a new login has a new number.

*Billing.*  As for the client row, `IInv` says of every copy in flight what it
says of the row (`GoodRow`), and besides that an event is true of the
subscription it reports (`GoodEvent`): it exists, and if the event says it
ended, it has.  `Grows` says that subscriptions, their customers, their end, the
end of the trial and the mails are not undone.  `PairMatches` needs that the
copy a checkout is about to complete with a new customer names no subscription:
a row with a subscription has its customer, and none is 0.

*Connections.*  A stale row may be written over a newer one, so `IInv` says of
every copy in flight what it says of the row (`GoodRow`): if it is marked
expired, its refresh token is dead (`Dead`: used, withdrawn, or past its date);
and with HMRC, its refresh date is of the answer its refresh token is from,
which is what entitles `getStatus` to judge by the date.  It is kept because
dead tokens stay dead and dates stay passed (`Grows`).

*Invitations.*  An invitation is saved whole by several requests, but only the
request that makes it saves it as working, and before it is mailed; all others
save copies with `accepted` or `revoked` set.  `IInv` says so of the requests in
flight, and that no two of them make the same invitation (`MakersDiffer`).

*Registrations.*  A trial, stored or about to be, comes with the domain's lock
unless support removed it (`Granted`); of two registrations that found the
domain free one fails on the lock's key.  The step that needs care is the purge,
which frees the number of a firm: a firm in the making has no user yet
(`GoodRequest`), and a purge finds a firm by its user, so no registration in
flight loses its firm.

*Files.*  A request that marks files has only files it listed (`GoodRequest`),
and `WriteFile` precedes `InsertFile`.

*The office.*  Every step of the office is a step of one service and leaves the
variables of the others alone, so a behaviour of the office is one of each
service (`EachService`) and what is proved of a service holds in it.  The types
of the chat, the invitations and the registrations are proved in their own
modules and carried over; those of the portal, the deletion, the calls and the
chase are proved here, and need what each request carries at each of its stages
(`PortalGood`, `CallsGood`, `ChaseRowsLeft`).  For the chase that includes that
the calendar names one of the quarters on every day (`QuarterNamed`), and that
the rows of a page exist: of *n* clients, one has each rank from 0 to *n* - 1
(`RankGrows`, `RankBound`, `RankFound`).

### One request at a time

With two requests these are false (section 3 says what breaks each), so their
theorems have the hypothesis that there is one, `Requests = {p}`, which is what
the serial runs have.  "No failure" is the hypothesis `~Faults`; where it is
missing the request may fail or stop at any await.  The world (HMRC, Stripe,
clients, time) moves between any two of its steps.

| Theorem | Says | Besides one request |
|---|---|---|
| `ClientRow_proofs!LadderCorrect` | every step of the row is a step of the ladder or leaves the stage alone (`ClimbsLadder`) | |
| `ClientRow_proofs!HistoryCorrect`, `TrackingCorrect` | `HistoryComplete`, `InvitationTracked` | no failure |
| `AuthSessions_proofs!RotationCorrect`, `ResetCorrect`, `ForcedOutCorrect`, `SilenceCorrect`, `ReloginCorrect` | `RotatedOnce`, `ResetTakes`, `ForcedOut`, `InactiveFirmSilent`, `ReloginButForChallenges` | |
| `TenantBilling_proofs!FollowsCorrect`, `ToldCorrect` | `FollowsStripe`, `ToldOnce` | no failure, so events come in order and once |
| `OAuthConnection_proofs!NewestCorrect` | `NewestKept` | no failure |
| `OAuthConnection_proofs!MailedCorrect` | `MailedOnce` | any finite number of requests; no failure |
| `StaffInvites_proofs!RemovedCorrect` | `RemovedStaysOut` | no failure |
| `Registration_proofs!LockCorrect` | `LockHasFirm` | no failure |
| `MCOffice_proofs!RemovedCorrect`, `LockCorrect` | the last two, of the office | no failure |
| `MCOffice_proofs!DeletionCorrect` | `DeletedAsAsked` | |
| `MCOffice_proofs!RevokedCorrect` | `RevokedStaysOut` | |
| `MCOffice_proofs!AnswersCorrect` | `AnswersTrue`, with its exceptions | |
| `MCOffice_proofs!SpacedCorrect` | `ChaseSpaced` | the scheduler is one; users act between its runs, and none is cut short (`~Faults`) |

Each rests on a second invariant, mostly called `Serial`, added to the one of
the types: what the request has read, and will act on, is still so, but for what it
has itself changed.  One request alone could break that, since it awaits many
times, writes several rows, and the world moves meanwhile; the invariant has to
say which columns may differ at which stage.

*The client row.*  `Fresh` says which columns of the copy still agree with the
row at each stage.  A transition's guard is then judged on the stage it will
overwrite, which is all the refinement of the ladder needs, failures or not.
The history needs `Accounted`: the highest entry is the row's stage, or, between
the two saves of a transition, the stage before it; there a failure leaves a gap,
hence `~Faults`.  Tracking needs `Named`: every invitation HMRC has open is named
by the row or by the copy about to be saved, and a stored end is an end at HMRC,
so that a resend comes only when none is open.

*Sessions.*  A token is dead before its successor is issued (`RotatesOnce`), a
link spent before the password is set (`LinksWork`), the floor of a forced
logout is not undone and lies in the past (`Dated`); tokens are issued only while
the firm is active (`Silenced`), from the password in force or a challenge
(`Renewed`).  In that order a stop between two steps loses something but lets
nobody in; `InactiveFirmSilent` and `ReloginButForChallenges` themselves except
requests that stopped half-way (`crashed`).

*Billing.*  Changes at Stripe are numbered and events truthful of their number
(`Numbered`, `Truthful`); the event at work is among the earliest due
(`InOrder`), so after the newest was applied the row says what it says, and an
older one cannot follow.  Edits and jobs save the columns of the subscription as
they are (`Fresh`), and the mark of a mail is on the row or in the copy about to
be saved (`Marked`).

*Connections.*  `MailedOnce` compares two numbers: every mail asked for is
delivered, or is exactly one request's (`MailsInv`), so it holds for any finite
number of requests.  A used token is stored only while the request that has its
successor is about to save it (`TokensInv`).

*Staff.*  Every invitation that works is newer than the last removal of whom it
invites, and a firm has one for an address at most (`PendingFresh`,
`OnePending`): inviting revokes the others and staff is not invited.
*Registrations.*  A lock belongs to a firm with a user, or to the registration
under way (`LockKept`), which cannot fail on the address it found free
(`FreeAddress`).  *Deletion.*  At most one request for deletion is pending, and
only while the owner wants it (`OneWish`), so a run of the job has that one to
carry out, which is still pending when its turn comes.  *Portal.*  An account
is newer than the last one taken from its client, as is every link in the making
(`PortalNewer`); the copy to be saved is of the account that is there.

*Calls.*  The invariant relates what is left of an operation's list of steps to
what was done: a write is still on the list, or HMRC holds its value, and the
list ends with the read whose data is answered (`WriteFound`, `ReadFound`); a
business's amounts are read, or its read is still to come, or a call about that
business failed (`TotalsFound`).  It is proved for each of the 28 operations from the shape of
its list.

*Chase.*  The rows the scheduler has gathered are of different clients
(`RowsTrue`, with `PagesRead` and `PagesApart`: a client has one rank and so one
page), and those whose cooldown is over have no chase of their key in the logs,
which stays true of the rows left when one is chased (`OthersWait`).  Clients
authorised or chased by hand during a run break it, which is why users wait.
The office has no businesses (`Businesses <- {}`): the scheduler's own key has none,
and a chase by hand for a business has another key.

### Not proved, only model-checked

The liveness properties (`AcceptanceArrives`, `AuthorisedLeavesPending`,
`TrialRunsOut`, `SubscriberLetIn`, `DueIsRefreshed`, `DeletionCarriedOut`,
`ChaseArrives`) rest on fairness, and so on ENABLED, which is out of the
prover's reach.  The three properties that the code violates are counterexamples
of TLC's.  Of the helpers, the proofs use that the calendar names a quarter, that
ranks find every client of a page, and the order of the stages; what else they
compute (which quarter is named, the totals shown) TLC checks where a property
depends on it.

## 5. Left out, and why

Mail bodies, templates' wording, DTO validation, encryption of columns,
fraud-prevention headers, prices, formatting and the lists made for display are
data no property is about.  Health, enquiries, configuration, migrations and
guards hold no state that lasts beyond a request.  The sandbox calls that make a
test business, and the reading of a file to import, change nothing that is
modelled; the rows an import creates are created as any others.  Email
verification, restoring a session from a cookie's JWT, the agent's preview of
the portal, notification preferences, the data export and the lists of audit
and chase logs are single reads or writes without a second step.  The token
clean-up deletes rows that every guard already passes over.  The chase list an
agent sees is made of HMRC's obligations; `ChaseRun` keeps of it a business and a
quarter.  Tenants' and clients' names, addresses and NINOs are left out.  See
`PROJECT.json`.

## 6. Plan

What is worth adding, in this order:

1. The abstract form of what was proved one request at a time: a credential that
   is used once, which reset links, refresh tokens and invitations implement; the
   invariants of section 4 are those a refinement mapping needs.
2. The walk of the pages: without authorisations meanwhile, a run that ends has
   read every client.  The ranks of `MCOffice_proofs` are its lemmas.
3. Pure algorithms against reference definitions: pricing, the windows of the
   billing mails, retry back-off, tax years from quarters.
4. The audit log of the administrators, and import with its report.
