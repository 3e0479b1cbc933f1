# Campus Skill Exchange: a verification of its core logic

TLA+ modules that model the parts of the repository where requests overlap, rows
are read and written in separate steps, and other systems (Razorpay, Google, the
browser) answer late, twice or never; TLC runs that check them on small
instances; and theorems about them that TLAPS checks for every instance.

## 1. The system

A TypeScript monorepo: `apps/api` (NestJS over PostgreSQL through Prisma),
`apps/web` (Next.js), `packages/contracts` (schemas and event types), and
`database` (Prisma schema and SQL migrations).  The API has no background worker
of its own: every state change happens in an HTTP request (or a webhook of
Razorpay), and several requests run at the same time, giving way to each other
at every `await`.  The only locks are those of the database: unique indexes,
CHECK constraints and `$transaction`, at PostgreSQL's READ COMMITTED.

| Component | State | Operations | Interacts with |
| --- | --- | --- | --- |
| `modules/payments` | `payments`, `transactions` (the ledger) | createOrder, verify, webhook (captured, failed, refund.processed), requestRefund | Razorpay, sessions (price, status), growth (verified certification), outbox |
| `modules/sessions` | `learning_sessions`, `session_reminders` | create, update (status, schedule, terms, Google event) | requests, payments, Google, outbox |
| `modules/requests` | `session_requests` | create, accept, decline, cancel | sessions (an accepted request is the precondition of a session) |
| `modules/integrations/google` | `google_connections` | start and complete authorization, disconnect, calendar events | sessions |
| `modules/auth` | `users`, `sessions` | register, login, logout, guard | every module |
| `modules/users` | `user_profiles` | read, update profile | discovery |
| `modules/growth` | availability, certifications, projects, learning goals | create, update, delete; verification | payments (eligibility), badges |
| `modules/ratings`, `assessments`, `badges`, `reputation` | `ratings`, `assessments`, `badges` | rate, assess, award; derived scores | sessions, notifications |
| `modules/notifications` | `notifications` | project from events, mark read | outbox |
| `platform/events` | `outbox_events` | enqueue in the caller's transaction | every module that writes |
| `modules/reports` | `reports` | file, moderate | auth (roles) |
| `modules/discovery`, `matching`, `analytics`, `ai`, `health` | none of their own | queries and pure functions | users, growth |
| `apps/web` | browser state: checkout window, auth state, polling | pages and forms | the API, Razorpay Checkout |

### What is hard, and what would make each component correct

* **payments** - concurrency (stale reads before unconditional updates), failure
  (a provider call between two writes, a crash at any await), ordering (webhooks
  late, repeated, overtaken).  Correct means: a receipt exactly for what was
  captured, once; refunds counted once, bounded, and recorded before they are
  asked for; a price that does not change under a payer; a status that agrees
  with the ledger.
* **sessions, requests, google, reminders** - a check and a write with awaits
  between them (two participants updating one session), and an external event
  made, moved or deleted before the row that refers to it.  Correct means: one
  session per accepted request, transitions only along the state machine, no
  calendar event without a session, reminders that follow the schedule.
* **auth** - check-then-create under a unique index, tokens used while they are
  revoked.  Correct means: one account per email, no request served on a revoked
  or expired session.
* **ratings, assessments, badges** - two feedback requests that each award the
  badge the other one makes due.  Correct means: one rating per side and
  session, one badge per kind, counts that agree with the rows.
* **notifications, outbox** - events inside the writer's transaction, projected
  at most once per recipient.  Correct means: an event exactly if its write
  committed, no notification twice.
* **reports, growth, users** - two moderators of one report, updates of different
  columns of one row, a deletion between a lookup and a write, answers that are
  sent before the write.  Correct means: what goes together stays together
  (period, resolution, event), and no update takes back another one's column.
* **matching** - two queries while people change.  Correct means: everyone of whom
  one can teach the other is listed, best first, the same from both sides, and
  the pages hold everyone once.
* **web pages** - answers that come in any order, are lost, or come for something
  that has changed.  Correct means: a page that is at rest, after requests that did
  not overlap, shows what is stored or says that it does not, and none waits for
  an answer that cannot come.
* **web checkout** - a window that reports failure and may still succeed later.
  Correct means: what the panel says of the money is so.

The list of hazards, each at its line and with the properties that cover it, is
in `PROJECT.json`.

## 2. Payments

`Razorpay.tla` is the environment: orders, attempts to pay and refunds as the
provider keeps them, and the payer's Checkout window.  Webhooks are not a
variable: whatever has happened at Razorpay can be reported at any later time,
any number of times and in any order, or never.

`Payments.tla` is the module.  State: `session` (status and price of the
`learning_sessions` row), `payment` (the row of each payer; the unique index
makes it one per payer), `ledger` (the `transactions` rows of each payment, in
order), `published` (the outbox ids that are Razorpay event ids) and `handler`
(what each running request has read and does next).  Every method of
`PrismaPaymentsRepository` is `read; decide; update by id`, so each is a reading
and a writing action; the statements of one `$transaction` are one action that
either commits whole or, when a constraint refuses it, changes nothing.

| Code | Actions |
| --- | --- |
| `createOrderInternal` | StartCreateOrder, CreatePayment, CallCreateOrder, AttachRead, AttachWrite, FailRead, FailWrite |
| `verifyInternal` | StartVerify, AuthorizeWrite |
| `handleWebhookInternal` | DeliverCaptured, CaptureWrite; DeliverFailed, FailWrite; DeliverRefund, CompleteWrite |
| `requestRefundInternal` | StartRefund, RefundRead, RefundWrite, CallRefund, CompleteRead, CompleteWrite |
| `sessions.service.ts` update | StartChangeTerms, TermsWrite, EndSession |
| a process that dies, a refused statement | Crash |
| payer and Razorpay | PayerPays, ProviderCaptures, ProviderRefunds |

Abstractions: one session; amounts are small numbers; signatures are modelled by
what they prove (a signature for an attempt exists once the provider has
authorized it); eligibility of the recipient and the terms version are guards
that only refuse a request and are left out; a Razorpay order is the order of
one payment.  `ProviderIdsStored` says whether `outbox_events.id` admits
Razorpay's event ids: as deployed it does not (a UUID column), and then no
webhook commits, so all runs but one set it to TRUE to see the rest of the code.

`PaymentPromise.tla` is the abstract specification: a payer agrees to one price,
it is received at most once, and at most that much is returned, afterwards.
`KeepsPromise` states that `Payments` implements it, with the price read off the
row, the receipt off the ledger and the returned total off the row.

### Runs

| Run | Instance | Shows |
| --- | --- | --- |
| PaymentsConcurrent | 2 handlers, 1 payer, 2 attempts, 2 refunds, amounts 1..2 | what holds however two requests interleave: the ledger, receipts, order amount, refund total, and the refinement |
| PaymentsSequential | 1 handler, 2 payers, 3 attempts, 2 refunds | what holds when requests do not overlap but crash, lose answers, and webhooks come late or twice |
| PaymentsLive | 1 handler, fairness | a captured payment leaves AUTHORIZED, if the outbox takes the event |
| PaymentsDeployedOutbox | 1 handler, fairness, `ProviderIdsStored = FALSE` | violated: as deployed it stays AUTHORIZED |
| PriceChangesUnderPayer | 2 handlers | violated: the price of a session changes after a payer began to pay |

The six properties of `PaymentsSequential` are claimed of one handler only; two
handlers break each of them.  A verification that read CREATED writes AUTHORIZED
over CAPTURED (`ReceiptMeansSettled`) or over REFUND_PENDING
(`OnePendingRefund`); Razorpay's answer to a refund and its webhook both complete
the one pending row and count it twice (`LedgerReconciles`,
`CompletedRowsFixed`); two refunds requested at once complete each other's rows
(`RefundedInFull`); and a change of terms passes its check before the payment
exists (`TermsFrozen`, the finding above).  Where no document promises otherwise
this is recorded here and not as a finding.  Two things more are admitted and not
caught.  A late refund webhook completes the latest pending row, which may be of
another refund: the code cannot tell, and `CompletedRowsFixed` keeps only completed
rows from it.  And were the outbox to take Razorpay's ids, a failed attempt's
webhook would make FAILED final (`payment-status.ts:43`, "No money was taken") while
the payer's second attempt on the same order is captured; as deployed the outbox
refuses that webhook too, and its update is rolled back.

Why the bounds are enough: every race in this code is between the read and the
write of one request and the write of another, so two handlers show it; a second
attempt is needed for retry and duplicate receipts, a second refund for refunds
that overtake each other, and two amounts for partial refunds and reports of a
wrong amount.  There are no counters to cap: attempts and refunds are finite
sets, and a handler takes at most seven steps.

Deadlock is not checked: a session may be over with nothing left to do.

Fairness (`PaymentsLive` only): a request that runs goes on (`WF` of its steps);
a crash does not hit the capture every time (`SF` of CaptureWrite); Razorpay
repeats a webhook until it is answered with 2xx (`SF` of its delivery).

### Proofs

`PaymentsInvariant.tla` states the inductive invariant `PaymentsInv` and
`PaymentsProofs.tla` proves it, for any sets of payers, attempts, refunds,
amounts and handlers, from two assumptions: amounts are positive integers, and
`None` is not an id.  None of the properties is inductive by itself, because a
handler writes what it read long ago.  The invariant therefore says, per
handler and program point, what is *still* true of a stale read (`HandlerOK`),
and the action `Keeps` says what no step takes back: a payment keeps its price,
a ledger row keeps its type, amount and completion, a captured attempt stays
captured.  Lemma `WaitingHandler` is the heart of the argument: a handler that
waits relies on nothing but `Keeps`.  Each action then has a lemma that it
re-establishes the rows' half of the invariant and satisfies `Keeps`; the second
receipt is excluded by `FirstReceipt` (an order is paid by one attempt, so a
second delivery carries the first one's event id, which the unique index
refuses).  `Keeps` includes one step of the promise, so the refinement
`Implements` follows from the same lemmas.

The second half of the module proves what holds of requests that do not
overlap.  Its theorems assume `OneAtATime`, that there is at most one handler,
which is what the run `PaymentsSequential` has and what the properties are
claimed of; payers, attempts, refunds and amounts are any, and crashes, lost
answers and late or repeated webhooks remain.  `SequentialInv` adds three parts
to `PaymentsInv`.  `Fresh` is the counterpart of `HandlerOK`: a request that is
alone finds, when it writes, what it read.  `RowFresh` has the properties
themselves and one that ties them to Razorpay: no attempt has returned more than
the completed refunds, and the pending one if there is one, are on record for.
`RefundsFresh` says that a refund at Razorpay is part of what its attempt
returned.  The last two are what `RefundedInFull` needs: a webhook that reports a
refund of the whole amount sets REFUNDED without looking at the total, and only
because Razorpay cannot have returned the whole amount on top of earlier refunds
are those known to be none, or the same.

`PaymentsAccountsProofs.tla` proves the properties that speak of sums over the
ledger, for ledgers of any length.  `Total` is a recursive function, and the
library's induction theorems cannot be instantiated here, so lemma `Least` (a
set of natural numbers with a member has a least one, from the well-foundedness
of `<`) takes their place: a sum that did not have the claimed property would
have a shortest prefix without it, and that prefix is refuted by one step of the
recursion (`Induct`, `TotalIsNat`, `TotalAdds`, `TotalBelow`, `TotalKept`).  From
these come `RefundsCounted`, for any number of overlapping requests, and
`LedgerReconciles`, under `OneAtATime`.  `RefundsWrittenAhead` holds of any
number of requests and is the harder one, because a row does not say which
refund at Razorpay it stands for, and answers and webhooks complete each other's
rows.  Its invariant `AccountsInv` (`WrittenAhead`) does not try to tell: there
are *some* rows which are enough for all that was returned, and besides these
every request that is about to call Razorpay owns a row, for the amount it asks
for.  A call moves its row from the one side to the other; a completion moves
none.

Model-checked only: liveness (`AuthorizedSettles`).

## 3. Requests, sessions, calendar, reminders

`Requests.tla` is the requests module: `request` (the `session_requests` rows),
`announced` (the statuses whose event is in the outbox) and `handler`.
It is on `Api` (section 5), checked in the run `Platform`.
`RequestLife.tla` is what the other modules may rely on: a request is sent once,
answered at most once, and for good; `KeepsLife` states that `Requests`
implements it.  `Sessions.tla` extends the promise, not the module: requests
change under it by any step `RequestLife` allows.

`Calendar.tla` is Google Calendar as an environment.  An event is in the primary
calendar of the user who made it; for the other participant a change or a
removal is answered "not found" (this is assumed of Google; the code treats
"not found" as removed).

`Sessions.tla` is the sessions module with its reminders.  A handler carries the
row as it read it (`old`), what is asked for (`new`) and what Google answered.

| Code | Actions |
| --- | --- |
| `requests.service.ts` create, update | StartCreateRequest, InsertRequest; StartUpdateRequest, UpdateRequestStatus |
| `sessions.service.ts` create | StartCreate, CreateEvent, Insert, UndoEvent |
| `sessions.service.ts` update | StartUpdate, DeleteEvent or MoveEvent, Write |
| `createReminders`, `rescheduleReminders`, cancelling in `update` | part of Insert and Write (one transaction) |

Abstractions: the three reminders of a session change together and are one row;
a schedule is a value (its start and end change together); place, timezone and
message are left out; the checks of payment terms only refuse a request here
(`Payments` models them).  So is the meeting URL: a participant may type any URL,
although `src/DATABASE.md:117` speaks of the one from Google.  A call to Google may always be refused; with
`Faults` it may also take effect and its answer be lost, the database may be
unavailable, and the process may die between two steps.

`SessionLife.tla` is the promise of the module: each request has at most one
session, which moves from SCHEDULED to an end that is final.

| Run | Instance | Shows |
| --- | --- | --- |
| Platform (its requests) | 3 requests, 2 users, 2 skills or none, 2 handlers | one active request per subject, one answer, announced as stored, whatever overlaps |
| SessionsConcurrent | 1 request, 2 ids, 1 event, 2 schedules, 2 handlers, `Faults` | one session per request, reminders that follow, the refinement (in which an end is final) and the inductive invariant |
| SessionsReliable | 1 request, 2 ids, 2 events, 2 schedules, 2 handlers, no `Faults` | the creation that loses takes its event back; a scheduled session keeps its event |

The bounds: a race needs two handlers; a duplicate two ids; a lost move two
schedules besides none.  With two moves at once the event may be left at the
time of the one and the row at the time of the other, since only the status is
compared on writing; the code promises nothing about it and no property claims
it.  With faults an event may be left behind, so `NoStrayEvent` and
`ScheduledEventIsLive` are claimed without them; and a cancellation deletes the
event first, so that, when its row write is refused because the other participant
was faster, the status that won stands with an event that is gone.  That is
admitted: `ScheduledEventIsLive` speaks of SCHEDULED sessions only.

Proofs: `RequestsProofs.tla` and `SessionsProofs.tla` prove the inductive
invariants, the safety properties named under `theorems` and both refinements
for any constants.  `RequestsInv` needs that a handler's new id is its own, and
that what it answers exists.  `SessionsInv` needs what a suspended handler may
still rely on: that its id is its own, or that the row it read exists still and
the change was allowed by what it read; `Write` then follows the state machine
because the status it compares is the one the transition was checked from.
Refinement to `SessionLife` goes through `OneSessionPerRequest`: the session of
a request is then the only row of it.

`NoStrayEvent` and `ScheduledEventIsLive` are proved from the assumption that
`Faults` is FALSE, which is what they are claimed of, for any number of
overlapping requests.  `EventsInv` adds to `SessionsInv`: an event is of one
session, in its row and in every handler (`MadeFor`), so that no request deletes
another session's event; a handler that creates has a live event until it stores
it or takes it back, since nobody else has its id; a handler that updates read
the row's event, unless the row was cancelled meanwhile, and a status no later
than the row's; and who deletes an event is about to cancel.  A cancellation
that is refused on writing then leaves no SCHEDULED session behind: the status
differs from the one that was read, and a session never becomes SCHEDULED again.

## 4. Ratings, assessments, badges, reputation

`Feedback.tla` models what is said of a user after a session and what is counted
from it.  State: `stage` (the statuses of the sessions, which change under it by
any step `SessionLife` allows), `row` (the rows of `ratings`, `assessments` and
`user_badges` by id), `announced` (the outbox events about them) and `handler`.

| Code | Actions |
| --- | --- |
| `ratings.service.ts` create | StartRating, LookRating, InsertRating |
| `assessments.service.ts` create | StartAssessment, LookAssessment, InsertAssessment |
| `prisma-badges.repository.ts` awardBadge | StartAward, InsertAward, RereadAward |
| `reputation` getSummary | StartSummary, ReadCount (one per query, in any order), AnswerSummary |
| another request on the session | SessionStep |
| a process that dies, a lost database | Crash |

Look and Insert are apart although they are one `$transaction`: at READ COMMITTED
the lookup of a duplicate sees nothing of what the other transaction inserts
before ours does, and only the unique index decides.  Insert and its event are
one action, since they commit together.

Abstractions: scores, comments and the check that a skill belongs to the session
only refuse a request or are shown; badge definitions are constant;
`awardBadge` is called by tests only so far, and is modelled as callable for any
user and badge.  The count of badges in a summary is bounded by nothing and left
out.

| Run | Instance | Shows |
| --- | --- | --- |
| FeedbackConcurrent | 2 sessions of 2 users and a third user, 2 badges, 2 ids, 2 handlers | one rating, assessment or badge per key, only of sessions that were held and between their parties, announced as stored; an award that loses finds the badge; no count of feedback exceeds the sessions held |

Two ids make one duplicate and two handlers one race; the second session shows
that keys do not mix sessions, the third user that an onlooker cannot rate.
A summary may still show more ratings than completed sessions, when the sessions
were counted first: its numbers are of different moments, and only "by the time
it is answered" holds.

Proofs (`FeedbackProofs.tla`, for any constants that satisfy
`FeedbackAssumption`): `FeedbackInv` adds to the properties what a suspended
handler relies on - that its id is its own, that what it says was earned, that
the badge it goes on to read is there.  As in the payments, `Keeps` says what no
step takes back (a session that was held stays so, rows stay), and the waiting
handler relies on nothing else.  `ReputationIsBacked` follows by an injection
from the feedback on a user into the sessions the user held: `OnePerKey` and the
two parties of a session make it injective, and the summary's part needs that
the number of sessions held only grows.

### The whole exchange

`Sessions` reads the table of requests, and `Feedback` that of sessions, while the
modules that own them write.  Each was specified and proved against what it
assumes of that table, any step of `RequestLife` and of `SessionLife`.
`Exchange.tla` puts the three together, as `app.module.ts` does, over one table
of requests and one of sessions, with the handlers of each module running at the
same time, and proves, for any constants that satisfy `ExchangeAssumption`:

* `RunsRequests`, `RunsSessions`, `RunsFeedback`: the whole, seen through the
  variables of one module, is a behaviour of that module's specification.  The
  assumptions are discharged by the refinements: a step of `Requests` is one that
  `Sessions` expects by `StepKeepsLife`, and the same with `Sessions` and
  `Feedback`, where the status of a request's session (`stage`) is read off the
  rows.  `EveryPartIsSafe` is what follows: all the invariants at once.
* `FeedbackAlwaysComesOfRequest`: a rating or an assessment is between the two
  users of a request that was accepted, and whose session was made and completed.
  No module can state it alone.  It needs `RequestsAreAsNamed`, that a request
  keeps its two users, and `StageIsOfRow`, that a completed session is a row.
* `ReputationAlwaysComesOfRequests`: nobody has more ratings, or assessments, than
  requests of theirs were accepted, by `ReputationIsBacked` and the first.

The users of a request are fixed with its id (`Requester`, `Recipient`): an id is
random and used once, so this only says in advance what `create` will write
(`SentAsNamed`).  `Feedback` knows a session by its request, since a request has at
most one session.  `Exchange` is proved and has no run: its product of three
state spaces shows TLC nothing about a handler that the runs of the modules do
not, and its theorems are about their specifications.

## 5. Requests, accounts, connections, profiles, growth, outbox, reports, matching

These components share no rows, and each has requests that overlap.  `Api.tla`
is what they have in common: `handler`, where each running request stands, which
gives way at every `await` and may be cut off between two steps.  Every module
has its own variables, `Init`, `Next` and specification; `MCPlatform.tla` joins
them for TLC: a variable `focus` says which one a behaviour is of, and the
others stay as they begin.  One run then has the interleavings of every
component and none of the product of components that do not interact.

| Module | Code | Actions |
| --- | --- | --- |
| `Requests` | section 3 | section 3 |
| `Auth` | `auth.service.ts`, `session.service.ts`, `auth.guard.ts`, `auth.controller.ts` | StartRegister, InsertUser, OpenSession; StartLogin, VerifyPassword; SendRequest, Arrive, Authenticate, Serve, Logout; Expire, Suspend |
| `Connection` | `google-integration.service.ts` and its repository and controller | Connect, Consent, Callback, Exchange, LookForConnection, Upsert; StartDisconnect, Revoke, DeleteConnection; StartCall, AuthorizationFor, CallGoogle |
| `Profiles` | `profile.service.ts`, `prisma-profile.repository.ts` | StartCreateProfile, InsertProfile; StartUpdateProfile, WriteUpdate |
| `Growth` | `growth.controller.ts`, `growth.service.ts`, `prisma-growth.repository.ts` | StartCreate, InsertRow; StartPatch, PatchMissing, WritePatch; DeleteRow; Review |
| `Outbox` | `prisma-outbox.writer.ts`, the projector and repository of notifications | Enqueue, Project, Commit; MarkRead, MarkAllRead |
| `Reports` (on `Outbox`) | `reports.service.ts` and its repository | CreateReport, CommitReport; StartUpdateStatus, UpdateReportStatus |
| `Matching` | `matching.service.ts`, `matching.utils.ts`, `mutual-exchange.service.ts` | LoadRequester, LoadCandidates; Change |

Each has a Crash as well.  How the models stand for the code:

* `Auth`: a session has one token.  A browser has one cookie: the next login or
  registration in it overwrites the token it had, whose session goes on unrevoked
  with nobody left to log out of it.  Whether a session was over when a request
  came is remembered with the request (`late`), so that
  `NothingServedLate` speaks of the order of events and not of the check.
  A session that ends while a request it authenticated still runs does not stop
  it, and nothing says it should.  Suspension and expiry are outside of the API.
* `Connection`: a flow is one authorization; its state, code and tokens have one
  name.  A call to Calendar gets both tokens of the row (`with`);
  `handler.before` is what was removed before a request came.
* `Growth`: one table at a time, chosen at the start; a row is a function of the
  columns that its constraints read.  The schemas of PATCH are those of POST made
  partial, and their defaults stay: a PATCH that does not name the level of a
  goal sets BEGINNER, one of a slot UTC, one of a project no technologies, and an
  empty one of a table with defaults passes.  `named` keeps what the *user* last
  said of each column, or a review: never a default.  A column that a PATCH took
  back differs from it.  A rejected promise
  that nobody awaits ends the process (Node's default), with its other requests.
* `Outbox`: a statement that PostgreSQL refuses aborts the transaction, although
  the writer swallows the error; an error in the process does not.  `Actors` is who
  each component names as the actor of an event, `Recipients` the projector's table
  of who is told.  `ToBeTold` is a rule of its own, by who acted, with which the
  table is compared.  Of a refund the actor is the payer, so the one who was paid is
  told, in a text that speaks of money "refunded to you"
  (`notification-projector.ts:46`): the rule takes that as it is.
* `Matching` reads the requester first; the other order shows nothing else, since
  the properties are about the rows that were read and not what is stored.  An
  answer may be of rows that were never true together.

| Property of the run `Platform` | Says |
| --- | --- |
| `OneActivePerSubject`, `AnnouncedIsRow`, `KeepsLife` | section 3 |
| `AccountsAgree` | one account per mailbox, in whatever spelling and however long the hashes take; who is told "taken" can log in |
| `NothingServedLate` | what comes after revocation, expiry or suspension is not served, also on a session that a login opened meanwhile |
| `DisconnectedStaysGone` | the access token of a removed connection is not stored again by a callback that was running, and no request that begins later calls Google with it.  Not its refresh token: a callback that had read it (`google-integration.service.ts:30`) may store it with the next connection (43) |
| `ToldWhatWasSo` | the event of a profile update tells a visibility it set or the profile had while it ran |
| `GrowthAgrees` | two overlapping PATCHes leave a period in order; every column has what was last named for it, or, if it is one of those with a default, that default, which a PATCH writes also over what another one named; nothing deleted comes back |
| `OutboxAgrees` | of a stored event everybody in it who did not act is told (`ToBeTold`), or after an error nobody, of another event nobody; a report exactly with its event; its resolution with its status |
| `MatchesAgree` | matches are the candidates of whom one can teach the other, one way being enough, best first; exchanges those who can teach each other; both are the same from the other's side, and the pages of both, of any length, hold everybody once |
| `PageAgrees` | section 6 |

The run `SavedBeforeStored` is a violation: the controllers of growth answer 201
before the insert and do not hear of its failure, so a second goal for one skill
is "created", though `API_CONTRACT.md:100` promises a 409.  The run
`ContainedFailures` is another: the comment in `outbox.module.ts:28-30` says that a
notification "can never roll back a real domain write", and an error that aborts
the transaction does, since the `catch` does not end it.

Bounds: two handlers (each race is of one request's read or check with another
one's write), two ids of everything that must be unique, two spellings of one
mailbox, two points of time (a period that is in order and one
that is not), two browsers (`Browsers`), three members and two topics (a requester
and two candidates, to have an order; an exchange needs two skills).  Three bounds
are in `MCPlatform`: certifications and projects, whose rows have no constraint in
common, have one row (`OneRow`); and matching (`FourRows`) has at most four rows of
skills and goals, one member who is not listed, one request at a time, since they
do not meet, and one change of its requester's rows meanwhile.  Symmetry is over
handlers, users and tokens, whose sets serve as the ids of the other components;
`Members` are numbers, and not permuted.  The inductive invariants of these
components (`RequestsInv`, `AuthInv`, ...) are proved and not checked here, as
the handlers they type are shared.
Deadlock is not checked: with all ids used and all requests answered a component
may rest.

### Proofs

`PlatformProofs` proves an inductive invariant of each component (`Auth`,
`Connection`, `Profiles`, `Outbox` with `Reports`, `Growth`, `Matching`) for any
sets of requests and ids, and from it the properties above.  The first five have
the shape of the older proofs: an
invariant is made of the property and of what each waiting handler relies on
(`AuthHandlerOK`, ...), a lemma says that a handler that waits stays in order if
its rows do, and every action has a lemma of its own.  What makes them
inductive: in `AuthInv`, that a session that was over stays over (`OverStays`)
and that the id of a new account is of one request; in `ConnectionInv`, that a
flow being completed is granted, of one handler, and neither stored nor being
removed - Google takes a code once; in `ProfilesInv`, that a running update's
visibility is remembered in `was`; in `ReportsInv`, that a transaction whose
projection failed tells no one, and that only such a one is aborted; in
`GrowthInv`, that a POST has its id to itself and that the id was never deleted
(`InsertsAreNew`), while a PATCH relies on nothing: the row as it is when it is
written, and its constraints, decide.

The constants are assumed to keep `None` apart from users, events and reports
(`AuthAssumption`, `ProfilesAssumption`, `OutboxAssumption`,
`ReportsAssumption`).  `UsersHaveOneProfile` is proved and not among the run's
properties.

`MatchesAgree` is about what is computed rather than about interleavings: its
invariant is the type of what a request has read.  `Sorted` is *the* sequence
that is in order, so the proof has to give one.  Lemma `Places` does: the rank of
a person (how many are before it) is an injection of the people into as many
places, and so a bijection; its inverse is the sorted answer, which therefore
holds everybody once (`SortedHoldsAll`), as both orders, by name and by score, are
total (`ByNameOrders`, `ByScoreOrders`).  `PagesHoldAll` shows that the pages, put
one after the other, are the answer: were they not after some page, they would be
wrong after a first one, which one step of the recursion refutes (`Least`,
`NextPage`).  Scores and pairs are compared from both sides in `BothSides`; that a
score above zero is one of somebody who can teach or learn ties the listing to
`CanTeach`.
`MatchingAssumption` takes a member as its place in the order of the names and
ids, which is total because ids differ, and `Members` and `Topics` as finite,
since a table has finitely many rows.

## 6. The web application

`Browser.tla` is one page, its requests in flight (`flight`), and what the API
stores of what it shows (`stored`).  A row is an id and one mark: what a request
of the page can change of it (a notification is read, a report settled, a refund
requested, a payment captured).  The API takes requests in any order, answers
come in any order, and an answer may be lost after the API did what was asked.
Each page is a module that extends it, with the state of its component in `page`,
one action per event handler and one per answer:

| Module | Page or component |
| --- | --- |
| `Account` | `auth-provider.tsx`, the forms to sign in and register, the button to sign out |
| `Bell` | `notification-bell.tsx` |
| `Portfolio` | `portfolio/page.tsx` with its four lists and forms, and the error boundary (`error.tsx`) that replaces it |
| `ReportsPage` | `reports/page.tsx`, for a user and for an ADMIN |
| `PaymentsPage` | the payments page with its refund dialogs |
| `CheckoutPage` | the session page for who pays: panel, `razorpay-checkout.ts`, the provider's window |
| `ProfileEditor` | `profile-editor.tsx` |
| `RatingPanel`, `Search`, `Assistant` | the panel to rate, discover, the chat and the draft |
| `Readers` | badges, own and public profile, dashboard, the two panels of the administrator |

`Browsing.tla` opens one of them.  Its property `PageAgrees` has two halves for
each page.  Busy: a page that says it waits has the request in flight that it
waits for, and so is never left with a spinner or a disabled button.  Agrees:
when nothing is in flight and no error is shown, the page shows what is stored.
It is not claimed after two requests were in flight at once, after an answer was
lost, or after someone else wrote, until a load is alone in flight; `lapse` keeps
that.  So nothing is said of answers that overtake each other, against which no
page guards.  A request that the API refuses is not a lapse: whatever was shown
before it was answered must be taken back, or be an exception with a name.  Those
are `refused` (a logout that the API refused is shown as done), `silent` (a part that
did not load, without a word), `broken` (a page that threw) and `ScriptNeverTold` (a
second try after the provider's script failed waits for ever).

The run `SaysWhatWasTaken` is a violation: a failed try makes the panel say "The
payment was not completed. No money has been taken."
(`payment-checkout-panel.tsx:99`) while the provider's window stays open, and it goes
on saying so when the next try in that window is paid, whose success `finish`
(`razorpay-checkout.ts:117-121`) drops.

What the growth API answers is the serialization of a promise, an empty object
(section 5), for its lists as for a created row.  The portfolio shows such a "row"
as an item without a word and throws when it shows such a "list", so that at rest
it shows an error or the error boundary; that is what `PortfolioAgrees` says.  The
boundary's "No product data was changed." is not so after a form was sent.  The
dashboard throws too, when the goals are among what it loaded, and so is blanked by
one API, which its comment excludes (`dashboard/page.tsx:58`).

The models also admit the following:

* the number at the bell counts only the notifications of the page of the panel
  once that is loaded;
* the check of the session on load may overwrite a login;
* the answer of a save fills the profile's form over what was typed meanwhile;
* the dashboard shows an error when there is no profile yet, and an empty list
  for a part that did not load; the reports page shows its error and "no
  reports" together;
* a session whose payment history did not load looks unpaid, and "This page will
  show the final status once it does" (`payment-checkout-panel.tsx:176`) does not
  load it again.

Bounds: two requests in flight (an overtaking needs two), two rows, one
notification to a page of the panel (so that there may be more than it shows), and
no more empty items of the portfolio than rows (`Submit`).
The pages' own reading of answers that contracts do not admit is left out.

### Proofs

`BrowsingProofs.tla` proves `PageAgrees` of every page, for any number of
requests in flight, of rows stored and of notifications to a page of the panel
(`MaxRowsAssumption`: at least one row may be stored; `PageLimitAssumption`: the
page of the panel has a length).  The invariant, `BrowserInv`, has a part that is
common and one for each page, stated in the page's module.

* `FlightsOK` (`Browser`): while `lapse` is false at most one request is in
  flight, and what a load was answered is what is stored.  This is why `lapse` is
  the right condition: with one request in flight nothing can be overtaken.  The
  lemmas `PlaceOK`, `SettleOK`, `HandleOK` and `ElsewhereOK` say once what
  sending, taking an answer, the API and others do to the requests; no proof of a
  page opens those actions again.
* A page's part says what its request in flight is worth to it: that the rows
  shown become the stored ones when the answer is put in (`ReportsFlight`: a
  report in front, a status at its id); that they already are what will be stored
  (`BellFlight`: what the user reads is shown before it is answered); that the
  answer itself is what is stored (`AccountFlight`, `RatingFlight`,
  `CheckoutFlight`); or that the one request in flight is the one last asked for
  (`SearchInv`, `ChatInv`, `DraftInv`).

Every page has three lemmas: its handlers keep its part (`...Step`), and so do
the API (`...Handle`) and others (`...Elsewhere`).  The bell needs the most: that
reading one notification leaves one less to read, which holds because the ids of
what is stored are different (`Numbered`, `OneRead`), and that the API's page of
what is marked is the page shown, marked (`FirstOfMarked`).

## 7. What is done and what is left

Modelled are: payments, requests, sessions with calendar and reminders, feedback
with badges and reputation, these three together, auth, the Google connection, profiles, growth,
outbox, notifications, reports, matching, and the pages of the web application.

Proved for all constants: every safety property and every action property that
a passing run checks, every refinement, and that requests, sessions and feedback
keep in one system what each assumes of the others.  `PROJECT.json` lists the theorems under `theorems`.  Of
these, the sequential properties of the payments assume one request at a time,
and the calendar properties no faults; each is an assumption of the theorem and
of the run alike, and sections 2 and 3 say what goes wrong without it.

Model-checked only: liveness, `AuthorizedSettles`, which is out of the prover's
reach.

### Not modelled

* `discovery` and `analytics` read in one transaction and change nothing; what
  they answer is the database's.
* `ai` calls an external model and keeps nothing; its two panels in the browser
  are in `Assistant`.
* `health`, `platform/database`, `platform/logging`, `config`: probes and wiring.
* Skills and categories: rows that nothing in the API writes.
* `createBadgeDefinition`, which only refuses a name that exists, and which no
  controller calls.
* Navigation, layout, static pages and the components of `packages/ui`: no state
  but a dialog's focus.
* Hashing, encryption, wording, formatting and layout everywhere; the schemas of
  `packages/contracts` where they only refuse what cannot be stored.
