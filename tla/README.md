# Leviate in TLA+

Leviate (`src/`) is the NestJS/Prisma backend of a marketplace for small paid
campaigns ("tasks"): a creator prices a campaign, pays for it at Paystack and
publishes it; contributors apply, submit proof of their work and are paid into a
wallet ledger when staff approve; unspent money goes back to the creator, and
wallets are withdrawn to bank accounts.

What makes it hard is not any one handler but that none of them is atomic. A
request handler is a chain of `await`ed SQL statements and HTTP calls without a
transaction or a row lock (the only `$transaction` is in `wallet.transfer`,
which nothing calls), the process runs as two cluster instances
(`ecosystem.config.js`), and Paystack calls back whenever it likes. **In every
module a handler in flight is therefore a record that keeps what the handler has
read, and every statement that reads or writes the database after an `await` is a
step of its own between which all other handlers run.**

## 1. Inventory

| Component | State | Operations | What is hard about it | What makes it correct |
|---|---|---|---|---|
| Campaign payment and publication (`tasks.service.ts`, `paystack.service.ts`) | status, payment status, reference and budget of a task; Paystack's transactions | `createTask`, `initiatePayment`, `verifyPayment`, `handlePaymentWebhook`, `publishTask`, `updateTask` | webhooks duplicated, late, out of order; rows read before a Paystack call and written after it; crash between Paystack and the row | PAID rests on a successful charge of this campaign; nothing is published uncharged; one charge per campaign; a charge that is not acknowledged is recognised in the end |
| Settlement and termination (`tasks.service.ts`, `admin.service.ts`) | refund credits, `CampaignTerminationRequest`, the task row | `pauseTask`, `endTask`, `terminateTask`, `processCampaignTerminationRequest` | refund credited before the status changes; submissions listed, then their payouts summed; two administrators; crash after the credit; sequences of pause, end, terminate, publish | the unspent budget goes back once, to a creator who was charged; a held refund is paid once, when processed |
| Applications, submissions, payouts (`tasks.service.ts`, `submissions.service.ts`, `task-payout.util.ts`) | applications, submissions, completed payouts | `applyForTask`, `createSubmission`, `verifySubmission` + `processPayout`, `rejectSubmission` | count-then-insert, find-then-credit, two reviewers, crash between rejection and reopening | places are not oversold; an approved submission is paid once; a contributor once per campaign; a rejected one may resubmit |
| Campaign disputes (`tasks.service.ts`, `admin.service.ts`) | `CampaignDispute`, its audit rows | `createCampaignDispute`, `resolveCampaignDispute` | query-then-insert without an index; two members of staff decide | one open dispute per campaign; a decision is final and audited |
| Pricing and shares (`task-pricing.util.ts`, `task-payout.util.ts`) | none (pure) | `estimateTaskPricing`, share of a contributor | rounding to kobo, default contributor count, overlapping edits | shares do not exceed the pool; the price is what is charged |
| Wallet ledger (`wallet.service.ts`) | `WalletTransaction` rows | `credit`, `debit`, balance | balance read, then appended to | the ledger never overdraws |
| Withdrawals and bank accounts (`banks.service.ts`, `paystack.service.ts`) | OTPs, bank accounts, PENDING/COMPLETED debits | `requestWithdrawalOtp`, `verifyWithdrawalOtp`, `addBankAccount`, `setDefault`, `delete` | OTP checked then used; transfer before the debit; time-out of a transfer | one OTP, one transfer; no more leaves than the wallet holds; one default account |
| Accounts (`auth.service.ts`, guards, `admin.service.ts`) | users, codes, passwords, tokens, audit rows | `signup`, `login`, `verifyEmail`, `forgotPassword`, `resetPassword` (public), `refreshToken`, `suspendUser`, `createAdmin` | a password stored before the mail that tells it, or set by somebody else; user row and audit row written apart | the owner knows the password that was set for the owner; the audit log tells who is suspended |
| Identity, profile, social accounts (`users.service.ts`, `social-verification.service.ts`) | NIN, names, handles, verification status | `verifyNIN`, profile updates with cool-down, submit/review of handles | check-then-write uniqueness; review of a handle that changed | one person per NIN; what was approved is what was submitted |
| Referrals (`referrals.service.ts`) | `referredBy` of a user, referral rows | codes at `signup`, `applyReferralCode` | read, then two writes | one referrer per user, named alike in both tables |
| Reputation (`reputation.service.ts`) | score | `updateReputationScore` | read-modify-write | no update is lost |
| Marketplace and eligibility (`tasks.service.ts`, `gender.ts`) | targeting of tasks, profiles | `userMeetsTaskRequirements`, `getMarketplaceDetail`, `applyForTask`, `queryPublishedTasksPage` | page, check and insert read campaign and profile at different times | who was told to apply is not refused; only who suits comes to work |
| Campaign text and AI brief (`tasks.service.ts`, `ai.service.ts`) | title, notes, brief, context | `createTask`, `updateTask`, `saveDraft` | a slow AI call between read and write; moderation that fails open | the brief is about the campaign's text |
| Announcement (`tasks.service.ts`, `email.service.ts`) | a cursor over users | `notifyContributorsOfNewTask`, `sendBatch` | users come and go while it pages; every publication starts one | no broadcast mails anybody twice or passes over somebody who stayed |
| Form options (`utilities.service.ts`) | five tables of options | add, remove | look-up, then insert; soft deletion | an option is offered once, never again when removed |
| Paged lists (`admin.service.ts`, `tasks.service.ts`, notifications) | none | rows and total of a page | two queries, rows added and removed between pages | no row is passed over |
| Single e-mails, uploads, analytics, reports, recommendations | none that others rest on | best-effort I/O and aggregates | - | - |

How they meet: *payment*, *settlement* and *review* share the task row (status,
payment status, budget, contributor places) and the ledger; *settlement* sums the
payouts that *review* made, and a payout raises a *reputation*, which lets the next
application through; *withdrawals* take from the ledger that *settlement* and *review*
fill; Paystack is called by *payment* and *withdrawals* and calls *payment* back;
publishing starts the *announcement*. E-mail and notifications are sent after the
writes and their failures are swallowed.

`PROJECT.json` ("hazards") lists, line by line, what a test would hardly reach,
and which property watches it.

## 2. Modules

| Module | Models | Extends |
|---|---|---|
| `Payment` | paying for a campaign and publishing it | - |
| `Delivery` | which charges Paystack still delivers, and that they are recognised | `Payment` |
| `Settlement` | refunds and termination, on `Payment`'s rows | `Payment` |
| `Escrow` | what settlement promises, without handlers (abstract) | - |
| `EscrowedSettlement` | `Settlement` with the history that says when the promise ends; the refinement | `Settlement`; instantiates `Escrow` |
| `Rewards` | what judging and paying submissions promises, without handlers (abstract) | - |
| `Review` | applications, submissions, payouts; the refinement | instantiates `Rewards` |
| `Campaign` | a campaign as a whole: the task rows of `Settlement`, with the work and the payouts of `Review` | `EscrowedSettlement`; instantiates `Review` |
| `Market` | requirements, job page, application, reputation | - |
| `Wallet` | what withdrawing promises, without handlers (abstract) | - |
| `Withdrawal` | bank accounts and withdrawals of one user, with the ledger they debit; the refinement | instantiates `Wallet` |
| `Pricing` | price, budget, pool and shares of a campaign, and edits of them | - |
| `Profile` | legal name, identity number and social handles of one user, and their review | - |
| `Accounts` | sign-up, codes, passwords, tokens, suspension, staff accounts, referrers | - |
| `Disputes` | disputes of campaigns and their decision | - |
| `Options` | the lists that forms offer | - |
| `Listing` | reading a list page by page | - |
| `Drafts` | a campaign's text, its moderation and its brief | - |
| `Broadcast` | announcing a campaign, once for every publication | - |
| `Office` | the components that share no state, side by side | `Pricing`, `Accounts`, `Disputes`, `Options`, `Listing`, `Drafts`, `Broadcast` |
| `PaymentProofs`, `ReviewProofs`, `WithdrawalProofs`, `PricingProofs`, `ProfileProofs` | the theorems, refinements included | the component |
| `SettlementProofs` | the theorems on `Settlement`, and the refinement of `Escrow` | `EscrowedSettlement`, `PaymentProofs` |
| `CampaignProofs` | the theorems on `Campaign` | `Campaign`, `SettlementProofs`; instantiates `ReviewProofs` |
| `PlatformProofs` | the theorems on `Market`, `Accounts`, `Disputes`, `Options`, `Drafts`, `Broadcast`, `Listing`, and on `Office` | `Market`, `Office`, `PricingProofs` |
| `MCPayment`, `MCDelivery`, `MCSettlement`, `MCCampaign`, `MCReview`, `MCWithdrawal`, `MCProfile`, `MCMarket`, `MCListing` | symmetry sets and small values for TLC | the component |
| `MCOffice` | the same for the components of `Office`, of which one moves at a time | `Office` |

Operators marked `\* Mutant:` are plausible bugs of the code next to the
definition they spoil. They are part of no specification: substituted for that
definition, each one makes the property it is listed with fail.

### Payment

`task` is the tasks table (status, payment status, reference, budget), `tx` what
Paystack knows of each reference, `req` the handlers in flight. A reference is
`TASK_<Date.now()>_<id>`, hence a record of the task and a time stamp.

| Code | Actions |
|---|---|
| `initiatePayment` | `InitiatePayment` (guards and reference, on the row as read), `InitializeAtPaystack`, `StoreReference` (writes PENDING and the reference whatever the row holds by then) |
| `verifyPayment` | `VerifyPayment` or `VerifyOverwritten` (no row carries the reference any more), `PaystackAnswers`, `FindTask`, then `MarkPaid` or `MarkFailed` |
| `handlePaymentWebhook` | `WebhookSuccess`, `FindTask`, `MarkPaid`; `WebhookFailed` |
| `publishTask` | `PublishTask` (guards), `Activate` (update) |
| `updateTask`, `saveDraft` | `UpdateTask`, `Rewrite`: only the price matters here |
| Paystack's page | `PayCheckout`, `DeclineCheckout` (external) |
| any exception, time-out or restart | `Abandon` |

Paystack is modelled from how the code uses it: a checkout can be paid, declined
and then paid; initialising a reference it knows keeps or replaces the amount; a
paid reference is refused; `charge.success` may be delivered any number of times
once the charge succeeded, `charge.failed` any number of times once one was
declined, both at any later moment.

### Delivery

Paystack delivers `charge.success` again until it gets a 2xx for it. `calls` are the
handlers in flight that are such deliveries, `acked` the charges that were acknowledged.

| Code | Actions |
|---|---|
| a delivery to `handlePaymentWebhook` | `Deliver` (`WebhookSuccess`) |
| its normal end | `Acknowledge`: the handler marks the row, or finds it PAID, or finds no row, and its 2xx arrives |
| an exception (`assertPaystackVerificationMatchesTask`), a crash, an answer that is lost | `Proceed`, as is everything else in `Payment` |

`Deliver` may come again after the acknowledgement, and then need not.

### Settlement

Adds `term` (termination requests), `refunds` (REFUND credits by campaign), `paid`
(payouts of the campaign) and `desk` (handlers in flight, each with what it `missed`).

| Code | Actions |
|---|---|
| `pauseTask`, `endTask` + `settleCampaignRefund` | `PauseTask`/`EndTask` (guards, budget read), `ListSubmissions`, `SumPayouts`, `CreditRefund`, `CloseCampaign` |
| `terminateTask` | `TerminateTask`, `ListSubmissions`, `SumPayouts`, `HoldRefund`, `MarkTerminated` |
| `processCampaignTerminationRequest` | `ProcessTermination`, `PayTermination`, `FileTermination` |
| a payout of `submissions.service.ts` | `ContributorPaid` (of any campaign that was published, whatever its status by now) |
| exception or restart | `DropDesk` |

All of `Payment`'s actions go on meanwhile. The ids of the submissions and the sum of the
payouts on these ids are two reads: between them a submission may be made, approved and
paid, whose payout is then in `paid` and in `missed`, and not subtracted. Which settlements
overlook a payout is open here (`Overlooked`) and decided in `Campaign`. A payout takes a
share from `Shares`: what the row gives a place at that moment. The code computes it from
the row at each payout and refuses one that is not positive; the arithmetic is `Pricing`'s.

### Escrow

What the creator is promised, in single steps on five books (`budget`, `spent`, `back`,
`ticket`, `astray`): a campaign that is not settled may be repriced (`Price`) and pay
contributors (`Spend`); settling it returns exactly what is left, at once (`GiveBack`:
pause, end) or through a ticket (`Hold`: terminate) that an administrator releases or
forgoes (`Release`, `Forgo`). `Stray` lets the books of a campaign change freely once
it went astray, and only the books of that campaign.

`EscrowedSettlement` adds to `Settlement` the history variable `strained`: campaigns
settled a second time, whose budget changes after or under a settlement, or of which a
payout comes after a settlement's sum or is one that the settlement overlooks.
Its refinement mapping reads the books off the rows: `budget` is the row's, `spent` the
payouts, `back` the REFUND credits, a ticket a termination request that is open until
its refund is credited or it is filed, `astray` the strained campaigns and those of
disturbed requests. Reading the
row, listing, summing and closing are stutters.

### Review

`app`, `sub` and `payout` are the tables; `hand` the contributors' handlers,
`review` the staff's. The campaign's status and places change under them
arbitrarily (`ChangeStatus`, `ChangePlaces`), which includes everything `Payment`
and `Settlement` do to them.

| Code | Actions |
|---|---|
| `applyForTask` | `ApplyForTask`, `CountApplications`, `InsertApplication` |
| `createSubmission` | `CreateSubmission`, `LookupSubmission`, `InsertSubmission`, `CompleteApplication` |
| `verifySubmission`, `processPayout` | `VerifySubmission`, `Approve`, `FindPayout`, `CountPayouts`, `Credit` |
| `rejectSubmission` | `RejectSubmission`, `Reject`, `Reopen` |
| failed check, exception or restart | `DropHand`, `DropReview` |

The outcome of the reputation check (approved at once, or PENDING) is a free
choice; no endpoint approves a PENDING application, so it stays.

### Rewards

What a campaign promises those who work for it: a claim is made (`Make`) by somebody all
of whose earlier claims on the campaign were refused, is judged once (`Judge`), and when
accepted is rewarded once, while the campaign has room (`Pay`); room only grows (`Widen`).
Each is one step that looks up all it depends on. Three sets say of whom less is promised
(`Excuse`): `contested` claims may be judged and rewarded again, `hasty` persons need not
wait for the verdict on an earlier claim, and `crowded` campaigns may run out of room - each
set lifts that one condition and no other.

At the end of `Review`, `Promised` maps claims to submissions, rewards to payouts, room to
the largest `contributorSlots` so far, and the three sets to the races recorded on a
submission, on a contributor's submissions to a campaign, and on a campaign's payouts.
`InsertSubmission` is `Make`, `Approve` and `Reject` are `Judge`, `Credit` is `Pay`, an edit of
the places may be `Widen`; a handler that begins while another is in flight may be
`Excuse`, and all other steps, deaths and applications included, are stutters.

### Campaign

`Settlement` and `Review` each leave something to their surroundings: there, any published
campaign may pay a contributor (`ContributorPaid`); here, a campaign's status and places
change at will. `Campaign` puts the two together on one task row, and what either leaves
open is done by the other:

| Left open | Here |
|---|---|
| `live` of `Review` | `Live`: the row says ACTIVE |
| `ChangeStatus` of `Review` | `Manage`: the creator, Paystack and administrators, that is all of `Payment` and `Settlement` but a payout |
| `ChangePlaces` of `Review` | `Reprice`: `updateTask` writes price and places in one statement; `Resize`: the places alone |
| `ContributorPaid` of `Settlement` | `PayContributor`: the credit at the end of a review and the payout that a settlement subtracts are one row |
| which settlements overlook a payout | those whose `listed`, the ids they read, lack its submission |
| - | `Contribute`, `Decide`: contributors and reviewers up to the credit, who read the row's status and move no money |

`PayContributor` looks neither at the campaign's status nor at its payment, as in the code:
that nobody is paid by a campaign whose creator was never charged (`WorkWasCharged`) has
to follow from the application, which needed an ACTIVE campaign once, and from the
publication, which needed a charge. `CostsAreCovered` is about the money of both sides:
what contributors were paid, what the creator got back and what a termination request
still promises is within the budget, and within one successful charge of the creator up to
the kobo that `verifyPayment` forgives. It holds provided that the budget pays every share
for the most places the campaign ever had (`Funded`), for campaigns that are `Orderly`: not
`strained`, no request `disturbed`, and no two payouts overlapping; as to the charge, the
price must not have changed once one was made, or while a verification that had read the
row was waiting for Paystack (`repriced`).

### Withdrawal

`bank` and `otp` are the user's rows, `credited`, `debited` and `pending` the sums of the
ledger's rows by type and status, `sent` and `paidOut` the transfers that Paystack has
accepted, `hand` the user's handlers in flight.

| Code | Actions |
|---|---|
| `addBankAccount` | `AddBankAccount` (limit), `FindNumber`, `FindDefault`, `InsertBank` |
| `setDefaultBankAccount` | `SetDefaultBankAccount`, `UnsetDefaults`, `SetDefault` |
| `deleteBankAccount` | `DeleteBankAccount` |
| `requestWithdrawalOtp` | `RequestWithdrawalOtp` (balance), `FindAccount`, `RetireOtps`, `IssueOtp`; `Expire` when its time is up |
| `verifyWithdrawalOtp` | `VerifyWithdrawalOtp`, `FindPayee`, `CheckBalance`, `UseOtp`, `CreateRecipient`, `InitiateTransfer`, `RecordDebit` |
| `wallet.credit` | `Credit` |
| failed check, exception or restart | `DropHand` |

Paystack's answer to a transfer may be success, pending, or nothing although it accepted
the transfer (`InitiateTransfer`); a refusal, or a failure before, is `DropHand`.

### Wallet

What the owner of a wallet is promised, in single steps on books of what was `earned`,
the `balance`, what went `out` to the bank, and what of that is `unrecorded`, and on a
slip for each request: a slip is asked for once (`Ask`), may be closed unpaid (`Close`),
and while it is open pays its amount and is closed (`Withdraw`); the balance must hold the
amount, and either drops by it or the amount is noted as unrecorded (`PayOut`). A transfer
that had left the balance may turn out unrecorded later (`Forget`). A slip in `doubled`
may pay and stay open (`Double`), and once the books are `disordered` nothing is promised
of the sums, but slips go on as before (`Disorder`).

At the end of `Withdrawal`, `Books` reads all this off the rows and the handlers in
flight. The balance is the ledger's, less a finished transfer whose debit is about to be
written (`Done`): to its owner the money left when Paystack accepted the transfer.
Unrecorded are PENDING debits, lost transfers, and an unfinished transfer about to be
written (`Unfinished`). A request is open as long as somebody may begin or go on to verify
it (`Pursued`), and is closed by the transfer, not by being marked used. `doubled` is
`twice`, `disordered` that withdrawals overlapped. Under this mapping `InitiateTransfer`
is `Withdraw`, `IssueOtp` is `Ask`, and a request that is retired or expires while nobody
verifies it, or whose verification ends before its transfer, is closed (`Close`). A handler
that dies before it writes a debit is `Forget` or, when the transfer was unfinished,
nothing. `VerifyWithdrawalOtp` may be `Double` and `CheckBalance` may be `Disorder`; else
they, `UseOtp`, `RecordDebit` and the handlers of bank accounts are stutters.

### Pricing

One campaign's price fields (`row`), the fee configured in the environment and the
updates in flight. `createTask` is `Init`, with `Legacy` rows of the time before there
was a pool; `updateTask` is `Reprice` or `EditAudience` (the row as read, merged and
priced) and then `Write`; `Configure` changes the fee, `Drop` is a failure. The price is
computed in floats: where a quotient is exact it may come out one place short, so
`SlotsOfBudget` has both results there.

An update prices what was given (`!== undefined`) and writes the content type only when it
is truthy (`Written`): a content type of null, `NONE` here, is priced at nothing and leaves
the row's, so that a video is then priced as a text. `asked` is the content type the row was last
priced for.

### Profile

`name`, `locked`, `nin` and `handle` are the profile, `row` the review row of each
platform, `others` the identity numbers of other accounts, `hand` the user's handlers and
`desk` the staff's reviews in flight.

| Code | Actions |
|---|---|
| `updateProfile`, `linkSocialMedia` | `UpdateProfile` (of any platforms), `LinkSocialMedia` (of one): handles read and merged; `WriteHandles`, then `QueueReview` or `DeleteRow` for each changed platform |
| `submitVerification` | `SubmitVerification`, `UpsertVerification` |
| `completeOnboarding` | `CompleteOnboarding` (guards), `UpsertProfile` |
| `verifyNIN` | `VerifyNIN` (name read), `LookupNin` (holder, Dojah), `ClaimNin`; of other accounts `OthersClaim` |
| `approve`, `reject` | `StartReview` (`getPendingOrThrow`), `Decide` |
| failed check, exception or restart | `DropHand`, `DropDesk` |

Dojah knows a name for the numbers in `Registered`. What `verifyNIN` checks of a number is
set by the environment, and a constant: the name on its record (`Checked = "name"`, as
shipped), that there is a record (`DOJAH_ENFORCE_NAME_MATCH` off), or nothing
(`DOJAH_MOCK_VERIFICATION`).

Rows are told apart by a number that counts them: a review holds the id of the row it
read, and its update fails when that row was deleted, even if the platform has a new one.

### Market

Texts are names, and `Within` says which contains which; a target audience is what
`parseAgeRange` and `extractInterests` find in it. `target`, `live`, `profile` and
`score` are columns, `app` the applications.

| Code | Actions |
|---|---|
| `userMeetsTaskRequirements`, `checkLocationRequirement` and the others, `matchesTargetGender` | `Meets`, from `MeetsLocation`, `MeetsAge`, `MeetsInterests`, `MeetsPlatforms`, `MatchesTargetGender` |
| `getMarketplaceDetail`, `buildMarketplaceEligibility` | `CanApply` |
| `applyForTask` | `ApplyForTask` (task read), `CheckRequirements` (profile read), `CountPlaces`, `InsertApplication` (approved at once, or PENDING, by reputation) |
| `processPayout`'s `increaseReputation` | `Pay`, `ReadScore`, `WriteScore` |
| edits, publication, pause | `EditTask`, `EditProfile`, `ChangeStatus` |
| refused check, exception or restart | `DropApplier`, `DropPayout` |

As the code has it: without targeting nothing but the complete profile is asked, not even
the platforms; with an audience, a profile without interests fails; a blank city or state is
contained in every place and passes; an age range from a higher to a lower age is one that
nobody is in (`AgeRange`), and a single age asks for something between 13 and 65 only
(`HasRange`); a score of zero counts as the default (`GetReputationScore`); the page's
eligibility ignores the places left; reputation never falls, as only payouts change it.

### Accounts

`account` is the users table, `token` who holds an access token, `trail` what the last
audit row says of a user's status, `referrals` the referrals table, `hand` the handlers
in flight, each with the row it is about to write and the secret it made.

| Code | Actions |
|---|---|
| `signup` | `Signup`, `CreateAccount`, `StubProfile`, `CreateReferral`, `Answer` (the response shows the code) |
| `resendVerification`, `verifyEmail` | `ResendVerification`, `Recode`, `Answer`; `VerifyEmail`, `Verify` |
| `login`, `refreshToken`, JWT expiry | `Login`, `RefreshToken`, `TokenExpires` |
| `changePassword`, `resetPassword` | `ChangePassword` (by whoever knows the password) or `ResetPassword` (by anybody, for the owner or not), `SetSecret`, `Answer` |
| `forgotPassword` | `ForgotPassword`, `SetSecret` (a default password), `MailDefault`, whose mail may be lost (`SendEmail`) |
| `suspendUser`, `unsuspendUser` | `SuspendUser`/`UnsuspendUser` (guards of role), `WriteStatus`, `Audit` |
| `createAdmin` | `CreateAdmin`, `CreateAccount`, `Audit` |
| `applyReferralCode` | `ApplyReferralCode`, `Adopt`, `CreateReferral` |
| exception or restart | `DropHand` |

`Authenticated`, `Staff` and `SuperAdmin` are the JWT strategy and the guards.
`resetPassword` is a public endpoint that takes an e-mail address and a new password, so
that its caller need not be the owner: `knows.own` says whether the password in force was
set for the owner, and `OwnerKnowsPassword` is about those that were.

### Disputes, Options, Listing

| Code | Actions |
|---|---|
| `createCampaignDispute` | `CreateCampaignDispute` (is one open?), `InsertDispute` |
| `resolveCampaignDispute` | `ResolveCampaignDispute` (is it open?), `DecideDispute`, `AuditDispute` |
| `addInterest` and the other four | `AddOption` (is the name there?), `InsertOption` (the database's unique name, which categories lack) |
| `removeInterest` and the others | `RemoveOption`: hidden, the name stays taken |
| paged lists | `FetchRows` and `CountRows` in any order, `TurnPage`; `RowComes`, `RowLeaves` meanwhile |
| exception or restart | `DropClerk`, `DropAdder` |

The lists of the back office, of users, notifications and reports have one form - rows and
total of a page, by offset -, which the module takes from `getUsers`; each of the others is
an instance of it.

With a platform the marketplace filters its rows in memory: `Filtered` keeps those of the
platform (`Passing`) in their order, the `k`-th of them at the place `Place` finds.

No handler sets a dispute UNDER_REVIEW. The marketplace's page (`MarketPage`) skips rows
in the query and then again in memory; with a platform it filters the first rows.

### Drafts

| Code | Actions |
|---|---|
| `createTask` | `CreateTask` (moderation), `InsertTask` (with its brief) |
| `updateTask` | `UpdateTask`, `WriteText`: neither moderation nor a brief |
| `saveDraft` | `SaveDraft`, `WriteText`, `WriteBrief`: from the request, whatever the row holds by then |
| `moderateTaskContent`, `generateTaskBrief` | `ModerateTaskContent` (approves when the provider is out of reach), `GenerateTaskBrief` (may be empty) |
| `publishTask`, `endTask` | `PublishTask`, `EndTask` |
| exception or restart | `DropAuthor` |

### Broadcast

| Code | Actions |
|---|---|
| `publishTask`, each that gets past its guards | `Publish`, of a broadcast of its own |
| `notifyContributorsOfNewTask` | `FindContributors`: `Page` is Prisma's cursor with `skip: 1` |
| `sendBatch` | `SendChunk`: Resend takes any part of a chunk |
| verification, suspension and its end | `Admit`, `Suspend` |
| restart | `DropHerald`; nothing resumes a broadcast |

Two publications at once that both read DRAFT, and a campaign that was paused or terminated
and is published again, announce it twice: `Heralds` are the broadcasts of one campaign,
each with its cursor and its mails, in flight together or one after the other.

### History variables

The code promises less than its happy path suggests, and a property that ignored
that would simply be false. History variables, which no guard reads, record
where a promise ends, so that the properties say what holds *exactly until* then:

- `excused` (Payment): campaigns that were marked FAILED at some time, or that had two
  initiations in flight at once. Only these may be charged twice.
- `disturbed` (Settlement): termination requests whose processing overlapped with another,
  or whose handler died between the credit and the update.
- `raced` (Review): objects on which two handlers overlapped, and rejections that died
  half-way. Crashes elsewhere and overlaps on *other* objects are not excused.
- `raced`, `twice`, `orphaned`, `lost` (Withdrawal): which kinds of handlers overlapped,
  requests that two verifications held at once, a default account that was deleted or unset
  half-way, and the sum of transfers that were accepted and not recorded.
- `raced`, `behind`, `overtaken`, `contested` (Profile): which kinds of the user's handlers
  overlapped; platforms whose handle was replaced without their row following (a crash
  before the queueing, or onboarding, which queues nothing); platforms submitted again
  during a review; rows with two reviews at once. `read` remembers what a reviewer saw.
- `strained` (EscrowedSettlement): campaigns settled twice, whose budget changed after or
  under a settlement, or with a payout after its sum or of a submission that was not in its
  list. `listed` (Campaign) is that list.
- `repriced` (Campaign): campaigns whose price changed once they were charged, or under a
  verification that had read it. `crossed` (Pricing): two edits of a row overlapped; `asked`
  is the content type the row was last priced for.
- `moved`, `raced` (Market): applications under which campaign, profile or application
  changed; contributors with two payouts at once, or one that died before the reputation.
  `paid` counts payouts.
- `strayed` (Accounts): for a user and a matter (code, pass, status, referral), two handlers
  at once, one that died half-way, or a mail lost. `knows` is what the owner was told, and
  whether the password in force was set for the owner.
- `doubled`, `wrangled` (Disputes): campaigns with two disputes filed at once; disputes
  decided twice at once or not audited.
- `shaken` (Listing): what happened to the list while it was read.
- `adrift`, `unscreened` (Drafts): campaigns whose last change was not a whole save or a
  creation that ran alone; campaigns edited, or created while the moderator was out of
  reach.
- `loyal`, `spilt`, `forsaken` (Broadcast): of each broadcast, users reachable all the time;
  mails Resend did not take; those of which the process died, or the last user of a page
  left. `retired` (Options) is what was removed.

`acked` (Delivery) is no excuse but part of how Paystack behaves: it ends the promise that
`ChargeRecognised` makes.

Each excuse was tried without: TLC finds the property violated then, so none is there for
convenience. Two of them take more than the run's instance to show: overlapping
submissions (one contributor with two handlers), and overlapping payouts in
`CostsAreCovered` (two contributors' handlers and two reviews, shares of 20).

## 3. What is checked

All runs are exhaustive over the instance named.

| Run | Instance | Checks | Shows | Distinct states |
|---|---|---|---|---|
| `payment` | 1 campaign, 2 stamps, 2 handlers, amounts 1 and 3 | `PaidByItsCharge`, `PublishedWasCharged`, `ChargedOnce` | safety of paying and publishing under every overlap, crash, and order of webhooks | 129,568 |
| `payment_live` | 1 campaign, 2 stamps, 1 handler, with deliveries, under `FairSpec` | `ChargeRecognised` | a successful charge is recognised in the end, as long as it was not acknowledged | 24,782 |
| `payment_budget` | 1 campaign, 1 handler | `PaidCoversTotal` | violated, see below | - |
| `campaign` | 1 campaign, 1 stamp, amounts 10 and 20, 2 handlers, 2 desks, 2 contributors, 2 submissions, 1 hand, 1 review; four instances, see below | `SettlementTypeOK`, `RefundsWereCharged`, `RefundHeldUntilProcessed`, `WorkWasCharged`, `CostsAreCovered`, `SettlesAtomically` | refunds and work rest on charges; a held refund is paid once; payouts and refunds share one budget and are covered by a charge; the handlers implement `Escrow` | 395,020 |
| `settlement_unspent`, `settlement_final` | 1 campaign, 1 stamp, 1 handler, 1 desk; the rows alone, without the work on them | `RefundsAreUnspent`; `TerminatedIsFinal` | violated, see below | - |
| `review` | 2 contributors, 2 submissions, up to 2 places; 2 contributors' handlers or 2 reviews | `TypeOK`, `ContributorsWithinPlaces`, `RejectedMayResubmit`, `JudgesAndPaysOnce` | places oversold only where applications overlapped; the handlers implement `Rewards`, so that there is one payout for each contributor | 324,088 |
| `withdrawal` | 2 requests and 1 account, or 2 accounts; 2 handlers | `TypeOK`, `PaidOutWasCredited`, `OneTransferPerOtp`, `OneDefaultAccount`, `PaysAtomically` | what leaves was credited, up to transfers unanswered or unfinished and overlaps; one default account; the handlers implement `Wallet` | 348,680 |
| `profile` | two instances, see below | `TypeOK`, `NinIsOwn`, `ApprovedIsLinked`, `IdentityIsKept`, `DecisionStands` | whose number it is; what staff approved is what is linked | 871,218 |
| `market` | 1 campaign, 2 contributors, 8 audiences, 6 profiles, 2 applications, 2 payouts | `MarketTypeOK`, `PageTellsTruth`, `ReputationIsEarned`, `ApplicantsSuit` | who is told to apply is not refused; only who suits comes in; reputation is earned | 464,096 |
| `office` | seven components, see below | `OfficeTypeOK`, `FullRate`, `QuotesAreFunded`, `OwnerKnowsPassword`, `AuditTellsStatus`, `OneReferrer`, `OneOpenDispute`, `DecisionIsFinal`, `OfferedOnce`, `NoRowMissed`, `BriefMatchesText`, `EverybodyHearsOnce` | one property or two of each | 615,548 |
| `market_pages` | 3 tasks, 1 that comes, pages of 2 | `PagesCoverMarket` | violated, see below | - |

**Bounds.** One campaign is enough for payment and settlement: references,
requests and refunds name their campaign, and every statement addresses rows by
that id, so campaigns do not interact there (the proofs drop the bound). Two time
stamps give a campaign a second reference, which is what a second charge or an
overwritten reference needs; two slots give every overlap of two handlers, and
each handler kept across an await is one of them. Amounts 1 and 3 are further
apart than the kobo that the comparison of amounts allows. In the `campaign` run
a budget of 20, payouts of 10 and a fee of 10 % make the remainder, the fee and a
zero remainder different numbers; `PaidCap` (20) and `RefundCap` (40) stop the counting:
40 lets a campaign be refunded in full twice, which is the case the properties are
about. A second price of 10 is half the first, so that a cost covered by one of them
need not be covered by the other. One stamp suffices: what a second charge or an
overwritten reference does is the `payment` run's.

The product of everything that may overlap on a campaign is out of TLC's reach, so
`MCCampaign` is four instances in one run (`focus`). In `settle`, two handlers that move
money or change the status are in flight at once, and one payout meets them at its credit;
the work that leads to that payout is done while they rest, on one place by one contributor,
on a campaign whose charge never failed. In `work`, two contributors with two submissions
and a reviewer fill up to two places, with one such handler in flight while no contributor's
is; that campaign is not strained either, and its places are only added to (fewer places
only refuse). In `late`, one contributor applies, submits and is paid while a settlement is
in flight, so that submission, approval and payout also come between its list and its sum.
In these three, one of the two slots is used and the price stays 20. In `price`, nobody
works, and the campaign is repriced while it is charged, verified, published and settled: by
the two slots at once, or by one slot or desk after the other. What each side does without
the other is `payment` and `review`, and the theorems on `Campaign` cover every overlap.

Two contributors for one or two places make the last place contested; two submissions are
what a resubmission and a contested payout take. `MCReview` is two instances in one run
(`focus`): contributors' handlers compete, with one submission and one review; or reviews
compete, with one contributor's handler, on a campaign that is not paused again and whose
places are only added to (its status matters to applications only, and fewer places only
refuse). `MCWithdrawal` likewise: withdrawals of amount 1 from at most 2 credited
(`CreditCap`) to one account, saved and deleted but not made the default one, of which
withdrawals know nothing, one too many when two requests of it overlap; or bank accounts
without withdrawals. `profile` is two instances as well, because name and number on the one
hand and handles on the other share no guard but the lock: two names, two numbers on record
and one that is not, two handlers; and one platform with two handles, at most two rows in
time, two handlers and two desks. Several platforms differ only in the loop that queues them
one by one, which `ProfileProofs` covers for any number of them.

`market` has an audience for each branch of the requirements (none, a place by its other
name with a gender, two places, the three forms of an age with topics or without, a range
from a higher to a lower age, platforms under an old name, not in English) and a profile
that fails each of them; one contributor's profile changes, the other's stays, and the
payouts that raise reputations are a second instance (`focus`), with the shipped settings
(75 at signup and to be approved, 5 a payout) and a top of 85 that three payouts reach.
`office` lets one component move at a time, as they share no state, and of `Accounts` one
matter at a time, the product of all matters being out of reach (`AccountsInvariant` proves
it for all of them interleaved): three people, two secrets, two handlers, and strangers who
reset passwords. `Pricing` takes a content type with a premium and none (null), headcounts 1
and 9 (capped by `MaxCount`), fees 7 and 10 %, and a budget that is an exact multiple of a
place's price next to one that is not. Two cases and clerks for one campaign are an overlap
of filings and of decisions; two adders, three rows and two lists one of which has no unique
names; texts of two titles and one note; lists of the back office and of a platform (the
marketplace's are `market_pages`): two rows and two that come, pages of two, are a full
page, a page that is not, and a count that is out of date by then; three users, pages of two
and batches of one, the same for a broadcast, of which there are two at once or one after
the other. Symmetry is used in safety runs only.

`CHECK_DEADLOCK FALSE` because the system may stop: a creator need not pay, and
the counters and ids of an instance run out.

**Fairness** (`FairSpec` of `Delivery`, only for `ChargeRecognised`). A handler in flight
ends, normally or by an exception (weak fairness of its statements and `Abandon`: HTTP
calls have time-outs). Paystack delivers `charge.success` again until it is acknowledged:
the delivery of a charge that was *not*, enabled again and again, happens (strong fairness
of `Deliver` while `r \notin acked`); of an acknowledged charge nothing is assumed. A
statement that is tried again and again for a reference does not fail every time (strong
fairness of `FindTask` and `MarkPaid` for each reference and handler). Nothing is assumed
of creators, of failure events, or of the absence of crashes.

What is promised is accordingly no more than that: a `charge.failed` of an abandoned
attempt that arrives after the acknowledgement leaves a charged campaign FAILED for good
(`tasks.service.ts:2641`), and an initiation that stores its reference only then leaves it
PENDING - unless the creator verifies once more. The property also excuses a campaign that was
repriced since: then the amounts differ and the code refuses the charge.

**Where code and its documentation disagree** (the four `violation` runs; each
property is what the documentation says, and TLC shows a behaviour of the code
that breaks it):

- `payment_budget`: "the charge IS the budget" (`tasks.service.ts:2513`), but
  `updateTask` reprices a campaign that is paid or whose checkout is open.
- `settlement_unspent`: terminating "credits the creator with remaining unspent
  funds" (`tasks.controller.ts:368`), but a campaign that was paused, and refunded by
  that, is promised its budget again. Payouts are switched off in that run
  (`PaidCap = 0`), so that the sequence alone is to blame and no race.
- `settlement_final`: terminating "cancels the campaign", but its row stays PAID and
  `publishTask` refuses only ACTIVE and COMPLETED campaigns.
- `market_pages`: "Published (ACTIVE) tasks with pagination" (`tasks.controller.ts:144`), but
  `queryPublishedTasksPage` skips `(page - 1) * limit` rows in the query and slices the
  rows it fetched from the same offset once more (`tasks.service.ts:967`): every page but
  the first is empty.

## 4. What is proved

With TLAPS, for any number of campaigns, references, time stamps, amounts, people, rows,
handlers in flight and requests, under the assumptions named in the modules. Those say that
amounts, limits and counters are naturals, that sentinels such as `NoTask` are not members
of the sets they stand beside, and beyond that only: the fee is a percentage and shares are
positive, as the code refuses others (`SettlementAssumption`); headcounts and budgets are
positive and categories and content types have a locked price (`PricingAssumption`);
platforms are numbers and every identity number on record belongs to somebody
(`ProfileAssumption`);
newcomers' reputation lies between the threshold and the top, as shipped
(`MarketAssumption`); users are finitely many and ordered by a number, pages and batches are
not empty (`BroadcastAssumption`); rejected titles are titles (`DraftsAssumption`); the
first SUPERADMIN exists (`AccountsAssumption`).

| Theorem | Says |
|---|---|
| `PaymentInvariant`, `PaymentTypes` | the inductive invariant of `Payment`, and its types |
| `PaidIsCharged` | a PAID row carries the reference of its own successful charge |
| `PublishedIsCharged` | no campaign leaves DRAFT uncharged |
| `NoDoubleCharge` | a campaign that is not excused is charged at most once |
| `SettlementInvariant`, `SettlementTypes` | the same for `Settlement` |
| `RefundsCharged` | refunds and promises of refunds rest on a charge |
| `RefundPaidOnce` | an undisturbed request is paid exactly once, when processed |
| `MoneyInvariant` | the money a settlement moved and the step its handler is at agree |
| `SettlementIsAtomic` | the settlement handlers implement `Escrow` |
| `CreatorGetsNoMore` | a campaign that never went astray gives back no more than what is left; `settlement_unspent` shows one that did |
| `ReviewInvariant`, `ReviewTypes` | the same for `Review` |
| `CampaignInvariant` | the same for `Campaign`: those of its two sides, and what ties them together |
| `CampaignKeepsBooks` | with contributors who work and are paid as in the code, `EscrowedSettlement`'s specification holds, hence `Escrow`'s and all that is proved of either |
| `CampaignReviewsWork` | with campaigns run by creators and administrators as in the code, `Review`'s specification holds, hence `Rewards`' and all that is proved of either |
| `WorkIsPaidFor` | who applied to, works for or was paid by a campaign does so on a charge |
| `MoneyOutWasMoneyIn` | payouts, refunds and promised refunds together stay within the budget, and within a charge that the creator paid |
| `NoMoreContributorsThanPlaces`, `NoMorePayoutsThanPlaces` | places are not oversold, nor overpaid |
| `PaidOnce`, `OnePayoutForContributor` | one payout for each approved submission, and for each contributor |
| `ReviewingIsAtomic` | the handlers of contributors and reviewers implement `Rewards` |
| `RewardsAreKept`, `VerdictsAreFinal` | what follows from `Rewards` alone: one payout for each approved submission and contributor, no more than places; no verdict is revised, no payout taken back |
| `RejectionReopens` | who was rejected may submit again |
| `WithdrawalInvariant`, `WithdrawalTypes` | the same for `Withdrawal` |
| `PaidOutCredited`, `LedgerNotOverdrawn` | no more is paid out than was credited; the ledger is not overdrawn |
| `WalletInvariant`, `WithdrawalIsAtomic` | the handlers of a withdrawal implement `Wallet` |
| `BooksBalance` | balance and payments are what was earned, but for what is known to be unrecorded; the balance never runs below zero; a request pays once |
| `OtpSpentOnce`, `RequestsRetired` | one transfer per request; one open request |
| `DefaultAccount`, `AccountLimit` | one default account; no more accounts than allowed |
| `PricingInvariant`, `PricingTypes` | the same for `Pricing` |
| `BudgetFitsPool`, `FullRatePaid` | budget is pool and fee; contributors get the locked rate of what was priced, which is the row's content type or null |
| `SharesSum`, `QuotesFunded` | shares add up to the pool within rounding; quoted places are funded, but for the one place that a budget below its price is quoted |
| `ProfileInvariant`, `ProfileTypes` | the same for `Profile` |
| `NinOwned`, `IdentityKept` | a verified number is nobody else's, the named person's where names are checked, and stays |
| `ApprovedLinked`, `DecidedRead`, `DecisionsStand` | an approved handle is the linked one and the one read; decisions stand |
| `RewardInvariant`, `MarketInvariant`, `MarketTypes` | the same for `Market`, in two parts |
| `PageTruth`, `OnlySuitableApply` | who was told to apply is not refused; only who suits by place, age, interests, platforms, gender and language comes to work |
| `ReputationEarned`, `EveryApplicationApproved` | reputation is what payouts added; as shipped, no application waits for an approval that no endpoint gives |
| `AccountsInvariant` | the same for `Accounts`, all matters interleaved |
| `PasswordKnown`, `CodeWorks` | the owner knows the password in force, unless somebody else set it; the code shown last works |
| `AuditTruth`, `ReferrerIsOne` | the audit log tells the status; row and referrals table name one referrer |
| `OneDispute`, `DecisionsStay` | one open dispute; decisions are final |
| `OptionsOfferedOnce` | options are offered once, and not again when removed |
| `BriefIsOfText`, `OffensiveTextUnscreened` | the brief is of the text; rejected text comes only by edits or while the moderator is out of reach |
| `BroadcastInvariant`, `AnnouncementHeardOnce` | each broadcast mails nobody twice and passes over nobody who stayed |
| `ListingInvariant`, `RowsSeen`, `ListingTypes` | who reads a list to its end has seen every row that was there at first; a reader holds rows of the list, a page at most |
| `OfficeTypes` | every row, list and handler of `Office`'s components has its shape, all of them interleaved |

**Payment.** The properties speak of rows, but rows are written by handlers from
what they read long before, so the invariant must say what a handler still knows
(`RequestsHold`): one about to mark a row PAID holds a reference that *is*
successful - a fact that cannot be undone, since Paystack never takes back a
success -, one about to activate a campaign knows it was charged, although the row
may no longer say PAID. `NoDoubleCharge` needs `SingleCheckout`: of a campaign that is
not excused, the only reference ever offered to the creator is the one in its row,
and an initiation in flight either reuses it or is the first. `RowsHold` closes the
loop (a FAILED row is excused, a REFUNDED one has left DRAFT and cannot be
initiated). There is one lemma per action, grouped by what it writes, and
`PaymentStep` puts them together.

**Settlement.** `SettlementInv` adds to `PaymentInv` that each handler in flight works for
a charged campaign (`DesksHold`), that each request names one (`TermsHold`), and that
the handlers filing an undisturbed request are at most one and hold its amount
(`FiledByOne`); `RefundHeldUntilProcessed` is not inductive without the last. The
bridge is `SettledRow`: the settlement's writes to the task row keep `PaymentInv`
because they only touch rows of charged campaigns, and `PaymentMovesStep`: a payment
step never un-charges one.

**Withdrawal.** `MoneyHolds` relates the three sums: what a verification past its balance
check is about to send is still covered, as long as no second one was in flight, and what
was sent is debited, about to be, or counted as lost. `OtpsHold` says which handler holds
which request, `RequestsHold` that a request about to be written finds no open one, and
`BanksHold` that a handler about to insert or to make default still sees the accounts as
it left them. Each part is kept step by step and needs the types only.

**Wallet.** Checking, marking, paying and debiting are four statements; that they are one
step to the owner needs `WalletInv`: `WithdrawalInv`, and that a handler verifying a
request still knows its amount (`Pursues`). At the transfer, `MoneyHolds` says that the
balance covers it: the only withdrawal in flight is this one, so that nothing is `Done` or
`Unfinished` before it (`NoneInFlight`) and its own amount is afterwards (`OneInFlight`).
`OtpsHold` says that no other handler pursues the request, so that it is closed by being
paid, unless it was verified twice. Most other steps concern no transfer and open no
request (`CloseBooks`). What `Wallet` promises is then proved of `Wallet` alone, action by
action (`SlipsKept`, `SumsKept`), and carried over (`BooksBalance`): a statement about the
ledger that knows nothing of handlers.

**Pricing.** `EditsHold` says that an update in flight carries budget, pool and fee of *one*
computation, or none of them, so that any order of writes leaves a row that agrees;
`ReadHolds` that an update that overlapped with no other still has the row it read, and that
the content type asked for is the row's or null. The
arithmetic facts (`SharesSum`, `QuotesFunded`) are lemmas on naturals of their own.

**Profile.** `PersonHolds`: the name that a verification read is still the name, because an
onboarding in flight means there is no name yet (the guard was passed before) and a name is
locked from the start; so the number claimed belongs to the name in the row at *that*
moment. Whether that name is the owner's hangs on `MatchesProfile`, hence on `Checked`.
`HandlesHold`: the handler that links is alone, and rows agree with the profile but for
those it has still to queue. `ReviewsHold`: a review in flight knows the handle of the row
unless that was submitted again, and a decided row has no second review. `DecidedIsRead` is
part of the invariant as it stands.

**Escrow.** Each action of `Settlement` is shown to be one step of `Escrow` under the
mapping, or a stutter: a payment step is `Price` or nothing, `ContributorPaid` is `Spend`,
`CreditRefund` is `GiveBack`, filing a request is `Hold`, `PayTermination` is `Release`,
and `FileTermination` is `Forgo` when nothing was credited. Where the campaign is strained
or its request disturbed, the step is `Stray`. What has to be known is `MoneyInv`: until
the first settlement of a campaign takes effect, every handler in flight holds the
budget in the row (before the sum), with nothing `missed`, or the rest of it (after),
because a payout it overlooks, and whatever changes one of them later, strains the
campaign. `CreatorGetsNoMore` is then proved of `Escrow` alone,
with `EscrowTypeOK` and `NoMoreThanLeft` as invariant, and carried over.

**Review.** The counting properties compare a cardinality with a number that was read some
steps before. `AppliesAlone` and `PaysAlone` say that a handler past its count, if it is the
only one at its campaign, still has room: the set it counted has not grown, since only such
handlers let it grow, and `mostPlaces` never falls; an insertion is one element more.
`JudgedAlone` says that a lone review finds the submission as it left it, and
`SubmitsAlone` and `Completes` tie an application to its submissions: all but the last are
rejected, and while the application is completed one of them is still to be judged, was
approved, or is about to reopen it - but for the overlaps and deaths in `raced`.

**Rewards.** `ReviewInv` is all the refinement needs: `SubmitsAlone` is the guard of `Make` at
the insertion, `JudgedAlone` that of `Judge` at the update and half of that of `Pay` at the
credit, `PaysAlone` the other half. A step that writes none of the three tables is
`Excuse`, whatever it records in `raced` (`NothingPromised`). `RewardsAreKept` and
`VerdictsAreFinal` are proved of `Rewards` alone: on each step of it `ClaimsKept`,
`OneAtATime` (of one person's claims on a campaign one at most is not refused) and
`RoomKept` are kept, as lemmas on plain values, and carried over (`PromisesKept`). The
second is an action property no run checks: a verdict that a reviewer alone has given is
never revised, and no payout is taken back.

**Campaign.** Every step of `Campaign` is a step of `Settlement`, or leaves its rows alone,
and a step of `Review`, or leaves that one's alone. For the first, `PayContributor` must be
`ContributorPaid`, which asks that the campaign was published: `WorkHolds` says so of
whoever applied, submitted or is about to, because applications need an ACTIVE campaign and
no row goes back to DRAFT. For the second, the theorems of `ReviewProofs` are instantiated
with `Live` for its variable (`Works`); where the status of a row changes, the step is
`ChangeStatus`. So `MoneyInv` and `ReviewInv` are kept, and `CampaignKeepsBooks` and
`CampaignReviewsWork` are the two refinements. `WorkIsPaidFor` is `WorkHolds` with
`PublishedWasCharged`. `MoneyOutWasMoneyIn` needs that the two sides count the same payouts:
`PaidHolds` says that what was paid lies between the least and the greatest share times the
number of paid submissions (`Shared`), and that a review about to pay finds its submission
unpaid (`Unpaid`, which makes one more payout one more paid submission) - `OneShareMore` and
`UnpaidStep` keep them. With no more payouts than places and `Funded`, the payouts fit the
budget (`BudgetShared`), and that refunds take no more than what is left of it is
`NoMoreThanLeft` of `Escrow`.

From the budget to the charge leads `PriceHolds`: of a campaign that was not repriced, what
a verification read of the row is still its price (`Prices`), so that the comparison with
Paystack's amount, passed before the row is marked, says that a successful charge covers
the price (`Covered`), and so it does of every campaign that is PAID or was published. A
charge never loses its success nor its amount (`ChargesFrozen`), so that only a new price
can undo this, and a new price of a charged campaign is what `repriced` records
(`PriceChanges`). Costs come from payouts or settlements, and both need a campaign that
was published (`WorkHolds`, `SettledHolds`).

**Market.** `Suits` says from the contributor's side what `Meets` computes, so that
`OnlySuitableApply` needs that the one implies the other (the age within a range, half of
the topics, the platforms by their newer names). `ApplierKnows`: unless it moved, an
application in flight has the campaign as it is, and what it was told or has checked of the
profile still holds. `RewardInv`: a lone payout in flight holds the score that all the
others added up to. Both are kept apart, as an application only reads the score: that it
never falls below what signup gave is all that `EveryApplicationApproved` needs.

**Accounts.** `MatterHolds` says, for each user and each matter (password, code, status,
referral) that did not stray: one handler at most works on it; when none does, the
account agrees with what its owner, the audit log and the referrals table say (`Clear`);
and the one that does finds that agreement before its write, and has written what it is
about to tell after it (`Due`). The matters concern different columns, so that a lemma for
each action and matter shows either that nothing of it moved or which of the three parts
takes over.

**Disputes, Options, Drafts.** A handler that has found no open dispute (no row of that name,
an open case) is alone or recorded; of option names the database's index decides, so that
nothing needs to be excused there. A save that ran alone knows that the text is the one of
its request merged with the row, which is the request when no field was left out.

**Broadcast.** Of each broadcast, the others being as they were, the cursor splits the users
(`CursorSplits`): nobody after it, and nobody left in the batch, was mailed; up to it
everybody loyal was, but for spilt mails. Reading a page keeps this because the cursor's
user is still there (`HeraldKnows`), so that `skip: 1` skips that user, and because a page
that is not full is all that is left (`FirstOfIsFull`, by counting; the least and the
greatest of a finite set come from well-foundedness of strict inclusion).

**Listing.** As long as no row leaves, the rows listed at first are the last ones of the
list, in the same order, however many came in front (`StartIsLast`), and what the two
queries of a page brought is still what they would bring (`PagesHold`; a row that comes
between them is the excuse). Those of the rows at first that lie on the pages before the
reader's were seen: a row that comes moves them to later places, so that they are seen
again rather than missed. At the end the pages reach the end of the list
(`PagesReach`, which is what rounding the number of pages up is for).

What a reader holds of a list (`ReaderHolds`) keeps its shape because a slice of a list is a
list (`SliceIsList`) and so is a list filtered in memory (`FilteredIsList`), for which the
`k`-th of a finite set of places has to exist (`PlaceIsThere`, from `FirstOfIsFull`).

**Office.** A behaviour of the components side by side is one of each of them, so that the
shapes of all rows (`OfficeTypes`) follow from the invariants of each.

Only model-checked: `ChargeRecognised`, as liveness under fairness is out of the prover's
reach, and so is ENABLED; and of course the violations. Every other property that a run
checks is a theorem.

## 5. What is not modelled

- A wallet credit is one step here. `wallet.credit` reads the balance and appends a row;
  only `balanceAfter`, which no guard reads (`calculateBalance` sums the rows), depends on
  that order.
- The fallbacks of `resolveRequiredContributorSlots`, unreachable because the column is
  never null.
- The cool-downs of profile fields, which are off as shipped and would only refuse; the
  profile fields that guard nothing.
- Campaigns of an older price scheme, whose charge is not the budget
  (`resolveChargeBreakdown`'s second branch): amounts here are what the creator pays.
- `publishTask`'s checks of the brief's completeness, and e-mail verification of creators:
  they only refuse. Dates likewise.
- `Review` and `Market` both model `applyForTask`, for different questions: there the
  places, here the requirements.
- The share of a payout in `Settlement` and `Campaign` is any member of `Shares`, not
  computed from pool and places: that arithmetic is `Pricing`'s, and keeping the two apart
  makes the money theorems hold for whatever the row gives.
- How texts are taken apart (age ranges, topics, other names of places): `Market` has the
  outcome, and which text contains which is a parameter.
- Reputation settings other than those shipped: with a threshold above the score of
  newcomers their applications would wait for good, as no endpoint approves one.
- Passwords and codes as strings, hashing, token formats: secrets are names. The social
  verification code of an account.
- Withdrawing referral earnings: nothing is ever earned, since `processReferralReward` has
  no caller, so `withdrawFromReferral` always refuses.
- Fields of rows that no other handler reads: texts, media, time stamps.
- Code without a caller: `syncAfterLink`, `wallet.debit`, `wallet.transfer`,
  `overrideVerification`, `verifySubmissionAsync`, `processReferralReward`,
  `verifyLedgerIntegrity`, `decreaseReputation`, `filterTasksByUserRequirements`.
- Reads that nothing rests on: analytics, reports, recommendations, statistics, details of
  users, cards and similar tasks.
- Best-effort I/O: single e-mails, notifications' rows, uploads, what an AI writes.

## 6. What could follow

**Work and wallet**: `Campaign`'s payouts and refunds as the credits of `Withdrawal`, for many
campaigns and users; theorem: no more leaves Leviate's account at Paystack than creators
were charged.

**Budget and price**: `Pricing`'s edits in `Campaign`, so that `Funded` is proved of campaigns
whose edits did not overlap rather than assumed.

Every module takes its sets and bounds as CONSTANTS with named assumptions, has one
action per statement that touches shared state, states its invariant as a conjunction
of named parts, and uses no RECURSIVE operator, so that it can be proved about as
well as checked.
