# Agxora: a verification development

TLA+ models of the parts of Agxora where requests, workers and outside services
meet over rows that no single transaction spans, checked with TLC and, where it
matters most, proved with TLAPS. The code is the active application under
`agxora-v2/` (a Next.js server over PostgreSQL, Prisma at its default isolation,
Read Committed). Paths below are relative to `agxora-v2/`.

## 1. The system

| Component | State | Operations | Interacts with |
|---|---|---|---|
| Creative publish request, `app/lib/creative/publish.ts`, `publishIdempotency.ts` | one attempt row per publish job (unique), with a TTL while in flight | acquire / reclaim / replay, upload or open an upload session, complete the attempt, write the result | Agent OS document, YouTube, upload sessions |
| Creative publish worker, `publishWorker.ts`, `youtubeUploadSession.ts`, `reconcilePublishLifecycle.ts` | one upload session per attempt: offset, lease, TTL | expire, reconcile, claim, send chunks, complete or fail | as above; started by a scheduler every five minutes, and by a second one if configured |
| Publish status, `publishStatus.ts` | none of its own | read, and repair a dead upload | the same rows |
| Agent OS document, `app/lib/agents/persistence/service.ts` | one JSON document per organization | read whole, write whole | every agent feature |
| Governed executions, `app/lib/agents/governedExecutionDb.ts`, the customer email route | a row per idempotency key; evidence rows | claim, reopen, mark ambiguous, complete, fail, evidence | billing allowance, email provider, CRM |
| Billing allowance, `app/lib/billing/enforce.ts`, `executionPolicy.ts`, `seatPolicy.ts` | the subscription row, counts of rows | allow an execution, allow a seat | governed executions, control plane |
| Business facts, claim gate, `app/lib/marketing/` | rows of the same table; facts in the document | confirm a fact, record a check | governed executions |
| Control plane, `app/lib/control-plane/service.ts`, `app/lib/tenancy/` | organization, workspaces, memberships, invitations, transfers | change and remove members, invite, accept, create and archive workspaces, transfer ownership | billing seats, auth sessions |
| Finance, `app/lib/finance/persistence/` | delivery notes and their lines, invoices, links, idempotency keys, number sequences | create and update a note, delete a line, bill notes | the customers of the CRM |
| Billing, `app/lib/billing/` (checkout, cancellation, webhooks) | the subscription row, stored events, checkouts | start a checkout, change the plan, cancel, process an event | Stripe; the row is what the billing allowance reads |
| Auth server, `app/lib/auth/server/` | users, sessions, reset and verification tokens | sign in, refresh, revoke, reset | control plane |
| Instagram publish, `app/lib/marketing/instagramPublishServer.ts` | governed rows | publish with retry | Instagram, claim gate |
| Platform authorization, `app/lib/platform-authorization/` | a grant with its permissions per workspace and provider; the flags of the connection | save, finalize, revoke, automatic publishing on and off | social accounts, campaigns |
| Social accounts and OAuth, `app/lib/social/credentials.ts`, `oauth/` | a credential per organization and platform, OAuth states | issue and consume a state, store, use, refresh and revoke tokens | Google; platform authorization |
| Business agent, `app/lib/business-agent/` | campaign items, the agent's mode, plans and runs | approve, reject and execute an item | platform authorization, Gmail, YouTube |
| CRM, projects, rate limiting, guardian, data rights, integrations, client engines, chat, UI | see `PROJECT.json` | | |

What is hard in it:

* **Overlap.** Every handler reads, awaits and writes by id. Two requests, two
  worker runs (the documents allow a scheduler "instead of or in addition to"
  another, `docs/agent-growth-phase66.md:56`), or a status read and a worker meet
  between a read and the write decided by it.
* **Three places for one outcome.** A publish is recorded in the attempt, the
  session and the document, in three statements; a process can die after each.
* **The document** is written whole from a copy read before an upload.
* **Answers that do not come** from YouTube and from the email provider.
* **Leases and TTLs** that pass while their holder is still at work.
* **Limits** (executions per period, seats) counted before an insert.
* **Row locks** that one transaction takes (`FOR UPDATE` when notes are billed) and
  another does not ask for before it decides (an edit checks the status first).
* **An account in four rows** (credential, grant, connection, OAuth state), each written
  by its own statement while a consent, a disconnect, a refresh and an execution of a
  campaign item are under way.
* **Events of the payment provider** that arrive late, twice, out of order and at the
  same time, with times of a second's resolution.

What makes each component correct:

* publish: nothing says published without a confirmed video; a job makes one video
  unless its lock expired under its holder; a published result is named by its
  session; an attempt that waits is settled in the end;
* governed execution: one key sends one message unless an answer was lost; what is
  recorded as completed was sent; a period's allowance holds under concurrency;
* control plane: one owner per workspace, and the organization's owner is one of
  them; one open transfer, one pending invitation per person; seats within the plan;
  some workspace is left;
* finance: a note is billed once; numbers have neither gaps nor repetitions; a total is
  that of its lines; an idempotency key stands for one invoice;
* billing: access is only what the provider reported; an event counts once; when all of
  them have been processed, in whatever order, the row says what the subscription the
  provider told of last says;
* accounts and campaigns: an approved item is posted once; what is shown as published was
  posted; stored tokens are those of the account they are kept for; what the customer
  withdrew does not come back without the customer.

The full list of hazards, with the line at which each bites and the properties that
would notice, is in `PROJECT.json`.

## 2. Modules

| Module | Models |
|---|---|
| `PublishStore` | the attempt, session and project rows and the pure decisions about them |
| `PublishRequest` (extends it) | `publishCreativeForActor` from its first read to its last write, YouTube, and another writer of the document |
| `PublishWorker` (extends it) | the worker runs, the status reads, the passing of time; the composition is `Spec`, with fairness `LiveSpec`; all publish properties |
| `MCPublish` | symmetry for TLC |
| `PublishProofs`, `UploadProofs` (extends it) | theorems about `PublishWorker!Spec`: what is published; uploads, sessions and the lock |
| `SendOnce` | abstract: what a governed email promises |
| `GovernedExecution` | the governed rows, the subscription and the requests of one organization; implements `SendOnce` |
| `MCGoverned`, `GovernedProofs` | instance for TLC; theorems |
| `ControlPlane` | the control plane of one organization |
| `MCControl`, `ControlProofs` | instance for TLC; theorems |
| `Ledger` | abstract: what billing promises of notes and invoices |
| `FinanceBilling` | the notes, invoices, keys and sequences of one workspace and year and the requests on them; implements `Ledger` |
| `MCFinance`, `FinanceProofs`, `LineProofs` (extends it) | instance for TLC; theorems about numbers, keys and bills; about lines and totals |
| `BillingEvents` | the subscription row of one organization, Stripe, checkout and cancellation requests, webhook requests |
| `MCBilling`, `BillingProofs` | instance for TLC; theorems |
| `Campaigns` | one external account of a workspace and one campaign item that is posted to it, Google, and the requests on both |
| `MCCampaigns`, `CampaignProofs` | instance for TLC; theorems |

### Publishing

`attempt`, `session`, `os` and `youtube` are functions of the job: the attempt is
unique per job and the session unique per attempt, and a creative is bound to one
job. `req[r].pc` and `run[w].pc` say at which await a request or a run stands; a
step is the code from one await to the next, so that all interleavings of database
statements and provider calls are there. A request keeps the document it read
(`seen`) until its last write, as `state` in the code is passed to
`persistPublishResultForActor`. The correspondence:

| Action | Code |
|---|---|
| `LoadState` | `publish.ts` 195-289, the early replays included |
| `AcquireCreate`, `AcquireExisting`, `Reclaim` | `publishIdempotency.ts` 203-255: create, or read and decide, then a second statement |
| `FindUnavailable` | the checks with the lock held, 334-385 |
| `UploadSync` | `publishCreativeToYouTube` |
| `OpenSession`, `OpenSessionFails`, `AsyncFault` | the asynchronous branch and its catch, 387-484 |
| `CompleteAttempt`, `PersistResult` | the two final writes |
| `ExpireStale`, `ListDead`, `NextDead`, `FindDue`, `ClaimDue` | the worker before its loop |
| `NextSession` ... `RecordSuccess` | `processYouTubeUploadSession` |
| `ReadTermState`, `ReadTermAttempt`, `TerminateAttempt`, `PersistTerminal` | `persistTerminalCreativePublishForSession`, shared by the worker, the reconciliation and the status read |
| `PollState`, `PollAttempt`, `PollSession` | the status read |
| `PatchRead`, `PatchPut` | `patchSocialAccountConnectionForActor`, standing for every other writer of the document |
| `AttemptLapses`, `LeaseLapses`, `SessionLapses` | the clock |

Time is three flags: the expiry of a row has passed or has not, and may pass
whenever it is asked for. A byte offset is a number of chunks. `createdAt` is the
order in which sessions were made. The reasons for a failure are kept as far as the
code compares them. `PromptRequests` assumes that the few statements of a request
after it opened a session are done before the last chunk of that session is sent: an
asynchronous asset is 10 MiB or more, a chunk 256 KiB and a run sends four every five
minutes. The runs that assume it set it in
their cfg; `publish_workers` does not assume it.

### Governed executions

A slot of `Slots` is one server request at a time and serves any number in
succession. The allowance check and the insert are one step because the
subscription row is locked for the transaction; where there is no subscription there
is no limit either. `Counted` and `InPeriod` are the query of `executionPolicy.ts`
23-40; `sub` is what the webhooks leave in the subscription, changed at will by
`Subscribe`, `Lapse` and `Renew`. `lost` is a history variable: how often a
provider took a message whose answer never came, which `email/providers/http.ts`
70-72 reports as an ordinary failure.

### Control plane

Each operation is a check (`ChangeMemberRole`, `CreateInvitation`, ...) and a write
(`SetRole`, `InsertInvitation`, ...), because the code checks, then updates by id;
the write uses what the check found. `Resolve` fixes the caller and the role the
checks believe in. `Join` and `HandOver` are the transactions that write several
rows. `Abandon` is a request that dies between the two. With one slot the steps of
two requests do not interleave; with two they do.

### Finance

A slot of `Slots` is a request, which reads and then runs one transaction. A statement
is one step: it sees what is committed, waits for the row locks it needs and acts on
the rows as they are then. What a transaction has written becomes visible with its
last step; the locks it holds follow from how far it is (`HeldNotes`, `HeldLines`,
`HeldKeys`), so that a step that needs a lock has the guard `NoteFree` or `LinesFree`.
A statement takes its locks together; a deadlock of two transactions is one of the
aborts (`Abort`).

| Action | Code |
|---|---|
| `NumberNote`, `CreateNote` | `createDeliveryNoteForActor`, `nextDocumentNumber` |
| `UpdateNote`, `ScanLines`, `ClearLines`, `WriteNote` | `updateDeliveryNoteForActor`: the check, the two halves of `deleteMany`, the update |
| `DeleteLine`, `TakeLine`, `CountRest`, `Renumber`, `WriteTotal` | `deleteDeliveryNoteItemForActor` |
| `BillNotes`, `FindKey`, `InsertKey` | `billDeliveryNotesForActor`: the ids, the idempotency key |
| `LockNotes`, `ReadNotes`, `ReadLines` | `loadLockedNotes`: `FOR UPDATE`, then the rows, then their lines |
| `NumberInvoice`, `CommitBill` | the number, the invoice, its links, the marks and the key |

A line is its id and its position and a total the set of the lines it sums. A note may
be written over by an edit that was checked before it was billed; that is what
`FrozenWhenBilled` says of the documentation and what `finance_frozen` shows.
`Updaters` are the slots that serve updates of a note: two updates of one note that
overlap insert the lines of both and keep the total of one (`TotalsAgree` fails with
two updaters, listed among the hazards), so the run that checks the rest has one.

### Billing

`stripe` is the provider (external): a session, and the subscription it leads to. A first
payment may be made at once, or start and be made later (`PaymentStarts`, `Pay`), or fail
any number of times and never be made (`FirstPaymentFails`, `Lapse`); a renewal may be
missed, left unpaid, made up for or end the subscription (`Renew`, `PaymentFails`, `GiveUp`,
`Delete`). Every change it makes is appended to `events`, with its time. The log is
never emptied: a webhook request (`Hooks`) takes any event of it, so events arrive in
any order, any number of times, at once or never. `Expand` asks the provider for the
subscription of a completed checkout, as its event does not carry it; `FindEvent`,
`FindExpanded` are the two reads of `processStripeWebhook`, with the decision of
`reduceBillingEvent` (`Applies`, `Reduced`), and `StoreEvent` is the insert whose unique
key rejects a second delivery, the save and the commit. `DecideCheckout`,
`ChangePrice`, `CreateSession`, `StoreCheckout` are `startCheckout`;
`DecideCancellation`, `CancelAtProvider`, `CancelStore` are `cancelSubscription`, whose
last step writes a flag into a row it read two awaits before. `raced` is a history
variable: a webhook saved a row over one it had not read.

The organization has one row, and `reduceBillingEvent` writes every event into it,
whichever subscription the event is of (`providerEvent.ts:248`, `303-311`, `350`). Where an
organization leaves a session half paid, buys through a second one, and the first then
expires or reports a failed payment, the row becomes EXPIRED or PAST_DUE and the access that
is being paid for is gone. Likewise `cancelSubscription` sets its flag on whatever row there
is by then. So what holds when every event is in (`AgreesWhenSettled`) is not that the row
agrees with the subscription that is paid but that it agrees with the one the provider told
of last, in access, name, plan, end and cancellation. With one subscription the two are the
same. The property says nothing where a webhook saved over a row it had not read (`raced`),
nor where a payment of another subscription, or of one that is still incomplete, failed
(`FailsOnly`): such an event only marks the row there is, and is forgotten if there is none.

### Accounts and campaign items

`provider` is Gmail or YouTube, whose paths differ only where the code's do: a video is
claimed where it is still approved and an email by id, automatic publishing exists for
YouTube, and sending an email asks for the permission twice. `cred`, `grant`, `allowed`
and `item` are the four rows. A consent is a number: it stands for the OAuth state, for
the account the customer chooses at Google and for the tokens the code leads to, so that
`cred.tokens` says whose tokens are stored and `cred.owner` which account the row names.

| Action | Code |
|---|---|
| `BeginConnect`, `SaveGrant`, `IssueState` | `savePending` (the connection, then the grant), then `issue` of `oauth/state.ts` |
| `FindState`, `ConsumeState`, `ExchangeCode`, `StoreTokens` | the callback: `consume`, the exchange of the code, `upsertCredentialForActor` |
| `ReadGrant`, `FinalizeGrant`, `FinalizeConnection` | `finalize`: the read, and the two updates |
| `Disconnect`, `RevokeGrant`, `CancelItems` | `revokeCredentialForActor`, then `revoke` |
| `UpdatePermission`, `CheckAutoOn`, `WriteAutoOn`, `WriteAutoOff` | `updatePermissionsForActor`, `setAutomaticPublishingForActor` |
| `CheckApproval`, `WriteApproval`, `CheckRejection`, `WriteRejection` | `approveCampaignItemForActor`, `rejectCampaignItemForActor`: the check, and the write by id |
| `ReadItem`, `PassGates`, `ReloadItem`, `ClaimVideo`, `ClaimEmail` | `executeCampaignItemForActor`, the gates, and the claim of the provider's path |
| `TakeToken`, `StoreRefreshed`, `InvalidGrant` | `getValidAccessTokenForActor` |
| `Post`, `GiveUp`, `RecordPublished`, `RecordFailed` | the call of Google, and what is recorded of it |

The mode of the agent, whether a token has expired, which scopes Google granted and what it
answers are chosen freely. `before` and `word` are history variables: the consents asked for
when the grant was last revoked, and what the customer last said of automatic publishing.
So is `late`: it names the kinds of writes by id that fell on a row which was no longer as
it had been read (`approval`, `claim`, `refresh`, `finalize`), and `death` of a request that
held the item. The properties are exact about them: each says what holds, and which one kind
of late write is the exception, so that everything else is shown not to break it.

## 3. Runs

| Run | Bounds | Shows |
|---|---|---|
| `publish_requests` | 1 synchronous job, 3 requests that may die, 1 other writer | `PublishedIsConfirmed`, `DuplicateNeedsReclaim`, `SuccessUndoneByReclaim` hold |
| `publish_workers` | 1 job of 2 chunks, 1 request, 2 runs that may die, 1 chunk a run | the type invariant, `PublishedIsConfirmed`, `OneVideoPerAsyncJob`, `PublishedHasEvidence`, `UploadingIsBacked` hold |
| `publish_liveness` | 1 job of 2 chunks, 1 request that may die, 1 run, 1 client | `AttemptSettles` holds under `LiveSpec` |
| `publish_success_overwritten` | 2 runs, nobody dies | `SuccessIsFinal` fails |
| `publish_reconcile_starves` | 2 jobs, 1 session a run | `AttemptSettles` fails |
| `governed` | an email, a note, a fact, a check; 2 slots; limit 1; 2 periods; 1 lost answer | type invariant, `ResentOnlyIfUnheard`, `CompletedIsSent`, `QuotaHolds`, `SendsOnce` hold |
| `control_serial` | 3 users, 2 seats, 2 workspaces, 2 invitations and 2 transfers, 3 of them made, 1 slot | seven invariants hold for requests that do not overlap |
| `control_owners` | the same, 3 seats, all 4 rows, 2 slots | `OneOwner` fails |
| `finance` | 2 notes, 2 customers, 3 lines, 1 chosen key beside the default ones, 2 slots of which 1 updates | type invariant, `TotalsAgree`, `NoteKeepsLines`, `NotesNumbered`, `KeyNamesInvoice`, `BillsOnce` hold |
| `finance_frozen` | 1 note, 2 slots | `FrozenWhenBilled` fails |
| `billing` | 2 sessions, 2 plans, 1 clerk, 2 webhooks, 2 periods, 4 events, or 5 of one session; 2 requests at a time while there is one session | type invariant, `AccessIsReported`, `AgreesWhenSettled`, `EventsCountOnce`, `OlderIgnored` hold |
| `campaigns` | 1 account, 1 item, 2 slots, 2 consents, 2 posts, 1 kind of late write in a behaviour | type invariant, `PostedOnce`, `PublishedIsPosted`, `PublishingIsHeld`, `TokensBelong`, `RevokedIsOlder`, `AutomaticIsSaid`, `OnlyCallbackRevives` hold |

Why the bounds are enough to be interesting. Three requests are the least in which
one holds a lock, one found it stale and a third reclaims it. Two chunks are the
least in which a run can stop between the first and the last; two runs the least in
which one takes the lease of the other; the chunk budget of one forces every upload
over several runs. Two jobs and a limit of one session are the least in which one
session waits behind another. Two slots let one request act on a
decision while another claims, fails, reopens or completes the same key (the theorems
below hold for any number); the limit of one with four keys is passed by any race. Three users and two seats give an owner, a member and one too many; two
workspaces are the least in which one may be archived and a person sit in both.
Two invitations and a transfer
fill the seats while ownership moves; two transfers and an invitation let ownership move
back. Two notes are the least that an invoice bills together and two requests then bill
apart; three lines the least of which one is deleted from the middle. Four events are the
least in which a payment (two events), a change and a renewal or a failure arrive in
every order, and an abandoned session expires beside one that is paid; a fifth one is needed
for a subscription to be left unpaid. Two webhooks are the
least that deliver one event at once. In the `billing` run `OverlapBound`, a constraint,
lets two requests overlap, webhooks or the clerk's, while there is one session and fewer than
five events: otherwise one request is under way at a time, in any order, and the fifth event
is only of one session. That more requests overlap, or over two sessions, is in the theorems
but not in the run. `MaxLines`, `MaxPerNote`, `MaxNow` and `MaxEvents` are bounds in guards, as
are the following. `MaxPeriod` and `MaxLost` bound the only counters, in the guards of `Subscribe`,
`Renew` and `Send`; `MaxRows` bounds the invitations and transfers that are made. Two
consents are the least with which an account is replaced by another, or the first consent
is completed after the second or after a revocation; two posts the least that break
`PostedOnce`; two slots the least in which a write falls on a row changed since it was
read. `MaxConsents` and `MaxPosts` bound the two counters, in the guards of `BeginConnect`
and `Post`; `MaxLate` bounds the kinds of late writes (`Noted`): with one kind at a time
each exception is met alone, which is what the properties distinguish, and the theorems
hold for any mixture.

The four failing runs are disagreements between the repository's own statements and
what its code does; `PROJECT.json` quotes each statement. They are:

1. *Success overwritten.* A run decides with a copy of the attempt whether a terminal
   outcome has been recorded.
2. *Reconciliation starves.* The dead sessions are listed oldest first and
   reconciled ones never leave the list.
3. *Two owners or none.* Roles are written by id after the check.
4. *A billed note is rewritten* by an update or the deletion of a line whose check of the
   status came before the note was billed: the write is by id.

### Fairness

`LiveSpec` is used by `publish_liveness` and `publish_reconcile_starves`. It asks for
weak fairness of the steps of each request (a server that has not died goes on), of
the steps of each worker run (the scheduler
`.github/workflows/creative-publish-worker.yml` calls it every five minutes, and a run
ends), and of the leases and TTLs of sessions (clocks go on). It asks nothing of
clients, of other writers, of crashes, nor of which answer YouTube gives. Worker runs
do not crash in these two runs: a run that dies between `CompleteSession` and
`RecordSuccess` leaves an attempt that no later run looks at, which is listed among
the hazards.

### Deadlock

Where a cfg switches the check off, it says why: requests are made once and the system
rests when they are answered, the subscription may lapse for good, or the last
workspace was archived.

## 4. Proofs

All theorems hold for every value of the constants that satisfies the named
assumptions of the modules (finite non-empty sets of jobs, finitely many requests of
publishing, disjoint kinds of keys, natural limits, a finite set of notes, finite sets of
users, workspaces, invitations and transfers). Every property a run checks is stated by
one of them, but for `AttemptSettles`. Where a statement has a hypothesis besides `Spec`
the property fails without it, and the paragraph on the component says how.

| Theorem | Statement |
|---|---|
| `PublishProofs!TypeCorrect` | `Spec => []TypeOK` |
| `PublishProofs!PublishedCorrect` | `Spec => []PublishedIsConfirmed` |
| `UploadProofs!AsyncJobsMakeOneVideo` | `Spec => []OneVideoPerAsyncJob` |
| `UploadProofs!WaitingHasSession` | `Spec => []UploadingIsBacked` |
| `UploadProofs!PublishedIsNamed` | `Spec => []PublishedHasEvidence` |
| `UploadProofs!DuplicatesAreReclaims` | `Spec => []DuplicateNeedsReclaim` |
| `UploadProofs!SyncSuccessNeedsReclaim` | `Spec =>` no recorded success of a synchronous job is undone before a reclaim |
| `UploadProofs!AmongRequests` | `AsyncJobs = {} /\ Spec => SuccessUndoneByReclaim` |
| `UploadProofs!SuccessNeedsReclaim` | `Spec /\ [][RunsLeaveAttempts]_vars => SuccessUndoneByReclaim` |
| `GovernedProofs!TypeCorrect` | `Spec => []TypeOK` |
| `GovernedProofs!NotResent` | `Spec => []ResentOnlyIfUnheard` |
| `GovernedProofs!CompletedCorrect` | `Spec => []CompletedIsSent` |
| `GovernedProofs!QuotaCorrect` | `Spec => QuotaHolds` |
| `GovernedProofs!ImplementsSendOnce` | `Spec => SendsOnce` |
| `ControlProofs!ControlTypes` | `Spec => []TypeOK` |
| `ControlProofs!ControlWhileFresh` | `Spec /\ []AllFresh =>` all six rules, always |
| `ControlProofs!ControlOneOwner` | `Spec /\ []NoOverlap => []OneOwner` |
| `ControlProofs!ControlOwnerIsAnOwner` | `Spec /\ []NoOverlap => []OwnerIsAnOwner` |
| `ControlProofs!ControlOneIsPending` | `Spec /\ []NoOverlap => []OneIsPending` |
| `ControlProofs!ControlSettledOneWay` | `Spec /\ []NoOverlap => []SettledOneWay` |
| `ControlProofs!ControlSomeWorkspaceStays` | `Spec /\ []NoOverlap => []SomeWorkspaceStays` |
| `ControlProofs!ControlSeatsHold` | `Spec /\ []NoOverlap => []SeatsHold` |
| `ControlProofs!ControlSeatsWhileOwnersStay` | `Spec /\ []OwnersStay => []SeatsHold` |
| `ControlProofs!ControlOneSlot` | one slot `/\ Spec => []NoOverlap` |
| `FinanceProofs!TypeCorrect` | `Spec => []TypeOK` |
| `FinanceProofs!NumbersCorrect` | `Spec => []NotesNumbered` |
| `FinanceProofs!KeysCorrect` | `Spec => []KeyNamesInvoice` |
| `FinanceProofs!ImplementsLedger` | `Spec => BillsOnce` |
| `LineProofs!TotalsCorrect` | `Spec /\ []OneUpdate => []TotalsAgree` |
| `LineProofs!NotesKeepLines` | `Spec /\ []OneUpdate => []NoteKeepsLines` |
| `LineProofs!OneUpdater` | one updater `/\ Spec => []OneUpdate` |
| `BillingProofs!TypeCorrect` | `Spec => []TypeOK` |
| `BillingProofs!AccessCorrect` | `Spec => []AccessIsReported` |
| `BillingProofs!EventsOnce` | `Spec => EventsCountOnce` |
| `BillingProofs!OlderCorrect` | `Spec => OlderIgnored` |
| `BillingProofs!AgreementCorrect` | `Spec => []AgreesWhenSettled` |
| `CampaignProofs!CampaignTypes` | `Spec => []TypeOK` |
| `CampaignProofs!CampaignPostsOnce` | `Spec => []PostedOnce` |
| `CampaignProofs!CampaignStatusHolds` | `Spec => []PublishedIsPosted` |
| `CampaignProofs!CampaignPublishingIsHeld` | `Spec => []PublishingIsHeld` |
| `CampaignProofs!CampaignTokensBelong` | `Spec => []TokensBelong` |
| `CampaignProofs!CampaignRevokedIsOlder` | `Spec => []RevokedIsOlder` |
| `CampaignProofs!CampaignAutomaticIsSaid` | `Spec => []AutomaticIsSaid` |
| `CampaignProofs!CampaignRevival` | `Spec => OnlyCallbackRevives` |

*Publishing.* `PublishedIsConfirmed` speaks of the stores; it is not inductive,
because every store is written from local copies that may be old. `Honest` adds that
whatever any actor carries is honest too: every copy of the document (`BlobHonest`),
every result on its way (`ReqHonest`, `RunHonest`), every attempt row in hand names
only videos that exist, and a run that is about to complete a session holds a video.
Videos only grow in number, so a copy that was honest stays honest; that is the one
argument each step needs besides the rows it writes.

*Uploads.* `Sound` adds the sessions: a session, once made, stays; its URL makes one video,
which is therefore the video 1, and every published result of an asynchronous job that
anybody carries is of a session that already says so (`Named`). The run that completes a
session is the one exception: it holds the result before the row does. From this
follow one video, the session behind a wait and the name behind a report.
The videos of a synchronous job are an account: `VideosLocked` says that its videos and
the requests that hold the lock and may still upload are no more than the takings of the
lock, of which `LockSound` allows one by creation, so that the others are reclaims.
A success is undone by a request only with a reclaimed lock, because until then
nobody is at work on a job that succeeded (`SuccessAtRest`). A worker run can undo a success of
an asynchronous job with an old copy of its attempt (`publish_success_overwritten`), so
`SuccessUndoneByReclaim` is proved for synchronous jobs beside anything else, since
runs and status reads settle only jobs with a session (`RunsOnUploads`); for all jobs
where none is asynchronous, which is the instance of `publish_requests`; and for all jobs
of any kind in behaviours in which runs and status reads leave the attempts alone.

*Governed executions.* `ResentOnlyIfUnheard` is not inductive either: that a second
send does not happen depends on who holds the claim. `GovInv` says, for each key,
that at most one slot stands between the claim and its end; that while one does the
row is EXECUTING or AMBIGUOUS; that the messages sent are the lost ones or one more,
the lost ones while the row is new or FAILED and while the holder has not heard of an
acceptance, one more once it has and when the row is COMPLETED; and that evidence, or
a slot about to write it, implies a COMPLETED row. Every conjunct of
`CompletedIsSent` and the refinement of `SendOnce` follow from it. The quota needs counts: the only steps that add a metered
row to the period are those guarded by `Allowed`, and the lemmas about `Cardinality`
say that a step which adds at most one row to a count under the limit stays within it.

*Control plane.* No rule of it survives two requests that overlap (`control_owners`), for
every operation is a check and a later write by id. The argument is therefore in two
steps. `Fresh` says what each request has established: that the member it demotes or removes does
not own, that another workspace is left, that nobody else is invited, that the two people of a
transfer are still owner and member. A write keeps all six rules as long as its request
is fresh, however many others are under way (`ControlWhileFresh`): that is the list of
what a lock would have to guard. And when requests do not overlap (`NoOverlap`) they are
fresh, because nothing is written between the check and the write but expiries, which
disturb none of it. `ControlOneSlot` ties this to the run: one slot cannot overlap with
itself. The invariant besides the rules is `MadeFirst`: nobody is in a workspace that was
not made yet, and no invitation or call is to one. The seats are checked under
a lock, and two acceptances cannot take the last one together: `ControlSeatsWhileOwnersStay` needs only
that whoever creates a workspace as its owner is in the organization still (`OwnersStay`).
Without that, an owner who handed over and was removed between the check and the write is
back in with a new workspace, over the limit.

*Finance.* That a note is billed once follows neither from its status, which an edit may
reset, nor from the lock alone: `CommitBill` gives up when a link exists, and what the
request in hand decided must still be true when it commits. `FinInv` therefore adds to
the type invariant that the lines of a note are finitely many, that the
invoice number in every link and key is below its sequence (`Below`), the two properties
themselves, what each request in hand has established (`InHand`:
a request that holds a key finds none stored for it, one that holds the number has the
next one), and that two requests are apart (`Apart`: no two hold the same key, or the number of one
kind of document). It holds for any number of requests and
updaters.

The lines need the positions. Of two requests that delete the last two lines of a note, each
counting the other's as left, one deletes the earlier line, and closing the gap it leaves
means moving the later one, which the other has locked: it waits, and then finds the row
gone and gives up. The argument holds only if positions have no gap, so `InOrder` (ids and
positions are unique, and positions are ranks) is part of `LinesKept`, beside what each
request still knows (`Holds`) and that locked lines are apart. Two updates of one note break
`InOrder`: both insert lines from position 1. That is why `TotalsAgree` and `NoteKeepsLines`
are proved, and checked, while two updates of a note do not overlap (`OneUpdate`);
deletions, billings and updates of other notes overlap as they like. `OneUpdater` shows that the
run, in which one slot serves updates, satisfies that.

*Billing.* The row is granted by an event, but at the time it is saved the event was read
long ago. `BillInv` says that every event carries a subscription that had been sold, that
each subscription that is active, or was ended, at the provider is backed by an event with
its end (`Backed`), and that a row, stored or in a webhook's hands, is `Granted`: access it
gives is in the log. The log only grows, so what is granted stays so.

That the row agrees with the provider when all events are in needs to name the event that
decides: one that carries the present state of the subscription told of last, and that no
event as young as it contradicts (`Latest`). `AgreeInv` says that there always is one, that a
row as young as it says what it says, and that once it is stored the row is as young,
whatever arrives before or after it, as long as no webhook wrote over a row it had not read.
When everything is stored so is that event. Events of other subscriptions are older, or tell
the row nothing (`Tells`); a failed payment of another one could be younger, which is why
`FailsOnly` is a condition of the theorem. Which subscription is told of last changes with
the provider's next report, and then the new report is the event that decides.

*Accounts and campaigns.* Every part of `CampaignInv` says what the requests under way may
still do to the rows. `CredInv`: the stored tokens are of the account the row names as long
as no refresh came late, and a revoked row is empty. `ConsentInv`: while
the grant is revoked, every consent whose state was issued or used, or is about to be, was
asked for before the revocation, because `SaveGrant`, which every later consent passes first,
takes the grant out of that status; and the account of the row is one of these. `ItemInv` is about who may post: without a
late approval or a late claim of an email, one slot at most stands between the claim and the
record of the outcome, none does while the item waits or is approved, and nothing has been
posted while one may still post (`OnePoster`). Every step that is not one of the item's keeps
it by one lemma, since it neither claims nor posts (`LeavesItem`).

What stays with TLC is `AttemptSettles`, under the fairness of `LiveSpec`: liveness and
ENABLED are out of the prover's reach. The failing runs are TLC's as well.
Nothing here is recursive, so no induction over data is left unproved.

## 5. Not modelled

`PROJECT.json` lists every component with its status. Left out inside modelled ones:
validation that rejects a request before it reads or writes anything shared, wording,
audit and notification; the in-memory stores used by tests; the deletion of
organizations; transactions aborted by the database (they are the crash steps); the
status of an invoice after it was made, which one request sets; finance documents of
other years, which have a sequence of their own. A business fact is reserved and a claim
check completed without asking for an allowance, although both are counted
(`businessFactServer.ts:112`, `claimGateServer.ts:236`): `QuotaHolds` is about the executions
that ask, and the count of a period may pass the limit by the others. A fact whose request
dies while it is applied stays RESERVED; nothing in the code takes it up, and no property
speaks of it.

Statements that are one step of the model although the code has two, with nothing that a
property looks at between them: `StoreCheckout` (the open checkouts of the organization and
the new one, `billing/service.ts` 177-193), `ClaimDue` (the conditional update and the read of
the claimed row, `youtubeUploadSession.ts` 325-347), `OpenSession` (the upload URL and the row
of the session; a crash between them loses a URL nobody uploads to) and `RevokeGrant` (the
grant and the connection's flags). `Mark` leaves out the evidence row of an ambiguous outcome;
`CompletedIsSent` is about evidence of completion. `AcceptInvitation` and `ConfirmTransfer` do
not resolve the actor first as their routes do, so the model lets them happen more often than
the code.

Of accounts and campaigns: the credential is one per organization and platform while grants
and connections are per workspace, and the model has one workspace; other users of a token
(the mailbox, the publish pipeline) refresh it as an execution does and are not repeated;
Instagram's credential, drafts, the agent's plans and runs, scheduled items (no provider
implements scheduling, so nothing becomes SCHEDULED) and items of providers without an
implementation are left out. A request of a kind its provider has not is refused at the
permission, which such a provider cannot be given (`platform-authorization/policy.ts` 565-589).

The auth server keeps sessions and one-time tokens; each is consumed or revoked by one
conditional statement on one row, so that PostgreSQL's row lock decides every race and a
model would restate it. Marketing plans, projects, CRM and data rights read and write rows
by id with no step that depends on an earlier one.

## 6. Plan

In this order:

1. `InstagramPublish`: the third user of governed executions, with its container and
   publish steps; refines `SendOnce` as well.
2. `ControlPlane` under the locks the code does not take: which of the checks in `Fresh`
   a lock on the membership, the invitation or the transfer would establish.
3. `RateLimit`.
4. `LineProofs` for updates that overlap: that what they leave is the union of their lines.
