# A TLA+ model of the TROUVE TOUT backend

`src/` is a NestJS backend for a classifieds market: sellers publish listings,
buyers order goods and services through an escrow, or book a space, and
moderators arbitrate. It keeps everything in PostgreSQL through Prisma. These
modules model its core, model-check it with TLC and prove theorems about it
with TLAPS.

The feature of the code that decides how it is modelled: **no operation opens a
database transaction or takes a lock**. A handler is a sequence of `await`s,
each one Prisma call (atomic in PostgreSQL) or one call of a payment provider,
and Node runs other handlers at every `await`. A model step is therefore one
`await`, and a handler that reads a row, checks it and writes it later is at
least two steps. What the code relies on instead of transactions is unique
constraints, conditional reads and the order of its calls; what these give, and
what they do not, is what the modules are about.

## 1. Inventory

| part | state | operations that change it | what makes it correct |
|---|---|---|---|
| orders, escrow scheduler (`orders/`) | `Order.status`, `autoReleaseAt` | create, confirm receipt, dispute, administrator's release, hourly release | released only when paid out; never skips the escrow; no automatic release while disputed; a paid order leaves the escrow |
| payments (`payments/`) | `PaymentEvent`, `Payout`, `Refund`; the provider's own state | checkout, webhook, payout, refund | nothing is marked paid that was not; money leaves once; rows agree with the transfers |
| reviews (`reviews/`) | `Review` | create | only of a finished sale, one per order |
| auth, codes (`auth/`) | `User`, `OtpCode`, `RefreshToken` | OTP login, register, login, reset, refresh | suspension and reset close sessions; one account per phone; a code serves once |
| guards (`common/guards`, `auth/strategies`) | none, they read the account at every request | - | a suspended or demoted account loses its rights at once |
| administration (`admin/`) | `User.suspended`, `role`, `isAdmin`, `verified`; `Listing.status`; `Report.status` | suspend, role, refund, release, approve, reject, restore, verify, review a report | only ordinary users are suspended; a refund is not paid twice |
| listings, moderation (`listings/`, `common/moderation`) | `Listing` | create, update, remove, count a view | nothing is public before approval; the quota of active listings |
| shop (`shop-subscriptions/`, `common/promo`) | `ShopSubscription`, `ShopExtraSlot` | subscribe, subscribe-extra, activation by payment | capacity is sold over an active subscription and counted once |
| bookings (`bookings/`) | `Booking` | create, confirmation by payment | confirmed only once paid (the dates are compared by nothing) |
| conversations (`conversations/`) | `Conversation`, `Message` | start, post, edit, delete, mark read | a deleted text never comes back; unread counts |
| media (`media/`) | `ListingMedia`, files | upload, remove | quota; a row has its file |
| notifications (`notifications/`) | `PushSubscription` | subscribe, unsubscribe, send | an endpoint belongs to one user; only dead ones are removed |
| reports, sellers, users, categories, translation | rows with a single write, or none | - | - |

Interactions: orders, bookings and the shop call `PaymentsService`
(`initiateCollect`); the provider calls `/webhooks/*`, and
`applyVerifiedCollect` dispatches on the reference to the order, booking or
subscription; `OrdersService` calls `payoutToSeller`; `AdminService` calls
orders, payments and auth; the scheduler calls `OrdersService` every hour.

What is hard: a status read before a provider call and written after it; four
ways to release one order; webhooks that come early, late, twice or never, on
public routes, and are verified by asking about something that need not be what
they mark; a transfer whose answer is lost; a crash between a transfer and the rows that
record it; a scheduler that works on a snapshot; logins in flight during a
suspension. `PROJECT.json` lists these hazards, each at its line.

## 2. Modules

| module | what it is | small instances | theorems |
|---|---|---|---|
| `Escrow` | orders, collect, payout, dispute, refund, automatic release, review | `MCEscrow` | `EscrowProofs` |
| `EscrowHistory` | `Escrow` with the orders whose handling was disturbed, and what holds of the others | `MCEscrowHistory` | `EscrowProofs` |
| `EscrowPromise` | abstract: what becomes of the money of an order | through `EscrowHistory` | `EscrowProofs` |
| `Sessions` | accounts, one-time codes, refresh tokens, suspension, roles | `MCSessions` | `SessionsProofs` |
| `SessionsHistory` | `Sessions` with the accounts whose handling was disturbed, and what holds of the others | `MCSessionsHistory` | `SessionsProofs` |
| `Catalogue` | listings, their texts, moderation, quota | `MCMarketplace` | `CatalogueProofs` |
| `Media` | photos and videos: rows, files, quota, positions | `MCMarketplace` | `MediaProofs` |
| `Conversations` | a thread, what is sent out of it, unread badge, push devices | `MCMarketplace` | `ConversationsProofs` |
| `Payables` | bookings, shop subscriptions and extra slots, their payment | `MCMarketplace` | `PayablesProofs` |
| `Market` | `Catalogue` and `Payables` composed | `MCMarket` | `MarketProofs` |

`MCMarketplace` runs `Catalogue`, `Media`, `Conversations` and `Payables`, which
share no variable, one per execution; `MarketplaceProofs` is about it.

### Escrow

The state is the columns the guards read (`status`, `buyer`, `deadline` for
`autoReleaseAt`, the `PaymentEvent` kinds of an order, payout and refund rows,
reviews), the provider's side (`collect`: is the checkout open or paid;
`paidOut`, `refundsMade`: transfers really made; `hooks`) and the processes:
`pc[r]` is the `await` that request or scheduler run `r` stands before,
`target[r]` its order, `row[r]` its payout row, `todo[r]` the rest of a
scheduler's snapshot, `asked[r]` what a webhook is about to ask, and whom.

A handler is an arrival action (its first read and its guards) followed by one
action per `await`: `ConfirmReceipt`, `AdminReleaseEscrow` and
`ReleaseExpiredEscrows` all continue with `CreatePayout`, `TransferOk` or
`TransferThrows`, `MarkSent` or `MarkFailed`, and `Release`, the code they share
(`releaseEscrow`, `payoutToSeller`). `RefundOrder` continues with `CreateRefund`
and so on to `CloseRefunded`. `CreateOrder` continues with the checkout, and a
simulated one (no provider key) straight on to `MarkPaid`. Failures are `Throws` (any call), the two
`...TransferThrows` (the provider refuses, or the answer is lost) and `Crash`
(every request in flight is lost, rows stay).

Webhooks are what the code makes of them, not what a provider sends. Both routes
are public, and `ReceiveWebhook` names any order that exists, simulated or not,
at any time. `CheckStatus` then does what the two `checkStatus` do (`SaysPaid`):

- `/webhooks/cinetpay` asks CinetPay about the reference in the body, the order it
  will mark. **Without CinetPay's keys nobody is called and the answer is
  ACCEPTED**, whichever provider opened the checkout.
- `/webhooks/paydunya` refuses a body without the SHA-512 of the master key, so
  without its keys it is closed. With them it asks PayDunya about `payload.token`
  and marks the order of `custom_data.transaction_id`: **two values of one body
  that nothing compares**, the order `t` and the order `o` of the action.

A provider knows the checkouts it opened. `Provider` is the one that opens them
(`PAYMENT_DEFAULT_PROVIDER`), `Keys` those configured when webhooks come,
`Simulated` the orders created while `Provider` had no keys; the three vary
independently, since a deployment may gain or lose keys between an order and a
webhook. The token of a booking or a subscription is not in this module (nor that of
an order in `Payables`): it would be one more answer about something else.

Left out: amounts and the commission, reasons and notes, the lists and counters
(queries), the wire formats, webhooks that name no order (they end in an event of
their own or in nothing). A row id is a number given in the order of creation.
Transfers go the same way at both providers.

### Sessions

The state is the account columns (`account`, `email`, `password` as a version
number, `suspended`, `role`, `isAdmin`), code rows, token rows, and the requests
as above (`pc`, `who`, `item`, `basis`). `tokenStamp` is the second in which a
token was signed: with the user it determines the token. `tokenBasis` is a ghost:
the version of the password the session goes back to. What a client holds is the token,
not the row: `Accepted(t)` says that some live row carries the token of row `t`.
`Founders` are accounts
with `isAdmin` set in the database and role `user`, which the schema still
provides for. Who moderates does not matter, only that somebody may
(`Moderators`, `Administrators`). A request whose only effect is one write (`RequestOtp`, `UpdateMe`,
`UnsuspendUser`, `SetUserRole`) is one step; its guards read a moment before in
the code, which no property of the module can tell.

Left out: wrong codes and wrong passwords (they change nothing), access tokens
(the guards read the account at every request, so a token decides nothing by
itself), e-mail addresses claimed by two people, the SMS. The expiry of a refresh
token only stops it from being used, which an invariant allows at any time, so it
is no action; that of a code is (`CodeExpires`), because a request may hold it.

### EscrowHistory and SessionsHistory

Most of what the code is meant to guarantee fails only when two requests about the same
order or account overlap, or when one dies at the wrong `await`. To say that without
forbidding it, each of these modules adds a history variable, `disturbed`: the
orders, or accounts, to which something named has happened. It constrains no
step (`HNext` is `Next /\ Remember`), so every interleaving and failure is still
explored; the properties are about the orders and accounts outside it.

An order is disturbed by `Overlapped` (two processes work on it, or hold it in a
snapshot), `Misjudged` (the transfer was made, its answer lost, and the `catch` takes
it for a failure), `DiesSpending` (the process ends after the transfer and before
the status) and `LateWebhook` (a webhook that names an order that is released,
refunded or disputed). An account by
`Overlapped`, `Promoted` (its role changes between the guard of a suspension and its
write) and `DiesRevoking` (a request ends between its write and the revocation of the
sessions, and one is left). No cause is there for comfort: without any one of the
seven, TLC finds an order or account that breaks the properties.

`EscrowHistory` has two variables more. `misled` are the orders whose price had not
come in when an answer was accepted for them that was not about their own checkout
(`AsksAbout`): from CinetPay without its keys, or about the token of another order.
`contested` are the orders whose dispute nobody has settled: they were disputed and
have been neither released nor refunded since, whatever their status says now.

`SerialSpec` of each module is the special case of requests that follow one another:
one starts only while none is under way, nothing fails, and no webhook comes for a
closed or disputed order. Then nothing is ever disturbed.

### EscrowPromise

Six variables and no request: the orders whose price came in, those taken for paid
by mistake, how often the seller of each was paid, whose buyer was refunded, what the
status of an order says, and which orders are in trouble. Whatever happens, nobody is
paid for an order whose price did not come in, but by mistake; the buyer is refunded
once at most; and the status claims only what has happened. Of an order that is not in
trouble the price also goes to one party, once, and it is called held or disputed only
while nobody has it. `EscrowHistory` implements it (`KeepsPromise`) by a mapping from
the provider's checkouts and transfers and from the status, with `mistaken <- misled`
and `troubled <- disturbed`.

### Catalogue

The state is the columns of `Listing` the guards read, what the seller's
subscriptions cover (`capacity`) and whether the promotional period runs
(`promo`). Each handler is two steps: the read with its guards (`Update`,
`Approve`...) leaves in `req[r]` the body it will write, and `Write...` writes it
`WHERE id`, whatever the row has become. `assertShopQuota` is `HasRoom`. The texts
are a few titles and descriptions, some pairs of which name a prohibited item
side by side: that is how `findProhibited` joins them, and what an edit of one
field at a time could exploit. `raced` (history) holds the listings on which two
requests overlapped. `capacity` and `promo` change at any time.

Left out: price, media, category, the counter of views, reports; a request whose guards fail.

### Media

`stored` is the object store, `position` the rows, `upload[r]` the await a
request stands before, with its file and the position it counted. An upload
(`AddToListing`, `StoreFile`, `CountRows`, `InsertRow`) and a removal
(`RemoveMedium`, `RemoveFile`, `DeleteRow`) fail at any await, and the object
store may have done what it was asked; `RemoveFileSwallowed` is the S3 driver
that logs a refusal and goes on. History: `failed` (which half of which file's life
failed), `crowded` (two uploads to a listing at once), `thinned` (a row was removed).

Left out: sizes, mime types and reordering of bytes: checks before any state is read.

### Conversations

One conversation, since conversations share only the devices. A message is its
place in the order of `sentAt`; `deleted`, `lastRead` and `body` are the columns,
`owner[d]` the user a push endpoint belongs to. `out` is what the last step sent
out of the server: an answer or a notification, of which message, with its text
or without, and to whom. `NotifyOtherParty` reads the devices and
`SendNotifications` uses them later: `devices` are the endpoints it read, `rows`
those whose row is still the one it read. `crossed` (history) marks a request
whose row was changed since it read it.

Left out: the word of the text (it carries a contact, which is masked, or not),
the listing's own checks, the wire of the push service.

### Payables and Market

A row is absent, unpaid or paid; `checkout` is the provider's side; `job[r]`
walks a request or a webhook through `initiateCollect`, or `checkStatus`,
`applyVerifiedCollect` and `markPayablePaid`. Webhooks come as in `Escrow`, on both
routes: `row` is the checkout that is asked about, `says` the reference that will be
marked. On PayDunya's route that is the reference of any row that exists, or the token
itself where the body has no `custom_data`; a token decodes to nothing, so the event
is recorded and no row changes. `misled` (history) are the unpaid rows an answer not
about them called paid, `unmarked` those whose update failed. References are sequences of words,
because one kind (`shop`) is a prefix of another (`shop_extra`):
`DecodeRef` tries the alternatives of the regular expression in their order.
`Capacity` is what `ShopSubscriptionsService` computes from the rows (`Covered`: a base and
the slots above it). Orders are in
`Escrow` and only lend their reference kind here.

`Market` instantiates `Catalogue` with `capacity <- [s \in Payers |-> Capacity(s)]`,
so that the quota is that of the real subscriptions, and leaves `promo` at FALSE:
the launch promotion is over.

## 3. What the runs check

| run | instance | shows |
|---|---|---|
| `escrow_concurrent` | either 1 order, 2 requests and 1 scheduler run that cross, 2 payouts, 2 webhooks, 1 fault; or 2 orders, or a simulated one, one process at a time, no fault, 2 webhooks for each. PayDunya with its keys, CinetPay without | what holds under every interleaving, failure and webhook, and of an order that was not disturbed; implements `EscrowPromise`; the books when requests follow one another |
| `escrow_liveness` | 1 order, 6 payouts, 2 webhooks, 1 fault, fairness; CinetPay with its keys | a paid order leaves the escrow; nothing unpaid is marked paid in this deployment |
| `escrow_unpaid` | 1 request, no fault, 1 webhook; PayDunya with its keys, CinetPay without | violation: a webhook of CinetPay marks an unpaid order paid |
| `escrow_dispute_lifted` | 1 request, 1 scheduler run, no fault, 2 webhooks | violation: a repeated webhook lifts a dispute and the scheduler takes up the order |
| `escrow_dispute_race` | 1 request, 1 scheduler run, no fault, 1 webhook | violation: the scheduler releases a disputed order |
| `escrow_webhook_replay` | 1 request, no fault, 2 webhooks | violation: a repeated webhook reopens a released order |
| `sessions_concurrent` | 2 people, 1 code, 2 tokens; either 2 requests that cross within one second, any call may fail; or one at a time, seconds 0 and 1 | what holds under every interleaving, and of an account that was not disturbed |
| `sessions_suspend_race` | as concurrent, no call fails | violation: a login in flight outlives the suspension |
| `sessions_same_second` | 1 request, seconds 0 and 1 | violation: a rotated token is still accepted |
| `marketplace` | catalogue, media, conversation, payables; 2 requests each, any call may fail; 3 webhooks, PayDunya with its keys, CinetPay without | what each holds under every interleaving and failure |
| `catalogue_quota` | 2 listings, 1 subscription covering 1 of them, 1 request at a time | violation: approvals put more listings on line than the subscription covers |
| `conversations_deleted` | the conversation of `marketplace` | violation: a post answers with a text deleted meanwhile |

**Always**, under every interleaving and failure:

- escrow: `ReleasedHasSentPayout`, `RefundedHasSentRefund`,
  `AtMostOneRefundTransfer`, `ReviewedAfterPayout`, `CollectedUnlessMisled` (what it
  excuses is named: an answer that was not about the order), `LedgerMatchesProvider`,
  `StatusFlow`, and of `KeepsPromise` what it says of all orders;
- sessions: `SessionsHaveAccounts`, `CutStaysCut`, `PasswordChangesOnlyByReset`;
- payables: `PaidWasPaid` (misled rows excepted), `AcceptedIsMarked` (of events under
  the reference of a row, a failed update excepted), `SlotRestsOnSubscription`;
- media: `RowHasFile` and `NoOrphanFile`, which name the failures that break
  them: two requests that cross never do;
- conversations: `DeletedLeavesWithItsPost`, `BadgeOnlyByNewMessage`.

Each survives because of one fact of the code: the order is written only after
its payout row says sent; `Refund.orderId` is unique; a provider that is asked about a
checkout tells whether that one is paid; `assertNotSuspended` comes after the read that a new token
rests on; the longer kind comes first in the pattern of `decodeRef`; a file is
stored before its row exists and a key is never used twice; `toPublicMessage` maps the row that
the update returned, not the one it read.

**Of what was not disturbed**, while requests, failures and repetitions go on around it:

- an order: `MoneyFollowsStatus` (it was paid out exactly once, to one party, when its
  status says so or is about to, and not at all before), `DisputeRespected` (it stays disputed,
  out of the scheduler's reach, until it is released or refunded), and the exclusivity
  in `KeepsPromise`;
- an account: `SessionsJustified` (no session while suspended, none older than the
  password, but while the request that closes them is under way),
  `CredentialServesOnce` (a consumed code is not used again, and a token is accepted
  before its rotation and refused after it, unless another row repeats it),
  `OnlyUsersSuspended`;
- a listing or a message, unless requests overlap on that row (or a device changes
  hands): `CleanText`, `ActiveHasNoReason`, `PublicOnlyAfterReview`, `QuotaKept`,
  `PositionsDistinct` (and nothing was removed), `DeletedTextKept`, `AuthorNotNotified`.

Each names what excuses a violation with a history variable, so the run still
explores it, and anything else that led to one would be reported.

**When requests follow one another and nothing fails** (`SerialSpec`), of every order
and account: `AtMostOneDisbursement` and `EscrowHeld`, checked (`SerialKeepsBooks`) and
proved, and `NoAutomaticReleaseWhileDisputed`, `SuspendedHasNoSession` and
`ResetClosesOldSessions`, proved. The number of requests is beside the point.

**With CinetPay as the provider and its keys configured**, `PaidWasCollected`: every
order marked paid was paid or simulated, because the one route that can answer "paid"
asks about the order it marks. `escrow_unpaid` shows that it is not so elsewhere.

The violation runs show what happens otherwise where the documentation says the
property holds (`PROJECT.json`, findings). The two about disputes are different:
`escrow_dispute_race` needs a dispute that crosses a scheduler run,
`escrow_dispute_lifted` only a webhook that comes a second time.

**Bounds.** One order suffices for concurrency: processes meet only on the rows
of one order, and the scheduler's loop over several orders is exercised with two
in the executions without overlap. `MCEscrowHistory` has executions of both kinds
(`crossing`), so that the two state spaces add up instead of multiplying. Two requests and a scheduler run are the smallest instance
with every pair of the release, refund, dispute, webhook and review handlers in
conflict, and with three on one order. Two payout rows allow one double payment
or one retry, two webhooks one repetition, or a webhook that fails and comes again, and
the fault is any call of any process, or all of them at once (`Crash`), before or after
it took effect. With PayDunya's keys and without CinetPay's both ways to mislead `checkStatus`
are open in one instance: the first in every execution, the second, which takes the
token of another order, in those with two. In the liveness run six payout rows are enough for every
retry that the faults and webhooks can cause, so the bound never stops the
scheduler. One code and two tokens are enough for a code used twice, a rotation,
and a session that survives another's end; two people because a moderator is
not the one suspended. One password change makes two versions, since an account opened
by code starts without a password. In `MCSessionsHistory` too executions are of two kinds
(`crossing`): the clock ticks in those without overlap. Only the differences between the seconds of tokens
matter, so the n-th is signed in second n - 1 at the latest.

In `marketplace` the four components share no variable, so the execution picks
one and their state spaces add up instead of multiplying. One listing, because
requests meet on the rows of one; two titles and two descriptions with one
prohibited pair, the least for which each field alone is harmless; three files, of
which two compete for the one photo allowed and one for the one video; two
messages, one for each party or two by one, and one device that both can hold;
one booking in simulation, one subscription and one slot, and three webhooks: one for
each row, or two for one and a third that brings its token under another's reference.
Two requests of each component make every pair of its handlers cross, and while two
cross a third sequence of calls may come before and after.
In `catalogue_quota` a subscription covers one listing of two (the program's ten,
scaled down). Bounds are CONSTANTS named `Max...`, and appear in the guard of the
action that creates the row, sends the webhook or fails; files, listings, devices
and payables are bounded by their sets.

**Fairness** (`FairSpec`): weak fairness of each process's next step (the event
loop runs every handler to its end, and provider calls answer or throw), of the
deadline (time passes) and of the scheduler (`@Cron(EVERY_HOUR)`). None for
buyers, moderators, webhooks or failures. With it, failures bounded by
`MaxFaults` stop at some point, which is what the property needs: a provider
that fails for ever keeps the order in escrow for ever. The other modules have no
liveness property: the code promises none (no webhook is awaited, no upload
resumed, no notification sent again).

## 4. What is proved

Everything is proved for every value of the constants from the `...Assumption`
of the module alone (hypotheses beyond it are in the statement of the theorem). The argument is the same throughout: the properties
by themselves are not inductive, because a step writes what an earlier step of
the same request read; the invariant that is says what each `await` may still rely
on when its turn comes. Each proof module has one lemma per part of that
invariant, with one step per action that can disturb it.

**`EscrowProofs`**, of any execution (`Invariance`: `TypeOK /\ IInv`): `TypeCorrect`,
`ReleaseSafety`, `RefundSafety`, `RefundOnce`, `ReviewSafety`, `LedgerSafety`,
`StatusFlowSafety`. `IInv` is `ControlInv` (an active process has an
order, a paying one a row), `StageInv` (what was read and can only have moved forward:
the order was marked paid, the answer that is acted on is on record), `CollectInv` (one
process opens a checkout), `PayoutInv` (a payout row belongs to the process that created it
and says what that process knows), `RefundInv` (the unique refund row makes one
process its owner, and counts its transfers), `SaleInv` (payouts are never unsent, so
released and reviewed orders stay justified).

What is on record need not be true, so that the price came in is a statement of its
own: `PaymentSafety` (`CollectedUnlessMisled`), from `VouchedInvariance`, which adds
that a webhook with an accepted answer is about an order that was collected or has just
been misled. `OwnAnswersSuffice` proves `PaidWasCollected` under the hypotheses that
CinetPay is the provider and has its keys.

Then of the orders that were not disturbed (`CalmInvariance`: `TypeOK /\ IInv /\
CalmInv`): `BooksBalance` (`MoneyFollowsStatus`), `DisputesHold`
(`DisputeRespected`) and `PromiseKept`, the refinement: `HSpec => KeepsPromise`. `CalmInv`
says of each such order that one process works on it, that what this process has read
is still so (`StillRead`), and that a price which was transferred went to one party
and the status says so or that process is about to say so (`SpentOnce`); and of a
snapshot, that only a scheduler run has one. It is a statement about one order, so each action
has two short cases: the order it is about, whose only worker makes the step, and any
other, whose status and money it leaves alone. The refinement is proved step by step
from it: a step that paid anybody twice or called a spent order held would break
`SpentOnce`.

Last, `NothingDisturbed`: under `SerialSpec` the set stays empty. It turns
the theorems about undisturbed orders into theorems about all: `DisbursedOnce`,
`PriceIsHeld`, `DisputeStopsRelease`.

**`SessionsProofs`**, of any execution (`SessionsSound`: `Sound`):
`SessionsTypeCorrect`, `SessionsBelong`, `PasswordsAreReset`, `SuspensionLasts`. What a
request knows at each stage (the account it found exists, the code it consumed was
sent to that phone, the token it rotates is that account's, the check it passed) is
stated of columns that only ever move forward; lemmas say which steps start a request,
carry it on or end it, and the actions are instances of these.

Then of the accounts that were not disturbed (`CalmInvariance`: `Sound /\ CalmInv`):
`SessionsClose` (`SessionsJustified`), `CredentialIsSpent` (`CredentialServesOnce`),
`OnlyUsersAreSuspended` (`OnlyUsersSuspended`). `CalmInv` says that one request
is about the account; `Entitled`, that what it has checked still holds when it writes;
`Justified`, that a live token belongs to an account that is not suspended and to its
present password, unless that request is about to revoke it; and that an account that
does not exist has no password. `NothingDisturbed` again gives the theorems about
`SerialSpec`: `SuspensionCloses`, `ResetCloses`.

**`CatalogueProofs`** (`Invariance`: the module's `IInv`): `TypeCorrect`,
`TextStaysClean`, `ReasonErased`, `ReviewedFirst`. `Alone` says that on a listing
that was never raced at most one request stands; `StillJudged` that the row is
then still as that request read it; `DraftHasNoReason` that drafts have
never been rejected.

**`MediaProofs`**: `MediumKeepsItsFile`, `FileKeepsItsMedium`, from
`MediaInvariance` (a file has at most one upload, which ends before any removal);
`QuotaHolds` and `PositionsAreOwn`, from the fact that on a listing never crowded
the one upload under way still has the room it counted, and, when nothing was
removed, a position equal to the number of rows.

**`PayablesProofs`** (`PayableInvariance`): `OnlyPaidIsMarked`, `PaymentFindsItsRow`,
`NoSlotAlone`, and `OwnReferencesSuffice`: with the keys of CinetPay alone nobody is
ever misled, so every row marked paid had its own checkout paid or was simulated. They
rest on three lemmas about references: `ReferenceComesBack` (`DecodeRef(EncodeRef(p))`
is the kind and the id of `p`, for every kind), `OneReference` (two rows never share
one) and `TokenDecodesToNothing`. The first fails when `shop` is tried before
`shop_extra`.

**`ConversationsProofs`** (`ConversationInvariance`): `ConversationTypeCorrect`,
`NotificationsGoToTheOther`, `DeletedStaysInside`, `DeletedTextLasts`,
`BadgeMeansNewMessage`. Needed besides types: a notifying request's message was
sent by the party it notifies away from, its devices belong to the other party
unless it was crossed, and an edit whose message is deleted is crossed.

**`MarketProofs`**: `MarketPays` (`MarketSpec => PayableSpec`) and
`MarketImplementsCatalogue` (`MarketSpec => Shelf!Spec`): a step of the payments
changes the capacity of one seller at most, which is a `CapacityChanges` of the
catalogue. So the theorems of `CatalogueProofs`, where the capacity changes at will,
hold of the capacity that is really paid for. The one hypothesis, `MaxCapacityEnough`, is
about a bound of the model: `MaxCapacity` is at least what all slots together cover.

**`MarketplaceProofs`**: `MarketplaceRunsComponents` (an execution of what the
`marketplace` run checks is one of each of the four components) and with it
`ComponentsTypeCorrect`.

Only model-checked: `EscrowIsLeft`, liveness under fairness being beyond the prover, and
the counterexamples. The operators written with sequences and sets are not recursive, so
nothing is left to induction over data; `Covered`, a sum, is used in the proofs only as
a function of the set of slots.

## 5. Assumptions

- PostgreSQL executes each Prisma call atomically, at read committed.
- A provider that is asked answers with the truth about the checkout it is asked
  about, and a checkout it reports paid stays paid. It knows no checkout of another's.
- A transfer call that returned has moved the money. (Without transfer keys both
  services return without a call; in such a deployment a transfer stands for that.)
- A call of the object store that returned has taken effect; one that threw may
  have. A key is drawn once.
- The push service answers per device: taken, refused, or gone (404, 410).
- Nobody reads or writes the tables but this backend.

## 6. Not modelled, and why

- **Reports, the verified badge, the counter of views, names and addresses of
  a profile**: one unguarded write each, of a column no other handler judges;
  every property of them would restate the assignment.
- **Seller pages and ratings, lists and counters of the administration,
  categories, translation**: queries, and one call of an outside service, without
  state of their own.
- **Booking dates**: no code compares them, so there is no exclusion to check;
  the booking itself, from creation to payment, is in `Payables`.
- **Wrong codes, wrong passwords, validation of bodies, rate limits**: requests
  that end before they change anything.
- **Amounts, commission, numbers of nights**: pure arithmetic on values that no
  guard reads; the state machines tell no two amounts apart.
- **Application shell, seed data, scripts, error formatting, wire formats of the
  providers**: no state of the running system.

## 7. What is left

1. The unread count looks at the last message only
   (`src/src/conversations/conversations.service.ts:217`), where a comment (line
   198) speaks of at least one unread message: `Unread` models the code; a run
   against the comment would state the difference.
2. Commission and net amount, number of nights and ranks of roles as operators,
   each against a reference definition over bounded inputs.
3. `EscrowHistory` excuses an order for good once it was disturbed. How far from the
   promise a disturbed order can get (a bound on its transfers, say) is stated only
   for the refund, which is unique.
