# FreshLink backend: TLA+ specifications

FreshLink is a food-service marketplace: a NestJS application over PostgreSQL
(through Prisma), Redis (Bull queues and a cache), Stripe and a Groq language
model. This directory holds TLA+ models of its stateful core, the TLC
configurations that check them and TLAPS proofs about them. Paths below are
relative to the repository (`src/src/...` is the TypeScript source).

One fact shapes everything here. A handler of this program is a sequence of
awaits: it reads a row, decides on that snapshot, writes an update that names
only the primary key, then notifies. There are no transactions across awaits,
no row versions and no conditional updates. Between any two awaits other
requests run, and at any await a request may die. What the code promises has to
survive that, and the models are built so that it is put to that test.

## Inventory

| Component | State | Operations that change it | Interacts with |
|---|---|---|---|
| orders (`orders/`) | `Order` rows (status, three prices, two signature flags, time of signing), `OrderStatusHistory` | createOrder, updateStatus, signContract, submitCounterOffer, acceptCounterOffer | notifications, the `orders` queue, contract drafting |
| orders queue (`orders.processor.ts`) | Bull jobs | the consumer only logs | orders |
| payments (`payments/`) | `Payment` rows, unique per order | initiatePayment, markHeld (webhook), releaseFunds, refund | orders (reads), Stripe, notifications |
| reviews (`reviews/`) | `Review` rows, unique per order; `averageRating`, `totalReviews` of a provider | createReview | orders (writes REVIEWED), notifications |
| subscriptions (`subscriptions/`) | `Subscription` rows, unique per user | createOrUpgrade, cancel, nightly expiry, reminders | notifications, SubscriptionGuard |
| auth, users | `User`, `RefreshToken` rows | register, verifyEmail, login, refresh, logout, deactivate | every guarded route |
| notifications | `Notification` rows, `deliver` jobs | send, markRead, markAllRead | called by five services |
| messages | `Message` rows with `readAt` | sendMessage, markThreadRead | orders (reads), notifications |
| providers | profile, tags, items, slots, completeness score | updateProfile, add/remove of items | search |
| favorites | rows unique per pair | add (upsert), remove | - |
| buyers | none (analytics) | - | orders, payments (reads) |
| search, search parsing, matchmaking | a cache of parsed queries | searchProviders, parseQuery, rankProviders | groq-client |
| pricing | a cache of suggestions | suggestPrice | groq-client |
| contract drafting | none | generateContract | groq-client |
| groq-client | none between calls | chat (retry loop), ping | Groq |
| common, app, health, prisma, seed, migrations | - | wiring, guards, one-time scripts | - |

What is hard, and what makes each part correct:

- **orders**: stale snapshots written back (a lost signature, an overwritten
  cancellation), an acceptance that ignores the status, announcements after the
  commit. Correct when: work starts only under a contract both parties signed;
  no stage is skipped; a price is one that was offered; nothing is announced
  that was not committed.
- **payments**: two stores of truth (Stripe and the row) changed one after the
  other, duplicate and late webhooks, release racing refund, double initiation.
  Correct when: one charge per order, held money is in the ledger, nothing is
  captured before delivery, the ledger never claims what Stripe has not done.
- **reviews**: four writes without a transaction; the rating is an aggregate
  read and then written.
- **subscriptions**: a nightly loop over a list that ages while it is worked
  off; a failing notification ends the loop.
- **auth**: token rotation under concurrent refreshes and logouts.
- **AI callers**: retries, timeouts, fallbacks, caches keyed on part of the input,
  arithmetic that clamps untrusted numbers.

The hazards of the whole program, each at its line, are in `PROJECT.json`, also
the ones no property covers yet.

## Plan

Done:

1. `Orders`: the order lifecycle; its types and safety invariants are proved.
2. `Payments` (EXTENDS `Orders`): escrow and Stripe; its invariants are proved,
   and that it implements the abstract `Escrow`, races and redelivery included,
   is checked by TLC and proved.
3. `Reviews` (EXTENDS `Orders`): the review row, the unguarded REVIEWED, the
   rating; that the order invariants survive this second writer is proved.
4. `Accounts`, `Providers`, `Notifications`, `Messages`, `Subscriptions`: the
   services that share no table with the orders; types and main safety
   properties are proved.
5. `GroqClient` and its callers `SearchParsing`, `Matchmaking`, `Search`,
   `Pricing`, `Contracts`: retry loop, caches, fallbacks, arithmetic; types and
   safety properties are proved.

Left:

6. `Marketplace`: orders, payments and reviews in one state space. Both
   compositions with orders exist; payments and reviews meet only in the status
   of an order (a review takes it out of DELIVERED), and the triple is large.

## Modules

| Module | Models |
|---|---|
| `Orders` | `orders/orders.service.ts`, `orders/orders.constants.ts` |
| `Payments` | `payments/payments.service.ts`, the webhook controller, `payments/providers/stripe.provider.ts`, and Stripe as far as these use it; EXTENDS `Orders` |
| `Escrow` | what `Payments` promises: money, ledger, delivery |
| `Reviews` | `reviews/reviews.service.ts`; EXTENDS `Orders` |
| `Database` | what the services below share: SQL NULL, and whether requests may die |
| `Accounts` | `auth/auth.service.ts`, `auth/strategies`, the deactivation of `users/users.service.ts` |
| `Providers` | `providers/providers.service.ts` |
| `Notifications` | `notifications/notifications.service.ts` and its processor |
| `Messages` | `messages/messages.service.ts`; EXTENDS `Notifications` |
| `Subscriptions` | `subscriptions/`: service, scheduler, processor, guard |
| `GroqClient` | `chat` of `groq-client/groq-client.service.ts` |
| `SearchParsing`, `Matchmaking`, `Search` | `search/search-parsing`, `search/matchmaking`, `search/search.service.ts`; `Search` EXTENDS the other two |
| `Pricing` | `pricing/pricing.service.ts` |
| `Contracts` | `orders/contracts/contracts.service.ts` and `requestContractDraft` of the orders service |
| `MCOrders`, `MCPayments`, `MCReviews`, `MCSubscriptions`, `MCSearch` | instances for TLC of one module |
| `MCMarket` | `Payments` and `Reviews` for TLC, one at a time |
| `MCDirectory` | `Accounts`, `Providers`, `Search`, `Pricing` for TLC |
| `MCNotices` | `Messages`, `Subscriptions`, `Contracts` for TLC |
| `OrdersProofs`, `PaymentsProofs`, `ReviewsProofs`, `AccountsProofs`, `ProvidersProofs`, `GroqCallersProofs` | theorems and proofs |
| `NoticesProofs`, `DirectoryProofs` | theorems about messages and subscriptions, and about the two instances that compose services |

Two conventions hold throughout. A request is a slot: reading, it takes a
snapshot into the slot, and each later await is an action of its own, with
`...Fail` for the slot whose await throws or whose process stops. And variables
under the heading *observations* are history the properties need (who signed,
what was offered, which request died); no action reads them.

### Orders

`orders` is the Order table, `history` the statuses written to the history of an
order, and `req` the requests in flight. A request is a slot that goes
`idle -> write -> notify -> enqueue -> idle`. Arriving, it reads: `Arrive` holds
the guards of the handler, evaluated on the row as it is then, and the slot
keeps the columns the later write will use (`Updating`, `Offering`,
`Accepting`). The write step applies them to the row as it is by then. A
request whose guards fail changes nothing and is not modelled.

- `CreateOrder` is one step: the provider flag it reads first is a free choice.
- `ReadForUpdateStatus` and `WriteStatus` are updateStatus and signContract
  (the same handler with target CONTRACT_SIGNED). `Updated` writes status and
  *both* flags from the snapshot, as the code does.
- `ReadForAcceptance`, `WriteAcceptance`: acceptCounterOffer; no status guard.
- `Notify`, `EnqueueStatusChanged`: what the handler hands over after its write.
- `Fail`: the await throws or the process stops. Slots are not persistent, so a
  restart is the failure of all of them, one after the other.

`sent` is the message of the last step, `signers` and `offered` record who asked
to sign and what was offered. The caller is a party or an admin; ownership
checks are the reason why only those can act. Texts, dates and ids of rows are
left out, `contractSignedAt` is whether it is set, and the `fromStatus` column is
not kept: under races it names a snapshot.

### Payments and Escrow

A payment request walks through `createIntent -> createRow` (initiatePayment),
`capture -> markReleased -> notify` (releaseFunds) or `refund -> markRefunded`
(refund). The Payment row (`payments`) and the payment intents (`intents`) are
separate states; the three provider calls act on the second. `secrets` are the
intents whose client secret initiatePayment has answered; only those can be
authorised by the buyer (`Authorise`), and each authorisation puts an event
into `webhooks`, which `MarkHeld` delivers: once, or (`Redelivery`) any number
of times. Stripe is external: it captures an authorised intent once, refuses
after a refund, and refunds once. While the payment is HELD the code passes the
intent id where the call has a charge id; the model lets Stripe accept it, or
refuse it (`PayFail`). `abandoned` are the intents whose request died between
the capture and its entry.

Order steps leave payments alone and payment steps leave orders alone, but a
payment handler decides on an order row that moves on while it waits.

`Escrow` says the same without requests, intents and webhooks: the money of an
order is with the buyer, held, let go, with the provider, or paid back from
there; the ledger follows it, one step behind; the provider gets money only of a
delivered order. Money never returns to a place it has left. The ledger does,
since nothing in the code prevents it, and the last four alternatives of
`EscrowNext` are the only ways: HELD over RELEASED or REFUNDED when an event
comes again (`Again`), and RELEASED and REFUNDED over one another when the money
was paid out *and* back, which takes a release and a refund that overlap. In each
of them what the ledger says has taken place. The refinement mapping (`EscrowOf` in `Payments`) reads the money off the intents
(`MoneyOf`), the ledger off the Payment row and the deliveries off the history.
It is not the identity in disguise: `MoneyOf` is about every intent Stripe has
of the order, also those the ledger has never heard of, and a capture or a
refund whose request dies is a step of the money that the ledger never follows.

### Reviews

createReview is four writes in a row, and the third one is a read and a write:
a slot goes `insert -> markReviewed -> aggregate -> writeRating -> notify`.
`reviews` is the Review table, kept as the set of orders that have a row, since
`orderId` is unique; `DuplicateReview` is the insert this refuses.
`MarkReviewed` writes REVIEWED without a guard, from a snapshot that may be old;
it is the second writer of the Order table. `rated` is the set of reviews that
`averageRating` and `totalReviews` of the provider were computed from: both are
functions of it, and what can go wrong is which reviews they are computed from.
`died` are the orders whose stored review was left half done. All orders of an
instance are with one provider.

### Accounts

`users` and `tokens` are the tables of the users and their refresh tokens; a
session is a token row neither revoked nor expired. register reads, hashes and
inserts (`EmailRefused`: the unique column decides); refresh reads *some* live
row of its user, for `findFirst` names no token and no order, revokes it by id
(`RevokeStored`) and issues the next one (`IssueTokenPair`); logout revokes all
rows there are at that time. A logout that overlaps a login or a refresh may
miss the row that comes after it: `quiet` are the users whose logout met nothing
of theirs in flight. Two refreshes that found the same row both issue a new one:
`contested` are those rows. What hashes and signatures prove is taken as given.

### Providers

updateProfile is six awaits: the tags are deleted, upserted into the shared Tag
table and related to the provider again, the row is written, the completeness
score is computed and, as a snapshot, written. Items are added in one step;
removing one reads and deletes. `asked`, `intact` and `touched` say which tags
the last update asked for, whether it ran alone and to its end, and whether
anything has changed since the score was computed.

### Notifications and Messages

send stores the row and then puts a job on the queue; the job carries the
payload, and the processor delivers it. The steps are operators
(`Persist`, `Enqueue`, `HandleDeliver`), which a sender walks through with a
request of its own. `Messages` does: sendMessage inserts the message, then sends.
`opened` is what each participant has seen of a thread, `looked` who has marked
notifications. In `Orders`, `Payments` and `Reviews` a notification is the
message of one step; the loss of one is a request that fails before.

### Subscriptions

Dates are relative: a row has its days left, `Midnight` takes one off and makes
the job due. The job lists the lapsed rows (`StartJob`), then takes three awaits
to each: the update by id, which expires whatever the row is by now (`NextRow`),
and the two awaits of the notification (`NextStep`). The loop walks the list in
the order the database gave it, which no `orderBy` fixes: each run may take the
rows in another order, so any listed row may be the next. `JobFail` ends the loop
at any await. `overtaken` are the users who wrote their row while it was on the
list, `skipped` those whose row was still on it when the last run broke off. The guard looks at the status alone.

### GroqClient and its callers

`GroqClient` is the retry loop of `chat`: attempts, the timer that aborts each,
the doubling sleep between two, the exception at the end. Time is in units of
the first backoff; `elapsed` is the longest a call can have taken. The callers
compose their steps with those of the loop, and what the model says is a choice
out of a small set, with `Invalid` for content the reader refuses.

- `SearchParsing`: cache, model, validation, fallback. Queries with the same
  text in another spelling have one cache key. Errors of the cache are swallowed.
- `Matchmaking`: the deterministic score of a candidate (in integers, as the code
  rounds it), the top candidates the model is shown, the merge with its answer.
- `Search`: merge of the explicit and the parsed filters, the where clause, the
  order (equal rows come in any order), the page, the ranking of the page.
- `Pricing`: median and quartiles (in eightieths, so that halves and quarters
  are whole), the cache, the clamp. `NaN` is a figure of the model that is no
  number: `Math.min` and `Math.max` let it through, and so does `Adjusted`.
- `Contracts`: the template, the call, the rule check, the standard contract.

## Runs

| Run | Shows | Instance |
|---|---|---|
| `orders_race` | contracts, stages, prices and announcements hold under overlapping and dying requests; a signature is lost, or a status changed out of order, only by a request that writes an outdated snapshot, and how far that can go | 1 order, 2 slots, amount 1; 850 323 states |
| `payments_race` | one charge per order, ledger backed by Stripe, capture after delivery; payments implement the escrow | 1 order slot, 2 payment slots, 2 intents, amount 1, redelivery, failures; 387 028 states |
| `market_live` | instant bookings stay unpriced and unpaid where quotes and offers may be 0; reviews are about delivered orders, the order keeps its stages, the notice is true; a capture, and a review, is entered or its request died | 1 order, 1 order slot, amounts 0 and 1, failures; 1 payment slot, 1 intent, events once; or 2 review slots; 435 522 states |
| `directory_race` | sessions, tags, score, parse cache, filters, ranking and price suggestions, see `MCDirectory` | 2 users, 1 address, 3 tokens, 2 requests; 1 tag, 1 item, 2 requests; 2 searches over 4 providers; 3 price requests; 768 582 states |
| `notices_live` | what is stored is delivered, who has lapsed is refused unless a run broke off before its row, who asks for a draft gets one; and who may read, who is told, who expires | 2 messages in 2 orders; 2 users, 2 requests, a term of 1 day; 3 attempts; 236 431 states |
| `orders_revived` (violation) | acceptCounterOffer revives a cancelled order | 1 slot |
| `orders_lost_signature` (violation) | two signatures at once lose one | 2 slots |
| `payments_redelivered` (violation) | a redelivered event resets RELEASED to HELD | 1 + 1 slots |
| `reviews_overtaken` (violation) | overlapping recalculations lose a review | 2 orders, 1 + 2 slots |
| `subscriptions_renewed` (violation) | the nightly job expires a renewed subscription | 2 users, 2 slots, a term of 2 days |
| `subscriptions_starved` (violation) | a lapsed row behind one whose notification fails is never expired | 2 users, 1 slot, a term of 1 day, failures |
| `search_no_price` (violation) | a parsed `maxPrice` of null fails the search | 4 providers, 1 slot |

**Composition.** `Payments` and `Reviews` are composed with `Orders` for real:
they read and write the same rows. `market_live` takes one of the two at a time:
they meet only in the status of an order, and no property relates a payment to a
review. The services in `MCDirectory` and in `MCNotices` keep no state together:
the actions of one neither read nor write what another has, so their steps commute, and no property relates two of them.
A product of their state spaces would hold the same behaviours many times over.
`serving` picks the service whose behaviour this is, and the others rest in
their initial state, where every property of theirs holds. `Messages` with
`Notifications`, `Search` with `SearchParsing`, `Matchmaking` and `GroqClient`
do share state, and are explored together.

**Bounds.** Slots, ids, amounts and terms are the bounds; nothing else grows, as
history, signers and offered are sets over finite types. Two slots are the
smallest number at which a snapshot can be overtaken; every property relates at
most two overlapping requests. No handler on orders or payments touches a second
order, so orders interact only through the choice of a slot and one is enough;
the rating is about several orders, so `reviews_overtaken` has two. Two intents
are what two overlapping initiations need, three tokens a login and two
refreshes. Amounts need 1 for a price and 0 for the edge where a quote does not
count. A term of one day is enough for a subscription to lapse and be renewed
again and again. The price requests have no, few and equal prices, and two that
share a cache key and differ in guests; the searches have a filter that is
given, one that is parsed, one that is null, ties in the rating, a second page
and a page that ends beyond the last row. `MaxRetries` is 2 and 3, so that there
is an attempt that is neither the first nor the last.

`CHECK_DEADLOCK FALSE` is set where the system really may stop: an order that is
REVIEWED or CANCELLED, with no offer pending, takes no further request; ids of
intents, tokens and messages are used up; a market of accounts may have nobody
left to act. `MCSearch_noPrice` does not set it.

`reviews_overtaken` is cut by the state constraint `OnlyAdminSigns` of
`MCReviews`: an admin alone takes the orders along, and nobody cancels; its
counterexample needs no more. No passing run is constrained.

Symmetry is used in `orders_race`, `payments_race` and `directory_race`; slots,
tokens and intent ids are interchangeable there. These runs check invariants,
action properties and a refinement without fairness, all of which TLC decides
state by state and step by step, and all of which treat the members of a set
alike. No liveness property is checked with symmetry.

**Fairness.** It is what the event loop and the queues give, and nothing more:

- weak fairness of the next step of each request in flight (`PayProceed`,
  `RevProceed`, `SendProceed`, `DraftProceeds`): Node resumes a handler when its
  answer comes, and an await answers or throws. For a draft this includes the
  timer that aborts a hanging attempt. No buyer has to send, or repeat, anything,
  and no webhook has to come;
- weak fairness of `HandleDeliver`: Bull hands a waiting job to the processor;
- weak fairness of `Midnight`, `StartJob`, `\E u : NextRow(u)` and `NextStep`:
  nights come, a due job is started, and a run goes on, with whatever row is
  next, until it ends or fails. No row is promised its turn and no run its end.
  So `LapsedIsRefused` says that a user whose term is over is listed by a run and
  refused, *or* the run breaks off with the row still on its list. That the row
  is reached by some later run does not follow, even if every update succeeds
  and only notifications fail (`OnlyNoticesFail`): the user of the first row may
  renew and lapse again each time. `subscriptions_starved` is that behaviour.

Liveness is checked in the presence of failures; where a failure excuses
(`MessageIsDelivered`, `CaptureIsRecorded`, `ReviewIsCounted`, `LapsedIsRefused`),
the property says so through the observation of that very request, or row, not
of any.

## Proofs

Each theorem is about its specification for every value of the constants: any
sets of orders, users, tokens, tags, messages and slots, with and without
failures.

`OrdersProofs` proves `OrdersSpec => []OrdersTypeOK`, one step per action, and
`OrdersSpec => []OrdersInv`, from which each safety invariant of `orders_race`,
and `InstantBookingUnpriced`, follows. The invariants are not inductive: what `WriteStatus` keeps depends on
the snapshot it writes back. `OrdersInv` therefore adds `RequestsWellFounded`: what a slot remembers is not current, but it was true
once, and what it says about history, signatures, offers and the time of
signing *stays* true, since these only grow (`Grows`). The argument in three
lemmas: each write keeps the row invariants if its slot is well founded
(`WriteStatusKeepsRows` and its like); a step that only lets the four grow
keeps all other slots well founded (`OtherSlots`); a slot that has read is well
founded because the rows were in order. `WriteStatusKeepsRows` holds the point
about contracts: a stale write can put an order to CONTRACT_SIGNED only with
both flags of the snapshot or the signer's own, and to IN_PROGRESS only from a
snapshot that already had both, with a time of signing that is never cleared.

That a signature stays, and that a status changes only along the transitions, are
not theorems: two requests that write to one order can break both
(`orders_lost_signature` shows it of the first), and nothing in the code keeps
them apart. What is proved is how far this goes, for any number of requests on
one order. `LossesAreOvertaken`: only an update clears a signature, only one
whose snapshot is no longer the row (`Overtaken`), and it leaves the order
CONFIRMED, where both may sign again, or CANCELLED. For a snapshot of a later
stage has both flags (`UpdateWellFounded`), so one that lacks a flag allows no
other target. `ChangesLegalOrOvertaken`: a change of status that is neither a
transition nor the acceptance of the pending offer is the write of an overtaken
request, and the new status is one the order has had or that follows one it has
had. Both rest on `OrdersInv` and on the effect of each write (`StatusWritten`,
`AcceptanceWritten`, `OfferWritten`).

`PaymentsProofs` proves `PaymentsSpec => []PaymentsInv`, with events delivered
again and requests dying at every await, and from it the five safety invariants
of payments that `payments_race` and `market_live` check. `PaymentsInv` says in whose hands an intent is: with one
request that is about to insert the row for it, or named by the row of its order
and only then in `secrets`, or forgotten and never to be paid. From this follows
that an order is charged once (`ChargedOnce`): what is authorised is in
`secrets`, so it is the intent its row names, and a row names one. The parts
about money (`MoneyInv`) are disturbed only by Stripe and by the ledger, in four
ways (`IntentCreated`, `RowCreated`, `IntentMoves`, `RowMoves`). The parts about
requests (`SlotsInv`) rest on what never goes back: an intent keeps its order and
what has happened to it (`IntentsGrow`), a row its intent (`PaymentsKept`), an
order its history (`OrdersKept`); so a slot is well founded after any step of
another (`PaySlotKept`). `OrdersSurvivePayments`,
`PaymentsLoseNoSignature` and `PaymentsMoveNoOrder` carry what is proved of orders
over to `PaymentsSpec`.

`EscrowImplemented` is the refinement: `PaymentsSpec` implements `Escrow`, with no
condition: with events redelivered or not, releases and refunds of one order
racing, and requests dying at every await. The proof first replaces the money of
an order, a fact about all its intents, by the state of the one intent its row
names (`MoneyIsByRow`, from `PaymentsInv`); then each action is a step of the
money, a step of the ledger, a delivery, or a stutter. `EscrowInv` says what the
ledger waits in: a row that a request settles is never PENDING again; while a row
is PENDING its intent has neither been captured nor refunded; and an event that
comes once finds its row PENDING. That a request which writes RELEASED or
REFUNDED finds a row Escrow lets it write over is the point where the two may
race: either the row is HELD, or the other of the two has been entered, and then
the money was paid out and back.

`ReviewsProofs` proves `ReviewsSpec => []ReviewsInv`: `OrdersInv`, the two safety
invariants about reviews, and for each review slot what has happened to its
order by the time it is at its pc (`ReviewWellFounded`). Steps on orders keep
the part about reviews because history only grows (`HistoryGrows`) and their
messages are never about reviews (`OrdersSend`); steps on reviews keep
`OrdersInv` because they leave orders alone (`UntouchedKeepsOrders`), except for
the unguarded write of REVIEWED, which keeps every stage accounted for because
the request saw the order delivered (`MarkReviewedKeepsOrders`).

`AccountsProofs` has three results. Types include that no two users share an
address. `LogoutLasts` (`LogoutEndsSessions`) adds to the property that nothing
is in flight for a quiet user that could open a session (`NothingComing`); a
refresh that could needs a session to find, and there is none.
`RefreshMultipliesNothing` (`RefreshAddsNoSession`) is a counting argument. The
invariant `Rotation` says that an uncontested row is being replaced, or was
replaced, at most once (`RotatedOnce`), and that what is replaced is revoked and
of the same user (`Succession`). So the rows a refresh issued map one-to-one into
rows that are no sessions (`SessionsCounted`), and the sessions cannot outnumber
the rows that logins issued.

`ProvidersProofs`: `ProvidersTypeCorrect` needs that a request about to relate its
tags has them in the Tag table (`TagsUpserted`) and that the percentage of at
most eight of eleven checks is one (`PercentTyped`). `TagsAreSynced` adds to
`TagsSynced` what holds in the middle of a replacement (`Syncing`): there is one
at most, it is for the tags asked for, and the relations are gone, unless two
have met or one has died. `ScoreStaysCurrent`: as long as nothing has been
touched since the last computation, the score stored, or about to be stored by
every request that has one, is the percentage of what is filled (`ScoreInv`).

`NoticesProofs`, on messages: `OnlyReceiversRead` and `NoticesTrue` rest on `Correspondence`:
rows that are not stored are empty, a request in flight is about a stored
message, and when it comes to the job the notification is listed. With two
participants the recipient is determined by the sender, which never changes.

On subscriptions, `OnlyLapsedExpires` adds that what is still listed and not
overtaken has lapsed and is not cancelled (`Expiry`). Days only pass, so it stays
lapsed; every write of the user while it is listed makes it overtaken.

`GroqCallersProofs` is about the client and its callers.

- `CallsEndInTime`: in each of the three specifications that make calls, a call
  makes at most `MaxRetries` attempts and is over within `Patience`. `TimeInv`
  bounds what a call has taken by where it is: the attempts behind it, and
  `Slept` of them. `Slept` is a recursive function; that its recursion has a
  solution is shown by giving one (`SleptIs`: sleeps that double up to the
  fifth, and are `MaxBackoff` from there on), that it grows (`SleptGrows`) by
  induction over *sets* of numbers (`NumbersInduct`, from the minimum of a
  well-founded order), which needs no operator as a parameter.
- `CachedParsesFit`: what is cached is the model's answer to a query of that key,
  never a fallback, as a request about to store has filters (`ParsingInv`).
- `SearchesHonourCaller` and `UnannotatedKeepTheirOrder`: the merged filters are
  at least as strict as those given (`MergedIsStricter`), also where the parsed
  `maxPrice` is null; a page is read under them, and the ranking permutes it and
  adds nothing. The order after the ranking is a `CHOOSE` of a sorted permutation;
  that there is one is the counting of `PlacesTaken` and `SortedPermutes`:
  every candidate has a place of its own among those ahead of it.
- `SuggestionsStayNear`: whatever the model says, a number that leaves the
  service is within thirty percent of the baseline, up to rounding, or it is no
  number.
  `PricesKeptNear` says it of the cache; it holds because contexts that share a
  key share the baseline (`OneKeyOneBaseline`), and it needs the order
  statistics to be numbers: `SmallestIs` and `OrderedAscends` say what the k-th
  smallest is, by counting the places below and up to a value, and
  `MedianHalves` that as many prices lie on one side of the median as on the
  other (`MediansSplit`).
- `CancellationsAreFlagged`: the rule check adds its flag whatever the model has
  flagged, or the draft is the standard contract and says so.

The compositions. The types of `MCNotices` and `MCDirectory` are proved from those
of their parts, and not again: a behaviour of the composition is one of each part
(`NoticesServeEach`, `DirectoryServesEach`). Search and prices share the calls of
the client, so this is true of them only while the other is not served; then it
is at rest (`DirectorySearches`, `DirectoryPrices`). So every invariant that
`directory_race` checks is also a theorem of `DirectorySpec`
(`DirectoryTypeCorrect`, `DirectoryKeepsProfiles`, `DirectoryKeepsAnswers`).

Assumptions, all in the modules that declare the constants and evaluated by TLC:

- `Null` is neither an id nor a price nor a status, and `Undefined` no number and
  no parse: SQL NULL and `undefined` are values of their own;
- prices are naturals, `CanFail` and `Redelivery` booleans, `MaxRetries` and
  `Timeout` naturals (also 0), the model is shown at least one candidate;
- a term is a positive number of days, there are two participants, the counted
  fields are the three of the code, the tokens are a finite set (the counting
  needs it);
- the profiles are rows of a table: finitely many, with an id each, a rating and
  prices that are naturals; the searches are what the validators of the DTO let
  through (`DtosAssumption`);
- the model may answer anything its reader lets through: annotations and opinions
  are numbers, nothing, or for a price `NaN`.

No theorem has a hypothesis about the behaviour: each is about every behaviour of
its specification.

Model-checked only:

- that the properties of the violation runs fail, of course;
- liveness (`CaptureIsRecorded`, `ReviewIsCounted`, `MessageIsDelivered`,
  `LapsedIsRefused`, `DraftIsAnswered`): fairness is about ENABLED, which is out
  of the prover's reach.

No module declares a RECURSIVE operator; sums and sorts are by sets, functions
and the folds of the community modules.

## What the checks found

Each of these is a violation run, with the line it contradicts in `PROJECT.json`.

1. A pending counter-offer can be accepted in any status; a cancelled order
   comes back as CONFIRMED, a signed one falls back (`orders.service.ts:332`).
2. Two concurrent signatures can lose one, after the counterparty was told of it
   (`orders.service.ts:215`).
3. A redelivered webhook turns RELEASED or REFUNDED into HELD
   (`payments.service.ts:81`).
4. Overlapping reviews of one provider can leave a rating that misses one of
   them (`reviews.service.ts:118`).
5. The nightly job expires a subscription that was renewed after the job had
   listed it, and its user is locked out with a paid term ahead
   (`subscriptions.service.ts:110`).
6. A notification that fails ends the nightly run; a row that is always behind
   such a one stays ACTIVE with its term over, on no night expired
   (`subscriptions.service.ts:115`).
7. A query that names no price is parsed with a `maxPrice` of null, which
   validation accepts and the search hands to the database as a limit
   (`search.service.ts:68`).

Observed while modelling, where no run expects a violation:

- Funds of an order that was reviewed before the release stay held: releaseFunds
  wants DELIVERED (`payments.service.ts:101`).
- A request that dies between the capture and the update leaves the payment HELD,
  and every further release is refused at Stripe (`payments.service.ts:118`);
  without `abandoned` in it, `CaptureIsRecorded` fails. After a crash behind the
  insert a review is never counted, and sending it again is refused
  (`reviews.service.ts:56`).
- A release racing a refund of the same order: both find HELD, and nothing in
  `payments.service.ts` keeps the second out. Stripe captures and refunds in the
  order the calls come, and the row says what was written last
  (`payments.service.ts:118`, `payments.service.ts:162`); `Escrow` has both
  writes as steps of the ledger.
- The amount held need not be the price agreed by then, nor the order still open:
  both are checked before the intent is created (`payments.service.ts:36`) and
  not again.
- Of two overlapping updates of a profile the completeness score that was computed
  first may be stored last (`providers.service.ts:190`); `ScoreIsCurrent` is about
  profiles where no such overlap is under way or has been.
- A request in flight at the logout may leave its session behind
  (`auth.service.ts:138`); `LogoutEndsSessions` is about the others.
- Marking a thread read marks also what has arrived since the caller listed it
  (`messages.service.ts:122`).
- A refresh that dies between revoking the old row and inserting the new one logs
  its user out (`auth.service.ts:147`); a refresh revokes any live row of its
  user, not the one presented (`auth.service.ts:138`).
- The comment says that both parties are notified of a status change; the
  counterparty is (`orders.service.ts:249`).
- The keys of the category map are not the values of ProviderCategory, so every
  contract is drafted from the catering template (`orders.service.ts:371`); the
  draft is told the agreed price only, never the quote (`orders.service.ts:388`).
- A figure of the model that is no number passes the clamp as NaN and is cached
  (`pricing.service.ts:175`). The lower bound of 1000 is not capped by the upper
  one, so for very small prices the range is empty (`pricing.service.ts:98`).
- Paging over equal ratings is not stable: with no tie-breaker a provider may be
  on two pages or on none; sorting by price sorts by the *number* of pricing
  items (`search.service.ts:109`).
- A cached parse answers with the spelling, and the relative dates, of the
  request that filled the cache (`search-parsing.service.ts:49`).

## Not modelled

- The reminder job of the subscriptions (reads, then sends) and `ping` of the
  client (one request of the health check).
- Favorites: single-statement operations; buyers, dashboards and earnings:
  read-only; updateMe of the users: columns no decision reads.
- The flutterwave stub; wiring, error formatting and role guards, which decide
  before a handler starts; health and app.
- What certifications, avatar and phone add to the completeness score: they are
  left as they are by this service, and count as missing.
- Seed and migrations, prompts, and the compiled `dist/`.
