# stapel-billing in TLA+

TLA+ models of stapel-billing, a Django app that keeps credit wallets and
mirrors subscriptions, the TLC runs that check them and machine-checked proofs
about them. `services.py:1373` and the like are lines under `src/`.

- [1. The system](#1-the-system)
- [2. Modules](#2-modules)
- [3. How the models correspond to the code](#3-how-the-models-correspond-to-the-code)
- [4. What is checked](#4-what-is-checked)
- [5. What is proved](#5-what-is-proved)
- [6. Where the documentation and the code part](#6-where-the-documentation-and-the-code-part)
- [7. Not modelled, and why](#7-not-modelled-and-why)
- [8. What could come next](#8-what-could-come-next)

## 1. The system

stapel-billing is services over one database, called by HTTP views, by a
payment provider's webhooks, by other services (a debit endpoint, bus actions)
and by periodic tasks. All concurrency is between database transactions. What
serialises them is a row lock on the wallet (`_lock_wallet`) or on an event's
log row (`apply_stored_event`), unique constraints that act as claims
(idempotency keys, `ProviderGrant`) and, in places, nothing.

| Component | State it keeps | Operations | What makes it hard | What makes it correct | Module |
|---|---|---|---|---|---|
| lot arithmetic (`services.py` 149-560) | none; works on a wallet's `CreditLot` rows | consume, expire, refund to reservations, settle debts | five walks over the same rows in different orders | a walk takes exactly what was asked, as far as it is there, and never more than a lot has | `CreditLots` |
| credit wallet (560-1370) | `Wallet.balance`, `CreditLot`, `CreditHold`, `HoldAllocation`, `CreditDebt`, `Transaction` | credit, debit, hold, capture, release, meter-only variants | retries with a key, `now` read before the lock, credits that die while reserved, holds re-armed by key | the cached balance is the live lots; credits neither appear nor vanish; one row per key; a captured hold is final | `CreditWallet` |
| expiry workers (`tasks.py`) | none | `expire_credit_lots`, `expire_holds` | list first, lock later, one by one | what is due goes eventually; only what is due goes | `CreditWallet` |
| clawback and dispute reversal (3460-3838) | rows of the wallet, `ledger.metadata` | `claw_back_grant`, `_handle_clawback`, `_reverse_clawback` | refunds and disputes of one payment in any mix, credits spent, reserved or expired meanwhile | never more than was granted; the largest share asked for; a won dispute gives back what was taken | `CreditWallet`, `WebhookDelivery` |
| wallet merge (1373-1568, `actions.py` 50-125) | all of two wallets, subscriptions | `merge_wallets`, `handle_user_merged` | two locks, redelivery, callers that looked up a wallet before the merge | nothing is lost between two wallets, a merge moves credits once | `WalletMerge` |
| cache audit (1844-1880) | `Wallet.balance` | `reconcile_wallet_balances` | a full-row save of the wallet (`views.py:315`) writes an old cache back | it reports a wallet only if its cache is wrong | `WalletMerge` |
| plan bundles (1575-1841, `tasks.py` 119-172) | a claim per wallet, plan and period | `grant_plan_bundles`, `grant_plan_bundle` | overlapping runs, a month that ends meanwhile, one account's failure | one bundle to spend, none missed | `PlanEntitlement` |
| checkout and invoice grants (2257-2756) | `ProviderGrant`, wallet, `Subscription` | `handle_checkout_completed`, `handle_invoice_paid` | the same payment announced under several event ids | one grant per payment, at the catalogue's price | `WebhookDelivery` |
| webhook delivery and replay (2859-3011, `views.py` 545-643, the replay command) | `StripeWebhookEvent` | deliver, apply, record the error, replay | at-least-once delivery, concurrent copies, a crash between any two transactions | an event takes effect once; a failed one can still be applied | `WebhookDelivery` |
| subscription lifecycle (3014-3291) | `Subscription` with its provider clock, `PendingSubscriptionPeriod` | created, updated, deleted events, the cancel button | events out of order; checks made on an unlocked read | a stale event never wins; the parked period is not lost | `SubscriptionLifecycle` |
| reconciliation (3309-3455) | the same | fetch from the provider, overwrite | the fetched state is older than the row by the time it is written | the provider clock does not go back | `SubscriptionLifecycle` |
| complimentary periods (4038-4500) | `CompPeriod` | extend, revoke, effective plan | what is decided on unlocked reads is written later | what was given is allowed; carried days add up; one comp bundle at a time | `PlanEntitlement` |
| entitlements (`entitlements.py`) | none | `check_entitlement` of a plan | plans retired from the catalogue, rows that stop entitling | the highest of what is paid and given governs | `PlanEntitlement` |
| notifications (`notifications.py`, `actions.py` 187-396, 3839-4025) | one claim per letter | announce, refuse what is stale, claim, send | a crash or a refusal between the claim and the letter | no letter twice, none forgotten | `Letters` |
| erasure (`gdpr.py` 169-362) | everything of one account | `erase_subject` | the account's money still moves; circles of row locks | what was there when it began is gone with the receipt, whatever handlers save on what they read before | `Erasure` |
| internal accounts (`internal.py`) | a host's policy | `meter_only`, `was_waived` | the policy changes between hold and capture | decided once, when reserved | `CreditWallet` |
| HTTP, admin and commands, configuration (`conf.py`, `catalog.py`, `checks.py`), payment providers (`providers/`) | none of their own | adapters | | | the ones that write state are actions of the modules above |

How they interact: webhook handlers, views and tasks call the wallet's
services and never touch lots themselves (`views.py:315` is the exception, see
section 6). Every service that moves lots ends in `_sync_balance`. A service
that reaches another wallet (merge) locks both. Facts for other services leave
through a transactional outbox; the package's own consumers turn the ones about
money into letters.

`PROJECT.json` lists the hazards at the line where each bites.

## 2. Modules

| Module | What it is |
|---|---|
| `CreditLots` | pure lot arithmetic: the walks, expiry, refunds, debts |
| `CreditWallet` | one wallet as a state machine, its properties, its fair specification |
| `CreditAccount` | what a wallet promises, without lots: dated credits, the soonest-dying spent first, reserved credits back with the date they came with |
| `CreditWalletRefinement` | `CreditWallet` read as a `CreditAccount` (`ImplementsAccount`) |
| `SubscriptionLifecycle` | one user's subscription row, the events, handlers, checkout, cancel button and reconciliation that move it |
| `WebhookDelivery` | events on their way into the ledger: log row, handler, processed mark, error, answer, replay; sales, refunds, disputes |
| `PaymentBook` | what delivery promises: every event acted on once, every payment granted once |
| `WalletMerge` | several wallets, a merge and the calls that looked up their wallet before it; uses the walks of `CreditLots` |
| `PlanEntitlement` | which plan governs an account, comp windows, the monthly bundle sweep |
| `Letters` | from facts in the outbox to letters asked for |
| `Erasure` | two erasure requests next to spends, captures, settings saves and webhooks, with row locks and deadlocks |
| `MC...` | the instances TLC checks; the `.cfg` files give the constants |
| `CreditLotsLemmas` | sums over finite sets; what each operator of `CreditLots` returns, preserves and bounds (theorems) |
| `CreditWalletProofs`, `WalletMergeProofs`, `SubscriptionProofs`, `PlanProofs`, `WebhookProofs`, `LettersProofs`, `ErasureProofs` | the theorems about the specification of that component |

The wallet is the resource everything else calls. `WebhookDelivery` and
`PlanEntitlement` do not repeat what a grant does to lots: there a grant is a
row, and that its credits are conserved, dated and spendable is
`CreditWallet`'s business. `WalletMerge` does repeat lots, in a shorter form,
because it is about two wallets at once.

Operators commented `Mutant of ...` are not part of the model: they are what
the named definition would be with a plausible bug. Each property of a run is
broken by at least one of them (the list is in `PROJECT.json`).

## 3. How the models correspond to the code

### The wallet

**A service is an action.** `credit`, `debit`, `hold`, `capture`, `release`,
`claw_back_grant` and `_reverse_clawback` are `@transaction.atomic` and lock
the wallet's row before they read lots, so no other service sees or changes
anything of this wallet in between. An action's guard collects the code's early
returns and raises: a raise rolls back and a replayed key returns the existing
row, so in both cases nothing happens.

| Action | Code |
|---|---|
| `Credit(key, c, exp, settle)` | `credit()`; `settle` is its `settle_debt` |
| `Debit(key, c, partial)` | `debit()`; `partial` is `allow_partial`, the rest becomes a debt |
| `MeterOnlyDebit(key)` | `_meter_only_debit()` |
| `Hold(h, c, exp, waived)` | `hold()`; `h` is the hold's idempotency key |
| `CaptureWithin`, `CaptureBeyond`, `MeterOnlyCapture` | the three ways through `capture()` |
| `Release(h)`, `GiveBack` | `release()` |
| `ListStaleHolds`, `ExpireHold(h)` | the query and the loop of `expire_holds()` |
| `ExpireCreditLots` | `expire_credit_lots()` for this wallet |
| `ClawBackGrant(g, target, reason)` | `claw_back_grant()`; `target` is the total a refund has reached so far |
| `ReverseClawback(r)` | `_reverse_clawback()` |
| `Tick` | time |

**What is not under the lock is kept apart.**

- Most services compute `now = timezone.now()` before they wait for the lock
  and use it after. `Readings` is the set of clock readings a call that gets
  the lock now may have made; `MaxLag` says how long it may have waited. So
  two calls may work with clocks that run backwards relative to each other.
  `ExpireCreditLots` and `ClawBackGrant` read the clock under the lock.
- `expire_holds()` lists ids without a lock and then releases them in
  transactions of their own. `sweep` is what is left of that list; between the
  listing and the release anything may happen to a hold, including that it is
  released and reserved again under the same key.

**Data.** A lot is `[rem, exp, grant, expired]`. Rows the code writes beside
other changes are kept as sums in the record they belong to, because the
properties only ask for the sums: `EXPIRATION` rows are `lot.expired`,
settlement rows are `debt.billed`. All other ledger rows are records of
`ledger`. `expires_at IS NULL` is `Never`, a reading the clock does not reach;
the order by `expires_at` with nulls last then needs no case. The order
`created_at, id` is the index in the sequence. Allocations are a function from
lots to credits, which is what the unique pair (hold, lot) makes them.
`HoldReleaseLots` creates the fresh lots in the order in which the code walks
the allocations, so ties in later walks are broken as the code breaks them.

**The walks.** Every loop of the form `take = min(remaining, lot.credits);
remaining -= take` is one operator, `Walk(n, f, R)`: at stop `i` it takes
`Clip(n - what came before, f[i])`. No recursion is involved, so the provers
can work with it. Consecutive walks of settlement debts over the lots are one
longer walk (`LotsAfterSettling`).

**Money back.** `ClawBackGrant` takes the grant's total target as Stripe
reports it (`amount_refunded` is cumulative) and subtracts what earlier rows
requested and were not reversed for. A dispute always targets the whole grant.
One grant per charge: how a charge that paid for several grants is divided
(`_claw_back_remaining`) is `WebhookDelivery`'s business (`TakeBack`, `StillToTake`).

**The abstract account.** `CreditAccount` knows credits by the instant they
die, nothing else: no lots, no ledger, no cache. Given a reading of the clock
its steps are deterministic: what is spent is what dies soonest, what comes
back from a reservation is what dies latest. `CreditWalletRefinement` maps a
wallet to it by summing, per deadline, the lots and the open allocations. So
the five walks in their different orders, over lots that are split, expired and
written anew, must amount to that one rule.

### Subscriptions

Subscriptions are locked differently: hardly at all. A webhook handler is a
transaction, but it reads the `Subscription` row with a plain `SELECT`, decides,
and saves the fields it changed (`update_fields`). `Begin(w)` is the read,
`Apply`, `DropStale`, `Park` and `Checkout` are the decision and the save, on
whatever the row holds by then, with the commit that also marks the event
(`apply_stored_event` holds the lock of the event's log row, so no two workers
hold one event). `Checkout` is one step after its read of `existing`:
`update_or_create` locks the row, and what follows (the claim of the parked
period, the grant) runs under that lock. The same holds for a handler that adopts a row
without a provider id: adoption is a save, early in the transaction (`adopts`,
`RowFree`).

| Action | Code |
|---|---|
| `Create`, `Pay`, `Renew`, `Fail`, `Recover`, `End` | the provider; each change emits events with its stamp and the state after it |
| `Begin(w)` | `_resolve_local_subscription()`, the look at the parked period, the look at the existing row |
| `DropStale(w)` | `_drop_stale()` |
| `Apply(w)` | the rest of `handle_subscription_updated()`, `handle_subscription_deleted()` |
| `Park(w)` | `_stash_subscription_period()` |
| `Checkout(w)` | the plan part of `handle_checkout_completed()` with `_apply_pending_period()` and the bundle |
| `Rollback(w)` | the handler raises or its process dies; the event stays unmarked and comes again |
| `ReadSubscription`, `ClickCancel`, `ShowCancelled` | `SubscriptionView`, `SubscriptionCancelView` before and after the provider's answer |
| `ListRow`, `Fetch`, `SaveRepair` | `reconcile_subscriptions()` |

Four of the eight statuses are modelled; the others differ in wording and rank
only. Stamps are whole seconds; `SameSecond` says whether two changes may share
one. `NamesUser` and `SharedCustomer` are deployments: whether the host puts
the user into the subscription's metadata, whether a user's subscriptions share
a provider customer. A bundle is only its `expires_at`. `cancelled_at` is left
out: it follows `cancel_at_period_end`.

### Webhooks

The view stores the event's row in a transaction of its own, runs the handler
and the processed mark in a second one under the row's lock, and records a
failure in a third. A worker may die between any two of them.

| Action | Code |
|---|---|
| `Receive(w, e)` | `StripeWebhookView.post()` up to the log row; a processed event is answered at once |
| `Replay(w, e)` | `replay_webhook_events` takes up a stored event |
| `Look(w)` | `apply_stored_event()` up to the handler's first write: the second look under the row's lock (`Duplicate`), and what the handler reads without a lock (`Finds`) |
| `Apply(w)` | the rest of it: the handler's claim and writes, the mark, the commit |
| `CheckoutCompleted`, `InvoicePaid`, `TakeBack`, `Undispute`, `Report` | the handlers, as parts of `Apply` |
| `Fail(w)`, `RecordError(w)` | the handler raises and its transaction rolls back; `log.error` is saved without the lock |
| `Answer(w)`, `Die(w)`, `GiveUp(e)` | the 200, a dead worker or a lost answer, the provider's last retry |

Of a payload the model keeps what handlers branch on. `about` is the session,
invoice, charge or dispute, `pays` the payment id a grant records and a refund
names; `ok` sums up the checks a checkout or invoice must pass (paid, the right
sum and currency, a buyer we know). `Target` keeps Python's banker's rounding,
because partial refunds are shares of a sum. A handler is two steps. Before it claims
anything it asks, without a lock, whether there is a local subscription
(`services.py:2694`), a grant to take back or a dispute to undo; the answer is
`found`, and by the time it writes another event's handler may have committed.
From the claim, a unique row, and the wallet's lock on it is one step. Of the
look-up only whether it found anything can be old: a payment is granted once, and
one event takes all that a dispute takes. What the provider may say in one behaviour is a set of events (`Stories`),
delivered in any order.

### Merging wallets

`merge_wallets()`, `release()` and `claw_back_grant()` learn which wallet to
lock before they lock it, and `WalletView.patch()` writes back a row it read
without a lock: each is two steps of a process (`BeginMerge`/`Merge`,
`LoadHold`/`Release`, `LoadGrant`/`ClawBack`, `ReadWallet`/`SaveWallet`).
`credit()`, `debit()` and `hold()` find the wallet with the lock on it and are
one step. `Renamed` is what happens to a hold key the survivor has used;
`Forfeit` is `MERGE_FORFEIT_LOT_SOURCES`. `reconcile_wallet_balances()` reports
and changes nothing, so it is the set `Drifted`. Settings of a guest cannot be
saved (`GuestDeniedMixin`), hence `Patchers`, and
who is folded into an account is never a survivor himself
(`GuestsAssumption`, from `actions.py:53-57`).

### Plans, comp windows and bundles

`extend_subscription()` looks at the windows, the row, the catalogue and the
clock outside its transaction: `Decide` takes a decision to the desk, `Write`
commits it later. `grant_plan_bundles()` fixes the period when it starts
(`BeginSweep`), reads who is entitled chunk by chunk (`Resolve`) and grants row
by row (`GrantBundle`, `FailToGrant`). The subscription row changes under both:
`MirrorProvider` when it is the provider's, `EditPlan` when the host keeps it.
`Retire` takes a plan out of the configuration. `EffectivePlan` and `Best` are
`effective_plan()` and `governing_comp_period()`; `Allows` is the plan part of
`check_entitlement()`.

### Letters

`Happen` is the handler's transaction with the fact in its outbox
(`Announces`). `Take` is a consumer of `actions.py` up to the staleness gate;
`Claim`, `Publish` and `Release` are `_claim_and_send()`: claim the letter,
ask the notification service, give the claim back if it does not take it. `Ack`
ends the delivery, `Die` and `Redeliver` are the bus. Branches no fact can reach
(an announcement that names no payer, a letter without a subject) are left out.

### Erasure

Every request is one transaction at the database's default isolation: each
statement sees what is committed by then, writes become visible at the commit
and row locks are held until then. `Begin`, `Pin`, `Scrub`, `Detach`,
`ScrubPayloads` and `Commit` are its statements in the code's order. `Holds` and
`Wants` are the row locks a transaction has and needs next; `BreakDeadlock` is the
database's choice of a victim. A row is its text and its mark; `mark`
stands for the metadata flags that tell money from none, and `text` says of when
what it says of the person is: of before the first request began, or since.

Next to it run the calls that still reach the account, each a transaction that
reads first and writes when it gets the locks it needs:

| Action | Code |
|---|---|
| `Spend` | debit, hold, operators' grants, one step under the wallet's lock |
| `BeginCapture`, `Capture` | `capture()` finds the wallet by the hold and copies the hold's text and marks |
| `BeginSave`, `Save` | `WalletView.patch()` reads the wallet and writes all of it, its user too |
| `Store` | the event's row with its payload |
| `BeginHandle` | the event row's lock and the handler's look-up: the subscription and the ids it lacks (`Adopted`), the payment's rows (`Payments`), the dispute's (`Disputed`) |
| `Adopt` | `_resolve_local_subscription()` saves the ids by the row's primary key |
| `Bind`, `Grant` | a checkout's `update_or_create` on the user's row, and the grant; sales only grant |
| `ClawBack` | a refund or dispute writes its row and perhaps a debt |
| `Won`, `GiveBack` | `_reverse_clawback()` notes the event in the metadata of the row and its debt and writes the restoration |
| `Unmatched` | nothing of ours was found |

What a behaviour starts with and which events come is a `Story`.

## 4. What is checked

Every unbounded thing has a bound in a guard, named in the module: clock
readings, ledger rows, lots, holds, windows, faults. At the bounds nothing more
can happen, hence `CHECK_DEADLOCK FALSE`; the code itself never waits, except in
`Erasure`, where waiting is the subject and `EveryRequestReceipted` says that it
ends.

| Run | Instance | States | Question |
|---|---|---|---|
| `spend` | no holds; one key; whole and partial debits, refunds and disputes; five rows: a grant, a charge, a dispute, the top-up that settles its debt, the restoration; grants that die at 1 or never; clock to 1 | 1.1 million | are keys used once, debts collected first, and each debt owed, collected or closed by a won dispute that gave back what it had collected; are clawbacks within their grant |
| `holds` | two holds (symmetric), disputes, deadlines 1 and never, lag 1 | 679 thousand | do reservations survive partial captures, overdrafts, expiry, sweeps, re-arming and disputes of the credits behind them |
| `account` | one hold, waived or not, disputes, `FairSpec` | 196 thousand | does a wallet behave as an account of dated credits, are the books of a hold right, do abandoned holds and dead credits go away |
| `lifecycle` | one subscription, one worker, distinct seconds, seven events, one failing handler | 794 thousand | does any order of delivery end at the provider's state |
| `lifecycle_workers` | two workers, adoption by user, one reconciliation, shared seconds, `FairSpec` | 34 thousand | is every event handled, every bundle dated |
| `webhook` | two web workers, one replay, four stories, one fault, look-ups apart from writes, `FairSpec` | 630 thousand | does delivery implement the book, does no claim outlive its grant, is the right share taken back |
| `merge` | a guest folded into an account by two deliveries, next to a release, a refund or a settings save | 1.6 million | do credits stay, once, with the person they were given to |
| `plan` | one operator, or two sweeps and the host; three plans; two windows; months of two days | 1.8 million | is what was given allowed, does carried time add up, is there one bundle a month |
| `letters` | two consumers, six stories, two faults | 693 thousand | is every matter written about once, or refused or lost for a reason |
| `erasure` | two requests, one caller, six stories, three rows, one dying worker, `FairSpec` | 387 thousand | is what was there gone with the receipt, does every request get one |
| `wallet_cache`, `clock_back` | the smallest instance with the actors concerned | | section 6 |

Why the bounds are enough to be interesting.

- Wallet: amounts are 1 and 2, so a spend can be smaller than a lot, exactly a
  lot, or span two; three or four lots admit a walk that crosses lots of
  different grants and deadlines, and a hand-back next to them. A deadline at 1
  with the clock at 0 or 1 is crossed in the run, and with `MaxLag = 1` a call
  may act with the reading from before it was crossed after another has acted
  with the one from after. `spend` has five rows and no lag: five are a grant, a
  charge, a dispute of what was spent, the top-up that settles its debt and the
  restoration, and stale readings are the business of `holds` and `account`
  (the theorems hold its rules for any lag). In those, three rows are a grant
  and two charges, or a grant, a dispute and its restoration. `LotsBounded`
  counts the lots open reservations may hand back, so that reaching the bound
  never prevents a release.
- Subscriptions: seven events are the creation, the payment with its checkout
  and four changes after it, enough for a parked period to be replaced, claimed
  and outlived. `lifecycle` asks for one worker and distinct seconds because
  that is what the order by stamps can promise; section 6 shows what is lost
  without either.
- Webhooks: two web workers and a replay are the three ways one event can be
  under way at once. The stories are a plan renewed by an invoice that two
  event types report; a decline before and after the subscription is known; a
  payment refunded in part and then in whole; one refunded, disputed and won.
- Merge: two processes are the merge and one call that looked up its wallet
  before, or two deliveries of the merge; two wallets and two holds let a key
  collide; three rows are a grant, what is done to it and the merge.
- Plan: a ladder of three plans whose bundles do not rise with the rank, two
  windows to overlap or stack, a clock that crosses the end of a month. The
  operator and the sweeps share no state but the day, the catalogue and the
  row, so `Staffing` runs them apart.
- Letters: the stories hold what can collide on a claim (attempts of one
  invoice, the charge beside them, two announcements in one day) and what must
  not; two faults are a refused publication and a death, or two of either.
- Erasure: three rows are one scrubbed, one a capture copies and one written
  later, or a disputed payment, its debt and the restoration. The stories are
  wallet settings saved meanwhile, an invoice, a first checkout, a subscription
  event that finds its row by the customer, a payment disputed and a dispute won.

What the properties say, beyond the type invariants:

| Property | In words |
|---|---|
| `BalanceIsLiveLots` | the cached balance is what the lots could be spent for at the reading it was computed with, whatever else the call did |
| `Conservation` | lots plus open reservations equal the ledger's deltas less expirations and settlements |
| `HoldsAccountedFor` | an open hold is backed by exactly the credits it names, a captured one has one charge for what its allocations add up to, the others have neither |
| `KeysUsedOnce` | one ledger row per idempotency key |
| `DebtsAccountedFor` | a debt is owed or collected; a won dispute gives back what was reclaimed and what its debt had collected |
| `ClawbacksWithinGrant` | refunds and disputes never exceed the grant |
| `GrantDeadlineKept`, `HandedBackDead` | no detour through a reservation or a dispute prolongs credits |
| `LotsOnlyShrink` | a lot's remainder never grows and its identity never moves |
| `CapturedIsFinal` | nothing touches a captured hold again |
| `DebtsCollectedFirst` | after a top-up, credits are left only if nothing is owed |
| `ImplementsAccount` | the wallet implements `CreditAccount` |
| `AbandonedHoldsResolved`, `DueLotsExpired` | liveness of the two workers |
| `NewestWordHeld`, `MirrorsOnceHandled` | the row is at the newest word handled; when all are handled, at the provider's state |
| `ParkedIsClaimed`, `BundleDated`, `EveryEventHandled` | no period stays parked under an id the row carries; a bundle is dated once the row knows a date; every event is handled |
| `ImplementsBook` | each event moves the book once, each payment is granted once, at its price |
| `NoSaleLost` | an event marked processed, that could be granted by what its handler looked up, leaves its payment granted, by itself or by another event |
| `LargestShareTaken` | overlapping refunds, credit notes and disputes take back what the largest of them says, not their sum |
| `EveryEventProcessed` | an event is processed in the end, or the provider gave up on it |
| `Conservation` (merge) | over all wallets, nothing is copied or dropped; a merge row makes no credits |
| `EveryCreditHasItsHeir` | credits, free or reserved, are with the account they were given to or the one it was folded into |
| `MovedOnce`, `PlansKept` | a pair's credits are announced once; a paid plan does not evaporate in a merge |
| `WhatWasGivenIsAllowed` | whatever overlaps or is retired, what one open window or the paid row allows the account may do |
| `CarriedDaysAdd`, `OneCompBundle` | a carry starts no earlier than the windows it came on top of end, and one that found none to wait for no earlier than the paid period; one comp bundle to spend at a time (both for one operator at a time) |
| `OneLiveBundle`, `EveryMonthGranted` | one monthly bundle of a plan to spend; every month's reaches the account |
| `OneLetterEach`, `TwoLettersAnInvoice` | one letter per matter; at most a first and a last one about an invoice |
| `ClaimMeansSent`, `EveryFactSettled` | a claim has its letter or somebody answering for it; every fact is told, refused as stale or lost with a dead consumer |
| `ErasedWhatWas`, `EveryRequestReceipted` | with the first receipt no text, payload or subscription that was there names the person, whatever a call writes on what it read before, and the ids and the wallet's owner are gone but for the two calls of section 6; every request gets a receipt |

The type invariants of `WebhookDelivery`, `WalletMerge`, `PlanEntitlement`,
`Letters` and `Erasure`, and `HoldKeysUnique` of `WalletMerge`, are not in the
runs' lists; they can be added to the `.cfg` and hold.

**Fairness.**

- `CreditWallet`: weak fairness of `ExpireCreditLots`, of `ListStaleHolds` and
  of `ExpireHold(h)` for each hold. `get_billing_beat_schedule`
  (`tasks.py:175-216`) runs both tasks periodically, and system check `W105`
  warns a host that does not; a run of `expire_holds` walks its whole list.
  Nothing is assumed of callers or of time.
- `SubscriptionLifecycle`: weak fairness of each worker's `Handle(w)`, because
  the provider redelivers what was not acknowledged. Handlers may fail, but not
  forever (`MaxFailures`). Nothing is assumed of the cancel button or of
  reconciliation.
- `WebhookDelivery`: weak fairness of delivering each event to some web worker
  (the provider retries for days; that it may stop is `GiveUp`) and of each
  worker's own steps. Nothing is assumed of the replay command.
- `PlanEntitlement`: weak fairness of each sweep, which the beat runs daily. A
  sweep that waits for the operator is not modelled: there is none to wait for.
- `Letters`: weak fairness of taking and of handling deliveries: the bus
  delivers what is due.
- `Erasure`: strong fairness of every request and of every caller, of those
  that wait with the wallet's lock in hand apart from the others, because the
  database grants row locks in the order they were asked for and a waiting
  transaction is enabled again and again; weak fairness of `BreakDeadlock`, the
  database's own timer. A request whose worker dies is delivered again.

## 5. What is proved

For every value of the constants that the `ASSUME`s of a module admit: any set
of amounts, keys, deadlines, events, workers, any bounds. The assumptions are
that hold keys are finitely many, amounts are positive, events are well-formed
records, an event id names one event, and that a payment has one price in the
catalogue however it is announced (`PricesAssumption`), that a payment id is one
session's or one invoice's (`PaymentsAssumption`: the first invoice of a plan is
left to its session); of merges that a guest is nobody's survivor and changes no settings
(`GuestsAssumption`); of plans that the ladder of the configuration is ordered,
what a plan allows the ones above it allow (`LadderAssumption`), and that periods
are not empty; of subscriptions that they are finitely many.

| Theorem | Property | Module |
|---|---|---|
| `TypeCorrect` | `TypeOK` | `CreditWalletProofs` |
| `BalanceCorrect` | `BalanceIsLiveLots` | `CreditWalletProofs` |
| `LotsShrink` | `LotsOnlyShrink` | `CreditWalletProofs` |
| `DeadlineKept` | `GrantDeadlineKept` | `CreditWalletProofs` |
| `KeysCorrect` | `KeysUsedOnce` | `CreditWalletProofs` |
| `CapturedHoldsFinal` | `CapturedIsFinal` | `CreditWalletProofs` |
| `WalkTotal` | a walk takes exactly `Clip(n, total)`: what was asked, or all there is | `CreditLotsLemmas` |
| `CreditsConserved` | `Conservation` | `CreditWalletProofs` |
| `HoldsBooksRight` | `HoldsAccountedFor` | `CreditWalletProofs` |
| `ClawbacksCorrect` | `ClawbacksWithinGrant` | `CreditWalletProofs` |
| `DebtsCorrect` | `DebtsAccountedFor` | `CreditWalletProofs` |
| `DebtsFirst` | `DebtsCollectedFirst` | `CreditWalletProofs` |
| `HandedBackSwept` | `HandedBackDead` | `CreditWalletProofs` |
| `AccountImplemented` | `ImplementsAccount`: `CreditWallet` implements `CreditAccount` | `CreditWalletProofs` |
| `ConservationHolds` | `Conservation` (of `WalletMerge`) | `WalletMergeProofs` |
| `HeirsHold` | `EveryCreditHasItsHeir` | `WalletMergeProofs` |
| `MovedOnceHolds` | `MovedOnce` | `WalletMergeProofs` |
| `PlansKeptHolds` | `PlansKept` | `WalletMergeProofs` |
| `TypesHold` | `TypeOK` (of `WalletMerge`) | `WalletMergeProofs` |
| `SalesAreKept` | `NoSaleLost` | `WebhookProofs` |
| `DeliveryImplementsBook` | `ImplementsBook`: `WebhookDelivery` implements `PaymentBook` | `WebhookProofs` |
| `LargestShareHolds` | `LargestShareTaken` | `WebhookProofs` |
| `OneLetterForEachMatter` | `OneLetterEach` | `LettersProofs` |
| `NoClaimForgotten` | `ClaimMeansSent` | `LettersProofs` |
| `TwoLettersHold` | `TwoLettersAnInvoice` | `LettersProofs` |
| `ErasedHolds` | `ErasedWhatWas` | `ErasureProofs` |
| `TypesHold` | `TypeOK` (of `SubscriptionLifecycle`) | `SubscriptionProofs` |
| `WordHeld` | `Alone => NewestWordHeld` | `SubscriptionProofs` |
| `Mirrors` | `Alone /\ ~SameSecond => MirrorsOnceHandled` | `SubscriptionProofs` |
| `ParkedClaimed` | `OneWorker /\ ~NamesUser => ParkedIsClaimed` | `SubscriptionProofs` |
| `BundlesDated` | `OneSub => BundleDated` | `SubscriptionProofs` |
| `GivenIsAllowed` | `WhatWasGivenIsAllowed` | `PlanProofs` |
| `OneBundleLives` | `OneLiveBundle` | `PlanProofs` |
| `DaysAdd` | `OneAtATime => CarriedDaysAdd` | `PlanProofs` |
| `OneCompBundleLives` | `OneAtATime => OneCompBundle` | `PlanProofs` |
| `TypesHold` | `TypeOK` (of `PlanEntitlement`) | `PlanProofs` |

**The wallet.** The inductive invariant is `IInv == TypeOK /\ GrantsHaveLots`.
`TypeOK` alone is not inductive: `_reverse_clawback` copies the deadline of the
first lot of the disputed grant, and that such a lot exists (a grant never
loses its lots, they are zeroed in place) is what `GrantsHaveLots` adds. The
argument has two stages. Each action is first shown to be a `Step`: a
conjunction of what may happen to the clock, the lots (they descend: none
rises, new ones inherit grant and deadline), the cache, the debts, the ledger
(append one row with an unused key, or mark one reversed) and the holds. Then
every property is derived from `Step` once, without looking at the actions
again.

**The books.** Every action is a `BookStep`: it leaves lots plus reservations
plus what debts have collected where it was relative to the ledger (`Kept`), and
it moves at most one hold, along an edge of its life, with the charge that belongs to that
edge (`HoldsMove`). What a walk, a sweep, a hand-back or a settlement does to a
sum is proved once, in `CreditLotsLemmas`. The inductive invariant is `BInv ==
HoldsBacked /\ AllAccountedFor /\ Balanced` next to `IInv`. The two theorems
need each other: what a partial capture hands back is its allocation less the
charge, which is right only if the hold was backed by its allocation.

**Money back.** Of an action only the ledger and the debts count: it is quiet
(it posts at most one row, and that row is `Allowed`; debts collect, or the row
opens one) or it undoes a dispute. `ClawbacksWithinGrant` is inductive next to
`IInv`, because what a clawback asks for is capped by what earlier ones left.
For debts the invariant is `OneDebtARow /\ DebtsAccountedFor`: a row opens at
most one debt, so what `_reverse_clawback` computes as collected from its row
is what that debt did collect. `DebtsFirst` needs no invariant beyond `IInv`: a
walk for more than there is takes all of every stop (`SettledFirst`).
`HandedBackSwept` holds because a service that makes lots sweeps them before
it ends, and a spend after the sweep revives none (`BornAlive`).

**The account.** `AccountImplemented` shows that the wallet, with its lots, is
an account of dated credits that has none. What the lots of one date hold is that
date's funds (`Funds`), and the argument has three layers. What the operators
on lots do date by date comes first (the last part of `CreditLotsLemmas`,
and `AccountSweeps` to `AccountTakes`): a sweep is `Alive` (`AccountSweeps`), a walk over the live lots, oldest deadline first and
then oldest lot, takes `Soonest` (`AccountSpends`), a walk over an allocation the
other way round gives back `Latest`
(`AccountRefunds`); which of several lots of one date is taken does not show.
A lemma for each action of the account (`Grants`, `Serves`, `Reserves`, ...)
says what a step must do to funds, reservations and debts to be that action,
and one for each service shows that it does. The steps need more than
`IInv`, `RefinementInv`: a hold is backed by its allocations (`HoldsBacked`),
what a clawback reclaims lies at one deadline (`GrantDeadlineKept`), a won dispute
closes one debt (`OneDebtARow`), and what it gives back was granted once
(`RowsFit`): what a clawback reclaimed and billed is at most what it asked for,
and that at most the grant. Without the last, a dispute could pay back
more than anybody was ever granted, which is no step of the account.

**Merging.** The invariant `MergeInv` has two halves that hardly meet. The money
half: every action is a `MoneyStep` (`Kept`: lots, reservations and collected
debts of all wallets move together with the rows that are not merges), whichever
wallet it happens to have locked, so that a release whose hold was moved before
it got its lock is no special case. A step may only take credits where some of
the same grant already were (`Carried`); a grant and a merge are the two
exceptions, and they say from where to where. The other half is about calls
under way: the merge that looked up its wallets still finds the survivor's where
it was, and the guest's either where it was or closed, and closed if the pair's
credits have been announced (`Placed`); a settings save writes back an owner that
is still the owner. That is what makes a redelivery harmless: the second merge
finds an empty wallet. Most services change no owner and announce nothing, and
are done by one lemma (`StayingHome`).

`GuestsAssumption` is needed. `merge_wallets()` looks the survivor's wallet up by
its owner and not at its owner again once it has the lock: with chains
of merges (B folded into C while A is being folded into B) A's credits could be
moved to a wallet that has just been closed. `user.merged` is about guests, who
are folded into existing accounts, so chains do not occur.

**Erasure.** The invariant `EInv` says of each request what it has been through:
of the texts there were when the first request began, those in tables it has
scrubbed are among its `scrubbed` (`WillErase`). What it does not find is gone
already (`GoneWithTheirs`): a wallet without an owner has no such text left, an
erased subscription no such payload, because whoever detached them committed
the rest in the same transaction. What runs beside it (`RowsStay`, `Binds`,
`Outside`) adds rows after the ones that were there, adds to old rows only text
of its own time, stores no event twice and never takes a subscription away from
or back to the account; so nothing of what was there comes back. Two things do,
and the invariant says by whose hand: ids, where a subscription event may adopt
the row (`NoAdopters`), and the wallet's owner, where settings are saved.

**Delivery.** The invariant is `Shape /\ ClaimsBacked /\ QuietUntilProcessed`.
A claim on a payment and its grant are one transaction, so a claim is never
without its grant, a payment never has two, and its grant has the catalogue's
price (`ClaimsBacked`); an event that is not processed has told nobody anything
(`QuietUntilProcessed`). Without the first, a payment whose claim exists but
whose grant does not would be skipped by every retry, which is the lost sale
`NoSaleLost` excludes. It is about what the handler found when it looked: an
invoice whose subscription a checkout binds between look and commit is
`RenewalsGranted`, of section 6. The refinement maps the log to the set of processed
events and the ledger to what was granted; a worker that finds the event
already processed, fails, dies or answers is a stutter of the book.

What stands taken back of a grant is what its largest claimant says (`Covered`):
a claimant tops the earlier rows up to its own share, so the sum moves from one
maximum to the next. That holds for a grant made later only because nothing was
taken back for its payment before: a refund that finds no grant claims nothing
(`RowsSound`), and the grant it would have found is the payment's only one
(`PaymentsAssumption`). After a won dispute nothing is said about the grant any
more, and a row that was undone stays undone.

**Letters.** The invariant is `Shape /\ ClaimsAreExclusive`: a letter has its
claim; a consumer between claim and publication holds its claim alone and no
letter has gone out under it. `OneKeyAMatter` says that facts about one matter
reach the same claim key, which is what carries the property from keys to what
the customer would call the same letter. At most two letters about an invoice
needs that only announced facts are anywhere on the way (`OnlyAnnounced`): then
the letters of one invoice differ in whether they are about the last attempt.

**The row of a subscription.** Which of its properties hold depends on who acts,
and the theorems say on what. `OneSub` is a user with one subscription,
`OneWorker` webhooks handled one after another, `~NamesUser` a host that leaves
the user out of the metadata, `Alone` all of these and no reconciliation. Every
one of these hypotheses is needed: TLC finds a counterexample without it, most of
them among the configurations of section 6.

The core is `Word`. With nobody else writing, what the worker read is what the
row still holds when it commits (`InHand`; the cancel button moves a flag no
handler decides on). Then each of the five ways an event is handled (`Dropped`,
`Applied`, `Shelved`, `BoughtFirst`, `BoughtAgain`) can be stated about the row
itself, and the newest word moves with it: it sits in the row once the row
carries the id and in the parked period before that (`ParkedNewest`), and a
checkout that binds the row carries it from the one to the other. `NewestWordHeld`
holds for shared seconds too. `MirrorsOnceHandled` adds two facts. A stamp names
one change, each change has a lifecycle event, and the change with the newest
stamp is what the provider has (`Stamps`: about the provider alone). The row's
end is the one of the change its clock names (`EndHeld`), because a checkout,
which brings no period, leaves the end to the lifecycle event of its second.

`ParkedIsClaimed` needs less than that: only the worker binds the row, so an event
that found no row finds none when it parks (`Found`). `BundleDated` needs no
order at all: whatever copy a handler or a reconciliation saves, its subscription
is the row's (`Copies`), and whoever writes an end dates the bundle with it.

**Plans.** `WhatWasGivenIsAllowed` is about the choice `effective_plan` makes:
the plan with the highest rank allows at least what any of the others allows,
because the ladder was ordered and retiring a plan removes a rung without
reordering the rest (`Ladder`); a retired plan allows nothing of its own. `OneLiveBundle` rests on `MonthsKept`: a bundle ends
with the month it was claimed for, that month has begun, and a claim is made
once, so two sweeps that resolved the same account in different months cannot
leave two bundles to spend. For comp windows the invariant is `Alone`: what an
operator decided outside the transaction is still true at the write, because no
second operator gave anything in between (`Waits`, `NoneLive`; what was decided of
the paid period is written with the window), and time and
revocations only take windows away. `OneAtATime` is needed; two operators are
`MCCompGaps`.

**Sums.** Induction over data is not available to the provers as a schema, so
`CreditLotsLemmas` proves the inductions it needs by hand: a sum over a finite set is
a fold over its subsets ordered by cardinality, and a property of every finite
set is the absence of a smallest counterexample.

Every safety property of a passing run is stated by a theorem, for
subscriptions and complimentary periods under the hypotheses given above. Only
model-checked: liveness under fairness, which is out of the prover's reach (it has
no `ENABLED`) and stays with TLC. No module
declares a `RECURSIVE` operator: walks and sums are folds.

## 6. Where the documentation and the code part

Two are `violation` runs, with the shortest trace TLC finds.

- `wallet_cache` / `CacheMaintained`. `models.py:254-258`: the balance is a
  maintained cache, written only through the services.
  `WalletView.patch` reads the wallet without a lock and saves the whole row
  (`views.py:303`, `:315`), so a settings change writes back the balance from before a
  concurrent spend. No later spend is wrong (services recompute from the lots),
  and `reconcile_wallet_balances` reports the wallet until one does.
- `clock_back` / `ClockNeverBack`. `services.py:3060`: the provider clock moves
  "never backwards". Two handlers read the row, both pass `_drop_stale`, the
  older event is saved last (`services.py:3252`).

The others are kept as a property and a configuration to run by hand, for
instance `tlc -config MCStaleSweep.cfg MCCreditWallet.tla`; TLC finds each
violated. They are narrower, or what the documentation claims is open to
reading. `MCCompGaps` and `MCErasureGaps` serve several properties: the one under
`INVARIANTS` is checked, the others stand below it as comments.

| Configuration | Property | What is said | What the code does |
|---|---|---|---|
| `MCForgivenTwice` | `ForgivenHadExpired` | `services.py:3532`: what is forgiven had expired unspent | each clawback computes the forgiveness from all that ever expired in the grant, so two partial refunds forgive the same credits twice |
| `MCStaleSweep` | `SweptOnlyPastDeadline` | `MODULE.md:77`: the sweep takes holds whose `expires_at` passed | it lists first and releases later; a hold released and re-armed under its key in between is expired early |
| `MCClawbackOfHeld` | `OwedWasSpent` | `MODULE.md:197`: what becomes a debt was already spent | reserved credits are in no lot, so they are billed as a debt although they may come back unspent |
| `MCSameSecond` | `AdvancedWins` | `services.py:2818`: of two payloads of one second the more advanced status wins | a parked payload is compared by stamp only: `incomplete` goes over the `active` of a checkout |
| `MCForeignEvent` | `OwnEventsOnly` | `services.py:3076`: the customer route is for rows without a subscription id | the code does not ask, so the end of a customer's other subscription moves this row |
| `MCForeignPeriod` | `BundleOfOwnPeriod` | `services.py:2519`: a bundle lives as long as the period that pays for it | a second checkout dates it with the end the first subscription left on the row |
| `MCStaleParked` | `ParkedOnlyIfNewer` | `models.py:868`: a stash is applied only if it is newer than the row | its status is; its period is applied always |
| `MCParkedLost` | `ParkedIsClaimed` | `models.py:839`: the stash goes the moment the subscription claims it | with two workers, a checkout that commits between a handler's look and its insert claims nothing |
| `MCRepairRace` | `CurrentAsOfClock` | `services.py:3425`: the repaired row is current as of now | it is current as of the provider's answer; a change in between is then dropped as stale |
| `MCCancelRace` | `NotEndedAndLeaving` | `services.py:3275`: an ended subscription is not also leaving | the cancel button saves its flag after the answer without another look |
| `MCRenewalLost` | `RenewalsGranted` | `services.py:2658`: the plan's credits are granted on each renewal invoice | the handler looks for the subscription without a lock (`services.py:2694`); a checkout may bind it before the invoice's event is marked processed (`services.py:2915`). The month is not granted, and a replay of a processed event does nothing |
| `MCLateError` | `ProcessedHasNoError` | `services.py:2923`: applying an event clears the error on its row | a copy that failed saves its error after another copy succeeded (`views.py:638`) |
| `MCRefundUndone` | `RefundedStaysTaken` | `MODULE.md:184`: the handlers take back what a refunded payment bought | a dispute takes the rest of the grant, so a refund handled after it adds nothing; when the dispute is won, the refund's share comes back with it |
| `MCDebtsStay` | `DebtsMove` | `services.py:1388`: holds and debts move with the lots | a debt opened by a release or refund that looked up the source before the merge stays on the empty wallet |
| `MCCompGaps` | `NoSilentStack` | `services.py:4362`: comp time must never grow by accident | two operators at once: each decides on a read outside the transaction and stacks without having asked to |
| `MCCompGaps` | `PaidPlanGoverns` | `models.py:926`: a comp window is honoured only while the subscription does not entitle; the paid plan governs whenever there is one | `effective_plan` (`services.py:4201`, and its own docstring) takes the higher of the two |
| `MCCompGaps` | `NothingUnderneath` | `services.py:4250`: a carry opens when the paid period closes, so that no paid day is spent underneath | one that is stacked opens where the last window ends (`services.py:4371`), which after an upgrade that is over early is inside the paid period |
| `MCLetterLost` | `ClaimMeansSent` under `RaisingSpec` | `notifications.py:66`, `:296`: a letter that could not be sent may be tried again | if the notification service raises rather than refuses, the claim stays |
| `MCErasureGaps` | `IdsStayGone` | `gdpr.py:17`: the provider's ids on the subscription go too | a subscription event that found the row before the erasure saves the id it adopts (`services.py:3091-3111`) by primary key once the erasure has committed |
| `MCErasureGaps` | `WalletStaysNobodys` | `gdpr.py:308`: the wallet's user is NULL after the first run | `WalletView.patch` writes back the user it read, and the wallet is the account's again; a second request would find it |
| `MCErasureGaps` | `MarksKept` | `gdpr.py:7`: what tells money from none stays on the ledger | `LEDGER_METADATA_KEYS` (`gdpr.py:169`) lacks `simulated` and `internal_meter_only` |
| `MCErasureGaps` | `NothingWritten` | `gdpr.py:4`: no text naming the person stays | a spend between scrub and detach, or a capture copying a hold's text, writes one |
| `MCErasureGaps` | `NoDeadlock` | `services.py:1178`: the wallet is the single point of serialisation | erasure updates rows in bulk without it, and the database has to break a circle |

`PlanEntitlement` states two more that its instances do not satisfy and no
configuration lists: `ToldWhatGoverns` (`services.py:4506`: the announced plan is the
one that governs; the announcement of a provider's plan names the row's, though
a window above it may be open) and `NeverDoubled` (`services.py:1760`: no
monthly bundle where the provider's invoices grant; a sweep grants by the plan
it read, and a row may have become the provider's since).

## 7. Not modelled, and why

- Amounts of money, currencies, prices and texts: the properties are about
  credits. Money decides only whether a handler grants at all.
- HTTP, serializers, admin, error wording, exports: no state of their own.
  `SimulatedCheckoutView` ends in the checkout handler that is modelled.
- The configuration and the system checks: read once at start, except that a
  plan may disappear from it (`Retire`).
- The provider SDK: a source of events and of fetched states.
- The debit, hold, capture and release endpoints of `entitlements.py`: they
  pass through to the wallet's services.
- The database itself: a transaction is atomic, a row lock excludes, a unique
  constraint is unique. SQLite's missing row locks (tests) are not modelled.
- The transport of the outbox; `Letters` assumes at-least-once delivery.
- `meter_only` policies are host code: the model lets them answer anything, at
  any call.

What the models leave out of what they do cover:

- Stacking of comp windows and `OneCompBundle` are for one operator at a time;
  two are `MCCompGaps`. A comp bundle's credits are one row.
- A final notice about an invoice may be sent before its first; an undone
  cancellation is still written about. The documentation promises neither.
- Order matters to some handlers and the code says so: a refund that arrives
  before its checkout claws nothing back, a dispute won before it was opened
  leaves it open, an invoice paid before its subscription is bound grants
  nothing, and its event is processed, so that a replay grants nothing either.
  `LargestShareTaken` is therefore about what was
  handled after the grant.
- Two concurrent merges of one pair may leave a second row of no credits;
  `MovedOnce` counts rows that move some.
- Erasure: the user's row outlives it; wallets and subscriptions an erased
  account gets anew are new data and not modelled, nor is the replay
  of an erased payload (`ProviderGrant` prevents a second grant). A hold is
  captured and not released or re-armed; `PendingSubscriptionPeriod` rows (which
  name a customer and no person), the settlement rows that repeat a debt's text, the
  dates a subscription event or a reconciliation writes, and a grant to `user=None`
  by an erased row whose ids came back are left out. `BillingGDPRProvider.delete`
  has no transaction of its own beside
  `erase_subject`'s. A customer known only by a package has no provider id, and
  a subscription a merge detached takes its ids along, so their payloads are
  not found.

## 8. What could come next

- `MirrorsOnceHandled` after a reconciliation: what it means for a row whose clock
  is a local instant.
- Shared locks between `WalletMerge` and `Erasure`: an account merged while it
  is erased.
