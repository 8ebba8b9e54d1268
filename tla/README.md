# Ratis: TLA+ models of the money, reward and upload paths

Ratis is a shopping companion: users scan receipts, earn CAB (an in-app coin)
and cashback (euro cents), and turn them into gift cards and bank transfers.
The repository holds five FastAPI services over one PostgreSQL database, some
twenty cron batches, a shared library and a mobile client.  This project models
the paths on which a mistake costs money, breaks a limit or loses a user's scan:
from the photo in the phone's queue to the receipt, its rewards and notifications,
to the gift card, the cashback and the bank transfer, with the subscriptions beside
them and the batches that repair all of it.

## 1. Inventory

| Component | State | Operations | Meets | What makes it correct |
|---|---|---|---|---|
| Boutique (`services/boutique_service.py`) | `gift_card_orders`, `user_cab_balance` | `create_order`: duplicate check, balance check, per-user lock, daily / weekly / annual caps, debit, insert | issuance (background task), CAB ledger | caps hold under concurrent requests; CAB debited once per order |
| Issuance (`services/gift_card_service.py`) | order status, Runa order | `issue_gift_card`: per-order lock, gate, reservation, Runa call, issued / failed / pending | Runa, cap service, CAB ledger | one issuer per order; terminal status is final; CAB back exactly once on failure |
| Fiscal cap (`services/gift_card_cap_service.py`) | `users.gift_card_redeemed_ytd_cents`, `cap_reserved_cents` | reserve, release | issuance, annual reset, reconciliation | counter = reservations; never above the cap in a year |
| Reconciliation (`batch/ratis_batch_reconciliation`) | none of its own | fail and refund stuck shop orders, re-trigger deferred and stuck earned orders, expire cashback, credit missed scans, detect stuck withdrawals | issue endpoint, same tables | every order settles, every scan in the status a job looks for is paid; no double refund |
| Referral payout (`batch/ratis_batch_referral_payout`) | none of its own | churn or trigger eligible referral cards | issue endpoint | a churned order is never issued |
| Annual reset (`batch/ratis_batch_annual_reset`) | none of its own | zero the yearly counters in January | cap | cap is per calendar year |
| Cashback ledger (`services/cashback_service.py`) | `cashback_transactions`, `user_cashback_balance` | detect, boost, resolve, retroactive credit | affiliate webhook, admin, CAB ledger | balance = ledger; no race beside that of two resolutions pays twice |
| Withdrawals (same file, `routes/.../cashback_withdraw*.py`) | `cashback_withdrawals`, payout at Stripe | request, payout, admin validate / refuse | payout client | a debt is settled once |
| Reward events, missions, challenge, mystery product (`services/events_service.py`, `missions_service.py`, ...) | `reward_events`, `cabecoin_transactions`, `user_missions`, challenge progress | receive an event; generate, buffer, burst, claim, freeze a mission; claim a milestone | analyser (fire and forget), two batches | every coin has one reason; a mission stands at its events; each scan is paid once and in the end |
| Notification outbox, notifier, push receipts (`ratis_rewards`, `ratis_notifier`, batch) | outbox rows, logs, tickets, tokens, Redis cooldowns | enqueue, batch dispatch, pipeline, poll receipts | Expo | daily cap; no double dispatch; tickets match what was recorded |
| Subscriptions (`ratis_auth`) | `subscriptions`, `stripe_webhook_events`, discount campaigns, `referral_uses` | checkout, webhooks, cancel, administrator | Stripe, rewards | premium is paid for; each payment's rewards once |
| Receipt upload (`ratis_client/services/scan-queue.ts`, `scan_service.py`) | queue in AsyncStorage, receipts, R2, broker | enqueue, drain, boot reset, `submit_receipt` | OCR worker | one receipt per queued photo; no orphan image; the queue drains |
| Receipt task (`worker/receipt_task.py`, `pipeline/persist.py`, `rescan_service.py`, purge) | receipts, scans, images | read, deduplicate, persist, time out, rescan, purge | rewards, R2, Celery | dedup indexes; rescan cap; a failed pass takes no line from another receipt |
| Streaks, XP, achievements; accounts and sessions; name resolution | counters, users, product data | | | see section 6 |
| Imports, other batches, list optimiser, user interface, tools | data sets, UI | bulk I/O | | not in the scope of a model |

The components run as separate processes and share only the database: what is
hard is that their READ COMMITTED transactions interleave statement by
statement, that a background task lives in memory only, that calls between
services are fire-and-forget, that the providers (Runa, Stripe, Expo, R2) answer
late or not at all, that the client rewrites its whole queue after every await,
and that cron jobs redo by raw SQL what the services do.  Each hazard is listed at
its line in `PROJECT.json`.

## 2. Modules

| Module | Models |
|---|---|
| `GiftCards` | orders, CAB of the boutique, fiscal cap, issuance, the three batches, Runa, crashes, lock cycles, the calendar |
| `Cashback` | the cashback ledger: detection, advance, boost, resolution, expiry, late and retroactive credits |
| `Withdrawals` | request, payout, administrator, stuck-withdrawal report |
| `Payouts` | the abstract specification `Withdrawals` implements: a debt is opened by its debit and settled once |
| `CardOrders` | the abstract specification `GiftCards` implements: a purchase, an issue, a failure with its refund and a churn are one step each |
| `RewardEvents` | events, CAB credits, missions, challenge, mystery product, the two batches that pay late |
| `Notifications` | outbox, replicas, notifier tasks, Expo, receipts batch |
| `Subscriptions` | checkout, Stripe webhooks, cancellation, administrator |
| `ScanQueue` | the client's upload queue and `submit_receipt` with database, R2 and broker |
| `ReceiptScans` | the receipt after its upload: task, dedup, rescan, purge |
| `MC...` | the instance of each for TLC: symmetry, which events, calls and readings exist |
| `GiftCardsProofs`, `CashbackProofs`, `WithdrawalsProofs`, `SubscriptionsProofs`, `ScanQueueProofs`, `ReceiptScansProofs` | inductive invariants and theorems of the specification in the name |
| `RewardsProofs` | the same for the two specifications of the reward service, `RewardEvents` and `Notifications` |
| `FiniteSums` | lemmas about `SumFunction` that the balances need |

The specifications share the database but not a row that matters to both sides of
a property, except the two balances: `GiftCards`, `Cashback` and `RewardEvents` each
keep their own share of the CAB balance, and `Withdrawals` starts from a cash
balance and never earns.  All of them move a balance only by relative, guarded
UPDATEs under its row lock, so the missing side can only add or subtract on its own
account.  The hand-overs are `ScanQueue` (a committed receipt and its job) to
`ReceiptScans` (the job), whose `Finish` sends the events that `RewardEvents`
receives, and `Subscriptions` (`Post`) to the annual and referral events of
`GiftCards`.

### GiftCards

*State.*  `order`, `balance`, `ytd`, `refunds`, `claims` are committed rows:
`gift_card_orders`, `user_cab_balance.balance`, the yearly counter of `users`,
the `gift_card_refund` credits of an order, and the one-shot events (a milestone
claim, a referral use) already consumed.  A process (a request thread or a
background task in `Workers`, the reconciliation batch, the payout batch) has a
control point `pc`, the order at hand `cur`, the locks its transaction holds
`held` (row locks and the two advisory locks share one name space) and the row
versions it has written but not committed `buf`.  A batch also has `todo`, the
rows its SELECT returned.  `age` abstracts `now() - created_at` to the three
cases the code tells apart; `resYear` is a history variable (the year in which an
order was reserved) and is read by no guard.

*Actions.*  One action per SQL statement that can wait for a lock or be seen by
another process; consecutive reads of one transaction that nothing can
separate are one action.

| Code | Actions |
|---|---|
| `create_order` | `ShopBegin` (checks before the lock), `ShopCaps` (lock and caps), `ShopDebit` (debit, insert), `Commit` |
| `create_annual_gift_card`, `claim_milestone` | `EarnCard` |
| `handle_subscription_referral` | `EarnReferral` |
| `issue_gift_card` | `IssueStart`, `CallRuna`, `Defer`, `OrderIssued`, `Commit` |
| `reserve_gift_card_cap` | `ReserveFast`, `ReserveDecide`, `ReserveUser`, `ReserveOrder` |
| `_mark_failed`, `_refund_order_cab`, `release_gift_card_cap` | `OrderFailed`, `RefundCab`, `ReleaseCap` |
| `reconcile_pending_gift_card_orders` | `ReconcileSelect`, `ReconcileOne`, then `RefundCab`, `ReleaseCap`, `Commit` |
| `reconcile_deferred_...`, `reconcile_processing_...` | `Reissue` |
| `payout.run` | `PayoutSelect`, `PayoutChurn`, `PayoutNotify`, `PayoutNotifyFails`, `PayoutCommit` |
| `reset_gift_card_ytd` | `AnnualReset` |
| PostgreSQL, Runa, time (external) | `Crash`, `DeadlockVictim`, `RunaResolve`, `Age`, `NextDay` |

*Abstractions.*  Money is integer cents as in the code, one brand, and a
`battlepass_brand_id` that is configured.  Sandbox mode (no provider key) is
`CallRuna` answering `complete`.  A lost request and a lost answer at Runa are both
possible and both look like an error to the caller.  `PromptTasks` says that a
background task ends before the reconciliation grace period of its order (24 h,
1 h) is over; run `cards` drops it.  `JanuaryReruns` lets an operator dispatch the
annual reset again in January; no run sets it (section 3); the theorems cover
both, except those under `OneYear` (section 4).

The refinement mapping to `CardOrders`: a card is the committed order row without its
fiscal columns, bought when its source is `shop_purchase`; the balance is `balance`; a
card is delivered once Runa's order is `complete`.  `CardOrders` has no counterpart of
the fiscal cap, whose counter and reservations are the service's own means, and lets a
card be delivered after its order failed, because the code does: when Runa's answer is
lost, the order is refunded and nobody asks for the card again.

### Cashback

*State.*  `credit` and `boost` are the CREDIT row of a receipt line (a scan with the
article it is matched to) and the BOOST row that hangs from it; `cash` and `cab` the
two balances; `receipt` is `store_status` and `scan` the status of each line's scan;
`offer` is the set of lines with an open offer; `subscriber` and `age` the rest of the
environment the code reads.  `twicePaid` and `twiceRefunded` are history variables.  As in `GiftCards` a thread has a control point,
the locals of its call (`job`), the locks it holds and its uncommitted row
versions (`new`, `newBoost`) and balance increments (`inc`).

| Code | Actions |
|---|---|
| `scan_detected`, `detect_cashback` | `ScanDetected`, `DetectUser` (subscription read), `DetectCheck`, `DetectInsert`, `DetectAdvance`, `DetectDone` |
| `process_retroactive` | `ProcessRetroactive` (first read), the detection steps, `DetectDone` (second read, flip, commit) |
| `boost_cashback` | `BoostRead`, `BoostMark`, `BoostDebit`, `CreditBalance`, `Commit` |
| `resolve_cashback` (webhook and admin) | `ResolveRead`, `ResolveMark`, `CreditBalance` or `BoostRefund`, `Commit` |
| `reconcile_expired_cashbacks`, `reconcile_missing_cashback_scans` | `ReconcileExpired`, `ReconcileMissing` |
| `check_cashback_balance_integrity` | the invariant `BalanceIntegrity` |
| analyser: receipt read, bar code of an article scanned, line revised | `ReceiptRead`, `BarcodeResolved`, `LineRevised` |
| PostgreSQL, offers, time, subscriptions | `Crash`, `DeadlockVictim`, `OfferChanged`, `Age`, `Subscription` |

*Who sees a line.*  The pipeline writes `matched` or `unresolved`; `accepted` is what the
user's bar-code scan of an article makes of a line.  `scan-detected` takes both `matched`
and `accepted` lines of a receipt at a confirmed store; the batch and the retroactive
call select `accepted` only, the batch at any store.  All of them skip a line whose offer
is not open at that moment.

*Abstractions.*  Rewards are tenths of a cent, so that both roundings are
computed; the streak and community multiplier is one constant `Bonus`, in tenths.
The achievement hook of `detect_cashback` swallows its errors and writes no
cashback table; the battlepass progress that `award_cab` also feeds is not kept.
The batch's SELECT and the INSERT of one row are one step, its ten minutes' delay is
dropped (it may act at any time), and a line keeps its article: a line matched to
another EAN is another line.

*Resolutions that overtake each other.*  `Resolvers` are the threads that may serve
resolutions: the webhook handler is `async` and runs its transaction without yielding,
so the webhooks of one process never overlap, but a second process and the
administrator's threads do.  `resolve_cashback` reads the status without a lock and
updates without a guard, so two that read the same pending CREDIT both go through: two
confirmations pay twice, two refusals refund a boost twice.  The model does what the
code does and records each such second payment in `twicePaid` and `twiceRefunded`
(`PaidAgain`, `RefundedAgain`, decided from the row the thread had read); the balances
are claimed to be the ledger plus exactly that.  Any other payment without its row, in
this race or another, breaks the equation.

### Withdrawals

A withdrawal is a row (`wd`), a payout at Stripe (`sent`, keyed by the
Idempotency-Key, so a second call never creates a second one) and a debit of
`cash`.  Transactions without an HTTP call are one step; `admin_validate`, which
keeps the row lock over its HTTP call, is two (`Validate`, `ValidatePay`).  A
payout call has three outcomes: answered, created with the answer lost, not
created.  `returned` (the amount went back) is a history variable.

The refinement mapping to `Payouts`: a `pending` row is a debt owed, `processed` is
paid, `failed` is given back or kept according to `returned`; the balance is `cash`,
a transfer is `sent`.  `Payouts` lets a transfer leave after the refusal, because
the code does (section 3).

### RewardEvents

One user.  A thread takes row and unique-key locks one by one, keeps them in `held`,
and its writes appear at its commit.  `scan`, `attached` and `msgs` are the
analyser's side: what was accepted and which events are under way.  `event`,
`credit`, `retro`, `bal`, `um`, `challenge`, `prized` and `found` are the tables.

| Code | Actions |
|---|---|
| label and receipt tasks, `reconcile_unknown_scans_for_receipt`, `ean_recovery`, `trigger_action` | `AcceptLabel`, `UploadReceipt`, `RetryReceipt`, `ReconcileLabel`, `RecoverEan`, `Lose` |
| `handle_action` | `EventInsert` (key, ban, amount), `EventAward`, `EventLedger` (the unique index on the scan), `EventCommit` (missions, challenge, mystery, commit) |
| `get_missions`, `apply_buffer`, `claim_burst`, `claim_mission`, `freeze_mission` | `GetMissions`, `GenerateMissions`, `ApplyBuffer`, `ClaimBurst`, `Claim`, `ClaimPay`, `Freeze`, `FreezePay` |
| `claim_milestone` of the challenge | `ClaimMilestone`, `MilestonePay` |
| `reconcile_missing_scan_rewards` | `ReconcileMissing`, `CreditInsert`, `CreditPay`, `BatchEnd` |
| `reconcile_retro_cab` | `RetroRead`, `RetroInsert`, `RetroPay` |
| PostgreSQL, time, administrator | `DeadlockVictim`, `Crash`, `Age`, `NextDay`, `ShadowBan` |

`RetroRead` takes any of the rows in status `matched`, since its look-back of 48 hours is
not counted: a retroactive credit is promised to no scan.  `EventCommit` has no separate
step for a find of the mystery product that loses its race: the handler rolls back as a
whole, which is what `Crash` does at that point.
A day is the period of a daily mission and `um` has the rows of day 0.  XP,
multipliers and battlepass progress are left out.  Beyond the daily threshold an award
is `round(rate * 0.5)`, which rounds half to even (`Halved`); an event that is awarded
nothing writes no ledger row.  A mystery prize is a second credit with the reference of
the same scan, so it competes with the event's own award and with the batch for one
entry of the unique index (`PrizeRefused`).

### Notifications

One user.  `outbox`, `batch` and `done` are the rows and what each replica has
selected and marked; a `task` is a background task of the notifier with the time of
its request, the tokens still to be sent to and the answers it got; `lock` is the
advisory lock.  `posts` is a history variable.  Actions are named after the gates of
`_run_pipeline`; an HTTP call is a step, what lies between two calls under the lock
is one.  Expo may take a push and give no ticket id (`Send` with `no_ticket`), which
counts as sent and leaves no ticket.  The receipts batch polls any non-empty part of
the open tickets, for its LIMIT.

### Subscriptions

`sub` and `order` are the rows and their order by `started_at`; `stripe` the session
at Stripe; `claimed` the ledger of events; `hook` what each process does with a
webhook, one step per read or commit; `outcome` and `posts` are history variables.
`admin` is the administrator's request in hand: `AdminRead` reads the latest row,
`AdminActivate`, `AdminGrant` or `AdminDeactivate` writes it with no condition on what it
has become since, except what the ORM and the table impose: the UPDATE has only the
columns that differ from what was read, and `cancelled_check` or the index on active rows
may refuse it (`AdminRefused`).  `started_at` is stamped before the read in the code and
orders the rows at the write here; `AdminExtend`, which touches one column of its own, is
one step.

### ScanQueue

The client's queue is one value in AsyncStorage: `EnqueueRead` / `EnqueueWrite` and
`UpdateRead` / (`MarkUploading` or `NoteOutcome`) are the two halves of each
read-await-write, and `seen` and `up.seen` what was read.  A request is a thread of
the server that goes on when the client is gone, with a step for each look-up
(`CheckKey`, `CheckHash`), the insert, the image, the job and the commit.  `leaked` is a history variable.
`resetOrphanedUploads` is one step: at boot nothing else touches the queue.

### ReceiptScans

All receipts are photos of one till ticket.  What a pass reads is a choice among
`Readings` (a bar code, or one of two fingerprints; how much of store, time and total
was found), because OCR and matching are out of the model; what is kept is which
receipt the rows land on, what happens to the others, and every way the task ends.
Scan rows are of two kinds: those of a pass that found the store, which last, and those
without one (`store_status` `unknown`), which `purge_unknown_scans` deletes after 7 days
(`PurgeUnknown`; the 7 days are not counted, they may pass at any time).  `lines` and
`adrift` are the best status among a receipt's rows of either kind.  A pass may add no
row at all: a reply without items is accepted, and with a bar code nothing else asks for
some.

## 3. Runs

| Run | Instance | Question |
|---|---|---|
| `cards` | one user, two orders out of boutique orders, a milestone and a referral card of half their value, two threads, caps that two earned cards fit and no other pair, two days, one crash, tasks that may outlive 24 h | are caps, CAB and refunds exact, and does one task issue an order, under deferral, re-issue and churn; is it an implementation of `CardOrders`? |
| `live` | with fairness: a boutique order and an annual card, three days, two years, one crash | does every order settle, and a failed one free its reservation? |
| `doubletap` | two identical concurrent requests | expected violation: both are accepted |
| `cashback` | one receipt with two lines of 2.5 cents (symmetric), two threads (symmetric) that may both resolve, CAB for one boost, a 20 % bonus, one bar code scanned | do both balances equal the ledger, overtaken resolutions accounted for? |
| `cashback_live` | with fairness: one receipt, a line of 2.5 cents and one that rounds to nothing, one thread, no CAB, a crash, two bar codes scanned, one revision of a line or an offer | is every accepted line worth a cent credited and settled? |
| `withdrawals` | one user, three withdrawals, two threads, amounts below, at and above the minimum | is a cent lost or created, a row processed unpaid, a resolution undone; is it an implementation of `Payouts`? |
| `rewards` | a label and a receipt with two promotions, one mission, two threads that serve requests and batches, a day boundary, one fault | does every coin have its reason and every mission its events? |
| `rewards_live` | with fairness: a label with plain, organic and category events, which is also the mystery product, one fault | who pays for a scan, and does somebody? |
| `notifications` | with fairness: an outbox row, a rate-limited and a data-only direct call, two replicas, three tasks, a cap of two pushes, quiet hours, one fault | cap, double dispatch, tickets, and is everything decided? |
| `subscriptions` | with fairness: one referred user, two checkouts, a code with one use, two webhook processes, one operation of user or administrator (read and write apart), one crash | payments, rows, codes and rewards |
| `scan_queue` | with fairness: two entries of one photo, two attempts each, five requests, two faults | one receipt per entry, no orphan image, the queue drains |
| `receipts` | two photos of one ticket by one user, a rescan cap of one, two concurrent rescan requests, one fault | dedup indexes, rescan cap, who takes a receipt's lines |

*A sentence of the repository that the code does not keep.*  `doubletap`:
`ARCH_boutique.md:292` says that an exact retry within a minute is rejected;
`create_order` looks for it before it takes the per-user lock and not again under it.

*Other disagreements between code and text, met while modelling.*  They are
behaviours of the models too.  For the first group the formula that TLC refutes is
given: add it to the module (or change the constant) to see the trace.

* Two users who claim one battlepass milestone share one order, since the milestone
  id is the `source_ref_id` (`battlepass_service.py:111`, `ARCH_gift_cards.md:163`).
  `GiftCards` with two users: `\A e \in claims : \E o \in OrderIds : order[o].user = e.user /\ order[o].source = e.source`.
* A second dispatch of the reset in January wipes the month's reservations
  (`reset.py:35`; `ARCH_cab_economy.md:517` calls it harmless).  `FiscalCap` with
  `JanuaryReruns = TRUE`.
* Two concurrent confirmations of one CREDIT both pay, and two refusals both refund its
  boost: the status is read without a lock and the UPDATE has no guard
  (`cashback_service.py:235`).  `Cashback`:
  `\A s \in Lines : twicePaid[s] = 0 /\ twiceRefunded[s] = 0`.
* A `matched` line has only `scan-detected`.  When that call is lost, aborted by another
  line, or never made because the store was not confirmed yet, no job credits the line:
  the batch (`reconciliation/cashback.py:110`, whose docstring says it finds the lines
  that have no credit) and the retroactive call (`cashback_repository.py:68`) select
  `accepted`.  A retroactive call flips the receipt to `confirmed` all the same, while
  `ARCH_store_validation.md:100` says that cashback is credited on all pending receipts
  of the store.  `LineSettles` with `scan[s] = "matched"` in place of `scan[s] = "accepted"`.
* A pass that reads a bar code and no items (`comprehend.py:576` accepts a reply without
  them, `persist.py:246` asks for signals only when there is no bar code) rejects the
  older receipt's lines (`persist.py:225`) and inserts none (`persist.py:605`), so that the
  ticket has no line left.  `ReceiptScans`:
  `[][\A r \in Receipts : (lines[r] \in Active /\ lines'[r] \notin Active) => \E c \in Receipts \ {r} : row'[c].code /\ Status(c)' # "none"]_vars`.
* `purge_unknown_scans` is documented for labels (`purge.py:400`), but its DELETE
  (`purge.py:447`) has no condition on `scan_type`: the lines of a receipt whose store was
  not found go as well, without a replacement.  `ReceiptScans`:
  `[][\A r \in Receipts : adrift[r] \in Active => adrift'[r] # "none"]_vars`.
* A withdrawal that was paid can be refused and refunded: it stays `pending` after
  the transfer (`cashback_service.py:334`, `ARCH_cashback.md:185`).  `Withdrawals`:
  `\A w \in WithdrawalIds : wd[w].status = "failed" => ~sent[w]`.
* `process_outbox_batch` says a row whose delivery fails is left unsent for retry
  (`notification_repository.py:39`), but `notify_user` never raises and the row is
  marked.  `Notifications`: `\A r \in Rows : outbox[r] = "sent" => posts[r] > 0`.
* A claimed Stripe event whose handler fails is never handled again
  (`ARCH_AUTH.md:162`).  `Subscriptions`:
  `\A s \in Subs : stripe[s] = "paid" => outcome[s] # "lost"`.  The row stays pending
  and blocks the user's next checkout.
* The organic and plain events of one label share the scan as reference, so the
  unique index refuses the second and its whole transaction, missions included, is
  rolled back (`reconciliation_service.py:132`); a mystery prize above zero meets the
  same index (`mystery_service.py:38`).
* `reconcile_retro_cab` selects every matched line, also one the live event paid
  (`retro_cab.py:111`, `ARCH_BATCH_DATA_RECONCILIATION.md:401`).  `RewardEvents`:
  `\A r \in retro : credit[r] = "none"`.
* An entry enqueued while the uploader writes its queue can vanish
  (`scan-queue.ts:101`, `ARCH_scan.md:49`).  `ScanQueue`:
  `\A e \in All : seen[e] = Over => queue[e] # Absent`.
* A receipt that times out before a store was found stays pending: the failed
  sentinel's scan row violates `ck_scans_store_status_consistency` and the error is
  swallowed (`receipt_task.py:227`, `models/scan.py:318`).

Without a formula:

* A boutique order whose Runa answer is `processing` is never polled again and is
  failed after 24 h even if Runa delivered (`reconciliation/gift_cards.py:30`).
* `gift_card_service.py:97` says no lock can be held across the HTTP call; the
  per-user advisory lock of the reservation is, until the commit.
* The scheduled reset itself wipes reservations made on 1 January before it runs.
* Expiry after 90 days refuses a CREDIT but neither its BOOST nor the CAB
  (`cashback_service.py:227`); the same state arises when a CREDIT is refused
  between the status check and `mark_boost_applied` of a boost.
* A subscriber's advance is pending with `distributed_at` set, the state that
  `resolve_cashback` calls forbidden (`cashback_service.py:239`).
* The batch rounds half to even, the service half up
  (`reconciliation/cashback.py:92` says "same logic").
* The refund of a boost passes through the streak multiplier and can exceed its
  cost (`cashback_service.py:266` says it mirrors it exactly); `CabIntegrity`
  therefore counts what `award_cab` adds.
* `process_retroactive` reads the pending receipts twice and may flip one it did
  not look at; the reconciliation job credits its accepted lines later, without the
  subscriber's advance.
* A withdrawal without a reference is reported as never initiated, although the
  answer or the UPDATE may have been lost after Stripe paid
  (`reconciliation/cashback.py:189`).
* A refusal with refund writes no compensating CREDIT (`ARCH_cashback.md:186`), so
  the daily integrity check reports a drift.  No job retries a failed payout
  (`ARCH_cashback.md:182`).
* The notifier's log is unique per minute and written after the push
  (`ARCH_NOTIFIER` DA-05 promises one notification per type in ten minutes): a
  duplicate has been sent when it is found.
* Two webhooks of one user can both pass the referral check and trigger it twice;
  `RewardPerPayment` therefore bounds it by the number of payments.
* The administrator's operations act on the row with the latest `started_at`,
  which need not be the active one.
* A buffered daily mission gets no progress after its first day, and a claim with
  two buffers divides a target that is not a multiple of three
  (`missions_service.py:276` says it always is).  A distinct mission is compared with
  the catalogue's target, not the row's.
* The diminishing-returns count is read without a lock; two label events of one
  user may both be paid in full.  The batch pays shadow-banned users.
* An OCR job is enqueued before the receipt is committed, and a worker that finds no
  row drops it (`receipt_task.py:311`).  A commit whose acknowledgement is lost
  deletes the image of a live receipt.
* A pipeline exception ends the task for good, although `receipt_task.py:388` says
  Celery retries it.
* A rescan that reads no bar code leaves the older receipt with its active lines;
  one that finds the semantic key taken fails with `PersistError`.

*Bounds.*  Two threads and two orders are the smallest instance in which two
tasks of one order, two orders of one user and a task racing a batch all occur;
with the caps chosen some pairs of orders fit and others do not, so each cap is
reached.  The runs cover a day boundary: orders are made on day 0 and all of them have
fallen due on day 1, so `cards` ends there; `live` goes on to a week and a year boundary
(each has two days).  One crash can hit any process at
any statement.  In `Cashback` `InitCab` pays for one boost and not for two, so the
debit is refused as well; two resolving threads and a boost already put two million
states into `cashback`, so the crash and the revisions are in `cashback_live` (a crash
rolls back exactly what a deadlock victim does, which `cashback` has).  In `RewardEvents` every thread can serve requests and run
a batch, so an event races a batch, a claim races an event, and two events race each
other; one label and one receipt are enough because two scans share nothing but the
balance and the missions.  `rewards_live` has a rate of one, so that the second label
event of a day is awarded nothing.  No run has a mystery prize above zero; the
theorems cover every prize.  In `Notifications` there is one task more than the cap
allows, so tasks compete for the last push; the clock covers one day with a quiet minute.  In
`Subscriptions` two checkouts of one user compete for one pending row, one active row
and one use of a code.  In `ScanQueue` five requests are as many as two entries with
two attempts each and one replay by a kill need; two faults let an answer be lost and
the retry meet a failing commit.  In `ReceiptScans` two jobs and two receipts are the
case of one ticket photographed twice, with one of them rescanned.  Runs of systems
that come to rest when their bounded inputs are used up do not check deadlock.

*Fairness.*  Running transactions advance (a database statement returns), crons
run every day, Runa settles what it accepted, Stripe closes a session and repeats an
event until it is answered, the outbox worker wakes every 30 seconds, an accepted
background task runs, the client's promises resolve, the calendar moves on.  Strong
fairness is used only for cron jobs: the POST of a batch to the issue endpoint and
the selection of a batch may find everything busy often, not for ever, and a line
whose key is locked whenever the job comes by is waited for in PostgreSQL's queue.
No request is assumed to arrive, and no administrator to act; a fault never has to
happen.
The daily runs are those of the batch workflows, whose `schedule:` is commented out in this
commit while the database is local (`.github/workflows/batch_reconciliation.yml` and its
siblings): until it is back, what `OrderSettles`, `LineSettles` and `ScanIsCredited` owe to a
batch waits for somebody to dispatch it.

## 4. Proofs

Every theorem holds for all values of the constants that satisfy the assumption of
its module: any number of users, orders, threads, prices and caps, and any number of
crashes.  Where a theorem has a hypothesis beside that, it is named below with the
behaviour of the code that makes it necessary.  In each module one invariant
(`IInv`) is shown to hold initially and to be preserved by every action, one lemma per
action or group of actions, and the theorems follow from it.

**`GiftCardsProofs`.**  `TypeOK` is not inductive: that a commit installs a well-formed
row needs to know which control points have written their buffer.  `Shape` records it,
and `TypeInv` is the conjunction of the types and `Shape` (`TypeCorrect`).  `LockInv`
says that a lock has one holder, that a task past the gate holds its order's
advisory lock (`GateHeld`), that an id in the course of insertion belongs to one
process (`FreshIsPrivate`) and that whoever works on an existing row is known
(`RowOwner`); `OneIssuerHolds` follows.

Money moves in buffers that a commit installs and a crash drops, so that the
properties of the committed rows are not inductive either.  `TxInv` says, for each
control point, what a transaction's version of a row has to do with the committed
one, on the condition that it holds the row's lock:

* `RowAt`: a new status is written over a row found pending, which is still pending;
* `CabAt`: there is a new CAB balance exactly when the transaction inserts a boutique
  order or fails one, and it is the committed one less or plus the price;
* `CapAt`: counter and order move together, and a grown counter goes with the advisory
  lock under which the cap was compared;
* `DayAt`: an order about to be inserted still fits under the daily and the weekly cap, since the
  advisory lock under which the sum was read keeps other insertions away;
* `ReleasedAt`, `RecAt`, `PromptAt`: a failing order commits without a reservation; the
  24 h batch changes only the orders it fails; a prompt task has left its order before
  the batch takes it.

`TableInv` is the promise of the rows (`RowsOK`, `CabConservation`, `CapsOK`, `FailedOK`,
`DailyCap`) and `BatchOK` what a batch's SELECT returned.  A commit then exchanges one
term of each sum by the term the buffer owes.  From `IInv`:

* `CabConservationHolds`, `DailyCapHolds` and `TerminalIsFinalHolds` without
  hypothesis.
* `YtdMatchesReservationsHolds` and `FiscalCapHolds` under `OneYear` (the days modelled
  lie in one calendar year, the reset is not run by hand in January).  Across a
  year both are about more than the code keeps: the reset zeroes the counter and
  leaves the orders' reservations, one of last year that is released afterwards is
  taken off the new year's counter, and a second reset wipes the new year's
  reservations (section 3).
* `FailedHoldsNoReservationHolds` under `PromptTasks`, the assumption of run `live`: the
  UPDATE that stores a reservation has no guard on the status, so a task that is still
  at it when the 24 h batch fails its order reserves for a failed order.

`ImplementsCardOrdersHolds`: `GiftCards` implements `CardOrders`, without hypothesis.  It
needs one more invariant, `Delivery`: a committed `issued` row has a `complete` order at
Runa, and a process that is about to write `issued` has seen it (`DeliverAt`).  With `IInv`
every step then maps to a step of `CardOrders` or a stutter: a COMMIT is `Buy`, `Issue`,
`Fail` or a stutter, according to what its buffer holds (`CommitBuys`, `CommitIssues`,
`CommitFails`, `CommitKeeps`); the INSERT of an earned order is `Earn`; Runa's answer is
`Deliver`; the payout's commit is `Churn`; everything else changes neither a committed
row, a balance nor a finished card.  `SpentWindow` says that the window sum of the code is
the sum of the abstract cards, `WeekDay` that the weekly window covers the day.

**`CashbackProofs`.**  For any number of threads, all of which may resolve.  `RowInv` relates flag,
BOOST row and status of a line; `ThreadInv` says what a thread has written at each
control point; `CashInv` and `CabInv` say that what a thread is about to add to a
balance (`inc`, plus the credit that its next statement adds) is the sum of
the changes of its uncommitted rows and, for a resolution that was overtaken between its
read and its UPDATE, of what it pays or refunds once more (`PaysAgain`, `RefundsAgain`).
Whether it was overtaken cannot change once it holds the line's key, because every
writer of that CREDIT needs the key.  From these `BalanceIntegrityHolds`,
`CabIntegrityHolds`, `BoostMatchesCreditHolds`, `ConfirmedIsPaidHolds`, and the action
property `CreditIsWrittenOnceHolds`.

**`WithdrawalsProofs`.**  `TypeCorrect` (no balance is overdrawn); `ProcessedIsPaidHolds`,
which needs `HasRow`: a thread about to store a reference has paid the row it has
at hand; `ResolutionIsFinalHolds`, an action property, which needs `LockInv`: while
`admin_validate` waits for Stripe its row is pending and no second administrator has
it.  `CashConservationHolds` is inductive by itself given the types: each
action changes the balance and at most one term of the sum by the same amount.
`Refinement`: `Spec => ImplementsPayouts`.  `Init` maps to the abstract `Init`; each
action is `Open`, `Transfer`, `Pay`, `GiveBack` or `Keep` of one debt, or changes nothing of
them.  Besides `IInv` it needs `BackIsRefused`: only a refused row's amount was given
back, so a refusal without refund is `Keep`.

**`RewardsProofs`**, reward events.  The three invariants are about committed rows, and a
transaction changes them all at once in its last statement, from what it read before.
So `IInv` says what a thread has locked and found (`ThreadInv`): a handler owns its
idempotency key and the key is unused, after `EventLedger` it owns the entry of its
scan and nobody has credited the scan (`EventAt`); a claim or a freeze owns the mission
row and holds the portions it read there (`MissionAt`); whoever pays the milestone owns
the claim row (`PrizeAt`); a batch owns the entries of the scans it is about to pay and
none of them is credited (`BatchAt`).  `LockInv` (a lock has one holder) makes that
stable: `StillAt` shows that a step which writes only what its thread has locked keeps
the facts of every other thread.  `RowInv` says that only processed events are paid and
that a missing mission row has no progress, `SeenInv` that a distinct mission has seen
the values of its events.  Then:

* `EventOwnsCreditHolds`: a commit writes the entry that the thread owns and found free.
* `CabIntegrityHolds`: `MoneyMoves` shows that a step that changes one term of the sum
  and the balance by the same amount keeps the equation; each committing action is one
  case of it (an award, a batch credit, a portion, the milestone, a freeze).
* `MissionCountsHolds`: `EventCounts` shows that one more processed event adds its units
  (its value, for a distinct mission) to what is expected of exactly the missions it
  matches and counts for, and `ProgressedFacts` that the row gains the same.

**`RewardsProofs`**, notifications (`PushInductive`).  `NoDoubleDispatchHolds`: the batches of two replicas are
disjoint and their rows unsent (`OutboxInv`, from `FOR UPDATE SKIP LOCKED`), and a row that
nobody has marked owes its posts to lost batches (`PostsInv`).  `PushCapHolds`: the task
that sends holds the advisory lock and the day's log had room when it got it
(`SendInv`).  `TicketPerPushHolds`: recorded tasks have distinct log rows (`LogInv`) and
tickets move from `tickets` to `checked` without loss (`TicketInv`).

**`SubscriptionsProofs`.**  `SessionInv` ties a row to its session at Stripe and to the
ledger of events, `HookInv` says that an event has one handler and what it still owes,
`PostInv` that triggered rewards belong to payments whose handler is done, `Budget` that
the counter covers the rows counted.  From them `PaidHasRowHolds`, `ActiveIsPaidHolds`,
`DiscountBudgetHolds`, `RewardPerPaymentHolds`.

**`ScanQueueProofs`.**  `ServerInv`: a request owns the uncommitted row it inserted, and no
two rows, open or committed, have one key.  `ClientInv`: every value of the queue still in
flight, also one that was read and will be written back late, shows only receipts that
exist.  From them `UploadOnceHolds` and `ImageOwnedHolds`.

**`ReceiptScansProofs`.**  A task works on a committed row (`JobInv`); a row with the bar
code has no fingerprint (`RowInv`), which is why giving up the code cannot break the
fingerprint's index.  From them `IndexesHoldHolds`, `RescanBudgetHolds` and the action
property `TakenByHolderHolds`, for which one lemma per action says that every other step
leaves `lines` as they are or improves them (`LinesGrow`), and `PersistLines` that a pass
takes them only from the holder of its bar code.

**`FiniteSums`.**  `SumFunctionOnSet` is a fold, a recursive function on subsets.  The
prover cannot instantiate the library's induction theorems, so the lemmas argue by
a smallest counterexample: `SmallestSubset` finds, in a set of finite subsets, one
that is smallest in cardinality; with it the recursion has one solution
(`SolutionsAgree`, `SolutionExists`), and a sum splits at any element, is extensional,
monotone and additive.  `SumChange` (one term changes) and `SumAdd` are what the modules
above cite.

*What stays with TLC.*  Liveness (`OrderSettles`, `LineSettles`, `PendingResolves`,
`ScanIsCredited`, `NotificationSettles`, `QueueDrains`) and ENABLED are out of the prover's
reach.  Every invariant and every action property that a passing run checks is a theorem.

## 5. Plan

Modelled, in this order: gift cards, cashback, withdrawals; then reward events,
notifications, subscriptions, upload, receipt task, and the refinements of `Payouts`
and `CardOrders`.

Proved, in this order: types and exclusion of gift cards, withdrawals and their
refinement; then sums, the conservation laws and caps of gift cards, cashback and
withdrawals, and the invariants of notifications, subscriptions, upload and receipt task;
then the invariants of reward events and the refinement of `CardOrders`.

Components to model next: sessions and account deletion of `ratis_auth`, label
batches of the upload queue, store confirmation, streaks.

## 6. Not modelled

See `components` in `PROJECT.json`: each part left out is there with the reason.
Most of the repository's lines are data and I/O (imports of open data, OCR and
text matching, administration pages, seeds, developer tools, the user interface and
migrations): they have no protocol a model checker could get wrong in an interesting
way.  Account deletion re-assigns withdrawals and ledger rows to a sentinel user
while they may still be pending; it belongs to the next components of the plan.
