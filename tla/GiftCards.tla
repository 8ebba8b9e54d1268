----------------------------- MODULE GiftCards -----------------------------
(***************************************************************************)
(* Gift-card orders of ratis_rewards: the boutique (CAB -> gift card), the *)
(* earned cards (annual subscription, battlepass milestone, referral), the *)
(* issuance transaction against the provider Runa, the annual fiscal cap,  *)
(* and the cron batches that finish, retry, churn or refund orders.        *)
(*                                                                         *)
(* Every process runs PostgreSQL transactions at READ COMMITTED.  `order', *)
(* `balance', `ytd' and `refunds' are the committed rows.  A transaction   *)
(* keeps the new versions of the rows it has updated in `buf' and their    *)
(* row locks (with the advisory locks) in `held' until it commits; it can  *)
(* crash, roll back, or be chosen as the victim of a lock cycle anywhere   *)
(* before that.                                                            *)
(***************************************************************************)
EXTENDS Integers, FiniteSets, Functions

CONSTANTS
  Users,          \* user ids
  OrderIds,       \* ids gift_card_orders rows may get (bounds the table)
  Workers,        \* request threads and background tasks of ratis_rewards
  Reconciler,     \* the ratis_batch_reconciliation process
  Payout,         \* the ratis_batch_referral_payout process
  Events,         \* earned-card events: [user, source, ref] records
  ShopDenoms,     \* boutique.allowed_denominations_cents
  EarnedDenom,    \* denomination of an earned card, in cents
  Ratio,          \* boutique.ratio_cab_per_eur
  InitBalance,    \* CAB every user starts with
  CapDaily, CapWeekly, CapAnnual,   \* boutique.cap_*_cents
  ReferralDelay,  \* referral.eligibility_delay_days
  DaysPerWeek, DaysPerYear,         \* length of the calendar windows
  MaxDay,         \* bound: last day of the clock
  LastOrderDay,   \* bound: orders are created up to this day
  MaxCrashes,     \* bound: crashes and deadlock victims
  PromptTasks,    \* TRUE: no background task outlives an order's grace period
  JanuaryReruns,  \* TRUE: the reset is also dispatched by hand in January
  NULL            \* no order

Sources == {"shop_purchase", "annual_subscription",
            "battlepass_milestone", "referral_reward"}

ASSUME GiftCardsAssumption ==
  /\ IsFiniteSet(OrderIds) /\ NULL \notin OrderIds
  /\ Reconciler \notin Workers /\ Payout \notin Workers /\ Reconciler # Payout
  /\ Events \subseteq [user : Users, source : Sources \ {"shop_purchase"},
                       ref : STRING]
  /\ ShopDenoms \subseteq Nat \ {0} /\ EarnedDenom \in Nat \ {0}
  /\ Ratio \in Nat /\ InitBalance \in Nat
  /\ CapDaily \in Nat /\ CapWeekly \in Nat /\ CapAnnual \in Nat
  /\ ReferralDelay \in Nat
  /\ DaysPerWeek \in Nat \ {0} /\ DaysPerYear \in Nat \ {0}
  /\ MaxDay \in Nat /\ LastOrderDay \in Nat /\ MaxCrashes \in Nat
  /\ PromptTasks \in BOOLEAN /\ JanuaryReruns \in BOOLEAN

VARIABLES
  order,     \* gift_card_orders: id -> committed row
  balance,   \* user_cab_balance.balance
  ytd,       \* users.gift_card_redeemed_ytd_cents
  refunds,   \* id -> committed 'gift_card_refund' credits of the order's debit
  claims,    \* one-shot events already consumed (milestone claims, referrals)
  age,       \* id -> 0 just created, 1 past the anti-double-tap window,
             \*       2 past its reconciliation grace (24 h shop, 1 h earned)
  resYear,   \* history: the year in which the order's cap was reserved
  runa,      \* provider side: state of the order under its idempotency key
  pc, cur, held, buf,   \* per process: control, order at hand, locks, writes
  todo,      \* per batch: the rows its SELECT returned and it still has to do
  day, resetDue, crashes

vars == <<order, balance, ytd, refunds, claims, age, resYear, runa,
          pc, cur, held, buf, todo, day, resetDue, crashes>>

Procs == Workers \cup {Reconciler, Payout}
Batches == {Reconciler, Payout}

NoElig == -1
NoOrder == [user |-> NULL, source |-> "none", ref |-> NULL, denom |-> 0,
            status |-> "none", cap |-> 0, elig |-> NoElig, created |-> 0]
NoBuf == [row |-> NoOrder, bal |-> 0, ytd |-> 0, refund |-> FALSE,
          answer |-> "none"]

Exists(o) == order[o].status # "none"
Pending(o) == order[o].status = "pending"
Year(d) == d \div DaysPerYear
NextJan1(d) == (Year(d) + 1) * DaysPerYear
IsJanuary(d) == d % DaysPerYear = 0
CabCost(denom) == (denom \div 100) * Ratio

(***************************************************************************)
(* Locks.  Row locks and advisory locks live in one space of names; a lock *)
(* is free for p when no other process holds it.                           *)
(***************************************************************************)
IssueLock(o) == <<"gift_card_issue", o>>
CapLock(u)   == <<"gift_card_cap", u>>
OrderRow(o)  == <<"gift_card_orders", o>>
CabRow(u)    == <<"user_cab_balance", u>>
UserRow(u)   == <<"users", u>>

\* Mutants of FreeFor: the code forgets one of its two advisory locks.
NoIssueLock(p, l) ==
  l[1] = "gift_card_issue" \/ \A q \in Procs \ {p} : l \notin held[q]
NoCapLock(p, l) ==
  l[1] = "gift_card_cap" \/ \A q \in Procs \ {p} : l \notin held[q]

FreeFor(p, l) == \A q \in Procs \ {p} : l \notin held[q]
User(p) == buf[p].row.user

\* The order row as p's transaction sees it: its own version once written.
Own(p) == IF OrderRow(cur[p]) \in held[p] THEN buf[p].row ELSE order[cur[p]]

Goto(p, l) == pc' = [pc EXCEPT ![p] = l]
Take(p, ls) == held' = [held EXCEPT ![p] = @ \cup ls]
Idle(p) == IF p = Reconciler THEN "recNext" ELSE "idle"

\* End of p's transaction without effect: rollback, or a commit of nothing.
Drop(p) ==
  /\ Goto(p, Idle(p))
  /\ cur' = [cur EXCEPT ![p] = NULL]
  /\ held' = [held EXCEPT ![p] = {}]
  /\ buf' = [buf EXCEPT ![p] = NoBuf]

tables == <<order, balance, ytd, refunds, claims, resYear>>
clock == <<day, resetDue, age>>
-----------------------------------------------------------------------------
(***************************************************************************)
(* Creating orders.                                                        *)
(***************************************************************************)
Unused == {o \in OrderIds : ~Exists(o) /\ \A p \in Procs : cur[p] # o}

NewOrder(u, source, ref, denom, elig) ==
  [user |-> u, source |-> source, ref |-> ref, denom |-> denom,
   status |-> "pending", cap |-> 0, elig |-> elig, created |-> day]

\* sum_redeemed_window with exclude_failed: every boutique order of u created on
\* or after the first day of the window.  now() is the transaction's start.
\* Mutant: only issued orders count.
IssuedInWindow(r, u, first) ==
  /\ r.status = "issued" /\ r.user = u
  /\ r.source = "shop_purchase" /\ r.created >= first
InWindow(r, u, first) ==
  /\ r.status \notin {"none", "failed"} /\ r.user = u
  /\ r.source = "shop_purchase" /\ r.created >= first
sum_redeemed_window(u, first) ==
  SumFunction([o \in OrderIds |->
    IF InWindow(order[o], u, first) THEN order[o].denom ELSE 0])
count_redeemed_today(u, now) == sum_redeemed_window(u, now)
count_redeemed_this_week(u, now) ==
  sum_redeemed_window(u, (now \div DaysPerWeek) * DaysPerWeek)

find_recent_duplicate_order(u, denom) ==
  {o \in OrderIds : /\ Exists(o) /\ age[o] = 0
                    /\ order[o].user = u /\ order[o].denom = denom
                    /\ order[o].source = "shop_purchase"}

\* create_order, steps 1-5: the checks made before the advisory lock.
ShopBegin(p, u, denom) ==
  /\ pc[p] = "idle" /\ day <= LastOrderDay
  /\ find_recent_duplicate_order(u, denom) = {}
  /\ balance[u] >= CabCost(denom)
  /\ Goto(p, "shopLock")
  /\ buf' = [buf EXCEPT ![p].row =
                NewOrder(u, "shop_purchase", NULL, denom, NoElig)]
  /\ UNCHANGED <<tables, clock, runa, cur, held, todo, crashes>>

\* create_order, steps 5.5-8: the per-user lock, then the three caps under it.
ShopCaps(p) ==
  LET u == User(p)  denom == buf[p].row.denom  now == buf[p].row.created IN
  /\ pc[p] = "shopLock"
  /\ FreeFor(p, CapLock(u))
  /\ IF /\ count_redeemed_today(u, now) + denom <= CapDaily
        /\ count_redeemed_this_week(u, now) + denom <= CapWeekly
        /\ ytd[u] + denom <= CapAnnual
       THEN Goto(p, "shopDebit") /\ Take(p, {CapLock(u)}) /\ UNCHANGED <<cur, buf>>
       ELSE Drop(p)
  /\ UNCHANGED <<tables, clock, runa, todo, crashes>>

\* create_order, step 9: debit_cab and the INSERT of the order.  (Bound: the
\* request is dropped when every order id is taken.)
ShopDebit(p) ==
  LET u == User(p)  cost == CabCost(buf[p].row.denom) IN
  /\ pc[p] = "shopDebit"
  /\ FreeFor(p, CabRow(u))
  /\ IF balance[u] >= cost /\ Unused # {}
       THEN \E o \in Unused :
              /\ Goto(p, "commit")
              /\ cur' = [cur EXCEPT ![p] = o]
              /\ Take(p, {CabRow(u), OrderRow(o)})
              /\ buf' = [buf EXCEPT ![p].bal = balance[u] - cost]
       ELSE Drop(p)
  /\ UNCHANGED <<tables, clock, runa, todo, crashes>>

\* insert_gift_card_order: the row already there on a conflict, else a new one.
InsertedId(e) ==
  LET same == {o \in OrderIds : /\ Exists(o) /\ order[o].source = e.source
                                /\ order[o].ref = e.ref}
  IN  IF same # {} THEN same ELSE Unused

Insert(o, row) == order' = IF Exists(o) THEN order ELSE [order EXCEPT ![o] = row]

\* create_annual_gift_card and claim_milestone: insert, commit, queue the task.
EarnCard(p, e) ==
  /\ pc[p] = "idle" /\ day <= LastOrderDay
  /\ e.source # "referral_reward"
  /\ e.source = "battlepass_milestone" => e \notin claims
  /\ claims' = IF e.source = "battlepass_milestone" THEN claims \cup {e} ELSE claims
  /\ \E o \in InsertedId(e) :
       /\ Insert(o, NewOrder(e.user, e.source, e.ref, EarnedDenom, NoElig))
       /\ cur' = [cur EXCEPT ![p] = o]
  /\ Goto(p, "queued")
  /\ UNCHANGED <<balance, ytd, refunds, resYear, clock, runa, held, buf, todo, crashes>>

\* handle_subscription_referral -> _enqueue_delayed_gift_card: no task queued,
\* the payout batch picks the order up once it is eligible.
EarnReferral(e) ==
  /\ e.source = "referral_reward" /\ e \notin claims /\ day <= LastOrderDay
  /\ claims' = claims \cup {e}
  /\ \E o \in InsertedId(e) :
       Insert(o, NewOrder(e.user, e.source, e.ref, EarnedDenom, day + ReferralDelay))
  /\ UNCHANGED <<balance, ytd, refunds, resYear, clock, runa, pc, cur, held, buf,
                 todo, crashes>>
-----------------------------------------------------------------------------
(***************************************************************************)
(* issue_gift_card: one transaction per background task.                   *)
(***************************************************************************)
\* The per-order advisory lock, then the idempotence gate read under it.
IssueStart(p) ==
  LET o == cur[p] IN
  /\ pc[p] = "queued"
  /\ FreeFor(p, IssueLock(o))
  /\ IF Pending(o)
       THEN /\ Goto(p, "reserve")
            /\ Take(p, {IssueLock(o)})
            /\ buf' = [buf EXCEPT ![p].row = order[o]]
            /\ UNCHANGED cur
       ELSE Drop(p)
  /\ UNCHANGED <<tables, clock, runa, todo, crashes>>

\* The per-order idempotence of the reservation: cap_reserved_cents > 0.
\* Mutant: the sign test is off by one.
ReservedOrZero(o) == order[o].cap >= 0
AlreadyReserved(o) == order[o].cap > 0

\* reserve_gift_card_cap, pre-lock fast path: already reserved.
ReserveFast(p) ==
  /\ pc[p] = "reserve"
  /\ Goto(p, IF AlreadyReserved(cur[p]) THEN "runa" ELSE "capLock")
  /\ UNCHANGED <<tables, clock, runa, cur, held, buf, todo, crashes>>

\* reserve_gift_card_cap under the per-user lock: re-check, then decide.
CapDecision(p) ==
  LET o == cur[p]  u == User(p) IN
  IF AlreadyReserved(o) THEN "runa"
  ELSE IF ytd[u] + order[o].denom <= CapAnnual THEN "resUser"
  ELSE IF order[o].source # "shop_purchase" THEN "defer" ELSE "fail"

ReserveDecide(p) ==
  /\ pc[p] = "capLock"
  /\ FreeFor(p, CapLock(User(p)))
  /\ Take(p, {CapLock(User(p))})
  /\ Goto(p, CapDecision(p))
  /\ UNCHANGED <<tables, clock, runa, cur, buf, todo, crashes>>

ReserveUser(p) ==
  LET u == User(p) IN
  /\ pc[p] = "resUser"
  /\ FreeFor(p, UserRow(u))
  /\ Take(p, {UserRow(u)})
  /\ buf' = [buf EXCEPT ![p].ytd = ytd[u] + order[cur[p]].denom]
  /\ resYear' = [resYear EXCEPT ![cur[p]] = Year(day)]
  /\ Goto(p, "resOrder")
  /\ UNCHANGED <<order, balance, ytd, refunds, claims, clock, runa, cur, todo, crashes>>

\* The order's half of the reservation.  No status guard on this UPDATE: it
\* writes whatever version it finds.  Mutant: the order is not told.
UnmarkedRow(o) == order[o]
ReservedRow(o) == [order[o] EXCEPT !.cap = order[o].denom]

ReserveOrder(p) ==
  LET o == cur[p] IN
  /\ pc[p] = "resOrder"
  /\ FreeFor(p, OrderRow(o))
  /\ Take(p, {OrderRow(o)})
  /\ buf' = [buf EXCEPT ![p].row = ReservedRow(o)]
  /\ Goto(p, "runa")
  /\ UNCHANGED <<tables, clock, runa, cur, todo, crashes>>

Defer(p) ==
  LET o == cur[p] IN
  /\ pc[p] = "defer"
  /\ FreeFor(p, OrderRow(o))
  /\ Take(p, {OrderRow(o)})
  /\ buf' = [buf EXCEPT ![p].row = [order[o] EXCEPT !.elig = NextJan1(day)]]
  /\ Goto(p, "commit")
  /\ UNCHANGED <<tables, clock, runa, cur, todo, crashes>>

\* POST /orders at Runa, idempotent per order id.  The request may be lost
\* before Runa sees it, or its answer afterwards (timeout, HTTP error).
CallRuna(p) ==
  LET o == cur[p] IN
  /\ pc[p] = "runa"
  /\ \E s \in IF runa[o] = "none" THEN {"none", "processing", "complete", "failed"}
                                  ELSE {runa[o]} :
       /\ runa' = [runa EXCEPT ![o] = s]
       /\ \E a \in {s, "error"} \ {"none"} :
            /\ buf' = [buf EXCEPT ![p].answer = a]
            /\ Goto(p, CASE a = "complete"   -> "issued"
                         [] a = "processing" -> "commit"
                         [] OTHER            -> "fail")
  /\ UNCHANGED <<tables, clock, cur, held, todo, crashes>>

\* The guard of update_order_issued and update_order_failed.  Mutant: no guard.
AnyStatus(p) == TRUE
StillPending(p) == Own(p).status = "pending"

\* update_order_issued: WHERE status = 'pending', result ignored by the caller.
OrderIssued(p) ==
  LET o == cur[p] IN
  /\ pc[p] = "issued"
  /\ FreeFor(p, OrderRow(o))
  /\ Goto(p, "commit")
  /\ IF StillPending(p)
       THEN /\ Take(p, {OrderRow(o)})
            /\ buf' = [buf EXCEPT ![p].row = [Own(p) EXCEPT !.status = "issued"]]
       ELSE UNCHANGED <<held, buf>>
  /\ UNCHANGED <<tables, clock, runa, cur, todo, crashes>>

\* _mark_failed -> update_order_failed: WHERE status = 'pending'.
OrderFailed(p) ==
  LET o == cur[p] IN
  /\ pc[p] = "fail"
  /\ FreeFor(p, OrderRow(o))
  /\ IF StillPending(p)
       THEN /\ Take(p, {OrderRow(o)})
            /\ buf' = [buf EXCEPT ![p].row = [Own(p) EXCEPT !.status = "failed"]]
            /\ Goto(p, IF Own(p).source = "shop_purchase" THEN "refund" ELSE "release")
       ELSE Goto(p, "commit") /\ UNCHANGED <<held, buf>>
  /\ UNCHANGED <<tables, clock, runa, cur, todo, crashes>>

\* Mutant of RefundCab: the refund is computed but never written.
RefundLost(p) ==
  /\ pc[p] = "refund"
  /\ Goto(p, "release")
  /\ UNCHANGED <<tables, clock, runa, cur, held, buf, todo, crashes>>

\* _refund_order_cab, and the refund of _reconcile_one_order.
RefundCab(p) ==
  LET u == User(p) IN
  /\ pc[p] = "refund"
  /\ FreeFor(p, CabRow(u))
  /\ Take(p, {CabRow(u)})
  /\ buf' = [buf EXCEPT ![p].bal = balance[u] + CabCost(buf[p].row.denom),
                        ![p].refund = TRUE]
  /\ Goto(p, "release")
  /\ UNCHANGED <<tables, clock, runa, cur, todo, crashes>>

\* GREATEST(0, ...) of the release.  Mutant: a plain subtraction.
Unfloored(n) == n
Floor0(n) == IF n < 0 THEN 0 ELSE n

\* Mutant of ReleaseCap: the failure path forgets the reservation.
ReleaseForgotten(p) ==
  /\ pc[p] = "release"
  /\ Goto(p, "commit")
  /\ UNCHANGED <<tables, clock, runa, cur, held, buf, todo, crashes>>

\* release_gift_card_cap, and its raw-SQL mirror in _reconcile_one_order.
ReleaseCap(p) ==
  LET u == User(p)
      seen == IF UserRow(u) \in held[p] THEN buf[p].ytd ELSE ytd[u] IN
  /\ pc[p] = "release"
  /\ Goto(p, "commit")
  /\ IF buf[p].row.cap > 0
       THEN /\ FreeFor(p, UserRow(u))
            /\ Take(p, {UserRow(u)})
            /\ buf' = [buf EXCEPT ![p] = [buf[p] EXCEPT
                          !.ytd = Floor0(seen - buf[p].row.cap),
                          !.row = [buf[p].row EXCEPT !.cap = 0]]]
       ELSE UNCHANGED <<held, buf>>
  /\ UNCHANGED <<tables, clock, runa, cur, todo, crashes>>

\* COMMIT: the buffered versions become the rows, every lock is released.
\* A freshly inserted shop order has its background task queued next.
Commit(p) ==
  LET o == cur[p]  u == User(p)
      wrote(l) == l \in held[p]
  IN
  /\ pc[p] = "commit"
  /\ order' = IF wrote(OrderRow(o)) THEN [order EXCEPT ![o] = buf[p].row] ELSE order
  /\ balance' = IF wrote(CabRow(u)) THEN [balance EXCEPT ![u] = buf[p].bal] ELSE balance
  /\ ytd' = IF wrote(UserRow(u)) THEN [ytd EXCEPT ![u] = buf[p].ytd] ELSE ytd
  /\ refunds' = IF buf[p].refund THEN [refunds EXCEPT ![o] = @ + 1] ELSE refunds
  /\ IF Exists(o)
       THEN Drop(p)
       ELSE /\ Goto(p, "queued")
            /\ held' = [held EXCEPT ![p] = {}]
            /\ buf' = [buf EXCEPT ![p] = NoBuf]
            /\ UNCHANGED cur
  /\ UNCHANGED <<claims, resYear, clock, runa, todo, crashes>>
-----------------------------------------------------------------------------
(***************************************************************************)
(* Batches.  On 1 January the reset runs at 00:00 UTC, before the payout   *)
(* (04:00) and the reconciliation (06:00): they wait for ~resetDue.        *)
(***************************************************************************)
\* reconcile_pending_gift_card_orders: the SELECT of the stuck shop orders.
\* Mutant: it only sees orders that got as far as their reservation.
StuckReservedOrders ==
  {o \in OrderIds : /\ Pending(o) /\ age[o] = 2 /\ order[o].cap > 0
                    /\ order[o].source = "shop_purchase"}
StuckShopOrders ==
  {o \in OrderIds : /\ Pending(o) /\ age[o] = 2
                    /\ order[o].source = "shop_purchase"}

ReconcileSelect ==
  /\ pc[Reconciler] = "recNext" /\ todo[Reconciler] = {}
  /\ StuckShopOrders # {} /\ ~resetDue
  /\ todo' = [todo EXCEPT ![Reconciler] = StuckShopOrders]
  /\ UNCHANGED <<tables, clock, runa, pc, cur, held, buf, crashes>>

\* _reconcile_one_order, step 1: the guarded UPDATE; refund and release follow
\* in the same transaction (RefundCab, ReleaseCap, Commit).
ReconcileOne(o) ==
  LET p == Reconciler IN
  /\ pc[p] = "recNext" /\ o \in todo[p]
  /\ FreeFor(p, OrderRow(o))
  /\ todo' = [todo EXCEPT ![p] = @ \ {o}]
  /\ IF Pending(o)
       THEN /\ Goto(p, "refund")
            /\ cur' = [cur EXCEPT ![p] = o]
            /\ Take(p, {OrderRow(o)})
            /\ buf' = [buf EXCEPT ![p].row = [order[o] EXCEPT !.status = "failed"]]
       ELSE UNCHANGED <<pc, cur, held, buf>>
  /\ UNCHANGED <<tables, clock, runa, crashes>>

\* Rows the reconciliation re-triggers: over-cap deferrals whose date has come
\* (reconcile_deferred_...) and earned orders stuck past one hour
\* (reconcile_processing_...).  Mutant: only the deferrals.
OnlyDeferred(o) ==
  /\ Pending(o) /\ order[o].source # "referral_reward"
  /\ order[o].elig # NoElig /\ order[o].elig <= day
Reissuable(o) ==
  /\ Pending(o)
  /\ \/ /\ order[o].source # "referral_reward"
        /\ order[o].elig # NoElig /\ order[o].elig <= day
     \/ /\ order[o].source # "shop_purchase"
        /\ order[o].elig = NoElig /\ age[o] = 2

\* notify_rewards_to_issue -> issue_existing_order: queue an issuance task.
Reissue(o) ==
  /\ Reissuable(o) /\ ~resetDue
  /\ \E p \in Workers :
       /\ pc[p] = "idle"
       /\ Goto(p, "queued")
       /\ cur' = [cur EXCEPT ![p] = o]
  /\ UNCHANGED <<tables, clock, runa, held, buf, todo, crashes>>

\* fetch_eligible_orders of the referral payout.
EligibleReferrals ==
  {o \in OrderIds : /\ Pending(o) /\ order[o].source = "referral_reward"
                    /\ order[o].elig # NoElig /\ order[o].elig <= day}

PayoutSelect ==
  /\ pc[Payout] = "idle" /\ EligibleReferrals # {} /\ ~resetDue
  /\ todo' = [todo EXCEPT ![Payout] = EligibleReferrals]
  /\ Goto(Payout, "payout")
  /\ UNCHANGED <<tables, clock, runa, cur, held, buf, crashes>>

\* mark_churned: the referred user is no longer subscribed.  The UPDATE stays
\* uncommitted, its row locked, until the end of the run.
PayoutChurn(o) ==
  /\ pc[Payout] = "payout" /\ o \in todo[Payout]
  /\ FreeFor(Payout, OrderRow(o))
  /\ todo' = [todo EXCEPT ![Payout] = @ \ {o}]
  /\ held' = IF Pending(o) THEN [held EXCEPT ![Payout] = @ \cup {OrderRow(o)}]
                           ELSE held
  /\ UNCHANGED <<tables, clock, runa, pc, cur, buf, crashes>>

\* Still subscribed: POST to the issue endpoint, which refuses an order that is
\* no longer pending.
PayoutNotify(o) ==
  /\ pc[Payout] = "payout" /\ o \in todo[Payout]
  /\ todo' = [todo EXCEPT ![Payout] = @ \ {o}]
  /\ Pending(o)
  /\ \E p \in Workers :
       /\ pc[p] = "idle"
       /\ Goto(p, "queued")
       /\ cur' = [cur EXCEPT ![p] = o]
  /\ UNCHANGED <<tables, clock, runa, held, buf, crashes>>

\* The POST fails or is refused (409): logged, the next run tries again.
PayoutNotifyFails(o) ==
  /\ pc[Payout] = "payout" /\ o \in todo[Payout]
  /\ todo' = [todo EXCEPT ![Payout] = @ \ {o}]
  /\ UNCHANGED <<tables, clock, runa, pc, cur, held, buf, crashes>>

PayoutCommit ==
  /\ pc[Payout] = "payout" /\ todo[Payout] = {}
  /\ order' = [o \in OrderIds |->
                 IF OrderRow(o) \in held[Payout]
                   THEN [order[o] EXCEPT !.status = "churned"] ELSE order[o]]
  /\ Drop(Payout)
  /\ UNCHANGED <<balance, ytd, refunds, claims, resYear, clock, runa, todo, crashes>>

\* reset_gift_card_ytd: one UPDATE over the users with a non-zero counter.
AnnualReset ==
  /\ IsJanuary(day) /\ (resetDue \/ JanuaryReruns)
  /\ \A u \in Users : ytd[u] # 0 => \A q \in Procs : UserRow(u) \notin held[q]
  /\ ytd' = [u \in Users |-> 0]
  /\ resetDue' = FALSE
  /\ UNCHANGED <<order, balance, refunds, claims, resYear, runa, pc, cur, held, buf,
                 todo, day, age, crashes>>
-----------------------------------------------------------------------------
(***************************************************************************)
(* Environment: failures, the provider, and time.                          *)
(***************************************************************************)
\* The process or its connection dies: PostgreSQL rolls the transaction back
\* and the in-memory background task is lost.
Crash(p) ==
  /\ crashes < MaxCrashes
  /\ pc[p] \notin {"idle", "recNext"}
  /\ crashes' = crashes + 1
  /\ Drop(p)
  /\ todo' = IF p \in Batches THEN [todo EXCEPT ![p] = {}] ELSE todo
  /\ UNCHANGED <<tables, clock, runa>>

\* The lock p's next statement waits for.
Wants(p) ==
  CASE pc[p] = "queued"                             -> {IssueLock(cur[p])}
    [] pc[p] \in {"shopLock", "capLock"}            -> {CapLock(User(p))}
    [] pc[p] \in {"shopDebit", "refund"}            -> {CabRow(User(p))}
    [] pc[p] \in {"resOrder", "defer", "issued", "fail"} -> {OrderRow(cur[p])}
    [] pc[p] = "resUser"                            -> {UserRow(User(p))}
    [] pc[p] = "release" /\ buf[p].row.cap > 0      -> {UserRow(User(p))}
    [] OTHER                                        -> {}

WaitsFor(p, q) == p # q /\ Wants(p) \cap held[q] # {}

\* PostgreSQL aborts one transaction of a lock cycle: every caller catches the
\* error, rolls back and leaves the order as it was.
DeadlockVictim(p) ==
  /\ \E q \in Procs : WaitsFor(p, q) /\ WaitsFor(q, p)
  /\ Drop(p)
  /\ UNCHANGED <<tables, clock, runa, todo, crashes>>

RunaResolve(o) ==
  /\ runa[o] = "processing"
  /\ \E s \in {"complete", "failed"} : runa' = [runa EXCEPT ![o] = s]
  /\ UNCHANGED <<tables, clock, pc, cur, held, buf, todo, crashes>>

\* Time passes for one order.  24 h after its creation it is another day.
Age(o) ==
  /\ Exists(o) /\ age[o] < 2
  /\ age[o] = 1 => /\ order[o].source = "shop_purchase" => order[o].created < day
                   /\ PromptTasks => \A p \in Workers : cur[p] # o
  /\ age' = [age EXCEPT ![o] = @ + 1]
  /\ UNCHANGED <<tables, runa, pc, cur, held, buf, todo, day, resetDue, crashes>>

NextDay ==
  /\ day < MaxDay /\ ~resetDue
  /\ \A o \in OrderIds : Exists(o) /\ order[o].created < day => age[o] = 2
  /\ day' = day + 1
  /\ resetDue' = (resetDue \/ IsJanuary(day + 1))
  /\ UNCHANGED <<tables, runa, pc, cur, held, buf, todo, age, crashes>>
-----------------------------------------------------------------------------
Init ==
  /\ order = [o \in OrderIds |-> NoOrder]
  /\ balance = [u \in Users |-> InitBalance]
  /\ ytd = [u \in Users |-> 0]
  /\ refunds = [o \in OrderIds |-> 0]
  /\ claims = {}
  /\ age = [o \in OrderIds |-> 0]
  /\ resYear = [o \in OrderIds |-> 0]
  /\ runa = [o \in OrderIds |-> "none"]
  /\ pc = [p \in Procs |-> Idle(p)]
  /\ cur = [p \in Procs |-> NULL]
  /\ held = [p \in Procs |-> {}]
  /\ buf = [p \in Procs |-> NoBuf]
  /\ todo = [b \in Batches |-> {}]
  /\ day = 0 /\ resetDue = FALSE /\ crashes = 0

Request(p) ==
  \/ \E u \in Users, denom \in ShopDenoms : ShopBegin(p, u, denom)
  \/ \E e \in Events : EarnCard(p, e)

Step(p) ==
  \/ ShopCaps(p) \/ ShopDebit(p)
  \/ IssueStart(p) \/ ReserveFast(p) \/ ReserveDecide(p)
  \/ ReserveUser(p) \/ ReserveOrder(p) \/ Defer(p)
  \/ CallRuna(p) \/ OrderIssued(p) \/ OrderFailed(p)
  \/ RefundCab(p) \/ ReleaseCap(p) \/ Commit(p)
  \/ DeadlockVictim(p)

ReconcileStep == ReconcileSelect \/ \E o \in OrderIds : ReconcileOne(o)

PayoutStep ==
  \/ PayoutSelect
  \/ \E o \in OrderIds : PayoutChurn(o) \/ PayoutNotify(o) \/ PayoutNotifyFails(o)
  \/ PayoutCommit

\* Nothing left to do: every process idle, no batch has work.
Quiescent ==
  /\ \A p \in Procs : pc[p] = Idle(p)
  /\ \A b \in Batches : todo[b] = {}
  /\ UNCHANGED vars

Next ==
  \/ \E p \in Workers : Request(p)
  \/ \E e \in Events : EarnReferral(e)
  \/ \E p \in Procs : Step(p) \/ Crash(p)
  \/ ReconcileStep \/ PayoutStep
  \/ \E o \in OrderIds : Reissue(o) \/ RunaResolve(o) \/ Age(o)
  \/ AnnualReset \/ NextDay
  \/ Quiescent

Spec == Init /\ [][Next]_vars

\* Running transactions advance, the crons run every day and their POSTs do not
\* fail for ever, Runa settles the orders it accepted, and the calendar moves
\* on.  No request has to arrive.
Fairness ==
  /\ \A p \in Procs : WF_vars(Step(p))
  /\ WF_vars(ReconcileStep) /\ WF_vars(PayoutStep)
  /\ \A o \in OrderIds : /\ SF_vars(Reissue(o)) /\ SF_vars(PayoutNotify(o))
                         /\ WF_vars(RunaResolve(o)) /\ WF_vars(Age(o))
  /\ WF_vars(AnnualReset) /\ WF_vars(NextDay)

FairSpec == Spec /\ Fairness
-----------------------------------------------------------------------------
(***************************************************************************)
(* Properties.                                                             *)
(***************************************************************************)
Statuses == {"pending", "issued", "failed", "churned"}
OrderRec ==
  [user : Users, source : Sources, ref : STRING \cup {NULL}, denom : Nat,
   status : Statuses, cap : Nat, elig : Nat \cup {NoElig}, created : Nat]
Locks == {IssueLock(o) : o \in OrderIds} \cup {OrderRow(o) : o \in OrderIds}
           \cup {CapLock(u) : u \in Users} \cup {CabRow(u) : u \in Users}
           \cup {UserRow(u) : u \in Users}
Labels == {"idle", "recNext", "payout", "shopLock", "shopDebit", "queued", "reserve",
           "capLock", "resUser", "resOrder", "defer", "runa", "issued", "fail",
           "refund", "release", "commit"}
BufRec == [row : OrderRec \cup {NoOrder}, bal : Nat, ytd : Nat, refund : BOOLEAN,
           answer : {"none", "processing", "complete", "failed", "error"}]

\* Every row, lock and process of the model stays within its type; balances and
\* counters never go negative (user_cab_balance and ytd are never below 0).
TypeOK ==
  /\ order \in [OrderIds -> OrderRec \cup {NoOrder}]
  /\ balance \in [Users -> Nat] /\ ytd \in [Users -> Nat]
  /\ refunds \in [OrderIds -> Nat] /\ resYear \in [OrderIds -> Nat]
  /\ claims \subseteq Events
  /\ age \in [OrderIds -> 0..2]
  /\ runa \in [OrderIds -> {"none", "processing", "complete", "failed"}]
  /\ pc \in [Procs -> Labels] /\ cur \in [Procs -> OrderIds \cup {NULL}]
  /\ held \in [Procs -> SUBSET Locks] /\ buf \in [Procs -> BufRec]
  /\ todo \in [Batches -> SUBSET OrderIds]
  /\ day \in Nat /\ resetDue \in BOOLEAN /\ crashes \in Nat

Issuing(p) == pc[p] \in {"reserve", "capLock", "resUser", "resOrder", "defer", "runa",
                         "issued", "fail", "refund", "release", "commit"}

\* Two background tasks are never past the idempotence gate of the same order
\* together, so Runa never sees two concurrent requests for one order
\* (issue_gift_card, per-order advisory lock).
OneIssuer ==
  \A p, q \in Workers :
    p # q /\ Issuing(p) /\ Issuing(q) => cur[p] # cur[q]

\* A boutique order of u that has not failed.
Stands(r, u) ==
  /\ r.user = u /\ r.source = "shop_purchase"
  /\ r.status \in {"pending", "issued"}

\* A user's CAB balance is what he started with minus the cost of his boutique
\* orders that have not failed, and a boutique order has been refunded exactly
\* when it has failed, and once, whoever failed it: the task, the 24 h batch, or
\* both racing.  No debit is lost or applied twice, no other order is refunded.
CabConservation ==
  /\ \A o \in OrderIds :
       refunds[o] = IF order[o].status = "failed" /\ order[o].source = "shop_purchase"
                      THEN 1 ELSE 0
  /\ \A u \in Users :
       balance[u] = InitBalance - SumFunction([o \in OrderIds |->
         IF Stands(order[o], u) THEN CabCost(order[o].denom) ELSE 0])

Reserved(u, S) ==
  SumFunction([o \in OrderIds |->
    IF o \in S /\ order[o].user = u THEN order[o].cap ELSE 0])

\* Within a year the denormalised counter equals the reservations of the user's
\* orders: reserve and release move both or neither.
YtdMatchesReservations == \A u \in Users : ytd[u] = Reserved(u, OrderIds)

\* The reservations a user's orders took in the current calendar year never
\* exceed the fiscal cap, however issuances, retries and failures interleave, and
\* every issued card holds its reservation: no card escapes the cap.
FiscalCap ==
  /\ \A u \in Users :
       Reserved(u, {o \in OrderIds : resYear[o] = Year(day)}) <= CapAnnual
  /\ \A o \in OrderIds : order[o].status = "issued" => order[o].cap = order[o].denom

\* A failed order holds no reservation: it does not eat the user's yearly cap.
FailedHoldsNoReservation ==
  \A o \in OrderIds : order[o].status = "failed" => order[o].cap = 0

\* The boutique orders a user created on one day and that have not failed stay
\* within the daily cap, concurrent requests included.
DailyCap ==
  \A u \in Users, d \in 0..day :
    SumFunction([o \in OrderIds |->
      IF Stands(order[o], u) /\ order[o].created = d
        THEN order[o].denom ELSE 0]) <= CapDaily

\* A terminal status (issued, failed, churned) is never overwritten, so a stale
\* writer can neither resurrect nor flip an order.
TerminalIsFinal ==
  [][\A o \in OrderIds :
       order[o].status \in {"issued", "failed", "churned"}
         => order'[o].status = order[o].status]_vars

\* Every order is settled despite crashes, lost background tasks, lost answers
\* and lock cycles: a boutique order ends issued, or failed with its CAB back, and
\* an earned one once it falls due within the clock (the reconciliation and
\* payout jobs re-trigger what a task left pending).
OrderSettles ==
  \A o \in OrderIds :
    Pending(o) ~> \/ ~Pending(o)
                  \/ order[o].source # "shop_purchase" /\ order[o].elig > MaxDay

\* The order as the abstract specification sees it.
CardOf(o) == [user |-> order[o].user, bought |-> order[o].source = "shop_purchase",
              value |-> order[o].denom, day |-> order[o].created, state |-> order[o].status]
Cards == [o \in OrderIds |-> CardOf(o)]
Deliveries == [o \in OrderIds |-> runa[o] = "complete"]

Abstract == INSTANCE CardOrders WITH
  Ids <- OrderIds, Denoms <- ShopDenoms, Days <- 0..LastOrderDay,
  card <- Cards, delivered <- Deliveries

\* The transactions, locks, tasks, retries and batches that create, issue, fail,
\* refund and churn orders implement CardOrders: debit and order, failure and
\* refund are one step each, the caps of the day and the week still hold when the
\* order commits, and an issued order has its card at Runa.
ImplementsCardOrders == Abstract!Spec

\* -- A statement of the repository that the code does not keep --------------

\* ARCH_boutique.md: an exact retry within a minute is rejected, so a user never
\* has two identical boutique orders of the same minute.
NoDoubleTap ==
  \A o1, o2 \in OrderIds :
    /\ Exists(o1) /\ Exists(o2) /\ age[o1] = 0 /\ age[o2] = 0
    /\ order[o1].source = "shop_purchase" /\ order[o2].source = "shop_purchase"
    /\ order[o1].user = order[o2].user /\ order[o1].denom = order[o2].denom
    => o1 = o2
=============================================================================
