------------------------------ MODULE Cashback ------------------------------
(***************************************************************************)
(* The cashback ledger of ratis_rewards: CREDIT rows detected on the lines *)
(* of receipts, advanced to subscribers, boosted with CAB, resolved by the *)
(* affiliate webhook or an administrator, expired after 90 days, and       *)
(* inserted late by the reconciliation batch or retroactively when a store *)
(* is confirmed.                                                           *)
(*                                                                         *)
(* Who sees a line depends on the status of its scan.  The receipt         *)
(* pipeline writes `matched' (a product was found) or `unresolved'; the    *)
(* user's bar-code scan of the article makes it `accepted'.  scan-detected *)
(* takes both, the batch and the retroactive call `accepted' only.         *)
(*                                                                         *)
(* As in GiftCards, transactions run at READ COMMITTED: a thread keeps the *)
(* row versions it wrote in `new' and the increments of its balance        *)
(* UPDATEs in `inc' until it commits, and the locks of those rows in       *)
(* `held'.  The key lock of a line stands for its CREDIT row and for the   *)
(* unique index entry (scan_id, product_ean).  A BOOST row is only touched *)
(* by a transaction that holds the key lock of its parent.                 *)
(***************************************************************************)
EXTENDS Integers, FiniteSets, FiniteSetsExt, Functions

CONSTANTS
  Users,
  Receipts,      \* receipts attached to the one store of the model
  Lines,         \* receipt lines: a scan and the article it is matched to
  Owner,         \* receipt -> user
  ReceiptOf,     \* line -> receipt
  Reward,        \* line -> cashback_rate * price, in tenths of a cent
  Workers,       \* request threads
  Resolvers,     \* the threads that may serve webhook and admin resolutions
  BoostRate,     \* rewards.cashback_boost_cab_rate, in tenths
  Bonus,         \* streak + community multiplier of award_cab, in tenths
  InitCab,       \* every user's CAB balance at the start
  MaxCrashes,    \* bound: crashes of a thread
  MaxAge,        \* bound: steps of time, of all the lines together
  MaxResolved,   \* bound: bar codes scanned for a line
  MaxRevisions,  \* bound: other changes of the lines, and of the offers
  NULL

ASSUME CashbackAssumption ==
  /\ IsFiniteSet(Lines) /\ NULL \notin Lines
  /\ Owner \in [Receipts -> Users] /\ ReceiptOf \in [Lines -> Receipts]
  /\ Reward \in [Lines -> Nat] /\ Resolvers \subseteq Workers
  /\ BoostRate \in Nat /\ Bonus \in Nat /\ InitCab \in Nat
  /\ MaxCrashes \in Nat /\ MaxAge \in Nat /\ MaxResolved \in Nat /\ MaxRevisions \in Nat

VARIABLES
  credit,       \* CREDIT rows: line -> committed row
  boost,        \* BOOST row of a line's CREDIT: its status
  cash, cab,    \* user_cashback_balance, user_cab_balance
  receipt,      \* receipts.store_status, "none" before the receipt is read
  scan,         \* line -> scans.status, "none" before the receipt is read
  offer,        \* lines whose affiliate offer is open at this moment
  subscriber,   \* users with an active subscription
  age,          \* line -> 0 in the boost window, 1 past it, 2 past 90 days
  pc, job,      \* per thread: control, and the local variables of its call
  held, new, newBoost, inc,   \* per thread: locks and uncommitted writes
  crashes, resolved, revisions,
  \* History, read by no guard: per line, what overtaken resolutions, which read
  \* the CREDIT before another one committed, paid or refunded once more.
  twicePaid, twiceRefunded

vars == <<credit, boost, cash, cab, receipt, scan, offer, subscriber, age,
          pc, job, held, new, newBoost, inc, crashes, resolved, revisions,
          twicePaid, twiceRefunded>>
again == <<twicePaid, twiceRefunded>>
tables == <<credit, boost, cash, cab, receipt, again>>
lines == <<scan, offer, resolved, revisions>>
world == <<lines, subscriber, age, crashes>>
writes == <<held, new, newBoost, inc>>

UserOf(s) == Owner[ReceiptOf[s]]
LinesOf(R) == {s \in Lines : ReceiptOf[s] \in R}

\* Decimal.quantize(ROUND_HALF_UP), and the half-even round() of the batch.
RoundHalfUp(t) == (t + 5) \div 10
RoundHalfEven(t) == IF t % 20 = 5 THEN t \div 10 ELSE RoundHalfUp(t)

\* cashback_service: CAB price of a boost; award_cab: what a credit really adds.
BoostCost(amount) == RoundHalfUp(amount * BoostRate)
Awarded(n) == IF Bonus > 0 THEN Max({1, (n * (10 + Bonus)) \div 10}) ELSE n

NoCredit == [status |-> "none", amount |-> 0, dist |-> FALSE, boosted |-> FALSE]
NoJob == [line |-> NULL, rest |-> {}, todo |-> {}, advance |-> FALSE,
          res |-> "none", saw |-> NoCredit, flip |-> FALSE]
NoInc == [cash |-> [u \in Users |-> 0], cab |-> [u \in Users |-> 0]]

Exists(s) == credit[s].status # "none"
Pending(s) == credit[s].status = "pending"

Key(s)     == <<"cashback_transactions", s>>
CashRow(u) == <<"user_cashback_balance", u>>
CabRow(u)  == <<"user_cab_balance", u>>
FreeFor(p, l) == \A q \in Workers \ {p} : l \notin held[q]
Free(l) == \A q \in Workers : l \notin held[q]
Take(p, l) == held' = [held EXCEPT ![p] = @ \cup {l}]
Goto(p, l) == pc' = [pc EXCEPT ![p] = l]
Write(p, s, row) == new' = [new EXCEPT ![p] = [x \in DOMAIN @ \cup {s} |->
                                                 IF x = s THEN row ELSE @[x]]]
AddCash(p, u, n) == inc' = [inc EXCEPT ![p].cash[u] = @ + n]
AddCab(p, u, n)  == inc' = [inc EXCEPT ![p].cab[u] = @ + n]

\* ROLLBACK, or the end of a transaction that wrote nothing.
Reset(p) ==
  /\ Goto(p, "idle")
  /\ job' = [job EXCEPT ![p] = NoJob]
  /\ held' = [held EXCEPT ![p] = {}]
  /\ new' = [new EXCEPT ![p] = <<>>]
  /\ newBoost' = [newBoost EXCEPT ![p] = <<>>]
  /\ inc' = [inc EXCEPT ![p] = NoInc]
Rollback(p) == Reset(p) /\ UNCHANGED tables

\* Rows of table f overwritten by the versions of g.
Over(f, g) == [x \in DOMAIN f |-> IF x \in DOMAIN g THEN g[x] ELSE f[x]]
-----------------------------------------------------------------------------
(***************************************************************************)
(* The lines, as the analyser, its users and its administrators leave them.*)
(***************************************************************************)
\* The pipeline reads a receipt; at an unconfirmed store its cashback waits.
ReceiptRead(r) ==
  /\ receipt[r] = "none"
  /\ \E s \in {"pending", "confirmed"} : receipt' = [receipt EXCEPT ![r] = s]
  /\ \E read \in [LinesOf({r}) -> {"matched", "unresolved"}] : scan' = Over(scan, read)
  /\ UNCHANGED <<credit, boost, cash, cab, again, offer, resolved, revisions,
                 subscriber, age, crashes, pc, job, writes>>

\* resolve_scan: the user scans the bar code of the article.
BarcodeResolved(s) ==
  /\ scan[s] \in {"matched", "unresolved"} /\ resolved < MaxResolved
  /\ scan' = [scan EXCEPT ![s] = "accepted"]
  /\ resolved' = resolved + 1
  /\ UNCHANGED <<tables, offer, revisions, subscriber, age, crashes, pc, job, writes>>

\* The name is recovered by a batch, an administrator overrides or replays the
\* line, another article replaces it, a better scan supersedes it.
LineRevised(s) ==
  /\ scan[s] # "none" /\ revisions < MaxRevisions
  /\ \E status \in {"matched", "unresolved", "rejected"} : scan' = [scan EXCEPT ![s] = status]
  /\ revisions' = revisions + 1
  /\ UNCHANGED <<tables, offer, resolved, subscriber, age, crashes, pc, job, writes>>

\* An affiliate offer starts or ends.
OfferChanged(s) ==
  /\ revisions < MaxRevisions
  /\ offer' = IF s \in offer THEN offer \ {s} ELSE offer \cup {s}
  /\ revisions' = revisions + 1
  /\ UNCHANGED <<tables, scan, resolved, subscriber, age, crashes, pc, job, writes>>
-----------------------------------------------------------------------------
(***************************************************************************)
(* detect_cashback, called for one receipt or for a store's receipts.      *)
(***************************************************************************)
Detectable(r) == {s \in LinesOf({r}) : scan[s] \in {"matched", "accepted"}}

\* POST /scan-detected: sent once per receipt, maybe lost or repeated.
ScanDetected(p, r) ==
  /\ pc[p] = "idle" /\ receipt[r] = "confirmed" /\ Detectable(r) # {}
  /\ job' = [job EXCEPT ![p].rest = Detectable(r)]
  /\ Goto(p, "detect")
  /\ UNCHANGED <<tables, world, writes>>

\* POST /process-retroactive: reads the accepted lines of the receipts still
\* pending, which may be none of their lines.
PendingReceipts == {r \in Receipts : receipt[r] = "pending"}

ProcessRetroactive(p) ==
  /\ pc[p] = "idle" /\ PendingReceipts # {}
  /\ job' = [job EXCEPT ![p].rest = {s \in LinesOf(PendingReceipts) : scan[s] = "accepted"},
                        ![p].flip = TRUE]
  /\ Goto(p, "detect")
  /\ UNCHANGED <<tables, world, writes>>

\* One call of detect_cashback per user: the subscription is read at its start.
DetectUser(p) ==
  /\ pc[p] = "detect" /\ job[p].todo = {}
  /\ \E u \in {UserOf(s) : s \in job[p].rest} :
       LET mine == {s \in job[p].rest : UserOf(s) = u} IN
       job' = [job EXCEPT ![p].todo = mine, ![p].rest = @ \ mine,
                          ![p].advance = (u \in subscriber)]
  /\ UNCHANGED <<tables, world, pc, writes>>

\* get_active_offer_by_ean, has_cashback_for_scan: skip a line without an open
\* offer or already credited.
Creditable(s) == s \in offer /\ ~Exists(s)

DetectCheck(p, s) ==
  /\ pc[p] = "detect" /\ s \in job[p].todo
  /\ job' = [job EXCEPT ![p].todo = @ \ {s}, ![p].line = IF Creditable(s) THEN s ELSE @]
  /\ IF Creditable(s) THEN Goto(p, "insert") ELSE UNCHANGED pc
  /\ UNCHANGED <<tables, world, writes>>

\* The unique index (scan_id, product_ean) of the CREDIT rows.  Mutant: no index.
NoUniqueIndex(s) == FALSE
Duplicate(s) == Exists(s)

\* insert_cashback_credit: waits for a concurrent insert of the line and then
\* fails on the unique index; a zero amount fails on CHECK (amount > 0).  Either
\* aborts the whole call.
DetectInsert(p) ==
  LET s == job[p].line  amount == RoundHalfUp(Reward[s]) IN
  /\ pc[p] = "insert" /\ FreeFor(p, Key(s))
  /\ IF Duplicate(s) \/ amount = 0
       THEN Rollback(p)
       ELSE /\ Take(p, Key(s))
            /\ Write(p, s, [status |-> "pending", amount |-> amount,
                            dist |-> job[p].advance, boosted |-> FALSE])
            /\ Goto(p, IF job[p].advance THEN "advance" ELSE "detect")
            /\ UNCHANGED <<tables, job, newBoost, inc>>
  /\ UNCHANGED world

\* credit_cashback_balance of a subscriber's advance.
DetectAdvance(p) ==
  LET s == job[p].line  u == UserOf(s) IN
  /\ pc[p] = "advance" /\ FreeFor(p, CashRow(u))
  /\ Take(p, CashRow(u))
  /\ AddCash(p, u, new[p][s].amount)
  /\ Goto(p, "detect")
  /\ UNCHANGED <<tables, world, job, new, newBoost>>

\* Every line done.  The retroactive call re-reads the pending receipts and
\* flips them in the same transaction.
DetectDone(p) ==
  /\ pc[p] = "detect" /\ job[p].todo = {} /\ job[p].rest = {}
  /\ credit' = Over(credit, new[p])
  /\ cash' = [u \in Users |-> cash[u] + inc[p].cash[u]]
  /\ receipt' = IF job[p].flip
                  THEN [r \in Receipts |-> IF r \in PendingReceipts THEN "confirmed"
                                                                    ELSE receipt[r]]
                  ELSE receipt
  /\ Reset(p)
  /\ UNCHANGED <<boost, cab, again, world>>
-----------------------------------------------------------------------------
(***************************************************************************)
(* boost_cashback.                                                         *)
(***************************************************************************)
BoostRead(p, s) ==
  /\ pc[p] = "idle"
  /\ credit[s].status \in {"pending", "confirmed"} /\ ~credit[s].boosted /\ age[s] = 0
  /\ job' = [job EXCEPT ![p].line = s]
  /\ Goto(p, "boost")
  /\ UNCHANGED <<tables, world, writes>>

\* The guard of mark_boost_applied.  Mutant: the flag is set without looking.
BoostUnchecked(s) == TRUE
BoostFree(s) == ~credit[s].boosted

\* mark_boost_applied: the atomic gate, on boost_applied only.
BoostMark(p) ==
  LET s == job[p].line IN
  /\ pc[p] = "boost" /\ FreeFor(p, Key(s))
  /\ IF BoostFree(s)
       THEN /\ Take(p, Key(s))
            /\ Write(p, s, [credit[s] EXCEPT !.boosted = TRUE])
            /\ Goto(p, "boostDebit")
            /\ UNCHANGED <<tables, job, newBoost, inc>>
       ELSE Rollback(p)
  /\ UNCHANGED world

\* The guard of debit_cab's UPDATE.
CanDebit(u, cost) == cab[u] >= cost

\* debit_cab (a cost of 0 is refused), then the BOOST row.
BoostDebit(p) ==
  LET s == job[p].line  u == UserOf(s)  cost == BoostCost(credit[s].amount) IN
  /\ pc[p] = "boostDebit" /\ FreeFor(p, CabRow(u))
  /\ IF cost > 0 /\ CanDebit(u, cost)
       THEN /\ Take(p, CabRow(u))
            /\ AddCab(p, u, -cost)
            /\ newBoost' = [newBoost EXCEPT ![p] = [x \in {s} |-> "pending"]]
            /\ Goto(p, "pay")
            /\ UNCHANGED <<tables, job, new>>
       ELSE Rollback(p)
  /\ UNCHANGED world

\* credit_cashback_balance: the last statement of a boost and of a confirmation.
CreditBalance(p) ==
  LET s == job[p].line  u == UserOf(s) IN
  /\ pc[p] = "pay" /\ FreeFor(p, CashRow(u))
  /\ Take(p, CashRow(u))
  /\ AddCash(p, u, credit[s].amount)
  /\ Goto(p, "commit")
  /\ UNCHANGED <<tables, world, job, new, newBoost>>
-----------------------------------------------------------------------------
(***************************************************************************)
(* resolve_cashback: webhook and administrator share it.                   *)
(***************************************************************************)
ResolveRead(p, s, resolution) ==
  /\ pc[p] = "idle" /\ p \in Resolvers /\ Pending(s)
  /\ job' = [job EXCEPT ![p].line = s, ![p].res = resolution, ![p].saw = credit[s]]
  /\ Goto(p, "resolve")
  /\ UNCHANGED <<tables, world, writes>>

\* Whether the confirmation pays.  Mutant: it takes a boost for the payment.
PaysUnlessBoosted(saw) == ~saw.dist /\ ~saw.boosted
PaysNow(saw) == ~saw.dist

\* The row the UPDATE starts from: the one in the table when the lock is granted.
\* Mutant: the copy read before it (a read-modify-write of the whole row).
StaleRow(p) == job[p].saw
UpdatedRow(p) == credit[job[p].line]

\* update_cashback_tx_status, without a guard on the status, and
\* update_cashback_tx_distributed when the confirmation pays.
ResolveMark(p) ==
  LET s == job[p].line  pays == job[p].res = "confirmed" /\ PaysNow(job[p].saw) IN
  /\ pc[p] = "resolve" /\ FreeFor(p, Key(s))
  /\ Take(p, Key(s))
  /\ Write(p, s, [UpdatedRow(p) EXCEPT !.status = job[p].res, !.dist = @ \/ pays])
  /\ Goto(p, IF pays THEN "pay"
             ELSE IF job[p].res = "refused" /\ boost[s] # "none" THEN "boostRefund"
             ELSE "commit")
  /\ UNCHANGED <<tables, world, job, newBoost, inc>>

\* The BOOST child is refused and its CAB goes back through award_cab.
\* Mutant: the CAB is forgotten.
RefundForgotten(p) ==
  /\ pc[p] = "boostRefund"
  /\ newBoost' = [newBoost EXCEPT ![p] = [x \in {job[p].line} |-> "refused"]]
  /\ Goto(p, "commit")
  /\ UNCHANGED <<tables, world, job, held, new, inc>>
BoostRefund(p) ==
  LET s == job[p].line  u == UserOf(s) IN
  /\ pc[p] = "boostRefund" /\ FreeFor(p, CabRow(u))
  /\ Take(p, CabRow(u))
  /\ newBoost' = [newBoost EXCEPT ![p] = [x \in {s} |-> "refused"]]
  /\ AddCab(p, u, Awarded(BoostCost(credit[s].amount)))
  /\ Goto(p, "commit")
  /\ UNCHANGED <<tables, world, job, new>>

\* Another resolution committed between this one's read and its UPDATE: the
\* CREDIT has been paid since, or its boost refused and refunded.
PaidAgain(p) ==
  job[p].res = "confirmed" /\ ~job[p].saw.dist /\ credit[job[p].line].dist
RefundedAgain(p) == job[p].res = "refused" /\ boost[job[p].line] = "refused"

Commit(p) ==
  /\ pc[p] = "commit"
  /\ credit' = Over(credit, new[p])
  /\ boost' = Over(boost, newBoost[p])
  /\ cash' = [u \in Users |-> cash[u] + inc[p].cash[u]]
  /\ cab' = [u \in Users |-> cab[u] + inc[p].cab[u]]
  /\ twicePaid' = IF PaidAgain(p)
                    THEN [twicePaid EXCEPT ![job[p].line] = @ + credit[job[p].line].amount]
                    ELSE twicePaid
  /\ twiceRefunded' =
       IF RefundedAgain(p)
         THEN [twiceRefunded EXCEPT ![job[p].line] =
                 @ + Awarded(BoostCost(credit[job[p].line].amount))]
         ELSE twiceRefunded
  /\ Reset(p)
  /\ UNCHANGED <<receipt, world>>
-----------------------------------------------------------------------------
(***************************************************************************)
(* The reconciliation batch: one guarded statement per transaction.        *)
(***************************************************************************)
\* The age at which a pending CREDIT expires.  Mutant: the ones still boostable.
Boostable(s) == age[s] = 0
Expired(s) == age[s] = 2

\* reconcile_expired_cashbacks: the CREDIT alone, its BOOST is not looked at.
ReconcileExpired(s) ==
  /\ Pending(s) /\ Expired(s) /\ Free(Key(s))
  /\ credit' = [credit EXCEPT ![s].status = "refused"]
  /\ UNCHANGED <<boost, cash, cab, receipt, again, world, pc, job, writes>>

\* The SELECT and the INSERT ... ON CONFLICT DO NOTHING of
\* reconcile_missing_cashback_scans, which only sees accepted lines whose offer is
\* still open; the store's status is not looked at and no advance is paid.
\* Mutant: the batch only sees receipts of confirmed stores.
MissingConfirmed(s) ==
  scan[s] = "accepted" /\ Creditable(s) /\ receipt[ReceiptOf[s]] = "confirmed"
Missing(s) == scan[s] = "accepted" /\ Creditable(s)

ReconcileMissing(s) ==
  /\ Missing(s) /\ Free(Key(s))
  /\ RoundHalfEven(Reward[s]) > 0
  /\ credit' = [credit EXCEPT ![s] = [status |-> "pending", dist |-> FALSE,
                                      amount |-> RoundHalfEven(Reward[s]),
                                      boosted |-> FALSE]]
  /\ UNCHANGED <<boost, cash, cab, receipt, again, world, pc, job, writes>>
-----------------------------------------------------------------------------
Subscription(u) ==
  /\ subscriber' = IF u \in subscriber THEN subscriber \ {u} ELSE subscriber \cup {u}
  /\ UNCHANGED <<tables, lines, age, crashes, pc, job, writes>>

Age(s) ==
  /\ Exists(s) /\ age[s] < 2 /\ SumFunction(age) < MaxAge
  /\ age' = [age EXCEPT ![s] = @ + 1]
  /\ UNCHANGED <<tables, lines, subscriber, crashes, pc, job, writes>>

Crash(p) ==
  /\ pc[p] # "idle" /\ crashes < MaxCrashes
  /\ crashes' = crashes + 1
  /\ Rollback(p)
  /\ UNCHANGED <<lines, subscriber, age>>

\* The lock p's next statement waits for, and PostgreSQL's deadlock detector.
Wants(p) ==
  CASE pc[p] \in {"insert", "boost", "resolve"}    -> {Key(job[p].line)}
    [] pc[p] \in {"advance", "pay"}                -> {CashRow(UserOf(job[p].line))}
    [] pc[p] \in {"boostDebit", "boostRefund"}     -> {CabRow(UserOf(job[p].line))}
    [] OTHER                                       -> {}
WaitsFor(p, q) == p # q /\ Wants(p) \cap held[q] # {}

DeadlockVictim(p) ==
  /\ \E q \in Workers : WaitsFor(p, q) /\ WaitsFor(q, p)
  /\ Rollback(p)
  /\ UNCHANGED world
-----------------------------------------------------------------------------
Init ==
  /\ credit = [s \in Lines |-> NoCredit]
  /\ boost = [s \in Lines |-> "none"]
  /\ cash = [u \in Users |-> 0]
  /\ cab = [u \in Users |-> InitCab]
  /\ receipt = [r \in Receipts |-> "none"]
  /\ scan = [s \in Lines |-> "none"]
  /\ offer = Lines
  /\ subscriber \in SUBSET Users
  /\ age = [s \in Lines |-> 0]
  /\ pc = [p \in Workers |-> "idle"]
  /\ job = [p \in Workers |-> NoJob]
  /\ held = [p \in Workers |-> {}]
  /\ new = [p \in Workers |-> <<>>]
  /\ newBoost = [p \in Workers |-> <<>>]
  /\ inc = [p \in Workers |-> NoInc]
  /\ crashes = 0 /\ resolved = 0 /\ revisions = 0
  /\ twicePaid = [s \in Lines |-> 0] /\ twiceRefunded = [s \in Lines |-> 0]

Request(p) ==
  \/ \E r \in Receipts : ScanDetected(p, r)
  \/ ProcessRetroactive(p)
  \/ \E s \in Lines : BoostRead(p, s)
  \/ \E s \in Lines, resolution \in {"confirmed", "refused"} :
       ResolveRead(p, s, resolution)

Step(p) ==
  \/ DetectUser(p) \/ \E s \in Lines : DetectCheck(p, s)
  \/ DetectInsert(p) \/ DetectAdvance(p) \/ DetectDone(p)
  \/ BoostMark(p) \/ BoostDebit(p) \/ CreditBalance(p)
  \/ ResolveMark(p) \/ BoostRefund(p) \/ Commit(p)
  \/ DeadlockVictim(p)

Next ==
  \/ \E r \in Receipts : ReceiptRead(r)
  \/ \E s \in Lines : BarcodeResolved(s) \/ LineRevised(s) \/ OfferChanged(s)
  \/ \E p \in Workers : Request(p) \/ Step(p) \/ Crash(p)
  \/ \E s \in Lines : ReconcileExpired(s) \/ ReconcileMissing(s) \/ Age(s)
  \/ \E u \in Users : Subscription(u)

Spec == Init /\ [][Next]_vars

\* Running transactions advance, the batch runs every day and time passes.
FairSpec ==
  /\ Spec
  /\ \A p \in Workers : WF_vars(Step(p))
  /\ \A s \in Lines : /\ SF_vars(ReconcileExpired(s)) /\ SF_vars(ReconcileMissing(s))
                      /\ WF_vars(Age(s))
-----------------------------------------------------------------------------
(***************************************************************************)
(* Properties.                                                             *)
(***************************************************************************)
\* What a CREDIT row, with the status of its BOOST row, is worth to its user:
\* the CREDIT if distributed, and the BOOST.
Worth(row, b) ==
  (IF row.dist THEN row.amount ELSE 0) + (IF b # "none" THEN row.amount ELSE 0)

\* The CAB that its BOOST has cost, less what a refund gave back.
Price(row, b) ==
  LET cost == BoostCost(row.amount) IN
  (IF b # "none" THEN cost ELSE 0) - (IF b = "refused" THEN Awarded(cost) ELSE 0)

Due(u) ==
  [s \in Lines |-> IF UserOf(s) = u THEN Worth(credit[s], boost[s]) + twicePaid[s] ELSE 0]
Spent(u) ==
  [s \in Lines |-> IF UserOf(s) = u THEN Price(credit[s], boost[s]) - twiceRefunded[s] ELSE 0]

\* check_cashback_balance_integrity as an invariant: the stored balance is the
\* sum of the distributed CREDIT rows and of the BOOST rows, plus only what two
\* confirmations that read the same pending CREDIT paid twice.  No other race of
\* detection, batch, boosts and resolutions pays a line twice or loses one.
BalanceIntegrity == \A u \in Users : cash[u] = SumFunction(Due(u))

\* Every boost is paid for once and every refused boost given back, through
\* award_cab: a user's CAB is what he had, less the cost of his boosts, plus what
\* the refunds of the refused ones add (more than the cost when Bonus > 0) - once
\* each, but for two refusals that read the same pending CREDIT - and is never
\* overdrawn.
CabIntegrity ==
  \A u \in Users : cab[u] >= 0 /\ cab[u] = InitCab - SumFunction(Spent(u))

\* boost_applied and the BOOST row appear together, and a boost is only taken
\* back from a CREDIT that has been resolved.
BoostMatchesCredit ==
  \A s \in Lines : /\ credit[s].boosted <=> boost[s] # "none"
                   /\ boost[s] = "refused" => credit[s].status \in {"confirmed", "refused"}

\* A confirmed CREDIT has been paid to its user, by the advance or on confirming,
\* whichever of two concurrent resolutions commits last.
ConfirmedIsPaid == \A s \in Lines : credit[s].status = "confirmed" => credit[s].dist

\* A line's CREDIT is written once: its amount never changes and money once
\* distributed is never taken back (a refusal after an advance is Ratis's loss).
CreditIsWrittenOnce ==
  [][\A s \in Lines :
       Exists(s) => /\ credit'[s].amount = credit[s].amount
                    /\ credit[s].dist => credit'[s].dist]_vars

\* An accepted line with an open offer whose reward rounds to a cent gets its
\* CREDIT, even when scan-detected is lost or aborted and at an unconfirmed store,
\* and that CREDIT is resolved (what no partner resolves expires), unless the line
\* or the offer is withdrawn first.  Nothing of the kind holds of a line that stays
\* `matched': only scan-detected ever sees it.
LineSettles ==
  \A s \in Lines :
    RoundHalfEven(Reward[s]) > 0 =>
      ((scan[s] = "accepted" /\ s \in offer)
         ~> ((Exists(s) /\ ~Pending(s)) \/ scan[s] # "accepted" \/ s \notin offer))
=============================================================================
