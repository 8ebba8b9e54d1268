---------------------------- MODULE Withdrawals ----------------------------
(***************************************************************************)
(* Cashback withdrawals of ratis_rewards: a user's request debits his      *)
(* cashback balance and commits, then the payout is sent to Stripe outside *)
(* any transaction; an administrator may validate (pay again, under the    *)
(* row lock) or refuse (with or without giving the money back); the        *)
(* reconciliation job only reports what is stuck.                          *)
(*                                                                         *)
(* A transaction that makes no HTTP call is one step: its row locks make   *)
(* it atomic for everything another process reads.  The one transaction    *)
(* that spans an HTTP call, admin_validate, is two steps and holds the     *)
(* withdrawal's row lock (SELECT ... FOR UPDATE) between them.             *)
(***************************************************************************)
EXTENDS Integers, FiniteSets, Functions

CONSTANTS
  Users,
  WithdrawalIds,   \* ids cashback_withdrawals rows may get (bounds the table)
  Workers,         \* request threads, of users and of administrators
  Amounts,         \* amounts a user may ask for, in cents
  MinWithdrawal,   \* rewards.cashback_min_withdrawal
  InitCash,        \* every user's cashback balance at the start
  NULL

ASSUME WithdrawalsAssumption ==
  /\ IsFiniteSet(WithdrawalIds) /\ NULL \notin WithdrawalIds
  /\ Amounts \subseteq Nat \ {0} /\ MinWithdrawal \in Nat /\ InitCash \in Nat

VARIABLES
  wd,        \* cashback_withdrawals: id -> committed row
  cash,      \* user_cashback_balance.balance
  sent,      \* Stripe: id -> a payout exists under this Idempotency-Key
  returned,  \* history: id -> the amount went back to the balance
  old,       \* id -> requested more than 24 hours ago
  pc, cur    \* per thread: control, withdrawal at hand

vars == <<wd, cash, sent, returned, old, pc, cur>>

NoRow == [user |-> NULL, amount |-> 0, status |-> "none", ref |-> FALSE]

Exists(w) == wd[w].status # "none"
Goto(p, l, w) == pc' = [pc EXCEPT ![p] = l] /\ cur' = [cur EXCEPT ![p] = w]
Finish(p) == Goto(p, "idle", NULL)

\* No administrator's transaction holds the row of w.
RowFree(w) == \A p \in Workers : pc[p] = "validate" => cur[p] # w
-----------------------------------------------------------------------------
\* The guard of debit_cashback_balance.  Mutant: no guard on the UPDATE.
Overdraft(u, a) == TRUE
CanDebit(u, a) == cash[u] >= a

\* Mutant: the payout is sent before the debit is committed.
PaysFirst(p, u, a) ==
  /\ pc[p] = "idle"
  /\ a >= MinWithdrawal /\ CanDebit(u, a)
  /\ \E w \in WithdrawalIds :
       /\ ~Exists(w)
       /\ wd' = [wd EXCEPT ![w] = [user |-> u, amount |-> a,
                                   status |-> "pending", ref |-> FALSE]]
       /\ sent' = [sent EXCEPT ![w] = TRUE]
       /\ Goto(p, "pay", w)
  /\ cash' = [cash EXCEPT ![u] = @ - a]
  /\ UNCHANGED <<returned, old>>

\* POST /withdraw, steps 1-3: debit, WITHDRAWAL ledger row, operational row,
\* committed together.
Withdraw(p, u, a) ==
  /\ pc[p] = "idle"
  /\ a >= MinWithdrawal /\ CanDebit(u, a)
  /\ \E w \in WithdrawalIds :
       /\ ~Exists(w)
       /\ wd' = [wd EXCEPT ![w] = [user |-> u, amount |-> a,
                                   status |-> "pending", ref |-> FALSE]]
       /\ Goto(p, "pay", w)
  /\ cash' = [cash EXCEPT ![u] = @ - a]
  /\ UNCHANGED <<sent, returned, old>>

\* initiate_payout: the call succeeds, or Stripe creates the payout and the
\* answer is lost, or the payout is never created (the last two raise
\* PayoutError).  The Idempotency-Key makes a second call return the first payout.
Outcomes == {"answered", "lost", "unsent"}
Payout(w, o) == sent' = [sent EXCEPT ![w] = @ \/ o # "unsent"]

\* Whether the caller goes on.  Mutant: PayoutError is swallowed.
ErrorSwallowed(o) == TRUE
Succeeded(o) == o = "answered"

\* POST /withdraw, step 4: after a PayoutError the row stays pending.
Pay(p) ==
  /\ pc[p] = "pay"
  /\ \E o \in Outcomes :
       /\ Payout(cur[p], o)
       /\ IF Succeeded(o) THEN Goto(p, "setRef", cur[p]) ELSE Finish(p)
  /\ UNCHANGED <<wd, cash, returned, old>>

\* POST /withdraw, steps 5-6: no guard on the status, which stays as it is.
SetRef(p) ==
  /\ pc[p] = "setRef" /\ RowFree(cur[p])
  /\ wd' = [wd EXCEPT ![cur[p]].ref = TRUE]
  /\ Finish(p)
  /\ UNCHANGED <<cash, sent, returned, old>>

\* The UPDATE fails: logged, the payout is sent but its reference is not stored.
SetRefFails(p) ==
  /\ pc[p] = "setRef"
  /\ Finish(p)
  /\ UNCHANGED <<wd, cash, sent, returned, old>>
-----------------------------------------------------------------------------
\* The check made under the row lock by both administrator actions.  Mutant:
\* a row that was resolved meanwhile is resolved again.
Unchecked(w) == Exists(w)
Open(w) == wd[w].status = "pending"

\* admin_validate_withdrawal: lock and check, ...
Validate(p, w) ==
  /\ pc[p] = "idle" /\ RowFree(w) /\ Open(w)
  /\ Goto(p, "validate", w)
  /\ UNCHANGED <<wd, cash, sent, returned, old>>

\* ... pay, mark processed and commit; a PayoutError rolls back.
ValidatePay(p) ==
  LET w == cur[p] IN
  /\ pc[p] = "validate"
  /\ \E o \in Outcomes :
       /\ Payout(w, o)
       /\ wd' = IF Succeeded(o)
                  THEN [wd EXCEPT ![w].status = "processed", ![w].ref = TRUE]
                  ELSE wd
  /\ Finish(p)
  /\ UNCHANGED <<cash, returned, old>>

\* admin_refuse_withdrawal; the money goes back unless the administrator says no.
Refuse(w, refund_balance) ==
  /\ RowFree(w) /\ Open(w)
  /\ wd' = [wd EXCEPT ![w].status = "failed"]
  /\ cash' = IF refund_balance THEN [cash EXCEPT ![wd[w].user] = @ + wd[w].amount]
                               ELSE cash
  /\ returned' = [returned EXCEPT ![w] = @ \/ refund_balance]
  /\ UNCHANGED <<sent, old, pc, cur>>

\* reconcile_pending_withdrawals logs them, whether or not they have a reference,
\* and changes nothing.
StuckWithdrawals == {w \in WithdrawalIds : Open(w) /\ old[w]}

ReportStuck == StuckWithdrawals # {} /\ UNCHANGED vars

Crash(p) == pc[p] # "idle" /\ Finish(p) /\ UNCHANGED <<wd, cash, sent, returned, old>>

Age(w) ==
  /\ Exists(w) /\ ~old[w]
  /\ old' = [old EXCEPT ![w] = TRUE]
  /\ UNCHANGED <<wd, cash, sent, returned, pc, cur>>
-----------------------------------------------------------------------------
Init ==
  /\ wd = [w \in WithdrawalIds |-> NoRow]
  /\ cash = [u \in Users |-> InitCash]
  /\ sent = [w \in WithdrawalIds |-> FALSE]
  /\ returned = [w \in WithdrawalIds |-> FALSE]
  /\ old = [w \in WithdrawalIds |-> FALSE]
  /\ pc = [p \in Workers |-> "idle"]
  /\ cur = [p \in Workers |-> NULL]

Step(p) == Pay(p) \/ SetRef(p) \/ SetRefFails(p) \/ ValidatePay(p)

Next ==
  \/ \E p \in Workers, u \in Users, a \in Amounts : Withdraw(p, u, a)
  \/ \E p \in Workers : Step(p) \/ Crash(p)
  \/ \E p \in Workers, w \in WithdrawalIds : Validate(p, w)
  \/ \E w \in WithdrawalIds : Age(w) \/ \E b \in BOOLEAN : Refuse(w, b)
  \/ ReportStuck

Spec == Init /\ [][Next]_vars
-----------------------------------------------------------------------------
Row == [user : Users, amount : Nat \ {0}, ref : BOOLEAN,
        status : {"pending", "processed", "failed"}]

\* Every variable keeps its type; no balance is ever overdrawn (balance >= 0).
TypeOK ==
  /\ wd \in [WithdrawalIds -> Row \cup {NoRow}]
  /\ cash \in [Users -> Nat]
  /\ sent \in [WithdrawalIds -> BOOLEAN] /\ returned \in [WithdrawalIds -> BOOLEAN]
  /\ old \in [WithdrawalIds -> BOOLEAN]
  /\ pc \in [Workers -> {"idle", "pay", "setRef", "validate"}]
  /\ cur \in [Workers -> WithdrawalIds \cup {NULL}]

\* What each withdrawal has taken from u's balance.
Taken(u) ==
  [w \in WithdrawalIds |-> IF wd[w].user = u /\ ~returned[w] THEN wd[w].amount ELSE 0]

\* The balance is the initial one less every withdrawal whose amount was not
\* given back: concurrent requests and refusals neither lose nor create cents.
CashConservation == \A u \in Users : cash[u] = InitCash - SumFunction(Taken(u))

\* A stored reference belongs to a payout at Stripe and a processed row has one,
\* whoever stored it and whatever was lost or crashed in between (withdraw,
\* admin_validate_withdrawal).
ProcessedIsPaid ==
  \A w \in WithdrawalIds : /\ wd[w].status = "processed" => wd[w].ref
                           /\ wd[w].ref => sent[w]

\* A resolved withdrawal is never resolved again: two administrators, or one and
\* a late request thread, cannot flip processed and failed.
ResolutionIsFinal ==
  [][\A w \in WithdrawalIds :
       wd[w].status \in {"processed", "failed"}
         => wd'[w].status = wd[w].status /\ returned'[w] = returned[w]]_vars

\* How a row stands for the user: resolved with or without his money.
DebtState(w) ==
  CASE wd[w].status = "none"      -> "none"
    [] wd[w].status = "pending"   -> "owed"
    [] wd[w].status = "processed" -> "paid"
    [] wd[w].status = "failed"    -> IF returned[w] THEN "returned" ELSE "kept"

DebtOf(w) == [user |-> wd[w].user, amount |-> wd[w].amount, state |-> DebtState(w)]
Debts == [w \in WithdrawalIds |-> DebtOf(w)]

Abstract == INSTANCE Payouts WITH
  Ids <- WithdrawalIds, InitBalance <- InitCash,
  debt <- Debts, balance <- cash, transferred <- sent

\* The requests, retries, row locks, lost answers and crashes of withdraw,
\* admin_validate_withdrawal and admin_refuse_withdrawal implement Payouts: the
\* amount leaves the balance before any transfer, with the row that records it,
\* and each debt is settled once.
ImplementsPayouts == Abstract!Spec
=============================================================================
