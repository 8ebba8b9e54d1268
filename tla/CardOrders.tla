----------------------------- MODULE CardOrders -----------------------------
(***************************************************************************)
(* What the gift-card service promises, without transactions, locks, tasks,*)
(* retries, batches or crashes: a boutique order is one purchase within    *)
(* the buyer's balance and the caps of its day and week; every order is    *)
(* settled once, as issued when its card has been delivered, or as failed, *)
(* with the price of a bought one given back in the same step; only earned *)
(* orders are churned.  GiftCards implements this specification.           *)
(*                                                                         *)
(* The provider may deliver a card at any time after the order exists, also*)
(* after it failed: the service does not promise to recall one.            *)
(***************************************************************************)
EXTENDS Integers, Functions

CONSTANTS Ids, Users, Denoms, EarnedDenom, Ratio, InitBalance,
          CapDaily, CapWeekly, DaysPerWeek, Days, NULL

VARIABLES
  card,        \* id -> whose, bought or earned, value, day, and how it stands
  balance,     \* user -> CAB
  delivered    \* id -> the provider has made the card

vars == <<card, balance, delivered>>

NoCard == [user |-> NULL, bought |-> FALSE, value |-> 0, day |-> 0, state |-> "none"]

Ordered(i) == card[i].state # "none"
Open(i) == card[i].state = "pending"
Becomes(i, s) == card' = [card EXCEPT ![i].state = s]
New(i, u, b, v, d) ==
  card' = [card EXCEPT ![i] = [user |-> u, bought |-> b, value |-> v, day |-> d,
                               state |-> "pending"]]

Price(v) == (v \div 100) * Ratio
FirstOfWeek(d) == (d \div DaysPerWeek) * DaysPerWeek

\* What u has bought since the day d and not got back.
Spent(u, d) ==
  SumFunction([i \in Ids |->
    IF /\ card[i].user = u /\ card[i].bought /\ card[i].day >= d
       /\ card[i].state # "failed"
      THEN card[i].value ELSE 0])

Buy(i, u, v, d) ==
  /\ ~Ordered(i) /\ balance[u] >= Price(v)
  /\ Spent(u, d) + v <= CapDaily
  /\ Spent(u, FirstOfWeek(d)) + v <= CapWeekly
  /\ New(i, u, TRUE, v, d)
  /\ balance' = [balance EXCEPT ![u] = @ - Price(v)]
  /\ UNCHANGED delivered

Earn(i, u, d) ==
  /\ ~Ordered(i) /\ New(i, u, FALSE, EarnedDenom, d)
  /\ UNCHANGED <<balance, delivered>>

Deliver(i) ==
  /\ Ordered(i)
  /\ delivered' = [delivered EXCEPT ![i] = TRUE]
  /\ UNCHANGED <<card, balance>>

Issue(i) ==
  /\ Open(i) /\ delivered[i] /\ Becomes(i, "issued")
  /\ UNCHANGED <<balance, delivered>>

Fail(i) ==
  /\ Open(i) /\ Becomes(i, "failed")
  /\ balance' = IF card[i].bought
                  THEN [balance EXCEPT ![card[i].user] = @ + Price(card[i].value)]
                  ELSE balance
  /\ UNCHANGED delivered

\* The payout job closes a whole batch of earned orders in one transaction.
Churn(S) ==
  /\ \A i \in S : Open(i) /\ ~card[i].bought
  /\ card' = [i \in Ids |-> IF i \in S THEN [card[i] EXCEPT !.state = "churned"] ELSE card[i]]
  /\ UNCHANGED <<balance, delivered>>

Init ==
  /\ card = [i \in Ids |-> NoCard]
  /\ balance = [u \in Users |-> InitBalance]
  /\ delivered = [i \in Ids |-> FALSE]

Next ==
  \/ \E S \in SUBSET Ids : Churn(S)
  \/ \E i \in Ids :
       \/ \E u \in Users, d \in Days : Earn(i, u, d) \/ \E v \in Denoms : Buy(i, u, v, d)
       \/ Deliver(i) \/ Issue(i) \/ Fail(i)

Spec == Init /\ [][Next]_vars
=============================================================================
