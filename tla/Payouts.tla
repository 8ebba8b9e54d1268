------------------------------ MODULE Payouts ------------------------------
(***************************************************************************)
(* What the withdrawal service promises, without threads, locks, requests  *)
(* or lost answers: a debt is opened by taking its amount from the         *)
(* balance, and it is settled once, by a transfer, by giving the amount    *)
(* back, or by keeping it.  Withdrawals implements this specification.     *)
(*                                                                         *)
(* A transfer may leave at any time after the debt was opened, also after  *)
(* it was refused: the service does not promise to recall one.             *)
(***************************************************************************)
EXTENDS Integers

CONSTANTS Ids, Users, Amounts, InitBalance, NULL

VARIABLES
  debt,         \* id -> whose, how much and how it stands
  balance,      \* user -> cents he may still ask for
  transferred   \* id -> the bank transfer exists

vars == <<debt, balance, transferred>>

NoDebt == [user |-> NULL, amount |-> 0, state |-> "none"]

Opened(i) == debt[i].state # "none"
Owed(i) == debt[i].state = "owed"
Becomes(i, s) == debt' = [debt EXCEPT ![i].state = s]

Open(i, u, a) ==
  /\ ~Opened(i) /\ balance[u] >= a
  /\ debt' = [debt EXCEPT ![i] = [user |-> u, amount |-> a, state |-> "owed"]]
  /\ balance' = [balance EXCEPT ![u] = @ - a]
  /\ UNCHANGED transferred

Transfer(i) ==
  /\ Opened(i)
  /\ transferred' = [transferred EXCEPT ![i] = TRUE]
  /\ UNCHANGED <<debt, balance>>

\* A debt is paid only with its transfer made, earlier or in the same step.
Pay(i) ==
  /\ Owed(i) /\ Becomes(i, "paid")
  /\ transferred' = [transferred EXCEPT ![i] = TRUE]
  /\ UNCHANGED balance

GiveBack(i) ==
  /\ Owed(i) /\ Becomes(i, "returned")
  /\ balance' = [balance EXCEPT ![debt[i].user] = @ + debt[i].amount]
  /\ UNCHANGED transferred

Keep(i) ==
  /\ Owed(i) /\ Becomes(i, "kept")
  /\ UNCHANGED <<balance, transferred>>

Init ==
  /\ debt = [i \in Ids |-> NoDebt]
  /\ balance = [u \in Users |-> InitBalance]
  /\ transferred = [i \in Ids |-> FALSE]

Next ==
  \E i \in Ids :
    \/ \E u \in Users, a \in Amounts : Open(i, u, a)
    \/ Transfer(i) \/ Pay(i) \/ GiveBack(i) \/ Keep(i)

Spec == Init /\ [][Next]_vars
=============================================================================
