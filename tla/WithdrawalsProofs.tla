------------------------- MODULE WithdrawalsProofs -------------------------
(***************************************************************************)
(* Proofs about Withdrawals, for every set of users, withdrawals, threads  *)
(* and amounts.                                                            *)
(***************************************************************************)
EXTENDS Withdrawals, FiniteSums, TLAPS

\* A busy thread has a row at hand; one that is about to store a reference has
\* paid it.
HasRow ==
  \A p \in Workers :
    /\ pc[p] # "idle" => cur[p] \in WithdrawalIds
    /\ pc[p] # "idle" => wd[cur[p]] \in Row
    /\ pc[p] = "setRef" => sent[cur[p]]

\* The row lock of admin_validate_withdrawal: one holder, and the row is pending
\* as long as it is held.
LockInv ==
  /\ \A p \in Workers : pc[p] = "validate" => Open(cur[p])
  /\ \A p, q \in Workers :
       p # q /\ pc[p] = "validate" /\ pc[q] = "validate" => cur[p] # cur[q]

IInv == TypeOK /\ HasRow /\ LockInv /\ ProcessedIsPaid

LEMMA InitIInv == Init => IInv
  BY WithdrawalsAssumption DEF Init, IInv, TypeOK, HasRow, LockInv, ProcessedIsPaid, NoRow

\* One step preserves the inductive invariant and changes no resolved row.
LEMMA StepIInv ==
  ASSUME IInv, [Next]_vars
  PROVE  /\ IInv'
         /\ \A w \in WithdrawalIds :
              wd[w].status \in {"processed", "failed"}
                => wd'[w].status = wd[w].status /\ returned'[w] = returned[w]
<1> DEFINE Final == \A w \in WithdrawalIds :
                      wd[w].status \in {"processed", "failed"}
                        => wd'[w].status = wd[w].status /\ returned'[w] = returned[w]
<1> USE WithdrawalsAssumption
<1>1. ASSUME NEW p \in Workers, NEW u \in Users, NEW a \in Amounts, Withdraw(p, u, a)
      PROVE  IInv' /\ Final
  <2>1. PICK w \in WithdrawalIds :
          /\ ~Exists(w)
          /\ wd' = [wd EXCEPT ![w] = [user |-> u, amount |-> a,
                                      status |-> "pending", ref |-> FALSE]]
          /\ Goto(p, "pay", w)
    BY <1>1 DEF Withdraw
  <2>2. wd[w] = NoRow
    BY <2>1 DEF IInv, TypeOK, Exists, Row
  <2>3. TypeOK'
    BY <1>1, <2>1 DEF IInv, TypeOK, Withdraw, Goto, Row, CanDebit
  <2>4. HasRow'
    BY <1>1, <2>1, <2>2 DEF IInv, TypeOK, HasRow, Withdraw, Goto, Row
  <2>5. LockInv'
    BY <1>1, <2>1, <2>2 DEF IInv, TypeOK, HasRow, LockInv, Open, Withdraw, Goto, Row, NoRow
  <2>6. ProcessedIsPaid' /\ Final
    BY <1>1, <2>1, <2>2 DEF IInv, TypeOK, ProcessedIsPaid, Withdraw, Row, NoRow
  <2> QED BY <2>3, <2>4, <2>5, <2>6 DEF IInv
<1>2. ASSUME NEW p \in Workers, Pay(p)
      PROVE  IInv' /\ Final
  <2>1. PICK o \in Outcomes :
          /\ sent' = [sent EXCEPT ![cur[p]] = @ \/ o # "unsent"]
          /\ \/ o = "answered" /\ Goto(p, "setRef", cur[p])
             \/ Finish(p)
    BY <1>2 DEF Pay, Payout, Succeeded
  <2>2. TypeOK'
    BY <1>2, <2>1 DEF IInv, TypeOK, HasRow, Pay, Goto, Finish
  <2>3. HasRow'
    <3> SUFFICES ASSUME NEW q \in Workers, pc'[q] # "idle"
                 PROVE  /\ cur'[q] \in WithdrawalIds /\ wd'[cur'[q]] \in Row
                        /\ pc'[q] = "setRef" => sent'[cur'[q]]
      BY DEF HasRow
    <3>1. cur'[q] = cur[q] /\ pc[q] # "idle" /\ cur[q] \in WithdrawalIds
          /\ wd[cur[q]] \in Row /\ wd' = wd
      BY <1>2, <2>1 DEF IInv, TypeOK, HasRow, Pay, Goto, Finish
    <3>2. ASSUME pc'[q] = "setRef" PROVE sent'[cur[q]]
      <4>1. q = p => o = "answered"
        BY <1>2, <2>1, <3>2 DEF IInv, TypeOK, Pay, Goto, Finish
      <4>2. q # p => sent[cur[q]]
        BY <1>2, <2>1, <3>2 DEF IInv, TypeOK, HasRow, Goto, Finish
      <4> QED BY <2>1, <3>1, <4>1, <4>2 DEF IInv, TypeOK
    <3> QED BY <3>1, <3>2
  <2>4. LockInv'
    BY <1>2, <2>1 DEF IInv, TypeOK, HasRow, LockInv, Open, Pay, Goto, Finish
  <2>5. ProcessedIsPaid' /\ Final
    BY <1>2, <2>1 DEF IInv, TypeOK, HasRow, ProcessedIsPaid, Pay
  <2> QED BY <2>2, <2>3, <2>4, <2>5 DEF IInv
<1>3. ASSUME NEW p \in Workers, SetRef(p)
      PROVE  IInv' /\ Final
  <2>0. cur[p] \in WithdrawalIds /\ wd[cur[p]] \in Row /\ sent[cur[p]]
    BY <1>3 DEF IInv, HasRow, SetRef
  <2>1. TypeOK'
    BY <1>3, <2>0 DEF IInv, TypeOK, SetRef, Goto, Finish, Row
  <2>2. HasRow'
    <3>1. \A w \in WithdrawalIds : wd[w] \in Row => wd'[w] \in Row
      BY <1>3, <2>0 DEF IInv, TypeOK, SetRef, Row
    <3> QED BY <1>3, <3>1 DEF IInv, TypeOK, HasRow, SetRef, Goto, Finish
  <2>3. LockInv'
    BY <1>3, <2>0 DEF IInv, TypeOK, HasRow, LockInv, Open, SetRef, Goto, Finish, Row
  <2>4. ProcessedIsPaid' /\ Final
    BY <1>3, <2>0 DEF IInv, TypeOK, ProcessedIsPaid, SetRef, Row
  <2> QED BY <2>1, <2>2, <2>3, <2>4 DEF IInv
<1>4. ASSUME NEW p \in Workers, SetRefFails(p) \/ Crash(p)
      PROVE  IInv' /\ Final
  BY <1>4 DEF IInv, TypeOK, HasRow, LockInv, ProcessedIsPaid, Open, SetRefFails, Crash,
              Goto, Finish
<1>5. ASSUME NEW p \in Workers, ValidatePay(p)
      PROVE  IInv' /\ Final
  <2>0. cur[p] \in WithdrawalIds /\ wd[cur[p]] \in Row /\ Open(cur[p])
    BY <1>5 DEF IInv, HasRow, LockInv, ValidatePay
  <2>1. PICK o \in Outcomes :
          /\ sent' = [sent EXCEPT ![cur[p]] = @ \/ o # "unsent"]
          /\ \/ /\ o = "answered"
                /\ wd' = [wd EXCEPT ![cur[p]].status = "processed", ![cur[p]].ref = TRUE]
             \/ wd' = wd
    BY <1>5 DEF ValidatePay, Payout, Succeeded
  <2>2. TypeOK'
    BY <1>5, <2>0, <2>1 DEF IInv, TypeOK, ValidatePay, Goto, Finish, Row
  <2>3. HasRow'
    BY <1>5, <2>0, <2>1 DEF IInv, TypeOK, HasRow, ValidatePay, Goto, Finish, Row
  <2>4. LockInv'
    BY <1>5, <2>0, <2>1 DEF IInv, TypeOK, HasRow, LockInv, Open, ValidatePay, Goto, Finish, Row
  <2>5. ProcessedIsPaid'
    BY <1>5, <2>0, <2>1 DEF IInv, TypeOK, ProcessedIsPaid, ValidatePay, Row
  <2>6. Final
    BY <1>5, <2>0, <2>1 DEF IInv, TypeOK, Open, ValidatePay
  <2> QED BY <2>2, <2>3, <2>4, <2>5, <2>6 DEF IInv
<1>6. ASSUME NEW p \in Workers, NEW w \in WithdrawalIds, Validate(p, w)
      PROVE  IInv' /\ Final
  <2>1. wd[w] \in Row
    BY <1>6 DEF IInv, TypeOK, Validate, Open, NoRow
  <2>2. TypeOK' /\ HasRow'
    BY <1>6, <2>1 DEF IInv, TypeOK, HasRow, Validate, Goto
  <2>3. LockInv'
    BY <1>6 DEF IInv, TypeOK, LockInv, Open, RowFree, Validate, Goto
  <2>4. ProcessedIsPaid' /\ Final
    BY <1>6 DEF IInv, ProcessedIsPaid, Validate
  <2> QED BY <2>2, <2>3, <2>4 DEF IInv
<1>7. ASSUME NEW w \in WithdrawalIds, NEW b \in BOOLEAN, Refuse(w, b)
      PROVE  IInv' /\ Final
  <2>1. wd[w] \in Row
    BY <1>7 DEF IInv, TypeOK, Refuse, Open, NoRow
  <2>2. TypeOK'
    BY <1>7, <2>1 DEF IInv, TypeOK, Refuse, Row
  <2>3. HasRow'
    BY <1>7, <2>1 DEF IInv, TypeOK, HasRow, Refuse, Row
  <2>4. LockInv'
    BY <1>7, <2>1 DEF IInv, TypeOK, HasRow, LockInv, Open, RowFree, Refuse
  <2>5. ProcessedIsPaid' /\ Final
    BY <1>7, <2>1 DEF IInv, TypeOK, ProcessedIsPaid, Open, Refuse, Row
  <2> QED BY <2>2, <2>3, <2>4, <2>5 DEF IInv
<1>8. ASSUME NEW w \in WithdrawalIds, Age(w)
      PROVE  IInv' /\ Final
  BY <1>8 DEF IInv, TypeOK, HasRow, LockInv, ProcessedIsPaid, Open, Age
<1>9. ASSUME UNCHANGED vars
      PROVE  IInv' /\ Final
  BY <1>9 DEF vars, IInv, TypeOK, HasRow, LockInv, ProcessedIsPaid, Open
<1> QED
  BY <1>1, <1>2, <1>3, <1>4, <1>5, <1>6, <1>7, <1>8, <1>9 DEF Next, Step, ReportStuck

LEMMA Inductive == Spec => []IInv
<1>1. Init => IInv
  BY InitIInv
<1>2. IInv /\ [Next]_vars => IInv'
  BY StepIInv
<1> QED BY <1>1, <1>2, PTL DEF Spec

\* withdraw, admin_validate and admin_refuse keep every row well formed and never
\* overdraw a balance, for any number of threads.
THEOREM TypeCorrect == Spec => []TypeOK
<1>1. IInv => TypeOK
  BY DEF IInv
<1> QED BY <1>1, Inductive, PTL

\* No reference is stored, and no row marked processed, without a payout at
\* Stripe, for any number of threads and lost answers.
THEOREM ProcessedIsPaidHolds == Spec => []ProcessedIsPaid
<1>1. IInv => ProcessedIsPaid
  BY DEF IInv
<1> QED BY <1>1, Inductive, PTL

\* The row lock of admin_validate and the check of admin_refuse make every
\* resolution final, also against a request thread that stores its reference late.
THEOREM ResolutionIsFinalHolds == Spec => ResolutionIsFinal
<1>1. IInv /\ [Next]_vars
        => [\A w \in WithdrawalIds :
              wd[w].status \in {"processed", "failed"}
                => wd'[w].status = wd[w].status /\ returned'[w] = returned[w]]_vars
  BY StepIInv
<1> QED BY <1>1, Inductive, PTL DEF Spec, ResolutionIsFinal

-----------------------------------------------------------------------------
\* The mapping, for the rows a step may find.
LEMMA MappedRow ==
  ASSUME TypeOK, NEW w \in WithdrawalIds
  PROVE  /\ Debts[w] = DebtOf(w)
         /\ ~Exists(w) => wd[w] = NoRow /\ Debts[w] = Abstract!NoDebt
         /\ Open(w) => wd[w] \in Row /\ Debts[w].state = "owed"
         /\ wd[w] \in Row => Debts[w].state # "none"
  BY DEF TypeOK, Debts, DebtOf, DebtState, Exists, Open, Row, NoRow, Abstract!NoDebt

\* A step that changes neither row, balance nor payout is a stuttering step.
LEMMA Stutter ==
  ASSUME wd' = wd, returned' = returned, cash' = cash, sent' = sent
  PROVE  UNCHANGED Abstract!vars
  BY DEF Abstract!vars, Debts, DebtOf, DebtState

\* A payout that leaves, or does not, while the rows stay as they are.
LEMMA Leaves ==
  ASSUME TypeOK, NEW w \in WithdrawalIds, wd[w] \in Row, NEW o \in Outcomes,
         Payout(w, o), wd' = wd, returned' = returned, cash' = cash
  PROVE  [Abstract!Next]_(Abstract!vars)
<1>1. Debts' = Debts
  BY DEF Debts, DebtOf, DebtState
<1>2. Abstract!Opened(w)
  BY MappedRow DEF Abstract!Opened
<1>3. CASE o = "unsent"
  <2>1. sent' = sent
    BY <1>3 DEF Payout, TypeOK
  <2> QED BY <2>1, Stutter
<1>4. CASE o # "unsent"
  <2>1. sent' = [sent EXCEPT ![w] = TRUE]
    BY <1>4 DEF Payout, TypeOK
  <2>2. Abstract!Transfer(w)
    BY <1>1, <1>2, <2>1 DEF Abstract!Transfer
  <2> QED BY <2>2 DEF Abstract!Next
<1> QED BY <1>3, <1>4

\* Only a refused withdrawal's amount went back.
BackIsRefused == \A w \in WithdrawalIds : returned[w] => wd[w].status = "failed"

LEMMA StepBackIsRefused ==
  ASSUME IInv, BackIsRefused, [Next]_vars
  PROVE  BackIsRefused'
<1> USE WithdrawalsAssumption
<1>0. TypeOK /\ HasRow /\ LockInv
  BY DEF IInv
<1>1. ASSUME NEW p \in Workers, NEW u \in Users, NEW a \in Amounts, Withdraw(p, u, a)
      PROVE  BackIsRefused'
  BY <1>0, <1>1, Zenon DEF BackIsRefused, TypeOK, Withdraw, Exists
<1>2. ASSUME NEW p \in Workers, SetRef(p)
      PROVE  BackIsRefused'
  BY <1>0, <1>2 DEF BackIsRefused, TypeOK, SetRef, HasRow, Row
<1>3. ASSUME NEW p \in Workers, ValidatePay(p)
      PROVE  BackIsRefused'
  BY <1>0, <1>3 DEF BackIsRefused, TypeOK, ValidatePay, HasRow, LockInv, Open, Row
<1>4. ASSUME NEW w \in WithdrawalIds, NEW b \in BOOLEAN, Refuse(w, b)
      PROVE  BackIsRefused'
  BY <1>0, <1>4, MappedRow DEF BackIsRefused, TypeOK, Refuse, Row
<1>5. ASSUME \/ \E p \in Workers : Pay(p) \/ SetRefFails(p) \/ Crash(p)
             \/ \E p \in Workers, w \in WithdrawalIds : Validate(p, w)
             \/ \E w \in WithdrawalIds : Age(w)
             \/ UNCHANGED vars
      PROVE  BackIsRefused'
  BY <1>5 DEF BackIsRefused, Pay, SetRefFails, Crash, Validate, Age, vars
<1> QED
  BY <1>1, <1>2, <1>3, <1>4, <1>5 DEF Next, Step, ReportStuck

LEMMA BackIsRefusedHolds == Spec => []BackIsRefused
<1>1. Init => BackIsRefused
  BY DEF Init, BackIsRefused
<1>2. IInv /\ BackIsRefused /\ [Next]_vars => BackIsRefused'
  BY StepBackIsRefused
<1> QED BY <1>1, <1>2, Inductive, PTL DEF Spec

\* One step of the code is one step of Payouts, or changes nothing it speaks of.
LEMMA StepRefines ==
  ASSUME IInv, BackIsRefused, [Next]_vars
  PROVE  [Abstract!Next]_(Abstract!vars)
<1> USE WithdrawalsAssumption
<1>0. TypeOK /\ HasRow /\ LockInv
  BY DEF IInv
<1>1. ASSUME NEW p \in Workers, NEW u \in Users, NEW a \in Amounts, Withdraw(p, u, a)
      PROVE  [Abstract!Next]_(Abstract!vars)
  <2>1. PICK w \in WithdrawalIds :
          /\ ~Exists(w)
          /\ wd' = [wd EXCEPT ![w] = [user |-> u, amount |-> a,
                                      status |-> "pending", ref |-> FALSE]]
    BY <1>1 DEF Withdraw
  <2>2. returned' = returned /\ sent' = sent /\ cash[u] >= a
        /\ cash' = [cash EXCEPT ![u] = @ - a]
    BY <1>1 DEF Withdraw, CanDebit
  <2>3. Debts' = [Debts EXCEPT ![w] = [user |-> u, amount |-> a, state |-> "owed"]]
    <3>1. \A v \in WithdrawalIds : v # w => DebtOf(v)' = DebtOf(v)
      BY <1>0, <2>1, <2>2 DEF TypeOK, DebtOf, DebtState
    <3>2. DebtOf(w)' = [user |-> u, amount |-> a, state |-> "owed"]
      BY <1>0, <2>1 DEF TypeOK, DebtOf, DebtState
    <3> QED BY <3>1, <3>2 DEF Debts
  <2>4. ~Abstract!Opened(w)
    BY <1>0, <2>1, MappedRow DEF Abstract!Opened, Abstract!NoDebt
  <2>5. Abstract!Open(w, u, a)
    BY <2>2, <2>3, <2>4 DEF Abstract!Open
  <2> QED BY <2>5 DEF Abstract!Next
<1>2. ASSUME NEW p \in Workers, Pay(p)
      PROVE  [Abstract!Next]_(Abstract!vars)
  <2>1. cur[p] \in WithdrawalIds /\ wd[cur[p]] \in Row
    BY <1>0, <1>2 DEF HasRow, Pay
  <2>2. PICK o \in Outcomes : Payout(cur[p], o)
    BY <1>2 DEF Pay
  <2>3. wd' = wd /\ returned' = returned /\ cash' = cash
    BY <1>2 DEF Pay
  <2> QED BY <1>0, <2>1, <2>2, <2>3, Leaves
<1>3. ASSUME NEW p \in Workers, SetRef(p)
      PROVE  [Abstract!Next]_(Abstract!vars)
  <2>1. cur[p] \in WithdrawalIds
    BY <1>0, <1>3 DEF HasRow, SetRef
  <2>2. \A v \in WithdrawalIds : DebtOf(v)' = DebtOf(v)
    BY <1>0, <1>3, <2>1 DEF TypeOK, SetRef, DebtOf, DebtState, Row, NoRow
  <2>3. UNCHANGED Abstract!vars
    BY <1>3, <2>2 DEF SetRef, Debts, Abstract!vars
  <2> QED BY <2>3
<1>4. ASSUME NEW p \in Workers, ValidatePay(p)
      PROVE  [Abstract!Next]_(Abstract!vars)
  <2>1. PICK w \in WithdrawalIds : w = cur[p] /\ wd[w] \in Row /\ Open(w)
    BY <1>0, <1>4 DEF HasRow, LockInv, ValidatePay
  <2>2. PICK o \in Outcomes :
          /\ Payout(w, o)
          /\ wd' = IF Succeeded(o)
                     THEN [wd EXCEPT ![w].status = "processed", ![w].ref = TRUE]
                     ELSE wd
    BY <1>4, <2>1 DEF ValidatePay
  <2>3. cash' = cash /\ returned' = returned
    BY <1>4 DEF ValidatePay
  <2>4. CASE Succeeded(o)
    <3>1. Debts' = [Debts EXCEPT ![w].state = "paid"]
      <4>1. \A v \in WithdrawalIds : v # w => DebtOf(v)' = DebtOf(v)
        BY <1>0, <2>1, <2>2, <2>3, <2>4 DEF TypeOK, DebtOf, DebtState
      <4>2. DebtOf(w)' = [user |-> wd[w].user, amount |-> wd[w].amount, state |-> "paid"]
        BY <1>0, <2>1, <2>2, <2>4 DEF TypeOK, DebtOf, DebtState, Row
      <4> QED BY <2>1, <4>1, <4>2 DEF Debts, DebtOf
    <3>2. sent' = [sent EXCEPT ![w] = TRUE]
      BY <1>0, <2>1, <2>2, <2>4 DEF Payout, Succeeded, TypeOK
    <3>3. Abstract!Pay(w)
      BY <1>0, <2>1, <2>3, <3>1, <3>2, MappedRow
         DEF Abstract!Pay, Abstract!Owed, Abstract!Becomes
    <3> QED BY <2>1, <3>3 DEF Abstract!Next
  <2>5. CASE ~Succeeded(o)
    BY <1>0, <2>1, <2>2, <2>3, <2>5, Leaves
  <2> QED BY <2>4, <2>5
<1>5. ASSUME NEW w \in WithdrawalIds, NEW b \in BOOLEAN, Refuse(w, b)
      PROVE  [Abstract!Next]_(Abstract!vars)
  <2>1. Open(w) /\ wd[w] \in Row /\ Abstract!Owed(w)
    BY <1>0, <1>5, MappedRow DEF Refuse, Abstract!Owed
  <2>2. sent' = sent /\ wd' = [wd EXCEPT ![w].status = "failed"]
        /\ returned' = [returned EXCEPT ![w] = @ \/ b]
    BY <1>5 DEF Refuse
  <2>3. \A v \in WithdrawalIds : v # w => DebtOf(v)' = DebtOf(v)
    BY <1>0, <2>1, <2>2 DEF TypeOK, DebtOf, DebtState
  <2>4. DebtOf(w)' = [user |-> wd[w].user, amount |-> wd[w].amount,
                      state |-> IF returned'[w] THEN "returned" ELSE "kept"]
    BY <1>0, <2>1, <2>2 DEF TypeOK, DebtOf, DebtState, Row
  <2>5. Debts' = [Debts EXCEPT ![w].state = IF returned'[w] THEN "returned" ELSE "kept"]
    BY <2>3, <2>4 DEF Debts, DebtOf
  <2>6. CASE b
    <3>1. returned'[w]
      BY <1>0, <2>2, <2>6 DEF TypeOK
    <3>2. cash' = [cash EXCEPT ![Debts[w].user] = @ + Debts[w].amount]
      BY <1>5, <2>6 DEF Refuse, Debts, DebtOf
    <3>3. Abstract!GiveBack(w)
      BY <2>1, <2>2, <2>5, <3>1, <3>2 DEF Abstract!GiveBack, Abstract!Becomes
    <3> QED BY <3>3 DEF Abstract!Next
  <2>7. CASE ~b
    <3>1. cash' = cash /\ returned' = returned
      BY <1>0, <1>5, <2>7 DEF Refuse, TypeOK
    <3>2. ~returned[w]
      BY <2>1 DEF BackIsRefused, Open
    <3>3. Abstract!Keep(w)
      BY <2>1, <2>2, <2>5, <3>1, <3>2 DEF Abstract!Keep, Abstract!Becomes
    <3> QED BY <3>3 DEF Abstract!Next
  <2> QED BY <2>6, <2>7
<1>6. ASSUME \/ \E p \in Workers : SetRefFails(p) \/ Crash(p)
             \/ \E p \in Workers, w \in WithdrawalIds : Validate(p, w)
             \/ \E w \in WithdrawalIds : Age(w)
             \/ UNCHANGED vars
      PROVE  [Abstract!Next]_(Abstract!vars)
  <2>1. wd' = wd /\ returned' = returned /\ cash' = cash /\ sent' = sent
    BY <1>6 DEF SetRefFails, Crash, Validate, Age, vars
  <2> QED BY <2>1, Stutter
<1> QED
  BY <1>1, <1>2, <1>3, <1>4, <1>5, <1>6 DEF Next, Step, ReportStuck

LEMMA InitRefines == Init => Abstract!Init
  BY DEF Init, Abstract!Init, Debts, DebtOf, DebtState, NoRow, Abstract!NoDebt

\* withdraw, admin_validate_withdrawal and admin_refuse_withdrawal implement
\* Payouts, for any number of users, threads, lost answers and crashes.
THEOREM Refinement == Spec => ImplementsPayouts
<1>1. Init => Abstract!Init
  BY InitRefines
<1>2. IInv /\ BackIsRefused /\ [Next]_vars => [Abstract!Next]_(Abstract!vars)
  BY StepRefines
<1> QED BY <1>1, <1>2, Inductive, BackIsRefusedHolds, PTL DEF Spec, ImplementsPayouts, Abstract!Spec
-----------------------------------------------------------------------------
\* What a step does to the terms of the sum: nothing, or one row's term changes
\* by what its user's balance gives or gets.
LEMMA TakenInt ==
  ASSUME TypeOK, NEW u \in Users
  PROVE  Taken(u) \in [WithdrawalIds -> Int]
<1>1. \A w \in WithdrawalIds : wd[w].amount \in Int
  BY DEF TypeOK, Row, NoRow
<1> QED BY <1>1 DEF Taken

LEMMA TakenIntNext ==
  ASSUME TypeOK', NEW u \in Users
  PROVE  Taken(u)' \in [WithdrawalIds -> Int]
<1>1. \A w \in WithdrawalIds : wd'[w].amount \in Int
  BY DEF TypeOK, Row, NoRow
<1> QED BY <1>1 DEF Taken

LEMMA OneTermChanges ==
  ASSUME TypeOK, TypeOK', CashConservation, NEW w \in WithdrawalIds, NEW v \in Users,
         \A u \in Users, x \in WithdrawalIds : x # w \/ u # v => Taken(u)'[x] = Taken(u)[x],
         \A u \in Users : u # v => cash'[u] = cash[u],
         cash'[v] = cash[v] + Taken(v)[w] - Taken(v)'[w]
  PROVE  CashConservation'
<1> USE WithdrawalsAssumption
<1> SUFFICES ASSUME NEW u \in Users
             PROVE  cash'[u] = InitCash - SumFunction(Taken(u)')
  BY DEF CashConservation
<1>1. Taken(u) \in [WithdrawalIds -> Int] /\ Taken(u)' \in [WithdrawalIds -> Int]
  BY TakenInt, TakenIntNext
<1> DEFINE f == Taken(u)
           g == Taken(u)'
<1>2. cash[u] = InitCash - SumFunction(f) /\ cash[u] \in Nat
  BY DEF CashConservation, TypeOK
<1>3. \A x \in WithdrawalIds : x # w => g[x] = f[x]
  OBVIOUS
<1>4. cash'[u] = cash[u] + f[w] - g[w]
  <2>1. CASE u = v
    BY <2>1
  <2>2. CASE u # v
    <3>1. g[w] = f[w] /\ cash'[u] = cash[u]
      BY <2>2
    <3>2. f[w] \in Int /\ cash[u] \in Int
      BY <1>1, <1>2
    <3> HIDE DEF f, g
    <3> QED BY <3>1, <3>2
  <2> QED BY <2>1, <2>2
<1> HIDE DEF f, g
<1>5. SumFunction(g) = SumFunction(f) - f[w] + g[w]
  BY <1>1, <1>3, SumChange DEF f, g
<1>6. f[w] \in Int /\ g[w] \in Int /\ SumFunction(f) \in Int
  BY <1>1, SumInt DEF f, g
<1>7. cash'[u] = InitCash - SumFunction(g)
  BY <1>2, <1>4, <1>5, <1>6
<1> QED BY <1>7 DEF g

LEMMA StepCash ==
  ASSUME IInv, IInv', BackIsRefused, CashConservation, [Next]_vars
  PROVE  CashConservation'
<1> USE WithdrawalsAssumption
<1>0. TypeOK /\ TypeOK' /\ HasRow /\ LockInv
  BY DEF IInv
<1>1. ASSUME NEW p \in Workers, NEW u \in Users, NEW a \in Amounts, Withdraw(p, u, a)
      PROVE  CashConservation'
  <2>1. PICK w \in WithdrawalIds :
          /\ ~Exists(w)
          /\ wd' = [wd EXCEPT ![w] = [user |-> u, amount |-> a,
                                      status |-> "pending", ref |-> FALSE]]
    BY <1>1 DEF Withdraw
  <2>2. returned' = returned /\ cash' = [cash EXCEPT ![u] = @ - a]
    BY <1>1 DEF Withdraw
  <2>3. wd[w] = NoRow /\ ~returned[w]
    <3>1. wd[w] = NoRow
      BY <1>0, <2>1, MappedRow
    <3> QED BY <3>1 DEF BackIsRefused, NoRow
  <2>4. \A x \in Users, y \in WithdrawalIds : y # w \/ x # u => Taken(x)'[y] = Taken(x)[y]
    BY <1>0, <2>1, <2>2, <2>3 DEF TypeOK, Taken, NoRow
  <2>5. Taken(u)[w] = 0 /\ Taken(u)'[w] = a
    BY <1>0, <2>1, <2>2, <2>3 DEF TypeOK, Taken, NoRow
  <2>6. \A x \in Users : x # u => cash'[x] = cash[x]
    BY <1>0, <2>2 DEF TypeOK
  <2>7. cash'[u] = cash[u] + 0 - a
    <3>1. cash'[u] = cash[u] - a /\ cash[u] \in Nat /\ a \in Nat
      BY <1>0, <2>2 DEF TypeOK
    <3> QED BY <3>1
  <2> QED BY <1>0, <2>4, <2>5, <2>6, <2>7, OneTermChanges
<1>2. ASSUME NEW w \in WithdrawalIds, NEW b \in BOOLEAN, Refuse(w, b)
      PROVE  CashConservation'
  <2>1. Open(w) /\ wd[w] \in Row /\ ~returned[w]
    BY <1>0, <1>2, MappedRow DEF Refuse, BackIsRefused, Open
  <2>0. PICK v \in Users : v = wd[w].user
    BY <2>1 DEF Row
  <2>2. wd' = [wd EXCEPT ![w].status = "failed"] /\ returned' = [returned EXCEPT ![w] = b]
    BY <1>0, <1>2, <2>1 DEF Refuse, TypeOK
  <2>3. \A x \in Users, y \in WithdrawalIds : y # w \/ x # v => Taken(x)'[y] = Taken(x)[y]
    BY <1>0, <2>0, <2>1, <2>2 DEF TypeOK, Taken, Row, NoRow
  <2>4. Taken(v)[w] = wd[w].amount /\ Taken(v)'[w] = (IF b THEN 0 ELSE wd[w].amount)
        /\ wd[w].amount \in Nat
    BY <1>0, <2>0, <2>1, <2>2 DEF TypeOK, Taken, Row
  <2>5. cash' = IF b THEN [cash EXCEPT ![v] = @ + wd[w].amount] ELSE cash
    BY <1>2, <2>0 DEF Refuse
  <2>6. \A x \in Users : x # v => cash'[x] = cash[x]
    BY <1>0, <2>5 DEF TypeOK
  <2>7. cash'[v] = cash[v] + wd[w].amount - (IF b THEN 0 ELSE wd[w].amount)
    <3>1. cash[v] \in Nat /\ cash'[v] = IF b THEN cash[v] + wd[w].amount ELSE cash[v]
      BY <1>0, <2>5 DEF TypeOK
    <3> QED BY <2>4, <3>1
  <2> QED BY <1>0, <2>3, <2>4, <2>6, <2>7, OneTermChanges
<1>3. ASSUME NEW p \in Workers, SetRef(p) \/ ValidatePay(p)
      PROVE  CashConservation'
  <2>1. cur[p] \in WithdrawalIds /\ wd[cur[p]] \in Row
    BY <1>0, <1>3 DEF HasRow, SetRef, ValidatePay
  <2>2. cash' = cash /\ returned' = returned
    BY <1>3 DEF SetRef, ValidatePay
  <2>3. \A w \in WithdrawalIds : wd'[w].user = wd[w].user /\ wd'[w].amount = wd[w].amount
    BY <1>0, <1>3, <2>1 DEF TypeOK, SetRef, ValidatePay, Row, NoRow
  <2>4. \A u \in Users : Taken(u)' = Taken(u)
    BY <2>2, <2>3 DEF Taken
  <2> QED BY <2>2, <2>4 DEF CashConservation
<1>4. ASSUME \/ \E p \in Workers : Pay(p) \/ SetRefFails(p) \/ Crash(p)
             \/ \E p \in Workers, w \in WithdrawalIds : Validate(p, w)
             \/ \E w \in WithdrawalIds : Age(w)
             \/ UNCHANGED vars
      PROVE  CashConservation'
  <2>1. wd' = wd /\ returned' = returned /\ cash' = cash
    BY <1>4 DEF Pay, SetRefFails, Crash, Validate, Age, vars
  <2> QED BY <2>1 DEF CashConservation, Taken
<1> QED
  BY <1>1, <1>2, <1>3, <1>4 DEF Next, Step, ReportStuck

LEMMA InitCashConservation == Init => CashConservation
<1> SUFFICES ASSUME Init, NEW u \in Users
             PROVE  cash[u] = InitCash - SumFunction(Taken(u))
  BY DEF CashConservation
<1>1. Taken(u) \in [WithdrawalIds -> Int] /\ \A w \in WithdrawalIds : Taken(u)[w] = 0
  BY DEF Init, Taken, NoRow
<1>2. SumFunction(Taken(u)) = 0
  BY <1>1, SumZero, WithdrawalsAssumption
<1> QED BY <1>2, WithdrawalsAssumption DEF Init

\* No cent is lost or created by concurrent requests, refusals, lost answers and
\* crashes: each balance is the initial one less the withdrawals not given back.
THEOREM CashConservationHolds == Spec => []CashConservation
<1>1. Init => CashConservation
  BY InitCashConservation
<1>2. IInv /\ IInv' /\ BackIsRefused /\ CashConservation /\ [Next]_vars => CashConservation'
  BY StepCash
<1> QED BY <1>1, <1>2, Inductive, BackIsRefusedHolds, PTL DEF Spec
=============================================================================
