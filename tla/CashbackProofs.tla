--------------------------- MODULE CashbackProofs ---------------------------
(***************************************************************************)
(* Proofs about Cashback, for every set of users, receipts, lines and      *)
(* threads, any number of which resolve at once, and every rate.           *)
(***************************************************************************)
EXTENDS Cashback, FiniteSums, TLAPS

USE DEF again

CreditRow == [status : {"none", "pending", "confirmed", "refused"}, amount : Nat,
              dist : BOOLEAN, boosted : BOOLEAN]
BoostStatus == {"none", "pending", "refused"}
JobState == [line : Lines \cup {NULL}, rest : SUBSET Lines, todo : SUBSET Lines,
             advance : BOOLEAN, res : {"none", "confirmed", "refused"},
             saw : CreditRow, flip : BOOLEAN]
Increments == [cash : [Users -> Int], cab : [Users -> Int]]
Locks == {Key(s) : s \in Lines} \cup {CashRow(u) : u \in Users}
           \cup {CabRow(u) : u \in Users}
Labels == {"idle", "detect", "insert", "advance", "boost", "boostDebit", "resolve",
           "boostRefund", "pay", "commit"}

\* The tables, and the control, locks and uncommitted writes of every thread.
TypeOK ==
  /\ credit \in [Lines -> CreditRow] /\ boost \in [Lines -> BoostStatus]
  /\ cash \in [Users -> Int] /\ cab \in [Users -> Int]
  /\ twicePaid \in [Lines -> Nat] /\ twiceRefunded \in [Lines -> Nat]
  /\ pc \in [Workers -> Labels] /\ job \in [Workers -> JobState]
  /\ held \in [Workers -> SUBSET Locks] /\ inc \in [Workers -> Increments]
  /\ DOMAIN new = Workers /\ DOMAIN newBoost = Workers
  /\ \A p \in Workers :
       /\ DOMAIN new[p] \subseteq Lines
       /\ \A s \in DOMAIN new[p] : new[p][s] \in CreditRow
       /\ DOMAIN newBoost[p] \subseteq DOMAIN new[p]
       /\ \A s \in DOMAIN newBoost[p] : newBoost[p][s] \in BoostStatus

\* Locks exclude each other, and a thread has locked what it has written.
LockInv ==
  /\ \A p, q \in Workers : p # q => held[p] \cap held[q] = {}
  /\ \A p \in Workers :
       /\ \A s \in DOMAIN new[p] : Key(s) \in held[p]
       /\ \A u \in Users : inc[p].cab[u] < 0 => CabRow(u) \in held[p]

RowInv ==
  /\ \A s \in Lines : ~Exists(s) => ~credit[s].dist /\ ~credit[s].boosted
  /\ BoostMatchesCredit /\ ConfirmedIsPaid

\* No writes yet, at an existing CREDIT; one that a resolution has seen paid is.
Waiting(p) ==
  LET s == job[p].line IN
  pc[p] \in {"idle", "boost", "resolve"} =>
    /\ DOMAIN new[p] = {} /\ job[p].todo = {}
    /\ pc[p] = "resolve" <=> job[p].res # "none"
    /\ pc[p] \in {"boost", "resolve"} => s \in Lines /\ Exists(s)
    /\ pc[p] = "resolve" /\ job[p].saw.dist => credit[s].dist

\* A detection has written new lines only, each once.
Detecting(p) ==
  pc[p] \in {"detect", "insert", "advance"} =>
    LET s == job[p].line  ahead == job[p].todo \cup job[p].rest IN
    /\ job[p].res = "none" /\ DOMAIN newBoost[p] = {}
    /\ DOMAIN new[p] \cap ahead = {} /\ job[p].todo \cap job[p].rest = {}
    /\ pc[p] = "insert" => s \in Lines \ (DOMAIN new[p] \cup ahead)
    /\ pc[p] = "advance" => s \in DOMAIN new[p]
    /\ \A x \in DOMAIN new[p] :
         ~Exists(x) /\ new[p][x].status = "pending" /\ ~new[p][x].boosted

\* A boost or a resolution writes the one row it has locked, and nothing else
\* of it than its columns.
Writing(p) ==
  pc[p] \in {"boostDebit", "boostRefund", "pay", "commit"} =>
    LET s == job[p].line  row == new[p][s] IN
    /\ DOMAIN new[p] = {s} /\ Exists(s)
    /\ DOMAIN newBoost[p] \in {{}, {s}}
    /\ row.amount = credit[s].amount
    /\ credit[s].dist => row.dist

Boosting(p) ==
  pc[p] \in {"boostDebit", "boostRefund", "pay", "commit"} /\ job[p].res = "none" =>
    LET s == job[p].line  row == new[p][s] IN
    /\ pc[p] # "boostRefund" /\ boost[s] = "none"
    /\ row.status = credit[s].status /\ row.dist = credit[s].dist /\ row.boosted
    /\ pc[p] = "boostDebit" <=> DOMAIN newBoost[p] = {}
    /\ pc[p] # "boostDebit" => newBoost[p][s] = "pending"

Resolving(p) ==
  pc[p] \in {"boostDebit", "boostRefund", "pay", "commit"} /\ job[p].res # "none" =>
    LET s == job[p].line  row == new[p][s] IN
    /\ pc[p] # "boostDebit"
    /\ row.status = job[p].res /\ row.boosted = credit[s].boosted
    /\ job[p].res = "confirmed" => row.dist
    /\ pc[p] = "pay" => job[p].res = "confirmed"
    /\ pc[p] = "boostRefund" => job[p].res = "refused" /\ boost[s] # "none"
    /\ pc[p] \in {"pay", "boostRefund"} => DOMAIN newBoost[p] = {}
    /\ pc[p] = "commit" /\ DOMAIN newBoost[p] # {}
         => newBoost[p][s] = "refused" /\ job[p].res = "refused" /\ boost[s] # "none"
    /\ pc[p] = "commit" /\ job[p].res = "refused" /\ boost[s] # "none"
         => DOMAIN newBoost[p] # {}

ThreadOK(p) ==
  /\ Waiting(p) /\ Detecting(p) /\ Writing(p) /\ Boosting(p) /\ Resolving(p)

ThreadInv == \A p \in Workers : ThreadOK(p)

\* The rows as thread p sees them, and what its commit will change.
Row(p, s) == IF s \in DOMAIN new[p] THEN new[p][s] ELSE credit[s]
Boost(p, s) == IF s \in DOMAIN newBoost[p] THEN newBoost[p][s] ELSE boost[s]

\* What thread p, overtaken by another resolution, pays and refunds once more.
PaysAgain(p, s) ==
  IF s = job[p].line /\ pc[p] \in {"pay", "commit"} /\ PaidAgain(p)
    THEN credit[s].amount ELSE 0
RefundsAgain(p, s) ==
  IF s = job[p].line /\ RefundedAgain(p) THEN Awarded(BoostCost(credit[s].amount)) ELSE 0

Value(p, s) == Worth(Row(p, s), Boost(p, s)) + PaysAgain(p, s)
Change(p, u) ==
  [s \in Lines |-> IF UserOf(s) = u THEN Value(p, s) - Worth(credit[s], boost[s]) ELSE 0]

\* The statement that follows at "advance" and "pay" credits the line's user.
Unpaid(p, u) ==
  IF pc[p] \in {"advance", "pay"} /\ UserOf(job[p].line) = u
    THEN new[p][job[p].line].amount ELSE 0

CashOwed(p) ==
  \A u \in Users : inc[p].cash[u] + Unpaid(p, u) = SumFunction(Change(p, u))

CabOwed(p) ==
  \A u \in Users :
    LET s == job[p].line IN
    inc[p].cab[u] =
      IF DOMAIN newBoost[p] # {} /\ UserOf(s) = u
        THEN Price(credit[s], boost[s]) - Price(Row(p, s), Boost(p, s)) + RefundsAgain(p, s)
        ELSE 0

CashInv == BalanceIntegrity /\ \A p \in Workers : CashOwed(p)
CabInv ==
  /\ CabIntegrity
  /\ \A p \in Workers : CabOwed(p)
  /\ \A p \in Workers, u \in Users : cab[u] + inc[p].cab[u] >= 0

IInv == TypeOK /\ LockInv /\ RowInv /\ ThreadInv /\ CashInv /\ CabInv
-----------------------------------------------------------------------------
(***************************************************************************)
(* Amounts.                                                                *)
(***************************************************************************)
LEMMA RoundingNat ==
  ASSUME NEW t \in Nat
  PROVE  RoundHalfUp(t) \in Nat /\ RoundHalfEven(t) \in Nat
BY DEF RoundHalfUp, RoundHalfEven

LEMMA CabNat ==
  ASSUME NEW n \in Nat
  PROVE  BoostCost(n) \in Nat /\ Awarded(n) \in Nat
<1>1. n * BoostRate \in Nat
  BY CashbackAssumption
<1>2. BoostCost(n) \in Nat
  BY <1>1, RoundingNat DEF BoostCost
<1>3. n * (10 + Bonus) \in Nat
  BY CashbackAssumption
<1>4. PICK k \in Nat : k = (n * (10 + Bonus)) \div 10
  BY <1>3
<1>5. Max({1, k}) \in {1, k}
  <2>1. \E x \in {1, k} : \A y \in {1, k} : x >= y
    BY <1>4
  <2> QED BY <2>1 DEF Max
<1> QED BY <1>2, <1>4, <1>5 DEF Awarded

LEMMA WorthNat ==
  ASSUME NEW row \in CreditRow, NEW b \in BoostStatus
  PROVE  Worth(row, b) \in Nat
BY DEF Worth, CreditRow

LEMMA PriceInt ==
  ASSUME NEW row \in CreditRow, NEW b \in BoostStatus
  PROVE  Price(row, b) \in Int
<1>1. row.amount \in Nat
  BY DEF CreditRow
<1>2. BoostCost(row.amount) \in Nat /\ Awarded(BoostCost(row.amount)) \in Nat
  BY <1>1, CabNat
<1> QED BY <1>2 DEF Price

\* What a user's balances are sums of.
DuesInt == \A u \in Users : Due(u) \in [Lines -> Int] /\ Spent(u) \in [Lines -> Int]
LEMMA DueInt == TypeOK => DuesInt
BY WorthNat, PriceInt DEF TypeOK, Due, Spent, DuesInt

RowsTyped ==
  \A p \in Workers, s \in Lines : Row(p, s) \in CreditRow /\ Boost(p, s) \in BoostStatus
LEMMA RowTypes == TypeOK => RowsTyped
BY DEF TypeOK, Row, Boost, RowsTyped

ValuesInt == \A p \in Workers, s \in Lines : Value(p, s) \in Int
LEMMA ValueInt == TypeOK => ValuesInt
<1> SUFFICES ASSUME TypeOK, NEW p \in Workers, NEW s \in Lines PROVE Value(p, s) \in Int
  BY DEF ValuesInt
<1>1. Worth(Row(p, s), Boost(p, s)) \in Nat
  BY WorthNat, RowTypes DEF RowsTyped
<1>2. PaysAgain(p, s) \in Nat
  BY DEF TypeOK, CreditRow, PaysAgain
<1> QED BY <1>1, <1>2 DEF Value

\* Outside the last statements of a confirmation the value is what the rows say.
PlainValues(p) ==
  pc[p] \notin {"pay", "commit"} \/ job[p].res # "confirmed" =>
    \A s \in Lines : Value(p, s) = Worth(Row(p, s), Boost(p, s))
LEMMA PlainValue ==
  ASSUME NEW p \in Workers
  PROVE  TypeOK => PlainValues(p)
<1>1. ASSUME TypeOK, NEW s \in Lines PROVE Worth(Row(p, s), Boost(p, s)) \in Nat
  BY <1>1, WorthNat, RowTypes DEF RowsTyped
<1> QED BY <1>1 DEF PlainValues, Value, PaysAgain, PaidAgain

ChangesInt == \A p \in Workers, u \in Users : Change(p, u) \in [Lines -> Int]
LEMMA ChangeInt == TypeOK => ChangesInt
BY WorthNat, ValueInt DEF TypeOK, Change, ChangesInt, ValuesInt

\* Owner of every line.
LEMMA UserOfType == \A s \in Lines : UserOf(s) \in Users
BY CashbackAssumption DEF UserOf

LEMMA RowOfLock ==
  /\ \A s, x : Key(s) = Key(x) => s = x
  /\ \A s, u : Key(s) # CabRow(u) /\ Key(s) # CashRow(u) /\ CabRow(s) # CashRow(u)
  /\ \A u, v : CabRow(u) = CabRow(v) => u = v
BY DEF Key, CabRow, CashRow
-----------------------------------------------------------------------------
(***************************************************************************)
(* Types.                                                                  *)
(***************************************************************************)
\* The parts of TypeOK a step of one thread changes.
LocalTypeOK ==
  /\ pc \in [Workers -> Labels] /\ job \in [Workers -> JobState]
  /\ held \in [Workers -> SUBSET Locks] /\ inc \in [Workers -> Increments]
WritesOK ==
  /\ DOMAIN new = Workers /\ DOMAIN newBoost = Workers
  /\ \A p \in Workers :
       /\ DOMAIN new[p] \subseteq Lines
       /\ \A s \in DOMAIN new[p] : new[p][s] \in CreditRow
       /\ DOMAIN newBoost[p] \subseteq DOMAIN new[p]
       /\ \A s \in DOMAIN newBoost[p] : newBoost[p][s] \in BoostStatus
TablesOK ==
  /\ credit \in [Lines -> CreditRow] /\ boost \in [Lines -> BoostStatus]
  /\ cash \in [Users -> Int] /\ cab \in [Users -> Int]
  /\ twicePaid \in [Lines -> Nat] /\ twiceRefunded \in [Lines -> Nat]

LEMMA ResetFacts ==
  ASSUME TypeOK, NEW p \in Workers, Reset(p)
  PROVE  /\ pc'[p] = "idle" /\ job'[p] = NoJob /\ held'[p] = {} /\ inc'[p] = NoInc
         /\ DOMAIN new'[p] = {} /\ DOMAIN newBoost'[p] = {}
         /\ \A q \in Workers \ {p} :
              /\ pc'[q] = pc[q] /\ job'[q] = job[q] /\ held'[q] = held[q]
              /\ new'[q] = new[q] /\ newBoost'[q] = newBoost[q] /\ inc'[q] = inc[q]
         /\ LocalTypeOK' /\ WritesOK'
<1>1. NoJob \in JobState
  BY DEF NoJob, NoCredit, JobState, CreditRow
<1>2. NoInc \in Increments
  BY DEF NoInc, Increments
<1>3. DOMAIN <<>> = {}
  OBVIOUS
<1>4. /\ new'[p] = <<>> /\ newBoost'[p] = <<>>
      /\ DOMAIN new' = Workers /\ DOMAIN newBoost' = Workers
      /\ \A q \in Workers \ {p} : new'[q] = new[q] /\ newBoost'[q] = newBoost[q]
  BY DEF Reset, TypeOK
<1>5. LocalTypeOK'
  BY <1>1, <1>2 DEF Reset, Goto, TypeOK, LocalTypeOK, Labels
<1>6. WritesOK'
  BY <1>3, <1>4 DEF TypeOK, WritesOK
<1> QED BY <1>3, <1>4, <1>5, <1>6 DEF Reset, Goto, TypeOK

LEMMA WriteFacts ==
  ASSUME TypeOK, NEW p \in Workers, NEW s \in Lines, NEW row \in CreditRow, Write(p, s, row)
  PROVE  /\ DOMAIN new'[p] = DOMAIN new[p] \cup {s} /\ new'[p][s] = row
         /\ \A x \in DOMAIN new[p] : x # s => new'[p][x] = new[p][x]
         /\ \A q \in Workers \ {p} : new'[q] = new[q]
         /\ DOMAIN new' = Workers
         /\ newBoost' = newBoost => WritesOK'
<1>1. /\ new'[p] = [x \in DOMAIN new[p] \cup {s} |-> IF x = s THEN row ELSE new[p][x]]
      /\ DOMAIN new' = Workers /\ \A q \in Workers \ {p} : new'[q] = new[q]
  BY DEF Write, TypeOK
<1> QED BY <1>1 DEF TypeOK, WritesOK

LEMMA CashFacts ==
  ASSUME TypeOK, NEW p \in Workers, NEW u \in Users, NEW n \in Int, AddCash(p, u, n)
  PROVE  /\ inc' \in [Workers -> Increments]
         /\ \A q \in Workers \ {p} : inc'[q] = inc[q]
         /\ \A v \in Users :
              inc'[p].cash[v] = IF v = u THEN inc[p].cash[v] + n ELSE inc[p].cash[v]
         /\ inc'[p].cab = inc[p].cab
<1>1. inc[p] \in Increments /\ inc[p].cash[u] + n \in Int
  BY DEF TypeOK, Increments
<1>2. inc' = [inc EXCEPT ![p].cash[u] = inc[p].cash[u] + n]
  BY DEF AddCash
<1>3. /\ inc' = [inc EXCEPT ![p] = inc'[p]]
      /\ inc'[p] = [inc[p] EXCEPT !.cash = [inc[p].cash EXCEPT ![u] = inc[p].cash[u] + n]]
  BY <1>2 DEF TypeOK
<1>4. inc'[p] \in Increments
  BY <1>1, <1>3 DEF Increments
<1>5. /\ inc'[p].cash = [inc[p].cash EXCEPT ![u] = inc[p].cash[u] + n]
      /\ inc'[p].cab = inc[p].cab
  BY <1>1, <1>3 DEF Increments
<1>6. inc' \in [Workers -> Increments] /\ \A q \in Workers \ {p} : inc'[q] = inc[q]
  BY <1>3, <1>4 DEF TypeOK
<1>7. inc[p].cash \in [Users -> Int]
  BY <1>1 DEF Increments
<1> QED BY <1>5, <1>6, <1>7

LEMMA CabFacts ==
  ASSUME TypeOK, NEW p \in Workers, NEW u \in Users, NEW n \in Int, AddCab(p, u, n)
  PROVE  /\ inc' \in [Workers -> Increments]
         /\ \A q \in Workers \ {p} : inc'[q] = inc[q]
         /\ \A v \in Users :
              inc'[p].cab[v] = IF v = u THEN inc[p].cab[v] + n ELSE inc[p].cab[v]
         /\ inc'[p].cash = inc[p].cash
<1>1. inc[p] \in Increments /\ inc[p].cab[u] + n \in Int
  BY DEF TypeOK, Increments
<1>2. inc' = [inc EXCEPT ![p].cab[u] = inc[p].cab[u] + n]
  BY DEF AddCab
<1>3. /\ inc' = [inc EXCEPT ![p] = inc'[p]]
      /\ inc'[p] = [inc[p] EXCEPT !.cab = [inc[p].cab EXCEPT ![u] = inc[p].cab[u] + n]]
  BY <1>2 DEF TypeOK
<1>4. inc'[p] \in Increments
  BY <1>1, <1>3 DEF Increments
<1>5. /\ inc'[p].cab = [inc[p].cab EXCEPT ![u] = inc[p].cab[u] + n]
      /\ inc'[p].cash = inc[p].cash
  BY <1>1, <1>3 DEF Increments
<1>6. inc' \in [Workers -> Increments] /\ \A q \in Workers \ {p} : inc'[q] = inc[q]
  BY <1>3, <1>4 DEF TypeOK
<1>7. inc[p].cab \in [Users -> Int]
  BY <1>1 DEF Increments
<1> QED BY <1>5, <1>6, <1>7

LEMMA TakeFacts ==
  ASSUME TypeOK, NEW p \in Workers, NEW l \in Locks, Take(p, l)
  PROVE  /\ held'[p] = held[p] \cup {l} /\ held' \in [Workers -> SUBSET Locks]
         /\ \A q \in Workers \ {p} : held'[q] = held[q]
BY DEF Take, TypeOK

LEMMA GotoFacts ==
  ASSUME TypeOK, NEW p \in Workers, NEW l \in Labels, Goto(p, l)
  PROVE  /\ pc'[p] = l /\ pc' \in [Workers -> Labels]
         /\ \A q \in Workers \ {p} : pc'[q] = pc[q]
BY DEF Goto, TypeOK
-----------------------------------------------------------------------------
(***************************************************************************)
(* What one thread does, and the others keep.                              *)
(***************************************************************************)
Same(q) ==
  /\ pc'[q] = pc[q] /\ job'[q] = job[q] /\ held'[q] = held[q]
  /\ new'[q] = new[q] /\ newBoost'[q] = newBoost[q] /\ inc'[q] = inc[q]
Others(p) == \A q \in Workers \ {p} : Same(q)

\* A thread that does not move keeps its invariants while no row it has locked
\* changes and what a resolution has seen stays true.
LEMMA ThreadStays ==
  ASSUME TypeOK, TypeOK', NEW q \in Workers, Same(q), ThreadOK(q), CashOwed(q), CabOwed(q),
         \A s \in DOMAIN new[q] : credit'[s] = credit[s] /\ boost'[s] = boost[s],
         \A s \in Lines : Exists(s) => Exists(s)',
         pc[q] = "resolve" /\ credit[job[q].line].dist => credit'[job[q].line].dist
  PROVE  ThreadOK(q)' /\ CashOwed(q)' /\ CabOwed(q)'
<1> USE DEF Same
<1>1. Waiting(q)'
  BY DEF ThreadOK, Waiting
<1>2. Detecting(q)'
  BY DEF ThreadOK, Detecting, Exists
<1>3. pc[q] \in {"boostDebit", "boostRefund", "pay", "commit"} => job[q].line \in DOMAIN new[q]
  BY DEF ThreadOK, Writing
<1>4. Writing(q)' /\ Boosting(q)' /\ Resolving(q)'
  BY <1>3 DEF ThreadOK, Writing, Boosting, Resolving, Exists
<1>5. ThreadOK(q)'
  BY <1>1, <1>2, <1>4 DEF ThreadOK
<1>6. ASSUME NEW u \in Users, NEW s \in Lines
      PROVE  Change(q, u)'[s] = Change(q, u)[s]
  <2>1. CASE s \in DOMAIN new[q]
    BY <2>1 DEF Change, Value, PaysAgain, PaidAgain, Row, Boost
  <2>2. CASE s \notin DOMAIN new[q]
    <3>1. s \notin DOMAIN newBoost[q]
      BY <2>2 DEF TypeOK
    <3>2. Worth(credit[s], boost[s]) \in Int /\ Worth(credit'[s], boost'[s]) \in Int
      BY WorthNat DEF TypeOK
    <3>3. PaysAgain(q, s) = 0 /\ PaysAgain(q, s)' = 0
      BY <1>3, <2>2 DEF PaysAgain
    <3> QED BY <2>2, <3>1, <3>2, <3>3 DEF Change, Value, Row, Boost
  <2> QED BY <2>1, <2>2
<1>7. \A u \in Users : Change(q, u)' = Change(q, u)
  <2> SUFFICES ASSUME NEW u \in Users PROVE Change(q, u)' = Change(q, u)
    OBVIOUS
  <2>1. \E f, g : f = [s \in Lines |-> f[s]] /\ g = [s \in Lines |-> g[s]]
                  /\ f = Change(q, u) /\ g = Change(q, u)'
    BY DEF Change
  <2> QED BY <1>6, <2>1
<1>8. CashOwed(q)'
  BY <1>7 DEF CashOwed, Unpaid
<1>9. DOMAIN newBoost[q] # {} => job[q].line \in DOMAIN new[q]
  BY <1>3 DEF ThreadOK, Waiting, Detecting, TypeOK, Labels
<1>10. CabOwed(q)'
  BY <1>9 DEF CabOwed, RefundsAgain, RefundedAgain, Row, Boost, Price
<1> QED BY <1>5, <1>8, <1>10

\* A statement that leaves the tables alone.
LEMMA LocalStep ==
  ASSUME IInv, TypeOK', NEW p \in Workers, Others(p), UNCHANGED <<credit, boost, cash, cab, again>>,
         \A l \in held'[p] : l \in held[p] \/ FreeFor(p, l),
         \A s \in DOMAIN new'[p] : Key(s) \in held'[p],
         \A u \in Users : inc'[p].cab[u] < 0 => CabRow(u) \in held'[p],
         \A u \in Users : cab[u] + inc'[p].cab[u] >= 0,
         ThreadOK(p)', CashOwed(p)', CabOwed(p)'
  PROVE  IInv'
<1> USE DEF IInv
<1>1. \A q \in Workers \ {p} : ThreadOK(q)' /\ CashOwed(q)' /\ CabOwed(q)'
  <2> SUFFICES ASSUME NEW q \in Workers \ {p}
               PROVE  ThreadOK(q)' /\ CashOwed(q)' /\ CabOwed(q)'
    OBVIOUS
  <2>1. Same(q)
    BY DEF Others
  <2>2. \A s \in Lines : Exists(s) => Exists(s)'
    BY DEF Exists
  <2> QED BY <2>1, <2>2, ThreadStays DEF ThreadInv, CashInv, CabInv
<1>2. LockInv'
  BY DEF LockInv, Others, Same, FreeFor
<1>3. RowInv'
  BY DEF RowInv, Exists, BoostMatchesCredit, ConfirmedIsPaid
<1>4. BalanceIntegrity' /\ CabIntegrity'
  BY DEF CashInv, CabInv, BalanceIntegrity, CabIntegrity, Due, Spent
<1>5. \A q \in Workers, u \in Users : cab'[u] + inc'[q].cab[u] >= 0
  BY DEF CabInv, Others, Same
<1> QED BY <1>1, <1>2, <1>3, <1>4, <1>5 DEF ThreadInv, CashInv, CabInv
\* A statement that neither locks nor writes.
LEMMA QuietStep ==
  ASSUME IInv, NEW p \in Workers, NEW l \in Labels, NEW j \in JobState,
         pc' = [pc EXCEPT ![p] = l], job' = [job EXCEPT ![p] = j],
         UNCHANGED <<credit, boost, cash, cab, again, held, new, newBoost, inc>>,
         pc[p] \notin {"advance", "pay", "commit"}, l \notin {"advance", "pay", "commit"},
         DOMAIN newBoost[p] = {}, ThreadOK(p)'
  PROVE  IInv'
<1>1. TypeOK'
  BY DEF IInv, TypeOK
<1>2. pc'[p] = l /\ Others(p)
  BY DEF IInv, TypeOK, Others, Same
<1>3. \A u \in Users : Change(p, u)' = Change(p, u)
  <2>1. \A s \in Lines : PaysAgain(p, s) = 0 /\ PaysAgain(p, s)' = 0
    BY <1>2 DEF PaysAgain
  <2> QED BY <2>1 DEF Change, Value, Row, Boost
<1>4. \A u \in Users : Unpaid(p, u) = 0 /\ Unpaid(p, u)' = 0
  BY <1>2 DEF Unpaid
<1>5. CashOwed(p)'
  BY <1>3, <1>4 DEF IInv, CashInv, CashOwed
<1>6. CabOwed(p)'
  BY DEF IInv, CabInv, CabOwed
<1> QED BY <1>1, <1>2, <1>5, <1>6, LocalStep DEF IInv, LockInv, CabInv

\* A transaction that has ended.
LEMMA Emptied ==
  ASSUME TypeOK, TypeOK', NEW p \in Workers, Reset(p)
  PROVE  /\ ThreadOK(p)' /\ CashOwed(p)' /\ CabOwed(p)' /\ Others(p)
         /\ \A u \in Users : inc'[p].cab[u] = 0
<1>1. /\ pc'[p] = "idle" /\ job'[p] = NoJob /\ inc'[p] = NoInc
      /\ DOMAIN new'[p] = {} /\ DOMAIN newBoost'[p] = {} /\ Others(p)
  BY ResetFacts DEF Others, Same
<1>2. ThreadOK(p)'
  BY <1>1 DEF ThreadOK, Waiting, Detecting, Writing, Boosting, Resolving, NoJob
<1>3. \A u \in Users, s \in Lines : Change(p, u)'[s] = 0
  <2> SUFFICES ASSUME NEW u \in Users, NEW s \in Lines PROVE Change(p, u)'[s] = 0
    OBVIOUS
  <2>1. Worth(credit'[s], boost'[s]) \in Int
    BY WorthNat DEF TypeOK
  <2>2. PaysAgain(p, s)' = 0
    BY <1>1 DEF PaysAgain
  <2> QED BY <1>1, <2>1, <2>2 DEF Change, Value, Row, Boost
<1>4. CashOwed(p)'
  <2> SUFFICES ASSUME NEW u \in Users
               PROVE  inc'[p].cash[u] + Unpaid(p, u)' = SumFunction(Change(p, u)')
    BY DEF CashOwed
  <2>1. PICK f \in [Lines -> Int] : f = Change(p, u)'
    <3>1. ChangesInt'
      BY ChangeInt, PTL
    <3> QED BY <3>1 DEF ChangesInt
  <2>2. SumFunction(f) = 0
    BY <1>3, <2>1, SumZero, CashbackAssumption
  <2>3. inc'[p].cash[u] = 0 /\ Unpaid(p, u)' = 0
    BY <1>1 DEF NoInc, Unpaid
  <2> QED BY <2>1, <2>2, <2>3
<1>5. CabOwed(p)' /\ \A u \in Users : inc'[p].cab[u] = 0
  BY <1>1 DEF CabOwed, NoInc
<1> QED BY <1>1, <1>2, <1>4, <1>5

LEMMA RollbackStep ==
  ASSUME IInv, NEW p \in Workers, Rollback(p)
  PROVE  IInv'
<1>1. UNCHANGED <<credit, boost, cash, cab, again>> /\ Reset(p)
  BY DEF Rollback, tables
<1>2. TypeOK' /\ DOMAIN new'[p] = {} /\ held'[p] = {}
  BY <1>1, ResetFacts DEF IInv, TypeOK, LocalTypeOK, WritesOK
<1>3. \A u \in Users : cab[u] \in Int /\ cab[u] >= 0
  BY DEF IInv, CabInv, CabIntegrity, TypeOK
<1> QED BY <1>1, <1>2, <1>3, Emptied, LocalStep DEF IInv
-----------------------------------------------------------------------------
(***************************************************************************)
(* The statements that write nothing.                                      *)
(***************************************************************************)
LEMMA DetectBegin ==
  ASSUME IInv, NEW p \in Workers,
         (\E r \in Receipts : ScanDetected(p, r)) \/ ProcessRetroactive(p)
  PROVE  IInv'
<1>1. pc[p] = "idle" /\ Goto(p, "detect")
      /\ UNCHANGED <<credit, boost, cash, cab, again, held, new, newBoost, inc>>
  BY DEF ScanDetected, ProcessRetroactive, tables, writes
<1>2. PICK R \in SUBSET Lines, f \in BOOLEAN :
        job' = [job EXCEPT ![p] = [job[p] EXCEPT !.rest = R, !.flip = f]]
  <2>1. job[p] \in JobState /\ job[p].flip \in BOOLEAN
    BY DEF IInv, TypeOK, JobState
  <2>2. \A R : LinesOf(R) \subseteq Lines
    BY DEF LinesOf
  <2> DEFINE waiting == {s \in LinesOf(PendingReceipts) : scan[s] = "accepted"}
  <2>3. ASSUME NEW r \in Receipts, ScanDetected(p, r)
        PROVE  /\ job' = [job EXCEPT ![p] = [job[p] EXCEPT !.rest = Detectable(r), !.flip = job[p].flip]]
               /\ Detectable(r) \subseteq Lines
    BY <2>1, <2>2, <2>3 DEF ScanDetected, Detectable, IInv, TypeOK, JobState
  <2>4. ASSUME ProcessRetroactive(p)
        PROVE  /\ job' = [job EXCEPT ![p] = [job[p] EXCEPT !.rest = waiting, !.flip = TRUE]]
               /\ waiting \subseteq Lines
    BY <2>2, <2>4 DEF ProcessRetroactive
  <2> QED BY <2>1, <2>2, <2>3, <2>4
<1>3. PICK j \in JobState : /\ job' = [job EXCEPT ![p] = j] /\ job'[p] = j
                            /\ j.res = job[p].res /\ j.todo = job[p].todo
  <2>0. job[p] \in JobState
    BY DEF IInv, TypeOK
  <2>1. [job[p] EXCEPT !.rest = R, !.flip = f] \in JobState
    BY <2>0 DEF JobState
  <2>2. /\ [job[p] EXCEPT !.rest = R, !.flip = f].res = job[p].res
        /\ [job[p] EXCEPT !.rest = R, !.flip = f].todo = job[p].todo
    BY <2>0 DEF JobState
  <2> QED BY <1>2, <2>1, <2>2 DEF IInv, TypeOK
<1>4. /\ DOMAIN new[p] = {} /\ DOMAIN newBoost[p] = {}
      /\ job[p].res = "none" /\ job[p].todo = {}
  BY <1>1 DEF IInv, ThreadInv, ThreadOK, Waiting, TypeOK
<1>5. pc' = [pc EXCEPT ![p] = "detect"] /\ pc'[p] = "detect"
  BY <1>1 DEF Goto, IInv, TypeOK
<1>6. ThreadOK(p)'
  BY <1>1, <1>3, <1>4, <1>5
     DEF ThreadOK, Waiting, Detecting, Writing, Boosting, Resolving
<1> QED BY <1>1, <1>3, <1>4, <1>5, <1>6, QuietStep DEF Labels

LEMMA DetectMoves ==
  ASSUME IInv, NEW p \in Workers, DetectUser(p) \/ \E s \in Lines : DetectCheck(p, s)
  PROVE  IInv'
<1>0. job[p] \in JobState /\ pc[p] = "detect"
  BY DEF DetectUser, DetectCheck, IInv, TypeOK
<1>1. UNCHANGED <<credit, boost, cash, cab, again, held, new, newBoost, inc>>
  BY DEF DetectUser, DetectCheck, tables, writes
<1>2. Detecting(p)
  BY DEF IInv, ThreadInv, ThreadOK
<1>3. ASSUME NEW u \in Users, NEW mine \in SUBSET Lines, NEW a \in BOOLEAN,
             mine \subseteq job[p].rest, job[p].todo = {}, UNCHANGED pc,
             job' = [job EXCEPT ![p].todo = mine, ![p].rest = @ \ mine, ![p].advance = a]
      PROVE  IInv'
  <2> DEFINE j == [job[p] EXCEPT !.todo = mine, !.rest = @ \ mine, !.advance = a]
  <2>1. job' = [job EXCEPT ![p] = j]
    BY <1>3
  <2>2. j \in JobState
    BY <1>0 DEF JobState
  <2>3. j.res = job[p].res /\ j.todo = mine /\ j.rest = job[p].rest \ mine
    BY <1>0 DEF JobState
  <2> HIDE DEF j
  <2>4. job'[p] = j
    BY <2>1 DEF IInv, TypeOK
  <2>5. pc' = [pc EXCEPT ![p] = "detect"] /\ pc'[p] = "detect"
    BY <1>0, <1>3 DEF IInv, TypeOK
  <2>6. ThreadOK(p)'
    BY <1>0, <1>1, <1>2, <1>3, <2>3, <2>4, <2>5
       DEF ThreadOK, Waiting, Detecting, Writing, Boosting, Resolving, Exists
  <2> QED BY <1>0, <1>1, <1>2, <2>1, <2>2, <2>5, <2>6, QuietStep DEF Labels, Detecting
<1>4. ASSUME NEW s \in Lines, DetectCheck(p, s) PROVE IInv'
  <2> DEFINE j == [job[p] EXCEPT !.todo = @ \ {s}, !.line = IF Creditable(s) THEN s ELSE @]
  <2>1. job' = [job EXCEPT ![p] = j]
    BY <1>4 DEF DetectCheck
  <2>2. j \in JobState
    BY <1>0 DEF JobState
  <2>3. /\ j.res = job[p].res /\ j.todo = job[p].todo \ {s} /\ j.rest = job[p].rest
        /\ j.line = IF Creditable(s) THEN s ELSE job[p].line
    BY <1>0 DEF JobState
  <2> HIDE DEF j
  <2>4. job'[p] = j
    BY <2>1 DEF IInv, TypeOK
  <2>5. DOMAIN newBoost[p] = {} /\ s \in job[p].todo
    BY <1>0, <1>2, <1>4 DEF Detecting, DetectCheck
  <2>6. PICK l \in {"detect", "insert"} :
          /\ pc' = [pc EXCEPT ![p] = l]
          /\ l = "insert" => Creditable(s)
    <3>1. CASE ~Creditable(s)
      <4>1. pc' = [pc EXCEPT ![p] = "detect"]
        BY <1>0, <1>4, <3>1 DEF DetectCheck, IInv, TypeOK
      <4> QED BY <4>1
    <3>2. CASE Creditable(s)
      BY <1>4, <3>2 DEF DetectCheck, Goto
    <3> QED BY <3>1, <3>2
  <2>7. pc'[p] = l
    BY <2>6 DEF IInv, TypeOK
  <2>8. l = "insert" => j.line = s
    BY <2>3, <2>6
  <2>9. ThreadOK(p)'
    BY <1>0, <1>1, <1>2, <2>3, <2>4, <2>5, <2>7, <2>8
       DEF ThreadOK, Waiting, Detecting, Writing, Boosting, Resolving, Exists
  <2> QED BY <1>0, <1>1, <2>1, <2>2, <2>5, <2>6, <2>9, QuietStep DEF Labels
<1>5. CASE DetectUser(p)
  <2>1. PICK u \in {UserOf(s) : s \in job[p].rest} :
          job' = [job EXCEPT ![p].todo = {s \in job[p].rest : UserOf(s) = u},
                             ![p].rest = @ \ {s \in job[p].rest : UserOf(s) = u},
                             ![p].advance = (u \in subscriber)]
    BY <1>5 DEF DetectUser
  <2>2. u \in Users /\ {s \in job[p].rest : UserOf(s) = u} \in SUBSET Lines
    BY <1>0, UserOfType DEF JobState
  <2>3. job[p].todo = {} /\ UNCHANGED pc
    BY <1>5 DEF DetectUser
  <2>4. PICK a \in BOOLEAN : a = (u \in subscriber)
    <3>1. (u \in subscriber) \in BOOLEAN
      OBVIOUS
    <3> QED BY <3>1, Zenon
  <2>5. PICK mine \in SUBSET Lines : mine = {s \in job[p].rest : UserOf(s) = u}
    BY <2>2
  <2>6. mine \subseteq job[p].rest
    BY <2>5
  <2>7. job' = [job EXCEPT ![p].todo = mine, ![p].rest = @ \ mine, ![p].advance = a]
    BY <2>1, <2>4, <2>5, Zenon
  <2> QED BY <1>3, <2>2, <2>3, <2>6, <2>7
<1> QED BY <1>4, <1>5
LEMMA Reads ==
  ASSUME IInv, NEW p \in Workers, NEW s \in Lines,
         BoostRead(p, s) \/ \E res \in {"confirmed", "refused"} : ResolveRead(p, s, res)
  PROVE  IInv'
<1>0. job[p] \in JobState /\ pc[p] = "idle"
  BY DEF BoostRead, ResolveRead, IInv, TypeOK
<1>1. UNCHANGED <<credit, boost, cash, cab, again, held, new, newBoost, inc>>
  BY DEF BoostRead, ResolveRead, tables, writes
<1>2. /\ DOMAIN new[p] = {} /\ DOMAIN newBoost[p] = {}
      /\ job[p].res = "none" /\ job[p].todo = {}
  BY <1>0 DEF IInv, ThreadInv, ThreadOK, Waiting, TypeOK
<1>3. CASE BoostRead(p, s)
  <2> DEFINE j == [job[p] EXCEPT !.line = s]
  <2>1. job' = [job EXCEPT ![p] = j] /\ pc' = [pc EXCEPT ![p] = "boost"] /\ Exists(s)
    BY <1>3 DEF BoostRead, Goto, Exists
  <2>2. j \in JobState /\ j.res = job[p].res /\ j.todo = job[p].todo /\ j.line = s
    BY <1>0 DEF JobState
  <2> HIDE DEF j
  <2>3. job'[p] = j /\ pc'[p] = "boost"
    BY <2>1 DEF IInv, TypeOK
  <2>4. ThreadOK(p)'
    BY <1>1, <1>2, <2>1, <2>2, <2>3
       DEF ThreadOK, Waiting, Detecting, Writing, Boosting, Resolving, Exists
  <2> QED BY <1>0, <1>1, <1>2, <2>1, <2>2, <2>4, QuietStep DEF Labels
<1>4. ASSUME NEW res \in {"confirmed", "refused"}, ResolveRead(p, s, res)
      PROVE  IInv'
  <2> DEFINE j == [job[p] EXCEPT !.line = s, !.res = res, !.saw = credit[s]]
  <2>1. /\ job' = [job EXCEPT ![p] = j] /\ pc' = [pc EXCEPT ![p] = "resolve"]
        /\ Exists(s)
    BY <1>4 DEF ResolveRead, Goto, Exists, Pending
  <2>2. j \in JobState
    BY <1>0 DEF IInv, TypeOK, JobState
  <2>3. j.res = res /\ j.todo = job[p].todo /\ j.line = s /\ j.saw = credit[s]
    BY <1>0 DEF JobState
  <2> HIDE DEF j
  <2>4. job'[p] = j /\ pc'[p] = "resolve"
    BY <2>1 DEF IInv, TypeOK
  <2>5. ThreadOK(p)'
    BY <1>1, <1>2, <2>1, <2>3, <2>4
       DEF ThreadOK, Waiting, Detecting, Writing, Boosting, Resolving, Exists
  <2> QED BY <1>0, <1>1, <1>2, <2>1, <2>2, <2>5, QuietStep DEF Labels
<1> QED BY <1>3, <1>4
-----------------------------------------------------------------------------
(***************************************************************************)
(* The statements that lock and write.                                     *)
(***************************************************************************)
\* The row a statement writes is worth more or less by what it adds to the balance.
LEMMA OwedStep ==
  ASSUME TypeOK, TypeOK', NEW p \in Workers, CashOwed(p), NEW s \in Lines,
         UNCHANGED <<credit, boost>>,
         \A x \in Lines \ {s} : Value(p, x)' = Value(p, x),
         \A u \in Users :
           inc'[p].cash[u] + Unpaid(p, u)'
             = inc[p].cash[u] + Unpaid(p, u)
               + IF UserOf(s) = u
                   THEN Value(p, s)' - Value(p, s) ELSE 0
  PROVE  CashOwed(p)'
<1> SUFFICES ASSUME NEW u \in Users
             PROVE  inc'[p].cash[u] + Unpaid(p, u)' = SumFunction(Change(p, u)')
  BY DEF CashOwed
<1>1. PICK f \in [Lines -> Int] : f = Change(p, u)
  BY ChangeInt DEF ChangesInt
<1>2. PICK g \in [Lines -> Int] : g = Change(p, u)'
  <2>1. ChangesInt'
    BY ChangeInt, PTL
  <2> QED BY <2>1 DEF ChangesInt
<1>3. \A x \in Lines : x # s => g[x] = f[x]
  BY <1>1, <1>2 DEF Change
<1>4. SumFunction(g) = SumFunction(f) - f[s] + g[s] /\ SumFunction(f) \in Int
  BY <1>3, SumChange, SumInt, CashbackAssumption
<1>5. SumFunction(f) = inc[p].cash[u] + Unpaid(p, u)
  BY <1>1 DEF CashOwed
<1>6. PICK m, n \in Int : m = Value(p, s) /\ n = Value(p, s)'
  <2>1. ValuesInt /\ ValuesInt'
    BY ValueInt, PTL
  <2> QED BY <2>1 DEF ValuesInt
<1>7. PICK k \in Int : k = Worth(credit[s], boost[s])
  BY WorthNat DEF TypeOK
<1>8. /\ f[s] = IF UserOf(s) = u THEN m - k ELSE 0
      /\ g[s] = IF UserOf(s) = u THEN n - k ELSE 0
  BY <1>1, <1>2, <1>6, <1>7 DEF Change
<1>9. CASE UserOf(s) = u
  <2>1. inc'[p].cash[u] + Unpaid(p, u)' = SumFunction(f) + (n - m)
    BY <1>5, <1>6, <1>9
  <2>2. SumFunction(g) = SumFunction(f) - (m - k) + (n - k)
    BY <1>4, <1>8, <1>9
  <2> QED BY <1>2, <1>4, <2>1, <2>2
<1>10. CASE UserOf(s) # u
  <2>1. inc'[p].cash[u] + Unpaid(p, u)' = SumFunction(f)
    BY <1>4, <1>5, <1>10
  <2>2. SumFunction(g) = SumFunction(f)
    BY <1>4, <1>8, <1>10
  <2> QED BY <1>2, <2>1, <2>2
<1> QED BY <1>9, <1>10
LEMMA LockTypes ==
  /\ \A s \in Lines : Key(s) \in Locks
  /\ \A u \in Users : CashRow(u) \in Locks /\ CabRow(u) \in Locks
BY DEF Locks

LEMMA DetectInsertStep ==
  ASSUME IInv, NEW p \in Workers, DetectInsert(p)
  PROVE  IInv'
<1>0. PICK s \in Lines : s = job[p].line
  BY DEF DetectInsert, IInv, ThreadInv, ThreadOK, Detecting
<1> DEFINE amount == RoundHalfUp(Reward[s])
           row == [status |-> "pending", amount |-> amount, dist |-> job[p].advance,
                   boosted |-> FALSE]
           l == IF job[p].advance THEN "advance" ELSE "detect"
<1>1. CASE Rollback(p)
  BY <1>1, RollbackStep
<1>2. CASE ~Rollback(p)
  <2>1. /\ pc[p] = "insert" /\ ~Exists(s) /\ FreeFor(p, Key(s))
        /\ Take(p, Key(s)) /\ Write(p, s, row) /\ Goto(p, l)
        /\ UNCHANGED <<credit, boost, cash, cab, again, job, newBoost, inc>>
    BY <1>0, <1>2 DEF DetectInsert, Duplicate, tables
  <2>2. /\ s \in Lines /\ s \notin DOMAIN new[p] /\ s \notin job[p].todo \cup job[p].rest
        /\ DOMAIN newBoost[p] = {} /\ job[p].res = "none" /\ Detecting(p)
    BY <1>0, <2>1 DEF IInv, ThreadInv, ThreadOK, Detecting
  <2>3. amount \in Nat /\ job[p].advance \in BOOLEAN
    BY <2>2, RoundingNat, CashbackAssumption DEF IInv, TypeOK, JobState
  <2>4. row \in CreditRow /\ l \in Labels
    BY <2>3 DEF CreditRow, Labels
  <2>5. row.amount = amount /\ row.dist = job[p].advance /\ row.status = "pending" /\ ~row.boosted
    OBVIOUS
  <2>6. UserOf(s) \in Users /\ Key(s) \in Locks
    BY <2>2, UserOfType, LockTypes
  <2> HIDE DEF row, amount
  <2>7. /\ DOMAIN new'[p] = DOMAIN new[p] \cup {s} /\ new'[p][s] = row
        /\ \A x \in DOMAIN new[p] : x # s => new'[p][x] = new[p][x]
        /\ \A q \in Workers \ {p} : new'[q] = new[q]
        /\ WritesOK'
    BY <2>1, <2>2, <2>4, WriteFacts DEF IInv
  <2>8. /\ held'[p] = held[p] \cup {Key(s)} /\ held' \in [Workers -> SUBSET Locks]
        /\ \A q \in Workers \ {p} : held'[q] = held[q]
    BY <2>1, <2>6, TakeFacts DEF IInv
  <2>9. /\ pc'[p] = l /\ pc' \in [Workers -> Labels]
        /\ \A q \in Workers \ {p} : pc'[q] = pc[q]
    BY <2>1, <2>4, GotoFacts DEF IInv
  <2>10. TypeOK'
    BY <2>1, <2>7, <2>8, <2>9 DEF IInv, TypeOK, WritesOK
  <2>11. Others(p)
    BY <2>1, <2>7, <2>8, <2>9 DEF Others, Same
  <2>12. ~credit[s].dist /\ boost[s] = "none"
    BY <2>1, <2>2 DEF IInv, RowInv, BoostMatchesCredit, TypeOK
  <2>13. ThreadOK(p)'
    BY <1>0, <2>1, <2>2, <2>5, <2>7, <2>9
       DEF ThreadOK, Waiting, Detecting, Writing, Boosting, Resolving, Exists
  <2>14. CashOwed(p)'
    <3>0. /\ \A x \in Lines : Value(p, x) = Worth(Row(p, x), Boost(p, x))
          /\ \A x \in Lines : Value(p, x)' = Worth(Row(p, x)', Boost(p, x)')
      <4>1. PlainValues(p) /\ PlainValues(p)'
        BY <2>10, PlainValue, PTL DEF IInv
      <4> QED BY <2>1, <2>2, <2>9, <4>1 DEF PlainValues
    <3>1. \A x \in Lines \ {s} : Value(p, x)' = Value(p, x)
      BY <2>1, <2>7, <3>0 DEF Row, Boost
    <3>2. Row(p, s) = credit[s] /\ Row(p, s)' = row
      BY <2>2, <2>7 DEF Row
    <3>3. Boost(p, s) = "none" /\ Boost(p, s)' = "none"
      BY <2>1, <2>2, <2>12 DEF Boost
    <3>4. /\ Value(p, s) = 0
          /\ Value(p, s)' = IF job[p].advance THEN amount ELSE 0
      BY <2>2, <2>3, <2>5, <2>12, <3>0, <3>2, <3>3 DEF Worth
    <3>5. \A u \in Users : /\ Unpaid(p, u) = 0
                           /\ Unpaid(p, u)' = IF job[p].advance /\ UserOf(s) = u THEN amount ELSE 0
      BY <1>0, <2>1, <2>5, <2>7, <2>9 DEF Unpaid
    <3>6. \A u \in Users :
            inc'[p].cash[u] + Unpaid(p, u)'
              = inc[p].cash[u] + Unpaid(p, u)
                + IF UserOf(s) = u THEN Value(p, s)' - Value(p, s) ELSE 0
      <4>1. \A u \in Users : inc[p].cash[u] \in Int /\ inc'[p].cash[u] = inc[p].cash[u]
        BY <2>1 DEF IInv, TypeOK, Increments
      <4> QED BY <2>3, <3>4, <3>5, <4>1
    <3> QED BY <2>1, <2>2, <2>10, <3>1, <3>6, OwedStep DEF IInv, CashInv
  <2>15. CabOwed(p)'
    BY <2>1, <2>2 DEF IInv, CabInv, CabOwed
  <2>16. \A x \in held'[p] : x \in held[p] \/ FreeFor(p, x)
    BY <2>1, <2>8
  <2>17. \A x \in DOMAIN new'[p] : Key(x) \in held'[p]
    BY <2>7, <2>8 DEF IInv, LockInv
  <2>18. \A u \in Users : /\ inc'[p].cab[u] < 0 => CabRow(u) \in held'[p]
                          /\ cab[u] + inc'[p].cab[u] >= 0
    BY <2>1, <2>8 DEF IInv, LockInv, CabInv
  <2> QED BY <2>1, <2>10, <2>11, <2>13, <2>14, <2>15, <2>16, <2>17, <2>18, LocalStep
<1> QED BY <1>1, <1>2
\* credit_cashback_balance, the statement after the one that made a row due.
LEMMA PayStep ==
  ASSUME IInv, NEW p \in Workers, NEW s \in Lines, s = job[p].line, s \in DOMAIN new[p],
         pc[p] \in {"advance", "pay"}, FreeFor(p, CashRow(UserOf(s))),
         Take(p, CashRow(UserOf(s))), AddCash(p, UserOf(s), new[p][s].amount),
         NEW l \in {"detect", "commit"}, Goto(p, l), pc[p] = "advance" <=> l = "detect",
         UNCHANGED <<credit, boost, cash, cab, again, job, new, newBoost>>
  PROVE  IInv'
<1>1. UserOf(s) \in Users /\ CashRow(UserOf(s)) \in Locks /\ new[p][s].amount \in Int
  BY UserOfType, LockTypes DEF IInv, TypeOK, CreditRow
<1>2. /\ inc' \in [Workers -> Increments] /\ \A q \in Workers \ {p} : inc'[q] = inc[q]
      /\ \A v \in Users : inc'[p].cash[v] = IF v = UserOf(s) THEN inc[p].cash[v] + new[p][s].amount
                                                             ELSE inc[p].cash[v]
      /\ inc'[p].cab = inc[p].cab
  BY <1>1, CashFacts DEF IInv
<1>3. /\ held'[p] = held[p] \cup {CashRow(UserOf(s))} /\ held' \in [Workers -> SUBSET Locks]
      /\ \A q \in Workers \ {p} : held'[q] = held[q]
  BY <1>1, TakeFacts DEF IInv
<1>4. /\ pc'[p] = l /\ pc' \in [Workers -> Labels]
      /\ \A q \in Workers \ {p} : pc'[q] = pc[q]
  BY GotoFacts DEF IInv, Labels
<1>5. TypeOK'
  BY <1>2, <1>3, <1>4 DEF IInv, TypeOK
<1>6. Others(p)
  BY <1>2, <1>3, <1>4 DEF Others, Same
<1>7. ThreadOK(p)'
  BY <1>4 DEF IInv, ThreadInv, ThreadOK, Waiting, Detecting, Writing, Boosting, Resolving, Exists
<1>8. CashOwed(p)'
  <2>0. \A x : PaysAgain(p, x)' = PaysAgain(p, x)
    <3>1. CASE pc[p] = "pay"
      BY <1>4, <3>1 DEF PaysAgain, PaidAgain
    <3>2. CASE pc[p] = "advance"
      BY <1>4, <3>2 DEF PaysAgain
    <3> QED BY <3>1, <3>2
  <2>1. \A u \in Users : Change(p, u)' = Change(p, u)
    BY <2>0 DEF Change, Value, Row, Boost
  <2>2. \A u \in Users : /\ Unpaid(p, u)' = 0
                         /\ Unpaid(p, u) = IF UserOf(s) = u THEN new[p][s].amount ELSE 0
    BY <1>4 DEF Unpaid
  <2>3. \A u \in Users : inc[p].cash[u] \in Int
    BY DEF IInv, TypeOK, Increments
  <2>4. \A u \in Users : inc'[p].cash[u] + Unpaid(p, u)' = inc[p].cash[u] + Unpaid(p, u)
    BY <1>1, <1>2, <2>2, <2>3
  <2> QED BY <2>1, <2>4 DEF IInv, CashInv, CashOwed
<1>9. CabOwed(p)'
  BY <1>2 DEF IInv, CabInv, CabOwed, RefundsAgain, RefundedAgain, Row, Boost
<1>10. /\ \A x \in held'[p] : x \in held[p] \/ FreeFor(p, x)
       /\ \A x \in DOMAIN new'[p] : Key(x) \in held'[p]
       /\ \A u \in Users : /\ inc'[p].cab[u] < 0 => CabRow(u) \in held'[p]
                           /\ cab[u] + inc'[p].cab[u] >= 0
  BY <1>2, <1>3 DEF IInv, LockInv, CabInv
<1> QED BY <1>5, <1>6, <1>7, <1>8, <1>9, <1>10, LocalStep

LEMMA BalanceStep ==
  ASSUME IInv, NEW p \in Workers, DetectAdvance(p) \/ CreditBalance(p)
  PROVE  IInv'
<1>1. CASE DetectAdvance(p)
  <2>1. PICK s \in Lines : s = job[p].line /\ s \in DOMAIN new[p]
    BY <1>1 DEF DetectAdvance, IInv, TypeOK, ThreadInv, ThreadOK, Detecting
  <2> QED BY <1>1, <2>1, PayStep DEF DetectAdvance, tables
<1>2. CASE CreditBalance(p)
  <2>1. PICK s \in Lines : /\ s = job[p].line /\ s \in DOMAIN new[p]
                           /\ new[p][s].amount = credit[s].amount
    BY <1>2 DEF CreditBalance, IInv, TypeOK, ThreadInv, ThreadOK, Writing
  <2> QED BY <1>2, <2>1, PayStep DEF CreditBalance, tables
<1> QED BY <1>1, <1>2

\* The columns that a boost and a resolution set.
LEMMA MarkedRow ==
  ASSUME NEW r \in CreditRow
  PROVE  [r EXCEPT !.boosted = TRUE] \in CreditRow
<1>1. \A h : [r EXCEPT !.boosted = h]
               = [status |-> r.status, amount |-> r.amount, dist |-> r.dist, boosted |-> h]
  BY DEF CreditRow
<1>2. [r EXCEPT !.boosted = TRUE]
        = [status |-> r.status, amount |-> r.amount, dist |-> r.dist, boosted |-> TRUE]
  BY <1>1, Zenon
<1>3. [status |-> r.status, amount |-> r.amount, dist |-> r.dist, boosted |-> TRUE] \in CreditRow
  BY DEF CreditRow
<1> QED BY <1>2, <1>3

LEMMA ResolvedRow ==
  ASSUME NEW r \in CreditRow, NEW st \in {"confirmed", "refused"}, NEW b \in BOOLEAN,
         NEW row, row = [r EXCEPT !.status = st, !.dist = b]
  PROVE  /\ row \in CreditRow /\ row.status = st /\ row.dist = b
         /\ row.amount = r.amount /\ row.boosted = r.boosted
<1> DEFINE t == [r EXCEPT !.status = st]
<1>1. t \in CreditRow
  BY DEF CreditRow
<1>2. t.status = st /\ t.amount = r.amount /\ t.boosted = r.boosted
  BY DEF CreditRow
<1>3. [r EXCEPT !.status = st, !.dist = b] = [t EXCEPT !.dist = b]
  OBVIOUS
<1> HIDE DEF t
<1>4. \A h : [t EXCEPT !.dist = h]
               = [status |-> t.status, amount |-> t.amount, dist |-> h, boosted |-> t.boosted]
  BY <1>1 DEF CreditRow
<1>5. [t EXCEPT !.dist = b]
        = [status |-> t.status, amount |-> t.amount, dist |-> b, boosted |-> t.boosted]
  BY <1>4, Zenon
<1>6. [status |-> t.status, amount |-> t.amount, dist |-> b, boosted |-> t.boosted] \in CreditRow
  BY <1>1 DEF CreditRow
<1> QED BY <1>2, <1>3, <1>5, <1>6

\* mark_boost_applied.
LEMMA BoostMarkStep ==
  ASSUME IInv, NEW p \in Workers, BoostMark(p)
  PROVE  IInv'
<1>0. PICK s \in Lines : s = job[p].line
  BY DEF BoostMark, IInv, ThreadInv, ThreadOK, Waiting
<1> DEFINE row == [credit[s] EXCEPT !.boosted = TRUE]
<1>1. CASE Rollback(p)
  BY <1>1, RollbackStep
<1>2. CASE ~Rollback(p)
  <2>1. /\ pc[p] = "boost" /\ ~credit[s].boosted /\ FreeFor(p, Key(s))
        /\ Take(p, Key(s)) /\ Write(p, s, row) /\ Goto(p, "boostDebit")
        /\ UNCHANGED <<credit, boost, cash, cab, again, job, newBoost, inc>>
    BY <1>0, <1>2 DEF BoostMark, BoostFree, tables
  <2>2. /\ DOMAIN new[p] = {} /\ job[p].res = "none" /\ Exists(s) /\ DOMAIN newBoost[p] = {}
    BY <1>0, <2>1 DEF IInv, TypeOK, ThreadInv, ThreadOK, Waiting
  <2>3. row \in CreditRow
    BY MarkedRow DEF IInv, TypeOK
  <2>4. /\ row.amount = credit[s].amount /\ row.dist = credit[s].dist
        /\ row.status = credit[s].status /\ row.boosted
    BY DEF IInv, TypeOK, CreditRow
  <2> HIDE DEF row
  <2>5. /\ DOMAIN new'[p] = {s} /\ new'[p][s] = row
        /\ \A q \in Workers \ {p} : new'[q] = new[q]
        /\ WritesOK'
    BY <2>1, <2>2, <2>3, WriteFacts DEF IInv
  <2>6. /\ held'[p] = held[p] \cup {Key(s)} /\ held' \in [Workers -> SUBSET Locks]
        /\ \A q \in Workers \ {p} : held'[q] = held[q]
    BY <2>1, LockTypes, TakeFacts DEF IInv
  <2>7. /\ pc'[p] = "boostDebit" /\ pc' \in [Workers -> Labels]
        /\ \A q \in Workers \ {p} : pc'[q] = pc[q]
    BY <2>1, GotoFacts DEF IInv, Labels
  <2>8. TypeOK'
    BY <2>1, <2>5, <2>6, <2>7 DEF IInv, TypeOK, WritesOK
  <2>9. Others(p)
    BY <2>1, <2>5, <2>6, <2>7 DEF Others, Same
  <2>10. boost[s] = "none"
    BY <2>1 DEF IInv, RowInv, BoostMatchesCredit
  <2>11. ThreadOK(p)'
    BY <1>0, <2>1, <2>2, <2>4, <2>5, <2>7, <2>10
       DEF ThreadOK, Waiting, Detecting, Writing, Boosting, Resolving, Exists
  <2>12. CashOwed(p)'
    <3>0. /\ \A x \in Lines : Value(p, x) = Worth(Row(p, x), Boost(p, x))
          /\ \A x \in Lines : Value(p, x)' = Worth(Row(p, x)', Boost(p, x)')
      <4>1. PlainValues(p) /\ PlainValues(p)'
        BY <2>8, PlainValue, PTL DEF IInv
      <4> QED BY <2>1, <2>2, <2>7, <4>1 DEF PlainValues
    <3>1. \A x \in Lines \ {s} : Value(p, x)' = Value(p, x)
      BY <2>1, <2>2, <2>5, <3>0 DEF Row, Boost
    <3>2. Row(p, s) = credit[s] /\ Row(p, s)' = row
      BY <2>2, <2>5 DEF Row
    <3>3. Boost(p, s) = "none" /\ Boost(p, s)' = "none"
      BY <2>1, <2>2, <2>10 DEF Boost
    <3>4. Value(p, s)' = Value(p, s)
      BY <2>4, <3>0, <3>2, <3>3 DEF Worth
    <3>5. Value(p, s) \in Int
      BY ValueInt DEF ValuesInt, IInv
    <3>6. \A u \in Users : Unpaid(p, u) = 0 /\ Unpaid(p, u)' = 0
      BY <2>1, <2>7 DEF Unpaid
    <3>7. \A u \in Users :
            inc'[p].cash[u] + Unpaid(p, u)'
              = inc[p].cash[u] + Unpaid(p, u)
                + IF UserOf(s) = u THEN Value(p, s)' - Value(p, s) ELSE 0
      <4>1. \A u \in Users : inc[p].cash[u] \in Int /\ inc'[p].cash[u] = inc[p].cash[u]
        BY <2>1 DEF IInv, TypeOK, Increments
      <4> QED BY <3>4, <3>5, <3>6, <4>1
    <3> QED BY <2>1, <2>8, <3>1, <3>7, OwedStep DEF IInv, CashInv
  <2>13. CabOwed(p)'
    BY <2>1, <2>2 DEF IInv, CabInv, CabOwed
  <2>14. /\ \A x \in held'[p] : x \in held[p] \/ FreeFor(p, x)
         /\ \A x \in DOMAIN new'[p] : Key(x) \in held'[p]
         /\ \A u \in Users : /\ inc'[p].cab[u] < 0 => CabRow(u) \in held'[p]
                             /\ cab[u] + inc'[p].cab[u] >= 0
    BY <2>1, <2>5, <2>6 DEF IInv, LockInv, CabInv
  <2> QED BY <2>1, <2>8, <2>9, <2>11, <2>12, <2>13, <2>14, LocalStep
<1> QED BY <1>1, <1>2
\* A statement that writes the BOOST row of the line and a CAB increment.
LEMMA BoostRowStep ==
  ASSUME IInv, NEW p \in Workers, NEW s \in Lines, s = job[p].line, DOMAIN new[p] = {s},
         NEW b \in {"pending", "refused"}, NEW n \in Int, NEW l \in {"pay", "commit"},
         FreeFor(p, CabRow(UserOf(s))), Take(p, CabRow(UserOf(s))), AddCab(p, UserOf(s), n),
         newBoost' = [newBoost EXCEPT ![p] = [x \in {s} |-> b]], Goto(p, l),
         UNCHANGED <<credit, boost, cash, cab, again, job, new>>,
         pc[p] \in {"boostDebit", "boostRefund"}, DOMAIN newBoost[p] = {},
         job[p].res # "confirmed",
         n = Price(credit[s], boost[s]) - Price(new[p][s], b) + RefundsAgain(p, s),
         cab[UserOf(s)] + n >= 0,
         (IF l = "pay" THEN new[p][s].amount ELSE 0)
           = Worth(new[p][s], b) - Worth(new[p][s], boost[s]),
         ThreadOK(p)'
  PROVE  IInv'
<1>1. UserOf(s) \in Users /\ CabRow(UserOf(s)) \in Locks
  BY UserOfType, LockTypes
<1>2. /\ inc' \in [Workers -> Increments] /\ \A q \in Workers \ {p} : inc'[q] = inc[q]
      /\ \A v \in Users : inc'[p].cab[v] = IF v = UserOf(s) THEN inc[p].cab[v] + n
                                                            ELSE inc[p].cab[v]
      /\ inc'[p].cash = inc[p].cash
  <2>1. TypeOK
    BY DEF IInv
  <2>2. AddCab(p, UserOf(s), n) /\ n \in Int /\ UserOf(s) \in Users
    BY <1>1
  <2> QED BY ONLY <2>1, <2>2, CabFacts, p \in Workers
<1>3. /\ held'[p] = held[p] \cup {CabRow(UserOf(s))} /\ held' \in [Workers -> SUBSET Locks]
      /\ \A q \in Workers \ {p} : held'[q] = held[q]
  BY <1>1, TakeFacts DEF IInv
<1>4. /\ pc'[p] = l /\ pc' \in [Workers -> Labels]
      /\ \A q \in Workers \ {p} : pc'[q] = pc[q]
  BY GotoFacts DEF IInv, Labels
<1>5. /\ DOMAIN newBoost'[p] = {s} /\ newBoost'[p][s] = b /\ DOMAIN newBoost' = Workers
      /\ \A q \in Workers \ {p} : newBoost'[q] = newBoost[q]
  BY DEF IInv, TypeOK
<1>6. TypeOK'
  BY <1>2, <1>3, <1>4, <1>5 DEF IInv, TypeOK, BoostStatus
<1>7. Others(p)
  BY <1>2, <1>3, <1>4, <1>5 DEF Others, Same
<1>8. /\ Row(p, s) = new[p][s] /\ Row(p, s)' = new[p][s]
      /\ Boost(p, s) = boost[s] /\ Boost(p, s)' = b
  BY <1>5 DEF Row, Boost
<1>9. CashOwed(p)'
  <2>0. /\ \A x \in Lines : Value(p, x) = Worth(Row(p, x), Boost(p, x))
        /\ \A x \in Lines : Value(p, x)' = Worth(Row(p, x)', Boost(p, x)')
    <3>1. PlainValues(p) /\ PlainValues(p)'
      BY <1>6, PlainValue, PTL DEF IInv
    <3> QED BY <3>1 DEF PlainValues
  <2>1. \A x \in Lines \ {s} : Value(p, x)' = Value(p, x)
    BY <1>5, <2>0 DEF Row, Boost
  <2>2. \A u \in Users : /\ Unpaid(p, u) = 0
                         /\ Unpaid(p, u)' = IF l = "pay" /\ UserOf(s) = u
                                              THEN new[p][s].amount ELSE 0
    BY <1>4 DEF Unpaid
  <2>3. \A u \in Users : inc[p].cash[u] \in Int /\ inc'[p].cash[u] = inc[p].cash[u]
    BY <1>2 DEF IInv, TypeOK, Increments
  <2>4. Value(p, s)' - Value(p, s) = IF l = "pay" THEN new[p][s].amount ELSE 0
    BY <1>8, <2>0
  <2>5. new[p][s].amount \in Int
    BY DEF IInv, TypeOK, CreditRow
  <2>6. \A u \in Users :
          inc'[p].cash[u] + Unpaid(p, u)'
            = inc[p].cash[u] + Unpaid(p, u)
              + IF UserOf(s) = u THEN Value(p, s)' - Value(p, s) ELSE 0
    BY <2>2, <2>3, <2>4, <2>5
  <2> QED BY <1>6, <2>1, <2>6, OwedStep DEF IInv, CashInv
<1>10. \A u \in Users : inc[p].cab[u] = 0
  BY DEF IInv, CabInv, CabOwed
<1>11. \A u \in Users : inc'[p].cab[u] = IF u = UserOf(s) THEN n ELSE 0
  BY <1>2, <1>10
<1>12. CabOwed(p)'
  BY <1>5, <1>8, <1>11 DEF CabOwed, RefundsAgain, RefundedAgain
<1>13. /\ \A x \in held'[p] : x \in held[p] \/ FreeFor(p, x)
       /\ \A x \in DOMAIN new'[p] : Key(x) \in held'[p]
  BY <1>3 DEF IInv, LockInv
<1>14. \A u \in Users : /\ inc'[p].cab[u] < 0 => CabRow(u) \in held'[p]
                        /\ cab[u] + inc'[p].cab[u] >= 0
  BY <1>3, <1>11 DEF IInv, CabInv, CabIntegrity, TypeOK
<1> QED BY <1>6, <1>7, <1>9, <1>12, <1>13, <1>14, LocalStep

LEMMA BoostDebitStep ==
  ASSUME IInv, NEW p \in Workers, BoostDebit(p)
  PROVE  IInv'
<1>0. PICK s \in Lines : s = job[p].line /\ DOMAIN new[p] = {s}
  BY DEF BoostDebit, IInv, TypeOK, ThreadInv, ThreadOK, Writing
<1>1. CASE Rollback(p)
  BY <1>1, RollbackStep
<1>2. CASE ~Rollback(p)
  <2>1. PICK cost \in Int : cost = BoostCost(credit[s].amount)
    BY CabNat DEF IInv, TypeOK, CreditRow
  <2>2. /\ pc[p] = "boostDebit" /\ FreeFor(p, CabRow(UserOf(s)))
        /\ cab[UserOf(s)] >= cost /\ Take(p, CabRow(UserOf(s)))
        /\ AddCab(p, UserOf(s), -cost) /\ Goto(p, "pay")
        /\ newBoost' = [newBoost EXCEPT ![p] = [x \in {s} |-> "pending"]]
        /\ UNCHANGED <<credit, boost, cash, cab, again, job, new>>
    BY <1>0, <1>2, <2>1 DEF BoostDebit, CanDebit, tables
  <2>3. /\ boost[s] = "none" /\ DOMAIN newBoost[p] = {} /\ job[p].res = "none"
        /\ new[p][s].amount = credit[s].amount
    BY <1>0, <2>2 DEF IInv, ThreadInv, ThreadOK, Writing, Boosting, Resolving
  <2>4. new[p][s] \in CreditRow /\ new[p][s].amount \in Int
    BY <1>0 DEF IInv, TypeOK, CreditRow
  <2>5. -cost = Price(credit[s], boost[s]) - Price(new[p][s], "pending") + RefundsAgain(p, s)
    BY <2>1, <2>3 DEF Price, RefundsAgain, RefundedAgain
  <2>6. new[p][s].amount = Worth(new[p][s], "pending") - Worth(new[p][s], boost[s])
    BY <2>3, <2>4 DEF Worth
  <2>7. pc'[p] = "pay" /\ DOMAIN newBoost'[p] = {s} /\ newBoost'[p][s] = "pending"
    BY <2>2, GotoFacts DEF IInv, TypeOK, Labels
  <2>8. ThreadOK(p)'
    BY <1>0, <2>2, <2>3, <2>7
       DEF IInv, ThreadInv, ThreadOK, Waiting, Detecting, Writing, Boosting, Resolving, Exists
  <2>9. cab[UserOf(s)] + -cost >= 0 /\ -cost \in Int
    BY <2>1, <2>2, UserOfType DEF IInv, TypeOK
  <2> QED BY <1>0, <2>2, <2>3, <2>5, <2>6, <2>8, <2>9, BoostRowStep
<1> QED BY <1>1, <1>2

LEMMA BoostRefundStep ==
  ASSUME IInv, NEW p \in Workers, BoostRefund(p)
  PROVE  IInv'
<1>0. PICK s \in Lines : s = job[p].line /\ DOMAIN new[p] = {s}
  BY DEF BoostRefund, IInv, TypeOK, ThreadInv, ThreadOK, Writing
<1>1. PICK cost \in Nat, back \in Nat :
        cost = BoostCost(credit[s].amount) /\ back = Awarded(cost)
  BY CabNat DEF IInv, TypeOK, CreditRow
<1>2. /\ pc[p] = "boostRefund" /\ FreeFor(p, CabRow(UserOf(s)))
      /\ Take(p, CabRow(UserOf(s))) /\ AddCab(p, UserOf(s), back) /\ Goto(p, "commit")
      /\ newBoost' = [newBoost EXCEPT ![p] = [x \in {s} |-> "refused"]]
      /\ UNCHANGED <<credit, boost, cash, cab, again, job, new>>
  BY <1>0, <1>1 DEF BoostRefund, tables
<1>3. /\ boost[s] \in {"pending", "refused"} /\ DOMAIN newBoost[p] = {}
      /\ job[p].res = "refused" /\ new[p][s].amount = credit[s].amount
  <2>1. Writing(p) /\ Boosting(p) /\ Resolving(p) /\ boost[s] \in BoostStatus
    BY <1>2 DEF IInv, TypeOK, ThreadInv, ThreadOK
  <2>2. job[p].res # "none"
    BY <1>2, <2>1 DEF Boosting
  <2>3. job[p].res = "refused" /\ boost[s] # "none" /\ DOMAIN newBoost[p] = {}
    BY <1>0, <1>2, <2>1, <2>2 DEF Resolving
  <2> QED BY <1>0, <1>2, <2>1, <2>3 DEF Writing, BoostStatus
<1>4. new[p][s] \in CreditRow /\ new[p][s].amount \in Int
  BY <1>0 DEF IInv, TypeOK, CreditRow
<1>5. back = Price(credit[s], boost[s]) - Price(new[p][s], "refused") + RefundsAgain(p, s)
  <2>1. CASE boost[s] = "pending"
    BY <1>0, <1>1, <1>3, <2>1 DEF Price, RefundsAgain, RefundedAgain
  <2>2. CASE boost[s] = "refused"
    BY <1>0, <1>1, <1>3, <2>2 DEF Price, RefundsAgain, RefundedAgain
  <2> QED BY <1>3, <2>1, <2>2
<1>6. 0 = Worth(new[p][s], "refused") - Worth(new[p][s], boost[s])
  BY <1>3, <1>4 DEF Worth
<1>7. pc'[p] = "commit" /\ DOMAIN newBoost'[p] = {s} /\ newBoost'[p][s] = "refused"
  BY <1>2, GotoFacts DEF IInv, TypeOK, Labels
<1>8. ThreadOK(p)'
  BY <1>0, <1>2, <1>3, <1>7
     DEF IInv, ThreadInv, ThreadOK, Waiting, Detecting, Writing, Boosting, Resolving, Exists
<1>9. cab[UserOf(s)] + back >= 0 /\ back \in Int
  BY <1>1, UserOfType DEF IInv, TypeOK, CabInv, CabIntegrity
<1> QED BY <1>0, <1>2, <1>3, <1>5, <1>6, <1>8, <1>9, BoostRowStep
\* update_cashback_tx_status and update_cashback_tx_distributed.
LEMMA ResolveMarkStep ==
  ASSUME IInv, NEW p \in Workers, ResolveMark(p)
  PROVE  IInv'
<1>1. PICK s \in Lines :
        s = job[p].line /\ Exists(s) /\ (job[p].saw.dist => credit[s].dist)
  BY DEF ResolveMark, IInv, ThreadInv, ThreadOK, Waiting
<1>2. pc[p] = "resolve" /\ DOMAIN new[p] = {} /\ DOMAIN newBoost[p] = {}
  BY DEF ResolveMark, IInv, TypeOK, ThreadInv, ThreadOK, Waiting
<1>3. PICK res \in {"confirmed", "refused"} : res = job[p].res
  <2>1. job[p] \in JobState /\ job[p].res # "none"
    BY <1>2 DEF IInv, TypeOK, ThreadInv, ThreadOK, Waiting
  <2> QED BY <2>1 DEF JobState
<1>4. PICK old \in CreditRow : old = credit[s]
  BY DEF IInv, TypeOK
<1>5. PICK pays \in BOOLEAN : pays <=> res = "confirmed" /\ ~job[p].saw.dist
  OBVIOUS
<1>6. PICK paid \in BOOLEAN : paid <=> old.dist \/ pays
  OBVIOUS
<1>7. PICK l \in {"pay", "boostRefund", "commit"} :
        l = IF pays THEN "pay"
            ELSE IF res = "refused" /\ boost[s] # "none" THEN "boostRefund" ELSE "commit"
  OBVIOUS
<1>row. PICK row : row = [old EXCEPT !.status = res, !.dist = paid]
  OBVIOUS
<1>8. /\ FreeFor(p, Key(s)) /\ Take(p, Key(s)) /\ Write(p, s, row) /\ Goto(p, l)
      /\ UNCHANGED <<credit, boost, cash, cab, again, job, newBoost, inc>>
  <2>1. (job[p].res = "confirmed" /\ PaysNow(job[p].saw)) <=> pays
    BY <1>1, <1>3, <1>4, <1>5 DEF PaysNow
  <2>2. Goto(p, l)
    BY <1>1, <1>3, <1>7, <2>1 DEF ResolveMark
  <2>3. Write(p, s, [old EXCEPT !.status = res, !.dist = old.dist \/ pays])
    <3>1. Write(p, s, [old EXCEPT !.status = res,
                                  !.dist = @ \/ (job[p].res = "confirmed" /\ PaysNow(job[p].saw))])
      BY <1>1, <1>3, <1>4 DEF ResolveMark, UpdatedRow
    <3>2. (old.dist \/ (job[p].res = "confirmed" /\ PaysNow(job[p].saw))) = (old.dist \/ pays)
      BY <2>1
    <3> QED BY <3>1, <3>2, Zenon
  <2>4. (old.dist \/ pays) = paid
    BY <1>6
  <2>5. Write(p, s, row)
    BY <1>row, <2>3, <2>4, Zenon
  <2> QED BY <1>1, <2>2, <2>5 DEF ResolveMark, tables
<1>9. row \in CreditRow /\ row.status = res /\ row.dist = paid /\ row.amount = old.amount
      /\ row.boosted = old.boosted
  <2>1. \A b \in BOOLEAN : \A t :
          t = [old EXCEPT !.status = res, !.dist = b]
          => /\ t \in CreditRow /\ t.status = res /\ t.dist = b
             /\ t.amount = old.amount /\ t.boosted = old.boosted
    BY ResolvedRow
  <2> QED BY <1>row, <2>1, Zenon
<1>10. /\ DOMAIN new'[p] = {s} /\ new'[p][s] = row
       /\ \A q \in Workers \ {p} : new'[q] = new[q]
       /\ WritesOK'
  BY <1>2, <1>8, <1>9, WriteFacts DEF IInv
<1>11. /\ held'[p] = held[p] \cup {Key(s)} /\ held' \in [Workers -> SUBSET Locks]
       /\ \A q \in Workers \ {p} : held'[q] = held[q]
  BY <1>8, LockTypes, TakeFacts DEF IInv
<1>12. /\ pc'[p] = l /\ pc' \in [Workers -> Labels]
       /\ \A q \in Workers \ {p} : pc'[q] = pc[q]
  BY <1>8, GotoFacts DEF IInv, Labels
<1>13. TypeOK'
  BY <1>8, <1>10, <1>11, <1>12 DEF IInv, TypeOK, WritesOK
<1>14. Others(p)
  BY <1>8, <1>10, <1>11, <1>12 DEF Others, Same
<1>15. boost[s] \in BoostStatus
  BY DEF IInv, TypeOK
<1>16. ThreadOK(p)'
  <2>1. Waiting(p)' /\ Detecting(p)' /\ Boosting(p)'
    BY <1>3, <1>8, <1>12 DEF Waiting, Detecting, Boosting
  <2>2. Writing(p)'
    BY <1>1, <1>2, <1>4, <1>6, <1>8, <1>9, <1>10 DEF Writing, Exists
  <2>3. Resolving(p)'
    BY <1>1, <1>2, <1>3, <1>4, <1>5, <1>6, <1>7, <1>8, <1>9, <1>10, <1>12, <1>15
       DEF Resolving, BoostStatus
  <2> QED BY <1>2, <2>1, <2>2, <2>3 DEF ThreadOK
<1>17. CashOwed(p)'
  <2>0. \A x \in Lines : /\ Worth(Row(p, x), Boost(p, x)) \in Int
                         /\ Worth(Row(p, x)', Boost(p, x)') \in Int
    <3>1. RowsTyped /\ RowsTyped'
      BY <1>13, RowTypes, PTL DEF IInv
    <3> QED BY <3>1, WorthNat DEF RowsTyped
  <2>1. \A x \in Lines : /\ PaysAgain(p, x) = 0
                         /\ PaysAgain(p, x)' = IF x = s /\ pays /\ old.dist THEN old.amount ELSE 0
    BY <1>1, <1>2, <1>3, <1>4, <1>5, <1>7, <1>8, <1>12 DEF PaysAgain, PaidAgain
  <2>2. \A x \in Lines \ {s} : Value(p, x)' = Value(p, x)
    BY <1>2, <1>8, <1>10, <2>0, <2>1 DEF Value, Row, Boost
  <2>3. /\ Row(p, s) = old /\ Row(p, s)' = row
        /\ Boost(p, s) = boost[s] /\ Boost(p, s)' = boost[s]
    BY <1>2, <1>4, <1>8, <1>10 DEF Row, Boost
  <2>4. old.amount \in Nat
    BY DEF CreditRow
  <2>5. Worth(row, boost[s]) = Worth(old, boost[s]) + IF pays /\ ~old.dist THEN old.amount ELSE 0
    BY <1>6, <1>9, <2>4 DEF Worth
  <2>6. Worth(old, boost[s]) \in Int
    BY <2>0, <2>3
  <2>7. Value(p, s)' - Value(p, s) = IF pays THEN old.amount ELSE 0
    BY <2>1, <2>3, <2>4, <2>5, <2>6 DEF Value
  <2>8. \A u \in Users : /\ Unpaid(p, u) = 0
                         /\ Unpaid(p, u)' = IF pays /\ UserOf(s) = u THEN old.amount ELSE 0
    BY <1>1, <1>2, <1>7, <1>8, <1>9, <1>10, <1>12 DEF Unpaid
  <2>9. \A u \in Users :
          inc'[p].cash[u] + Unpaid(p, u)'
            = inc[p].cash[u] + Unpaid(p, u)
              + IF UserOf(s) = u THEN Value(p, s)' - Value(p, s) ELSE 0
    <3>1. \A u \in Users : inc[p].cash[u] \in Int /\ inc'[p].cash[u] = inc[p].cash[u]
      BY <1>8 DEF IInv, TypeOK, Increments
    <3> QED BY <2>4, <2>7, <2>8, <3>1
  <2> QED BY <1>8, <1>13, <2>2, <2>9, OwedStep DEF IInv, CashInv
<1>18. CabOwed(p)'
  BY <1>2, <1>8 DEF IInv, CabInv, CabOwed
<1>19. /\ \A x \in held'[p] : x \in held[p] \/ FreeFor(p, x)
       /\ \A x \in DOMAIN new'[p] : Key(x) \in held'[p]
       /\ \A u \in Users : /\ inc'[p].cab[u] < 0 => CabRow(u) \in held'[p]
                           /\ cab[u] + inc'[p].cab[u] >= 0
  BY <1>8, <1>10, <1>11 DEF IInv, LockInv, CabInv
<1> QED BY <1>8, <1>13, <1>14, <1>16, <1>17, <1>18, <1>19, LocalStep
-----------------------------------------------------------------------------
(***************************************************************************)
(* The commits.                                                            *)
(***************************************************************************)
\* What commits is what the thread saw.
Commits(p) ==
  /\ pc[p] \in {"detect", "commit"} /\ Reset(p)
  /\ \A s \in Lines : /\ credit'[s] = Row(p, s) /\ boost'[s] = Boost(p, s)
                     /\ twicePaid'[s] = twicePaid[s] + PaysAgain(p, s)
                     /\ twiceRefunded'[s] = twiceRefunded[s] + RefundsAgain(p, s)
  /\ \A u \in Users : /\ cash'[u] = cash[u] + inc[p].cash[u]
                      /\ cab'[u] = cab[u] + inc[p].cab[u]
  /\ credit' \in [Lines -> CreditRow] /\ boost' \in [Lines -> BoostStatus]
  /\ cash' \in [Users -> Int] /\ cab' \in [Users -> Int]
  /\ twicePaid' \in [Lines -> Nat] /\ twiceRefunded' \in [Lines -> Nat]

LEMMA CommitsAll ==
  ASSUME IInv, NEW p \in Workers, DetectDone(p) \/ Commit(p)
  PROVE  Commits(p)
<1>0. TypeOK
  BY DEF IInv
<1>1. \A u \in Users : /\ cash[u] + inc[p].cash[u] \in Int
                       /\ cab[u] + inc[p].cab[u] \in Int
  BY <1>0 DEF TypeOK, Increments
<1>2. credit' = [s \in Lines |-> Row(p, s)]
  BY <1>0 DEF DetectDone, Commit, Over, Row, TypeOK
<1>3. boost' = [s \in Lines |-> Boost(p, s)]
  <2>1. CASE Commit(p)
    BY <1>0, <2>1 DEF Commit, Over, Boost, TypeOK
  <2>2. CASE DetectDone(p)
    <3>1. DOMAIN newBoost[p] = {}
      BY <2>2 DEF DetectDone, IInv, ThreadInv, ThreadOK, Detecting
    <3> QED BY <1>0, <2>2, <3>1 DEF DetectDone, Boost, TypeOK
  <2> QED BY <2>1, <2>2
<1>4. cab' = [u \in Users |-> cab[u] + inc[p].cab[u]]
  <2>1. CASE Commit(p)
    BY <2>1 DEF Commit
  <2>2. CASE DetectDone(p)
    <3>1. \A u \in Users : inc[p].cab[u] = 0
      BY <2>2 DEF DetectDone, IInv, ThreadInv, ThreadOK, Detecting, CabInv, CabOwed
    <3>2. cab = [u \in Users |-> cab[u] + inc[p].cab[u]]
      BY <1>0, <3>1 DEF TypeOK
    <3> QED BY <2>2, <3>2 DEF DetectDone
  <2> QED BY <2>1, <2>2
<1>5. cash' = [u \in Users |-> cash[u] + inc[p].cash[u]]
  BY DEF DetectDone, Commit
<1>6. pc[p] \in {"detect", "commit"} /\ Reset(p)
  BY DEF DetectDone, Commit
<1>7. \A s \in Lines : Row(p, s) \in CreditRow /\ Boost(p, s) \in BoostStatus
  BY <1>0, RowTypes DEF RowsTyped
<1>8. PICK amount \in Nat, back \in Nat :
        job[p].line \in Lines =>
          /\ amount = credit[job[p].line].amount
          /\ back = Awarded(BoostCost(credit[job[p].line].amount))
  <2>1. CASE job[p].line \in Lines
    BY <1>0, <2>1, CabNat DEF TypeOK, CreditRow
  <2> QED BY <2>1
<1>9. /\ \A s \in Lines : /\ twicePaid'[s] = twicePaid[s] + PaysAgain(p, s)
                         /\ twiceRefunded'[s] = twiceRefunded[s] + RefundsAgain(p, s)
      /\ twicePaid' \in [Lines -> Nat] /\ twiceRefunded' \in [Lines -> Nat]
  <2>1. CASE Commit(p)
    <3>1. pc[p] = "commit" /\ job[p].line \in Lines
      BY <1>0, <2>1 DEF Commit, IInv, ThreadInv, ThreadOK, Writing, TypeOK
    <3>2. /\ twicePaid' = IF PaidAgain(p) THEN [twicePaid EXCEPT ![job[p].line] = @ + amount]
                                          ELSE twicePaid
          /\ twiceRefunded' = IF RefundedAgain(p)
                                THEN [twiceRefunded EXCEPT ![job[p].line] = @ + back]
                                ELSE twiceRefunded
      BY <1>8, <2>1, <3>1 DEF Commit
    <3>3. \A s \in Lines :
            /\ PaysAgain(p, s) = IF s = job[p].line /\ PaidAgain(p) THEN amount ELSE 0
            /\ RefundsAgain(p, s) = IF s = job[p].line /\ RefundedAgain(p) THEN back ELSE 0
      BY <1>8, <3>1 DEF PaysAgain, RefundsAgain
    <3> QED BY <1>0, <3>1, <3>2, <3>3 DEF TypeOK
  <2>2. CASE DetectDone(p)
    <3>1. job[p].res = "none"
      BY <2>2 DEF DetectDone, IInv, ThreadInv, ThreadOK, Detecting
    <3>2. \A s \in Lines : PaysAgain(p, s) = 0 /\ RefundsAgain(p, s) = 0
      BY <3>1 DEF PaysAgain, RefundsAgain, PaidAgain, RefundedAgain
    <3> QED BY <1>0, <2>2, <3>2 DEF DetectDone, TypeOK
  <2> QED BY <2>1, <2>2
<1> QED BY <1>1, <1>2, <1>3, <1>4, <1>5, <1>6, <1>7, <1>9 DEF Commits

\* How the row of a line and its boost may change in a commit.
LEMMA CommittedRow ==
  ASSUME IInv, NEW p \in Workers, pc[p] \in {"detect", "commit"}, NEW s \in Lines,
         s \in DOMAIN new[p]
  PROVE  /\ ~Exists(s) => /\ pc[p] = "detect" /\ Row(p, s).status = "pending"
                          /\ ~Row(p, s).boosted /\ Boost(p, s) = "none"
         /\ Exists(s) => /\ pc[p] = "commit" /\ s = job[p].line
                         /\ Row(p, s).amount = credit[s].amount
                         /\ credit[s].dist => Row(p, s).dist
         /\ Exists(s) /\ job[p].res = "none"
              => /\ Row(p, s).status = credit[s].status /\ Row(p, s).dist = credit[s].dist
                 /\ Row(p, s).boosted /\ Boost(p, s) = "pending"
         /\ Exists(s) /\ job[p].res # "none"
              => /\ Row(p, s).status = job[p].res /\ Row(p, s).boosted = credit[s].boosted
                 /\ job[p].res = "confirmed" => Row(p, s).dist
                 /\ \/ Boost(p, s) = boost[s]
                    \/ Boost(p, s) = "refused" /\ boost[s] # "none"
<1>1. Row(p, s) = new[p][s]
  BY DEF Row
<1>2. ThreadOK(p) /\ RowInv /\ TypeOK
  BY DEF IInv, ThreadInv
<1>3. CASE pc[p] = "detect"
  <2>1. /\ ~Exists(s) /\ Row(p, s).status = "pending" /\ ~Row(p, s).boosted
        /\ DOMAIN newBoost[p] = {}
    BY <1>1, <1>2, <1>3 DEF ThreadOK, Detecting
  <2>2. Boost(p, s) = "none"
    BY <1>2, <2>1 DEF Boost, RowInv, BoostMatchesCredit
  <2> QED BY <1>3, <2>1, <2>2
<1>4. CASE pc[p] = "commit"
  <2>1. /\ s = job[p].line /\ Exists(s) /\ Row(p, s).amount = credit[s].amount
        /\ credit[s].dist => Row(p, s).dist
        /\ DOMAIN newBoost[p] \in {{}, {s}}
    BY <1>1, <1>2, <1>4 DEF ThreadOK, Writing
  <2>2. CASE job[p].res = "none"
    <3>1. newBoost[p][s] = "pending" /\ DOMAIN newBoost[p] # {}
      BY <1>2, <1>4, <2>1, <2>2 DEF ThreadOK, Boosting
    <3>2. Boost(p, s) = "pending"
      BY <2>1, <3>1 DEF Boost
    <3> QED BY <1>1, <1>2, <1>4, <2>1, <2>2, <3>2 DEF ThreadOK, Boosting
  <2>3. CASE job[p].res # "none"
    BY <1>1, <1>2, <1>4, <2>1, <2>3 DEF ThreadOK, Resolving, Boost
  <2> QED BY <2>1, <2>2, <2>3
<1> QED BY <1>3, <1>4
\* A row the thread has not written stays as it is.
LEMMA UntouchedRow ==
  ASSUME TypeOK, NEW p \in Workers, NEW s \in Lines, s \notin DOMAIN new[p]
  PROVE  Row(p, s) = credit[s] /\ Boost(p, s) = boost[s]
BY DEF TypeOK, Row, Boost

LEMMA CommitRows ==
  ASSUME IInv, NEW p \in Workers, Commits(p)
  PROVE  RowInv' /\ TypeOK'
<1>1. \A s \in Lines : credit'[s] = Row(p, s) /\ boost'[s] = Boost(p, s)
  BY DEF Commits
<1>2. ASSUME NEW s \in Lines
      PROVE  /\ credit'[s].status = "none" => ~credit'[s].dist /\ ~credit'[s].boosted
             /\ credit'[s].boosted <=> boost'[s] # "none"
             /\ boost'[s] = "refused" => credit'[s].status \in {"confirmed", "refused"}
             /\ credit'[s].status = "confirmed" => credit'[s].dist
  <2>0. /\ ~Exists(s) => ~credit[s].dist /\ ~credit[s].boosted
        /\ credit[s].boosted <=> boost[s] # "none"
        /\ boost[s] = "refused" => credit[s].status \in {"confirmed", "refused"}
        /\ credit[s].status = "confirmed" => credit[s].dist
    BY DEF IInv, RowInv, BoostMatchesCredit, ConfirmedIsPaid
  <2>1. CASE s \notin DOMAIN new[p]
    BY <1>1, <2>0, <2>1, UntouchedRow DEF IInv, Exists
  <2>2. CASE s \in DOMAIN new[p] /\ ~Exists(s)
    BY <1>1, <2>2, CommittedRow DEF Commits
  <2>3. CASE s \in DOMAIN new[p] /\ Exists(s) /\ job[p].res = "none"
    BY <1>1, <2>0, <2>3, CommittedRow DEF Commits, Exists
  <2>4. CASE s \in DOMAIN new[p] /\ Exists(s) /\ job[p].res # "none"
    <3>1. job[p].res \in {"none", "confirmed", "refused"}
      BY DEF IInv, TypeOK, JobState
    <3> QED BY <1>1, <2>0, <2>4, <3>1, CommittedRow DEF Commits, Exists
  <2> QED BY <2>1, <2>2, <2>3, <2>4
<1>3. RowInv'
  BY <1>2 DEF RowInv, Exists, BoostMatchesCredit, ConfirmedIsPaid
<1>4. TypeOK'
  BY ResetFacts DEF IInv, TypeOK, Commits, LocalTypeOK, WritesOK
<1> QED BY <1>3, <1>4

LEMMA CommitThreads ==
  ASSUME IInv, TypeOK', NEW p \in Workers, Commits(p), NEW q \in Workers, q # p
  PROVE  ThreadOK(q)' /\ CashOwed(q)' /\ CabOwed(q)'
<1>1. Same(q)
  BY Emptied DEF IInv, Commits, Others
<1>2. \A s \in Lines : credit'[s] = Row(p, s) /\ boost'[s] = Boost(p, s)
  BY DEF Commits
<1>3. \A s \in DOMAIN new[q] : credit'[s] = credit[s] /\ boost'[s] = boost[s]
  <2>1. \A s \in DOMAIN new[q] : s \in Lines /\ s \notin DOMAIN new[p]
    BY DEF IInv, TypeOK, LockInv
  <2> QED BY <1>2, <2>1, UntouchedRow DEF IInv
<1>4. ASSUME NEW s \in Lines, Exists(s) PROVE Exists(s)'
  <2>1. job[p].res \in {"none", "confirmed", "refused"}
    BY DEF IInv, TypeOK, JobState
  <2>2. Row(p, s).status # "none"
    BY <1>4, <2>1, CommittedRow, UntouchedRow DEF IInv, Exists, Commits
  <2> QED BY <1>2, <2>2 DEF Exists
<1>5. ASSUME pc[q] = "resolve", credit[job[q].line].dist
      PROVE  credit'[job[q].line].dist
  <2>1. PICK s \in Lines : s = job[q].line /\ Exists(s)
    BY <1>5 DEF IInv, ThreadInv, ThreadOK, Waiting
  <2>2. Row(p, s).dist
    BY <1>5, <2>1, CommittedRow, UntouchedRow DEF IInv, Commits
  <2> QED BY <1>2, <2>1, <2>2
<1> QED BY <1>1, <1>3, <1>4, <1>5, ThreadStays DEF IInv, ThreadInv, CashInv, CabInv

LEMMA CommitCash ==
  ASSUME IInv, TypeOK', NEW p \in Workers, Commits(p)
  PROVE  BalanceIntegrity'
<1> SUFFICES ASSUME NEW u \in Users PROVE cash'[u] = SumFunction(Due(u)')
  BY DEF BalanceIntegrity
<1>1. PICK f \in [Lines -> Int] : f = Due(u)
  BY DueInt DEF IInv, DuesInt
<1>2. PICK g \in [Lines -> Int] : g = Change(p, u)
  BY ChangeInt DEF ChangesInt, IInv
<1>3. PICK h \in [Lines -> Int] : h = Due(u)'
  <2>1. DuesInt'
    BY DueInt, PTL
  <2> QED BY <2>1 DEF DuesInt
<1>4. ASSUME NEW s \in Lines PROVE h[s] = f[s] + g[s]
  <2>1. credit'[s] = Row(p, s) /\ boost'[s] = Boost(p, s)
    BY DEF Commits
  <2>2. PICK m, n \in Int : m = Worth(credit[s], boost[s]) /\ n = Worth(credit'[s], boost'[s])
    BY WorthNat DEF IInv, TypeOK
  <2>3. PICK k, again1 \in Int : k = twicePaid[s] /\ again1 = PaysAgain(p, s)
    BY DEF IInv, TypeOK, CreditRow, PaysAgain
  <2>4. twicePaid'[s] = k + again1
    BY <2>3 DEF Commits
  <2>5. /\ f[s] = IF UserOf(s) = u THEN m + k ELSE 0
        /\ g[s] = IF UserOf(s) = u THEN n + again1 - m ELSE 0
        /\ h[s] = IF UserOf(s) = u THEN n + (k + again1) ELSE 0
    BY <1>1, <1>2, <1>3, <2>1, <2>2, <2>3, <2>4 DEF Due, Change, Value
  <2> QED BY <2>5
<1>5. SumFunction(h) = SumFunction(f) + SumFunction(g)
  BY <1>4, SumAdd, CashbackAssumption
<1>6. cash[u] = SumFunction(f)
  BY <1>1 DEF IInv, CashInv, BalanceIntegrity
<1>7. inc[p].cash[u] = SumFunction(g)
  <2>1. Unpaid(p, u) = 0
    BY DEF Commits, Unpaid
  <2>2. inc[p].cash[u] \in Int
    BY DEF IInv, TypeOK, Increments
  <2> QED BY <1>2, <2>1, <2>2 DEF IInv, CashInv, CashOwed
<1>8. cash'[u] = cash[u] + inc[p].cash[u]
  BY DEF Commits
<1> QED BY <1>3, <1>5, <1>6, <1>7, <1>8

LEMMA CommitCab ==
  ASSUME IInv, TypeOK', NEW p \in Workers, Commits(p)
  PROVE  CabIntegrity'
<1> SUFFICES ASSUME NEW u \in Users
             PROVE  cab'[u] >= 0 /\ cab'[u] = InitCab - SumFunction(Spent(u)')
  BY DEF CabIntegrity
<1>0. cab'[u] = cab[u] + inc[p].cab[u] /\ cab[u] \in Int /\ inc[p].cab[u] \in Int
  BY DEF Commits, IInv, TypeOK, Increments
<1>1. PICK f \in [Lines -> Int] : f = Spent(u)
  BY DueInt DEF IInv, DuesInt
<1>2. PICK g \in [Lines -> Int] : g = Spent(u)'
  <2>1. DuesInt'
    BY DueInt, PTL
  <2> QED BY <2>1 DEF DuesInt
<1>3. cab[u] = InitCab - SumFunction(f) /\ SumFunction(f) \in Int
  BY <1>1, SumInt, CashbackAssumption DEF IInv, CabInv, CabIntegrity
<1>4. cab'[u] >= 0
  BY <1>0 DEF IInv, CabInv
<1>5. ASSUME NEW s \in Lines
      PROVE  /\ f[s] = IF UserOf(s) = u
                         THEN Price(credit[s], boost[s]) - twiceRefunded[s] ELSE 0
             /\ g[s] = IF UserOf(s) = u
                         THEN Price(Row(p, s), Boost(p, s)) - (twiceRefunded[s] + RefundsAgain(p, s))
                         ELSE 0
  BY <1>1, <1>2 DEF Spent, Commits
<1>6. ASSUME NEW s \in Lines, s \notin DOMAIN newBoost[p] PROVE g[s] = f[s]
  <2>1. Boost(p, s) = boost[s]
    BY <1>6 DEF Boost
  <2>2. Row(p, s).amount = credit[s].amount \/ boost[s] = "none"
    BY <2>1, CommittedRow, UntouchedRow DEF IInv, Commits
  <2>3. Price(Row(p, s), Boost(p, s)) = Price(credit[s], boost[s])
    BY <2>1, <2>2 DEF Price
  <2>4. RefundsAgain(p, s) = 0
    <3>1. CASE pc[p] = "detect"
      BY <3>1 DEF IInv, ThreadInv, ThreadOK, Detecting, RefundsAgain, RefundedAgain
    <3>2. CASE pc[p] = "commit"
      <4>1. DOMAIN newBoost[p] \in {{}, {job[p].line}}
        BY <3>2 DEF IInv, ThreadInv, ThreadOK, Writing
      <4>2. job[p].res = "refused" /\ boost[job[p].line] # "none" => DOMAIN newBoost[p] # {}
        BY <3>2 DEF IInv, ThreadInv, ThreadOK, Resolving
      <4> QED BY <1>6, <4>1, <4>2 DEF RefundsAgain, RefundedAgain
    <3> QED BY <3>1, <3>2 DEF Commits
  <2>5. twiceRefunded[s] \in Int
    BY DEF IInv, TypeOK
  <2> QED BY <1>5, <2>3, <2>4, <2>5
<1>7. CASE DOMAIN newBoost[p] = {}
  <2>1. inc[p].cab[u] = 0
    BY <1>7 DEF IInv, CabInv, CabOwed
  <2>2. g = f
    BY <1>6, <1>7
  <2> QED BY <1>0, <1>2, <1>3, <1>4, <2>1, <2>2
<1>8. CASE DOMAIN newBoost[p] # {}
  <2>1. PICK s \in Lines : s = job[p].line /\ DOMAIN newBoost[p] = {s}
    BY <1>8 DEF IInv, TypeOK, ThreadInv, ThreadOK, Writing, Detecting, Commits
  <2>2. SumFunction(g) = SumFunction(f) - f[s] + g[s]
    BY <1>6, <2>1, SumChange, CashbackAssumption
  <2>3. inc[p].cab[u] = f[s] - g[s]
    <3>1. PICK m, n \in Int : m = Price(credit[s], boost[s]) /\ n = Price(Row(p, s), Boost(p, s))
      BY PriceInt, RowTypes DEF IInv, TypeOK, RowsTyped
    <3>2. PICK k, back \in Int : k = twiceRefunded[s] /\ back = RefundsAgain(p, s)
      BY CabNat DEF IInv, TypeOK, CreditRow, RefundsAgain
    <3>3. inc[p].cab[u] = IF UserOf(s) = u THEN m - n + back ELSE 0
      BY <1>8, <2>1, <3>1, <3>2 DEF IInv, CabInv, CabOwed
    <3>4. /\ f[s] = IF UserOf(s) = u THEN m - k ELSE 0
          /\ g[s] = IF UserOf(s) = u THEN n - (k + back) ELSE 0
      BY <1>5, <3>1, <3>2
    <3> QED BY <3>1, <3>2, <3>3, <3>4
  <2>4. f[s] \in Int /\ g[s] \in Int /\ InitCab \in Int
    BY CashbackAssumption
  <2>5. cab'[u] = InitCab - SumFunction(g)
    BY <1>0, <1>3, <2>2, <2>3, <2>4
  <2> QED BY <1>2, <1>4, <2>5
<1> QED BY <1>7, <1>8
LEMMA CommitStep ==
  ASSUME IInv, NEW p \in Workers, Commits(p)
  PROVE  IInv'
<1>1. RowInv' /\ TypeOK'
  BY CommitRows
<1>2. /\ ThreadOK(p)' /\ CashOwed(p)' /\ CabOwed(p)' /\ Others(p)
      /\ \A u \in Users : inc'[p].cab[u] = 0
  BY <1>1, Emptied DEF IInv, Commits
<1>3. \A q \in Workers : ThreadOK(q)' /\ CashOwed(q)' /\ CabOwed(q)'
  BY <1>1, <1>2, CommitThreads
<1>4. BalanceIntegrity' /\ CabIntegrity'
  BY <1>1, CommitCash, CommitCab
<1>5. DOMAIN new'[p] = {} /\ held'[p] = {}
  BY ResetFacts DEF IInv, Commits
<1>6. LockInv'
  BY <1>2, <1>5 DEF IInv, LockInv, Others, Same
<1>7. ASSUME NEW q \in Workers, NEW u \in Users PROVE cab'[u] + inc'[q].cab[u] >= 0
  <2>1. cab'[u] >= 0 /\ cab'[u] \in Int
    BY <1>1, <1>4 DEF CabIntegrity, TypeOK
  <2>2. CASE q = p
    BY <1>2, <2>1, <2>2
  <2>3. CASE q # p
    <3>1. inc'[q].cab[u] = inc[q].cab[u]
      BY <1>2, <2>3 DEF Others, Same
    <3>2. cab'[u] = cab[u] + inc[p].cab[u]
      BY DEF Commits
    <3>3. /\ inc[q].cab[u] \in Int /\ inc[p].cab[u] \in Int /\ cab[u] \in Int
          /\ cab[u] + inc[q].cab[u] >= 0
      BY DEF IInv, TypeOK, Increments, CabInv
    <3>4. inc[q].cab[u] < 0 => ~(inc[p].cab[u] < 0)
      BY <2>3 DEF IInv, LockInv
    <3> QED BY <2>1, <3>1, <3>2, <3>3, <3>4
  <2> QED BY <2>2, <2>3
<1> QED BY <1>1, <1>3, <1>4, <1>6, <1>7 DEF IInv, ThreadInv, CashInv, CabInv
-----------------------------------------------------------------------------
(***************************************************************************)
(* The batch and the rest.                                                 *)
(***************************************************************************)
\* A batch statement writes one row that no thread has locked.
LEMMA BatchStep ==
  ASSUME IInv, NEW s \in Lines, Free(Key(s)), NEW row \in CreditRow,
         credit' = [credit EXCEPT ![s] = row], UNCHANGED <<boost, cash, cab, again, pc, job, writes>>,
         row.dist <=> credit[s].dist,
         row.boosted <=> credit[s].boosted, row.status # "none",
         row.status = "confirmed" => row.dist,
         boost[s] = "refused" => row.status \in {"confirmed", "refused"},
         row.amount = credit[s].amount \/ (~credit[s].dist /\ boost[s] = "none")
  PROVE  IInv'
<1> USE DEF writes
<1>1. credit'[s] = row /\ \A x \in Lines : x # s => credit'[x] = credit[x]
  BY DEF IInv, TypeOK
<1>2. TypeOK'
  BY DEF IInv, TypeOK
<1>3. \A q \in Workers : ThreadOK(q)' /\ CashOwed(q)' /\ CabOwed(q)'
  <2> SUFFICES ASSUME NEW q \in Workers PROVE ThreadOK(q)' /\ CashOwed(q)' /\ CabOwed(q)'
    OBVIOUS
  <2>1. Same(q)
    BY DEF Same
  <2>2. \A x \in DOMAIN new[q] : x \in Lines /\ x # s
    BY DEF IInv, TypeOK, LockInv, Free
  <2>3. \A x \in DOMAIN new[q] : credit'[x] = credit[x] /\ boost'[x] = boost[x]
    BY <1>1, <2>2
  <2>4. \A x \in Lines : Exists(x) => Exists(x)'
    BY <1>1 DEF Exists
  <2>5. pc[q] = "resolve" => job[q].line \in Lines
    BY DEF IInv, ThreadInv, ThreadOK, Waiting
  <2>6. row.dist = credit[s].dist
    BY DEF IInv, TypeOK, CreditRow
  <2>7. \A x \in Lines : credit'[x].dist = credit[x].dist
    BY <1>1, <2>6
  <2> QED BY <1>2, <2>1, <2>3, <2>4, <2>5, <2>7, ThreadStays
          DEF IInv, ThreadInv, CashInv, CabInv
<1>4. RowInv'
  BY <1>1 DEF IInv, RowInv, Exists, BoostMatchesCredit, ConfirmedIsPaid
<1>5. LockInv'
  BY DEF IInv, LockInv
<1>6. \A u \in Users, x \in Lines : Due(u)'[x] = Due(u)[x] /\ Spent(u)'[x] = Spent(u)[x]
  <2>1. \A x \in Lines : Worth(credit'[x], boost'[x]) = Worth(credit[x], boost[x])
    BY <1>1 DEF Worth, IInv, RowInv, BoostMatchesCredit
  <2>2. \A x \in Lines : Price(credit'[x], boost'[x]) = Price(credit[x], boost[x])
    BY <1>1 DEF Price, IInv
  <2> QED BY <2>1, <2>2 DEF Due, Spent
<1>7. \A u \in Users : Due(u)' = Due(u) /\ Spent(u)' = Spent(u)
  <2>1. DuesInt /\ DuesInt'
    BY <1>2, DueInt, PTL DEF IInv
  <2> QED BY <1>6, <2>1 DEF DuesInt
<1>8. BalanceIntegrity' /\ CabIntegrity'
  BY <1>7 DEF IInv, CashInv, CabInv, BalanceIntegrity, CabIntegrity
<1> QED BY <1>2, <1>3, <1>4, <1>5, <1>8 DEF IInv, ThreadInv, CashInv, CabInv

LEMMA ReconcileStep ==
  ASSUME IInv, NEW s \in Lines, ReconcileExpired(s) \/ ReconcileMissing(s)
  PROVE  IInv'
<1>1. CASE ReconcileExpired(s)
  <2> DEFINE row == [credit[s] EXCEPT !.status = "refused"]
  <2>1. row \in CreditRow /\ row.status = "refused" /\ row.amount = credit[s].amount
    BY DEF IInv, TypeOK, CreditRow
  <2>2. row.dist = credit[s].dist /\ row.boosted = credit[s].boosted
    BY DEF IInv, TypeOK, CreditRow
  <2>3. credit' = [credit EXCEPT ![s] = row]
    BY <1>1 DEF ReconcileExpired
  <2> HIDE DEF row
  <2> QED BY <1>1, <2>1, <2>2, <2>3, BatchStep DEF ReconcileExpired
<1>2. CASE ReconcileMissing(s)
  <2> DEFINE row == [status |-> "pending", dist |-> FALSE,
                     amount |-> RoundHalfEven(Reward[s]), boosted |-> FALSE]
  <2>1. row \in CreditRow
    BY RoundingNat, CashbackAssumption DEF CreditRow
  <2>2. row.status = "pending" /\ ~row.dist /\ ~row.boosted
    OBVIOUS
  <2>3. credit' = [credit EXCEPT ![s] = row] /\ ~Exists(s) /\ Free(Key(s))
    BY <1>2 DEF ReconcileMissing, Missing, Creditable
  <2> HIDE DEF row
  <2>4. ~credit[s].dist /\ ~credit[s].boosted /\ boost[s] = "none"
    BY <2>3 DEF IInv, RowInv, BoostMatchesCredit
  <2>5. UNCHANGED <<boost, cash, cab, again, pc, job, writes>>
    BY <1>2 DEF ReconcileMissing
  <2> QED BY <2>1, <2>2, <2>3, <2>4, <2>5, BatchStep
<1> QED BY <1>1, <1>2

LEMMA StutterStep ==
  ASSUME IInv, UNCHANGED <<credit, boost, cash, cab, again, pc, job, writes>>
  PROVE  IInv'
<1> USE DEF writes
<1>1. TypeOK' /\ LockInv'
  BY DEF IInv, TypeOK, LockInv
<1>2. RowInv'
  BY DEF IInv, RowInv, BoostMatchesCredit, ConfirmedIsPaid, Exists
<1>3. \A q \in Workers : ThreadOK(q)' /\ CashOwed(q)' /\ CabOwed(q)'
  <2> SUFFICES ASSUME NEW q \in Workers PROVE ThreadOK(q)' /\ CashOwed(q)' /\ CabOwed(q)'
    OBVIOUS
  <2>1. \A s \in Lines : Exists(s) => Exists(s)'
    BY DEF Exists
  <2>2. Same(q)
    BY DEF Same
  <2> QED BY <1>1, <2>1, <2>2, ThreadStays DEF IInv, ThreadInv, CashInv, CabInv
<1>4. BalanceIntegrity' /\ CabIntegrity'
  BY DEF IInv, CashInv, CabInv, BalanceIntegrity, CabIntegrity, Due, Spent
<1>5. \A q \in Workers, u \in Users : cab'[u] + inc'[q].cab[u] >= 0
  BY DEF IInv, CabInv
<1> QED BY <1>1, <1>2, <1>3, <1>4, <1>5 DEF IInv, ThreadInv, CashInv, CabInv

LEMMA NextStep ==
  ASSUME IInv, [Next]_vars
  PROVE  IInv'
<1>1. ASSUME NEW p \in Workers, Request(p) PROVE IInv'
  BY <1>1, DetectBegin, Reads DEF Request
<1>2. ASSUME NEW p \in Workers, Step(p) PROVE IInv'
  BY <1>2, DetectMoves, DetectInsertStep, BalanceStep, BoostMarkStep, BoostDebitStep,
     ResolveMarkStep, BoostRefundStep, CommitsAll, CommitStep, RollbackStep
     DEF Step, DeadlockVictim
<1>3. ASSUME NEW p \in Workers, Crash(p) PROVE IInv'
  BY <1>3, RollbackStep DEF Crash
<1>4. ASSUME NEW s \in Lines, ReconcileExpired(s) \/ ReconcileMissing(s) PROVE IInv'
  BY <1>4, ReconcileStep
<1>5. CASE \/ \E r \in Receipts : ReceiptRead(r)
           \/ \E s \in Lines : BarcodeResolved(s) \/ LineRevised(s) \/ OfferChanged(s) \/ Age(s)
           \/ \E u \in Users : Subscription(u)
           \/ UNCHANGED vars
  <2>1. UNCHANGED <<credit, boost, cash, cab, again, pc, job, writes>>
    BY <1>5 DEF ReceiptRead, BarcodeResolved, LineRevised, OfferChanged, Age, Subscription,
            vars, tables, writes
  <2> QED BY <2>1, StutterStep
<1> QED BY <1>1, <1>2, <1>3, <1>4, <1>5 DEF Next

LEMMA InitIInv == Init => IInv
<1> SUFFICES ASSUME Init PROVE IInv
  OBVIOUS
<1> USE CashbackAssumption
<1>1. /\ NoCredit \in CreditRow /\ NoJob \in JobState /\ NoInc \in Increments
      /\ DOMAIN <<>> = {}
  BY DEF NoCredit, NoJob, NoInc, CreditRow, JobState, Increments
<1>2. TypeOK
  BY <1>1 DEF Init, TypeOK, BoostStatus, Labels
<1>3. /\ \A s \in Lines : credit[s] = NoCredit /\ boost[s] = "none"
      /\ \A p \in Workers : /\ pc[p] = "idle" /\ job[p] = NoJob /\ inc[p] = NoInc
                            /\ held[p] = {} /\ DOMAIN new[p] = {} /\ DOMAIN newBoost[p] = {}
  BY <1>1 DEF Init
<1>4. LockInv /\ RowInv
  BY <1>3 DEF LockInv, RowInv, Exists, BoostMatchesCredit, ConfirmedIsPaid, NoCredit, NoInc
<1>5. ThreadInv
  BY <1>3
     DEF ThreadInv, ThreadOK, Waiting, Detecting, Writing, Boosting, Resolving, NoJob
<1>6. ASSUME NEW f \in [Lines -> Int], \A s \in Lines : f[s] = 0
      PROVE  SumFunction(f) = 0
  BY <1>6, SumZero
<1>7. \A u \in Users : SumFunction(Due(u)) = 0 /\ SumFunction(Spent(u)) = 0
  <2>1. \A u \in Users, s \in Lines : Due(u)[s] = 0 /\ Spent(u)[s] = 0
    BY <1>3 DEF Init, Due, Spent, Worth, Price, NoCredit
  <2> QED BY <1>2, <1>6, <2>1, DueInt DEF DuesInt
<1>8. \A p \in Workers, u \in Users : SumFunction(Change(p, u)) = 0
  <2>1. \A p \in Workers, u \in Users, s \in Lines : Change(p, u)[s] = 0
    BY <1>3 DEF Change, Value, PaysAgain, Row, Boost, Worth, NoCredit
  <2> QED BY <1>2, <1>6, <2>1, ChangeInt DEF ChangesInt
<1>9. CashInv
  BY <1>3, <1>7, <1>8 DEF Init, CashInv, BalanceIntegrity, CashOwed, Unpaid, NoInc
<1>10. CabInv
  BY <1>3, <1>7 DEF Init, CabInv, CabIntegrity, CabOwed, NoInc
<1> QED BY <1>2, <1>4, <1>5, <1>9, <1>10 DEF IInv
-----------------------------------------------------------------------------
\* The invariant that all the theorems come from.
THEOREM Inductive == Spec => []IInv
<1>1. IInv /\ [Next]_vars => IInv'
  BY NextStep
<1> QED BY <1>1, InitIInv, PTL DEF Spec

\* The stored balance is the sum of what the ledger says is due and of what
\* overtaken confirmations paid again, whatever detections, boosts, batch statements,
\* crashes and resolutions interleave (check_cashback_balance_integrity).
THEOREM BalanceIntegrityHolds == Spec => []BalanceIntegrity
<1>1. IInv => BalanceIntegrity
  BY DEF IInv, CashInv
<1> QED BY <1>1, Inductive, PTL

\* CAB is neither made nor lost by boosts and refunds, but for what overtaken
\* refusals gave back again, and never overdrawn (debit_cab, award_cab).
THEOREM CabIntegrityHolds == Spec => []CabIntegrity
<1>1. IInv => CabIntegrity
  BY DEF IInv, CabInv
<1> QED BY <1>1, Inductive, PTL

\* boost_applied, the BOOST row and the CREDIT agree (mark_boost_applied,
\* resolve_cashback).
THEOREM BoostMatchesCreditHolds == Spec => []BoostMatchesCredit
<1>1. IInv => BoostMatchesCredit
  BY DEF IInv, RowInv
<1> QED BY <1>1, Inductive, PTL

\* No CREDIT is confirmed without its money, however many resolutions of it run at
\* once (resolve_cashback).
THEOREM ConfirmedIsPaidHolds == Spec => []ConfirmedIsPaid
<1>1. IInv => ConfirmedIsPaid
  BY DEF IInv, RowInv
<1> QED BY <1>1, Inductive, PTL

LEMMA KeptRow ==
  ASSUME IInv, [Next]_vars, NEW s \in Lines, Exists(s)
  PROVE  /\ credit'[s].amount = credit[s].amount
         /\ credit[s].dist => credit'[s].dist
<1>1. ASSUME NEW p \in Workers, DetectDone(p) \/ Commit(p)
      PROVE  /\ credit'[s].amount = credit[s].amount
             /\ credit[s].dist => credit'[s].dist
  <2>1. Commits(p)
    BY <1>1, CommitsAll
  <2>2. credit'[s] = Row(p, s)
    BY <2>1 DEF Commits
  <2> QED BY <2>1, <2>2, CommittedRow, UntouchedRow DEF IInv, Commits
<1>2. ASSUME NEW x \in Lines, ReconcileExpired(x) \/ ReconcileMissing(x)
      PROVE  /\ credit'[s].amount = credit[s].amount
             /\ credit[s].dist => credit'[s].dist
  BY <1>2 DEF ReconcileExpired, ReconcileMissing, Missing, Creditable, IInv, TypeOK, CreditRow
<1>3. CASE UNCHANGED credit
  BY <1>3
<1>4. ASSUME NEW p \in Workers, Rollback(p) PROVE UNCHANGED credit
  BY <1>4 DEF Rollback, tables
<1>5. ASSUME NEW p \in Workers, Request(p) PROVE UNCHANGED credit
  BY <1>5 DEF Request, ScanDetected, ProcessRetroactive, BoostRead, ResolveRead, tables
<1>6. ASSUME NEW p \in Workers, Step(p), ~(DetectDone(p) \/ Commit(p)) PROVE UNCHANGED credit
  BY <1>4, <1>6
     DEF Step, DetectUser, DetectCheck, DetectInsert, DetectAdvance, BoostMark, BoostDebit,
         CreditBalance, ResolveMark, BoostRefund, DeadlockVictim, tables
<1>7. ASSUME NEW p \in Workers, Crash(p) PROVE UNCHANGED credit
  BY <1>4, <1>7 DEF Crash
<1>8. CASE \/ \E r \in Receipts : ReceiptRead(r)
           \/ \E x \in Lines : BarcodeResolved(x) \/ LineRevised(x) \/ OfferChanged(x) \/ Age(x)
           \/ \E u \in Users : Subscription(u)
           \/ UNCHANGED vars
  BY <1>8 DEF ReceiptRead, BarcodeResolved, LineRevised, OfferChanged, Age, Subscription,
            vars, tables
<1> QED BY <1>1, <1>2, <1>3, <1>5, <1>6, <1>7, <1>8 DEF Next

\* The amount of a CREDIT is written once and a distribution is never undone, at
\* any commit of any thread or batch (insert_cashback_credit and the UPDATEs).
THEOREM CreditIsWrittenOnceHolds == Spec => CreditIsWrittenOnce
<1>1. IInv /\ [Next]_vars
      => [\A s \in Lines : Exists(s) => /\ credit'[s].amount = credit[s].amount
                                        /\ credit[s].dist => credit'[s].dist]_vars
  BY KeptRow
<1> QED BY <1>1, Inductive, PTL DEF Spec, CreditIsWrittenOnce
=============================================================================
