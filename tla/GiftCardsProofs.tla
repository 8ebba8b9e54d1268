-------------------------- MODULE GiftCardsProofs --------------------------
(***************************************************************************)
(* Proofs about GiftCards, for every set of users, orders and workers and  *)
(* every value of the caps, delays and bounds.                             *)
(***************************************************************************)
EXTENDS GiftCards, FiniteSums, TLAPS

Busy == {"reserve", "capLock", "resUser", "resOrder", "defer", "runa",
         "issued", "fail", "refund", "release", "commit"}

\* Which labels a process can be at, and what it has at hand there.
ShapeAt(p, l, c, h, b) ==
  /\ p = Payout => /\ l \in {"idle", "payout"}
                   /\ \A o \in OrderIds : OrderRow(o) \in h => Exists(o)
  /\ p = Reconciler => l \in {"recNext", "refund", "release", "commit"}
  /\ p \in Workers => l \notin {"recNext", "payout"}
  /\ l \in Busy \cup {"queued"} => c \in OrderIds
  /\ l \notin Busy \cup {"queued"} => c = NULL
  /\ l \in Busy \cup {"shopLock", "shopDebit"} => b.row \in OrderRec
  /\ l \in (Busy \ {"commit"}) \cup {"queued"} => Exists(c)
  /\ l = "commit" => Exists(c) \/ (p \in Workers /\ OrderRow(c) \in h)

Shape == \A p \in Procs : ShapeAt(p, pc[p], cur[p], held[p], buf[p])

\* TypeOK in two halves: the tables with the clock, and the processes.
TablesOK ==
  /\ order \in [OrderIds -> OrderRec \cup {NoOrder}]
  /\ balance \in [Users -> Nat] /\ ytd \in [Users -> Nat]
  /\ refunds \in [OrderIds -> Nat] /\ resYear \in [OrderIds -> Nat]
  /\ claims \subseteq Events
  /\ age \in [OrderIds -> 0..2]
  /\ runa \in [OrderIds -> {"none", "processing", "complete", "failed"}]
  /\ todo \in [Batches -> SUBSET OrderIds]
  /\ day \in Nat /\ resetDue \in BOOLEAN /\ crashes \in Nat

ProcsOK ==
  /\ pc \in [Procs -> Labels] /\ cur \in [Procs -> OrderIds \cup {NULL}]
  /\ held \in [Procs -> SUBSET Locks] /\ buf \in [Procs -> BufRec]

TypeInv == TablesOK /\ ProcsOK /\ Shape

\* Every lock has one holder, and the order rows a process has locked are the
\* ones it is working on.
LockExclusion ==
  \A p, q \in Procs : p # q => held[p] \cap held[q] = {}

RowOwner ==
  \A p \in Procs, o \in OrderIds :
    OrderRow(o) \in held[p] =>
      IF p = Payout THEN Pending(o) ELSE cur[p] = o

\* A row being inserted is known to its inserter only.
FreshIsPrivate ==
  \A p, q \in Procs :
    p # q /\ cur[p] \in OrderIds /\ ~Exists(cur[p]) => cur[q] # cur[p]

\* A task past the idempotence gate holds the advisory lock of its order.
GateHeld ==
  \A p \in Workers :
    pc[p] \in Busy /\ Exists(cur[p]) => IssueLock(cur[p]) \in held[p]

LockInv == LockExclusion /\ RowOwner /\ FreshIsPrivate /\ GateHeld
-----------------------------------------------------------------------------
(***************************************************************************)
(* Lemmas about rows, buffers, locks and the calendar.                     *)
(***************************************************************************)
\* The five kinds of lock are distinct, and each names its order or user.
LEMMA LockNames ==
  /\ \A o, x : /\ IssueLock(o) = IssueLock(x) => o = x
               /\ OrderRow(o) = OrderRow(x) => o = x
               /\ CapLock(o) = CapLock(x) => o = x
               /\ CabRow(o) = CabRow(x) => o = x
               /\ UserRow(o) = UserRow(x) => o = x
  /\ \A o, x : /\ IssueLock(o) # OrderRow(x) /\ IssueLock(o) # CapLock(x)
               /\ IssueLock(o) # CabRow(x) /\ IssueLock(o) # UserRow(x)
               /\ OrderRow(o) # CapLock(x) /\ OrderRow(o) # CabRow(x)
               /\ OrderRow(o) # UserRow(x)
  BY DEF IssueLock, OrderRow, CapLock, CabRow, UserRow

\* An UPDATE of one column keeps an order row an order row.
LEMMA RowTypes ==
  ASSUME NEW r \in OrderRec
  PROVE  /\ \A s \in Statuses : [r EXCEPT !.status = s] \in OrderRec
         /\ \A c \in Nat : [r EXCEPT !.cap = c] \in OrderRec
         /\ \A e \in Nat \cup {NoElig} : [r EXCEPT !.elig = e] \in OrderRec
         /\ r.user \in Users /\ r.source \in Sources /\ r.denom \in Nat
         /\ r.status \in Statuses /\ r.cap \in Nat /\ r.created \in Nat
         /\ r.status # "none" /\ r # NoOrder
  BY DEF OrderRec, Statuses, NoOrder

LEMMA BufTypes ==
  /\ NoBuf \in BufRec
  /\ \A b \in BufRec : /\ b.row \in OrderRec \cup {NoOrder} /\ b.bal \in Nat
                       /\ b.ytd \in Nat /\ b.refund \in BOOLEAN
  BY DEF BufRec, NoBuf

\* Each way a statement changes its transaction's buffer.
LEMMA PutRow ==
  ASSUME NEW b \in BufRec, NEW r \in OrderRec
  PROVE  /\ [b EXCEPT !.row = r] \in BufRec /\ [b EXCEPT !.row = r].row = r
         /\ [b EXCEPT !.row = r].refund = b.refund
  BY DEF BufRec

LEMMA PutBal ==
  ASSUME NEW b \in BufRec, NEW n \in Nat
  PROVE  /\ [b EXCEPT !.bal = n] \in BufRec /\ [b EXCEPT !.bal = n].row = b.row
         /\ [b EXCEPT !.bal = n].refund = b.refund
  BY DEF BufRec

LEMMA PutYtd ==
  ASSUME NEW b \in BufRec, NEW n \in Nat
  PROVE  /\ [b EXCEPT !.ytd = n] \in BufRec /\ [b EXCEPT !.ytd = n].row = b.row
         /\ [b EXCEPT !.ytd = n].refund = b.refund
  BY DEF BufRec

LEMMA PutRefund ==
  ASSUME NEW b \in BufRec, NEW n \in Nat
  PROVE  /\ [b EXCEPT !.bal = n, !.refund = TRUE] \in BufRec
         /\ [b EXCEPT !.bal = n, !.refund = TRUE].row = b.row
         /\ [b EXCEPT !.bal = n, !.refund = TRUE].refund
  BY DEF BufRec

LEMMA PutRelease ==
  ASSUME NEW b \in BufRec, NEW n \in Nat, NEW r \in OrderRec
  PROVE  /\ [b EXCEPT !.ytd = n, !.row = r] \in BufRec
         /\ [b EXCEPT !.ytd = n, !.row = r].row = r
         /\ [b EXCEPT !.ytd = n, !.row = r].refund = b.refund
  BY DEF BufRec

LEMMA PutAnswer ==
  ASSUME NEW b \in BufRec, NEW a \in {"processing", "complete", "failed", "error"}
  PROVE  /\ [b EXCEPT !.answer = a] \in BufRec /\ [b EXCEPT !.answer = a].row = b.row
         /\ [b EXCEPT !.answer = a].refund = b.refund
  BY DEF BufRec

LEMMA Calendar ==
  ASSUME NEW d \in Nat
  PROVE  Year(d) \in Nat /\ NextJan1(d) \in Nat
  <1>1. DaysPerYear \in Nat \ {0}
    BY GiftCardsAssumption
  <1>2. d \div DaysPerYear \in Nat
    BY <1>1
  <1>3. ((d \div DaysPerYear) + 1) * DaysPerYear \in Nat
    BY <1>1, <1>2
  <1> QED  BY <1>2, <1>3 DEF Year, NextJan1

LEMMA CabCostNat ==
  ASSUME NEW n \in Nat
  PROVE  CabCost(n) \in Nat
  <1>1. n \div 100 \in Nat
    OBVIOUS
  <1>2. (n \div 100) * Ratio \in Nat
    BY <1>1, GiftCardsAssumption
  <1> QED  BY <1>2 DEF CabCost
-----------------------------------------------------------------------------
\* An existing order is a row of the table.
LEMMA ExistingRow ==
  ASSUME TablesOK, NEW o \in OrderIds, Exists(o)
  PROVE  order[o] \in OrderRec
  BY DEF TablesOK, Exists, NoOrder

LEMMA LockTypes ==
  /\ \A o \in OrderIds : IssueLock(o) \in Locks /\ OrderRow(o) \in Locks
  /\ \A u \in Users : CapLock(u) \in Locks /\ CabRow(u) \in Locks /\ UserRow(u) \in Locks
  BY DEF Locks

\* What a process has at hand, by its label.
LEMMA AtHand ==
  ASSUME TypeInv, NEW p \in Procs
  PROVE  /\ pc[p] \in Labels /\ held[p] \in SUBSET Locks /\ buf[p] \in BufRec
         /\ cur[p] \in OrderIds \cup {NULL}
         /\ pc[p] \in Busy \cup {"queued"} => cur[p] \in OrderIds
         /\ pc[p] \in Busy \cup {"shopLock", "shopDebit"} =>
              buf[p].row \in OrderRec /\ User(p) \in Users
         /\ pc[p] \in (Busy \ {"commit"}) \cup {"queued"} =>
              Exists(cur[p]) /\ order[cur[p]] \in OrderRec
         /\ pc[p] \notin {"idle", "payout"} => p # Payout
         /\ pc[p] \notin {"recNext", "refund", "release", "commit"} => p # Reconciler
  <1>1. /\ pc[p] \in Labels /\ held[p] \in SUBSET Locks /\ buf[p] \in BufRec
        /\ cur[p] \in OrderIds \cup {NULL}
    BY DEF TypeInv, ProcsOK
  <1>2. ShapeAt(p, pc[p], cur[p], held[p], buf[p])
    BY DEF TypeInv, Shape
  <1>3. buf[p].row \in OrderRec => User(p) \in Users
    BY RowTypes DEF User
  <1>4. cur[p] \in OrderIds /\ Exists(cur[p]) => order[cur[p]] \in OrderRec
    BY ExistingRow DEF TypeInv
  <1> QED  BY <1>1, <1>2, <1>3, <1>4 DEF ShapeAt

\* A step of p that moves only p's control, and never removes an order, keeps
\* the shape of every process.
LEMMA LocalShape ==
  ASSUME TypeInv, NEW p \in Procs, ShapeAt(p, pc[p], cur[p], held[p], buf[p])',
         \A o \in OrderIds : Exists(o) => Exists(o)',
         \A q \in Procs \ {p} : /\ pc'[q] = pc[q] /\ cur'[q] = cur[q]
                                /\ held'[q] = held[q] /\ buf'[q] = buf[q]
  PROVE  Shape'
  <1> SUFFICES ASSUME NEW q \in Procs, q # p
               PROVE  ShapeAt(q, pc[q], cur[q], held[q], buf[q])'
    BY DEF Shape
  <1>1. ShapeAt(q, pc[q], cur[q], held[q], buf[q])
    BY DEF TypeInv, Shape
  <1>2. cur[q] \in OrderIds \cup {NULL}
    BY DEF TypeInv, ProcsOK
  <1>3. pc'[q] = pc[q] /\ cur'[q] = cur[q] /\ held'[q] = held[q] /\ buf'[q] = buf[q]
    OBVIOUS
  <1> QED  BY <1>1, <1>2, <1>3 DEF ShapeAt, Busy

\* Most steps leave the tables alone.
LEMMA SameTables ==
  ASSUME TypeInv, UNCHANGED <<tables, clock, runa, crashes>>,
         todo' \in [Batches -> SUBSET OrderIds]
  PROVE  TablesOK' /\ \A o : Exists(o)' <=> Exists(o)
  BY DEF TypeInv, TablesOK, tables, clock, Exists

\* The end of a transaction.
LEMMA DropType ==
  ASSUME TypeInv, NEW p \in Procs, Drop(p), TablesOK',
         \A o \in OrderIds : Exists(o) => Exists(o)'
  PROVE  TypeInv'
  <1>1. ProcsOK'
    BY BufTypes DEF TypeInv, ProcsOK, Drop, Goto, Idle, Labels
  <1>2. pc'[p] = Idle(p) /\ cur'[p] = NULL /\ held'[p] = {}
    BY DEF TypeInv, ProcsOK, Drop, Goto
  <1>3. ShapeAt(p, pc[p], cur[p], held[p], buf[p])'
    BY <1>2, GiftCardsAssumption DEF ShapeAt, Idle, Busy
  <1>4. \A q \in Procs \ {p} : /\ pc'[q] = pc[q] /\ cur'[q] = cur[q]
                               /\ held'[q] = held[q] /\ buf'[q] = buf[q]
    BY DEF TypeInv, ProcsOK, Drop, Goto
  <1> QED  BY <1>1, <1>3, <1>4, LocalShape DEF TypeInv

\* A statement inside p's transaction: same order at hand, maybe more locks,
\* maybe a new version of a row.
LEMMA LocalType ==
  ASSUME TypeInv, NEW p \in Procs, NEW l \in Labels, NEW L \in SUBSET Locks,
         NEW b \in BufRec,
         TablesOK', \A o : Exists(o)' <=> Exists(o), cur' = cur,
         pc' = [pc EXCEPT ![p] = l], buf' = [buf EXCEPT ![p] = b],
         held' = [held EXCEPT ![p] = held[p] \cup L],
         ShapeAt(p, l, cur[p], held[p] \cup L, b)
  PROVE  TypeInv'
  <1>1. ProcsOK'
    BY DEF TypeInv, ProcsOK
  <1>4. pc'[p] = l /\ cur'[p] = cur[p] /\ held'[p] = held[p] \cup L /\ buf'[p] = b
    BY DEF TypeInv, ProcsOK
  <1>5. ShapeAt(p, pc[p], cur[p], held[p], buf[p])'
    BY <1>4 DEF ShapeAt
  <1>6. \A q \in Procs \ {p} : /\ pc'[q] = pc[q] /\ cur'[q] = cur[q]
                               /\ held'[q] = held[q] /\ buf'[q] = buf[q]
    BY DEF TypeInv, ProcsOK
  <1> QED  BY <1>1, <1>5, <1>6, LocalShape DEF TypeInv

\* The same with the locks, or the buffer, left alone.
LEMMA Unchanged ==
  ASSUME TypeInv, NEW p \in Procs
  PROVE  /\ held = [held EXCEPT ![p] = held[p] \cup {}]
         /\ buf = [buf EXCEPT ![p] = buf[p]]
         /\ {} \in SUBSET Locks
         /\ todo \in [Batches -> SUBSET OrderIds]
  BY DEF TypeInv, ProcsOK, TablesOK

\* ... and between two labels of the issuance or of the 24 h batch.
LEMMA BusyType ==
  ASSUME TypeInv, NEW p \in Procs, pc[p] \in (Busy \ {"commit"}) \cup {"queued"},
         NEW l \in Busy, NEW L \in SUBSET Locks, NEW b \in BufRec,
         p = Reconciler => l \in {"refund", "release", "commit"},
         b.row \in OrderRec,
         TablesOK', \A o : Exists(o)' <=> Exists(o), cur' = cur,
         pc' = [pc EXCEPT ![p] = l], buf' = [buf EXCEPT ![p] = b],
         held' = [held EXCEPT ![p] = held[p] \cup L]
  PROVE  TypeInv'
  <1>1. l \in Labels
    BY DEF Busy, Labels
  <1>2. cur[p] \in OrderIds /\ Exists(cur[p]) /\ p # Payout
    BY AtHand DEF Busy
  <1>3. ShapeAt(p, l, cur[p], held[p] \cup L, b)
    BY <1>2 DEF ShapeAt, Busy
  <1> QED  BY <1>1, <1>3, LocalType

\* A step that moves no process.
LEMMA StillType ==
  ASSUME TypeInv, TablesOK', \A o \in OrderIds : Exists(o) => Exists(o)',
         UNCHANGED <<pc, cur, held, buf>>
  PROVE  TypeInv'
  <1>1. ProcsOK'
    BY DEF TypeInv, ProcsOK
  <1>2. ShapeAt(Payout, pc[Payout], cur[Payout], held[Payout], buf[Payout])'
    <2>1. ShapeAt(Payout, pc[Payout], cur[Payout], held[Payout], buf[Payout])
      BY DEF TypeInv, Shape, Procs
    <2> QED  BY <2>1 DEF ShapeAt, Busy
  <1>3. Payout \in Procs
    BY DEF Procs
  <1> QED  BY <1>1, <1>2, <1>3, LocalShape DEF TypeInv

\* An issuance task for an existing order is queued on an idle worker.
LEMMA QueueType ==
  ASSUME TypeInv, NEW p \in Workers, NEW o \in OrderIds, pc[p] = "idle", Exists(o)',
         TablesOK', \A x \in OrderIds : Exists(x) => Exists(x)',
         pc' = [pc EXCEPT ![p] = "queued"], cur' = [cur EXCEPT ![p] = o],
         UNCHANGED <<held, buf>>
  PROVE  TypeInv'
  <1>p. p \in Procs /\ p # Payout /\ p # Reconciler
    BY GiftCardsAssumption DEF Procs
  <1>1. ProcsOK'
    BY DEF TypeInv, ProcsOK, Labels
  <1>2. pc'[p] = "queued" /\ cur'[p] = o
    BY <1>p DEF TypeInv, ProcsOK
  <1>3. ShapeAt(p, pc[p], cur[p], held[p], buf[p])'
    BY <1>p, <1>2 DEF ShapeAt, Busy
  <1>4. \A q \in Procs \ {p} : /\ pc'[q] = pc[q] /\ cur'[q] = cur[q]
                               /\ held'[q] = held[q] /\ buf'[q] = buf[q]
    BY DEF TypeInv, ProcsOK
  <1> QED  BY <1>p, <1>1, <1>3, <1>4, LocalShape DEF TypeInv
-----------------------------------------------------------------------------
(***************************************************************************)
(* Type correctness, one lemma per action.                                 *)
(***************************************************************************)
LEMMA ShopBeginType ==
  ASSUME TypeInv, NEW p \in Workers, NEW u \in Users, NEW denom \in ShopDenoms,
         ShopBegin(p, u, denom)
  PROVE  TypeInv'
  <1> DEFINE r == NewOrder(u, "shop_purchase", NULL, denom, NoElig)
             b == [buf[p] EXCEPT !.row = r]
  <1>p. p \in Procs
    BY DEF Procs
  <1>1. r \in OrderRec
    BY GiftCardsAssumption DEF TypeInv, TablesOK, NewOrder, OrderRec, Sources, Statuses
  <1> HIDE DEF r
  <1>2. b \in BufRec /\ b.row = r
    BY <1>p, <1>1, PutRow, AtHand
  <1>3. /\ pc[p] = "idle" /\ cur' = cur /\ pc' = [pc EXCEPT ![p] = "shopLock"]
        /\ buf' = [buf EXCEPT ![p] = b] /\ held' = [held EXCEPT ![p] = held[p] \cup {}]
    BY <1>p, Unchanged DEF ShopBegin, Goto, r
  <1>4. TablesOK' /\ \A o : Exists(o)' <=> Exists(o)
    BY <1>p, SameTables, Unchanged DEF ShopBegin
  <1>5. ShapeAt(p, "shopLock", cur[p], held[p] \cup {}, b)
    <2>1. ShapeAt(p, pc[p], cur[p], held[p], buf[p])
      BY <1>p DEF TypeInv, Shape
    <2> HIDE DEF b
    <2> QED  BY <2>1, <1>1, <1>2, <1>3, GiftCardsAssumption DEF ShapeAt, Busy
  <1>6. "shopLock" \in Labels
    BY DEF Labels
  <1> HIDE DEF b
  <1> QED  BY <1>p, <1>2, <1>3, <1>4, <1>5, <1>6, LocalType

LEMMA ShopCapsType ==
  ASSUME TypeInv, NEW p \in Procs, ShopCaps(p)
  PROVE  TypeInv'
  <1>1. pc[p] = "shopLock" /\ User(p) \in Users
    BY AtHand DEF ShopCaps
  <1>2. TablesOK' /\ \A o : Exists(o)' <=> Exists(o)
    BY SameTables, Unchanged DEF ShopCaps
  <1>3. CASE Drop(p)
    BY <1>2, <1>3, DropType
  <1>4. CASE Goto(p, "shopDebit") /\ Take(p, {CapLock(User(p))}) /\ UNCHANGED <<cur, buf>>
    <2>1. ShapeAt(p, pc[p], cur[p], held[p], buf[p])
      BY DEF TypeInv, Shape
    <2>2. ShapeAt(p, "shopDebit", cur[p], held[p] \cup {CapLock(User(p))}, buf[p])
      BY <2>1, <1>1 DEF ShapeAt, Busy
    <2>3. "shopDebit" \in Labels /\ {CapLock(User(p))} \in SUBSET Locks
      BY <1>1, LockTypes DEF Labels
    <2>4. buf[p] \in BufRec
      BY AtHand
    <2> QED  BY <1>2, <1>4, <2>2, <2>3, <2>4, LocalType, Unchanged DEF Goto, Take
  <1> QED  BY <1>3, <1>4 DEF ShopCaps

LEMMA IssueStartType ==
  ASSUME TypeInv, NEW p \in Procs, IssueStart(p)
  PROVE  TypeInv'
  <1> DEFINE b == [buf[p] EXCEPT !.row = order[cur[p]]]
  <1>1. /\ pc[p] = "queued" /\ cur[p] \in OrderIds /\ order[cur[p]] \in OrderRec
        /\ buf[p] \in BufRec /\ p # Reconciler
    BY AtHand DEF IssueStart
  <1>2. TablesOK' /\ \A o : Exists(o)' <=> Exists(o)
    BY SameTables, Unchanged DEF IssueStart
  <1>3. CASE Drop(p)
    BY <1>2, <1>3, DropType
  <1>4. CASE /\ Goto(p, "reserve") /\ Take(p, {IssueLock(cur[p])})
             /\ buf' = [buf EXCEPT ![p] = b] /\ UNCHANGED cur
    <2>1. b \in BufRec /\ b.row \in OrderRec
      BY <1>1, PutRow
    <2>2. {IssueLock(cur[p])} \in SUBSET Locks /\ "reserve" \in Busy
      BY <1>1, LockTypes DEF Busy
    <2> HIDE DEF b
    <2> QED  BY <1>1, <1>2, <1>4, <2>1, <2>2, BusyType DEF Goto, Take
  <1> QED  BY <1>3, <1>4 DEF IssueStart

LEMMA ReserveFastType ==
  ASSUME TypeInv, NEW p \in Procs, ReserveFast(p)
  PROVE  TypeInv'
  <1>1. /\ pc[p] = "reserve" /\ buf[p] \in BufRec /\ buf[p].row \in OrderRec
        /\ p # Reconciler /\ pc[p] \in Busy \ {"commit"}
    BY AtHand DEF ReserveFast, Busy
  <1>2. TablesOK' /\ \A o : Exists(o)' <=> Exists(o)
    BY SameTables, Unchanged DEF ReserveFast
  <1>3. \E l \in {"runa", "capLock"} : pc' = [pc EXCEPT ![p] = l]
    BY DEF ReserveFast, Goto
  <1>4. {"runa", "capLock"} \subseteq Busy
    BY DEF Busy
  <1>5. /\ buf' = [buf EXCEPT ![p] = buf[p]] /\ cur' = cur
        /\ held' = [held EXCEPT ![p] = held[p] \cup {}] /\ {} \in SUBSET Locks
    BY Unchanged DEF ReserveFast
  <1> QED  BY <1>1, <1>2, <1>3, <1>4, <1>5, BusyType

LEMMA ReserveDecideType ==
  ASSUME TypeInv, NEW p \in Procs, ReserveDecide(p)
  PROVE  TypeInv'
  <1>1. /\ pc[p] = "capLock" /\ buf[p] \in BufRec /\ buf[p].row \in OrderRec
        /\ p # Reconciler /\ pc[p] \in Busy \ {"commit"} /\ User(p) \in Users
    BY AtHand DEF ReserveDecide, Busy
  <1>2. TablesOK' /\ \A o : Exists(o)' <=> Exists(o)
    BY SameTables, Unchanged DEF ReserveDecide
  <1>3. CapDecision(p) \in Busy
    BY DEF CapDecision, Busy
  <1>4. {CapLock(User(p))} \in SUBSET Locks
    BY <1>1, LockTypes
  <1> QED  BY <1>1, <1>2, <1>3, <1>4, BusyType, Unchanged DEF ReserveDecide, Goto, Take

LEMMA ReserveUserType ==
  ASSUME TypeInv, NEW p \in Procs, ReserveUser(p)
  PROVE  TypeInv'
  <1> DEFINE b == [buf[p] EXCEPT !.ytd = ytd[User(p)] + order[cur[p]].denom]
  <1>1. /\ pc[p] = "resUser" /\ buf[p] \in BufRec /\ buf[p].row \in OrderRec
        /\ p # Reconciler /\ pc[p] \in Busy \ {"commit"} /\ User(p) \in Users
        /\ order[cur[p]] \in OrderRec /\ cur[p] \in OrderIds
    BY AtHand DEF ReserveUser, Busy
  <1>2. TablesOK' /\ \A o : Exists(o)' <=> Exists(o)
    BY <1>1, Calendar DEF ReserveUser, TypeInv, TablesOK, clock, Exists
  <1>3. ytd[User(p)] \in Nat /\ order[cur[p]].denom \in Nat
    BY <1>1, RowTypes DEF TypeInv, TablesOK
  <1>4. b \in BufRec /\ b.row \in OrderRec
    BY <1>1, <1>3, PutYtd
  <1>5. {UserRow(User(p))} \in SUBSET Locks /\ "resOrder" \in Busy
    BY <1>1, LockTypes DEF Busy
  <1>6. /\ cur' = cur /\ pc' = [pc EXCEPT ![p] = "resOrder"]
        /\ buf' = [buf EXCEPT ![p] = b]
        /\ held' = [held EXCEPT ![p] = held[p] \cup {UserRow(User(p))}]
    BY DEF ReserveUser, Goto, Take
  <1> HIDE DEF b
  <1> QED  BY <1>1, <1>2, <1>4, <1>5, <1>6, BusyType

LEMMA ReserveOrderType ==
  ASSUME TypeInv, NEW p \in Procs, ReserveOrder(p)
  PROVE  TypeInv'
  <1> DEFINE b == [buf[p] EXCEPT !.row = ReservedRow(cur[p])]
  <1>1. /\ pc[p] = "resOrder" /\ buf[p] \in BufRec /\ p # Reconciler
        /\ pc[p] \in Busy \ {"commit"} /\ order[cur[p]] \in OrderRec
        /\ cur[p] \in OrderIds
    BY AtHand DEF ReserveOrder, Busy
  <1>2. TablesOK' /\ \A o : Exists(o)' <=> Exists(o)
    BY SameTables, Unchanged DEF ReserveOrder
  <1>3. ReservedRow(cur[p]) \in OrderRec
    BY <1>1, RowTypes DEF ReservedRow
  <1>4. b \in BufRec /\ b.row \in OrderRec
    BY <1>1, <1>3, PutRow
  <1>5. {OrderRow(cur[p])} \in SUBSET Locks /\ "runa" \in Busy
    BY <1>1, LockTypes DEF Busy
  <1>6. /\ cur' = cur /\ pc' = [pc EXCEPT ![p] = "runa"] /\ buf' = [buf EXCEPT ![p] = b]
        /\ held' = [held EXCEPT ![p] = held[p] \cup {OrderRow(cur[p])}]
    BY DEF ReserveOrder, Goto, Take
  <1> HIDE DEF b
  <1> QED  BY <1>1, <1>2, <1>4, <1>5, <1>6, BusyType

LEMMA DeferType ==
  ASSUME TypeInv, NEW p \in Procs, Defer(p)
  PROVE  TypeInv'
  <1> DEFINE r == [order[cur[p]] EXCEPT !.elig = NextJan1(day)]
             b == [buf[p] EXCEPT !.row = r]
  <1>1. /\ pc[p] = "defer" /\ buf[p] \in BufRec /\ p # Reconciler
        /\ pc[p] \in Busy \ {"commit"} /\ order[cur[p]] \in OrderRec
        /\ cur[p] \in OrderIds
    BY AtHand DEF Defer, Busy
  <1>2. TablesOK' /\ \A o : Exists(o)' <=> Exists(o)
    BY SameTables, Unchanged DEF Defer
  <1>3. NextJan1(day) \in Nat
    BY Calendar DEF TypeInv, TablesOK
  <1>4. r \in OrderRec
    BY <1>1, <1>3, RowTypes
  <1>5. b \in BufRec /\ b.row \in OrderRec
    <2> HIDE DEF r
    <2> QED  BY <1>1, <1>4, PutRow
  <1>6. {OrderRow(cur[p])} \in SUBSET Locks /\ "commit" \in Busy
    BY <1>1, LockTypes DEF Busy
  <1>7. /\ cur' = cur /\ pc' = [pc EXCEPT ![p] = "commit"] /\ buf' = [buf EXCEPT ![p] = b]
        /\ held' = [held EXCEPT ![p] = held[p] \cup {OrderRow(cur[p])}]
    BY DEF Defer, Goto, Take
  <1> HIDE DEF b
  <1> QED  BY <1>1, <1>2, <1>5, <1>6, <1>7, BusyType

LEMMA CallRunaType ==
  ASSUME TypeInv, NEW p \in Procs, CallRuna(p)
  PROVE  TypeInv'
  <1>1. /\ pc[p] = "runa" /\ buf[p] \in BufRec /\ p # Reconciler
        /\ pc[p] \in Busy \ {"commit"} /\ cur[p] \in OrderIds
        /\ buf[p].row \in OrderRec
    BY AtHand DEF CallRuna, Busy
  <1>2. runa[cur[p]] \in {"none", "processing", "complete", "failed"}
    BY <1>1 DEF TypeInv, TablesOK
  <1>3. PICK s \in {"none", "processing", "complete", "failed"},
             a \in {"processing", "complete", "failed", "error"},
             l \in {"issued", "commit", "fail"} :
          /\ runa' = [runa EXCEPT ![cur[p]] = s]
          /\ buf' = [buf EXCEPT ![p] = [buf[p] EXCEPT !.answer = a]]
          /\ pc' = [pc EXCEPT ![p] = l]
    BY <1>2 DEF CallRuna, Goto
  <1>4. TablesOK' /\ \A o : Exists(o)' <=> Exists(o)
    BY <1>3 DEF CallRuna, TypeInv, TablesOK, tables, clock, Exists
  <1> DEFINE b == [buf[p] EXCEPT !.answer = a]
  <1>5. b \in BufRec /\ b.row \in OrderRec
    BY <1>1, PutAnswer
  <1>6. l \in Busy
    BY DEF Busy
  <1>7. cur' = cur /\ held' = [held EXCEPT ![p] = held[p] \cup {}] /\ {} \in SUBSET Locks
    BY Unchanged DEF CallRuna
  <1>8. buf' = [buf EXCEPT ![p] = b] /\ pc' = [pc EXCEPT ![p] = l]
    BY <1>3
  <1> HIDE DEF b
  <1> QED  BY <1>1, <1>4, <1>5, <1>6, <1>7, <1>8, BusyType

\* The row a guarded UPDATE sees is a row.
LEMMA OwnRow ==
  ASSUME TypeInv, NEW p \in Procs, pc[p] \in Busy \ {"commit"}
  PROVE  Own(p) \in OrderRec
  BY AtHand DEF Own, Busy

LEMMA OrderIssuedType ==
  ASSUME TypeInv, NEW p \in Procs, OrderIssued(p)
  PROVE  TypeInv'
  <1> DEFINE r == [Own(p) EXCEPT !.status = "issued"]
             b == [buf[p] EXCEPT !.row = r]
  <1>1. /\ pc[p] = "issued" /\ buf[p] \in BufRec /\ p # Reconciler
        /\ pc[p] \in Busy \ {"commit"} /\ cur[p] \in OrderIds
        /\ buf[p].row \in OrderRec
    BY AtHand DEF OrderIssued, Busy
  <1>2. TablesOK' /\ \A o : Exists(o)' <=> Exists(o)
    BY SameTables, Unchanged DEF OrderIssued
  <1>3. r \in OrderRec
    BY <1>1, OwnRow, RowTypes DEF Statuses
  <1>4. b \in BufRec /\ b.row \in OrderRec
    <2> HIDE DEF r
    <2> QED  BY <1>1, <1>3, PutRow
  <1>5. {OrderRow(cur[p])} \in SUBSET Locks /\ "commit" \in Busy
    BY <1>1, LockTypes DEF Busy
  <1>6. cur' = cur /\ pc' = [pc EXCEPT ![p] = "commit"]
    BY DEF OrderIssued, Goto
  <1>7. CASE StillPending(p)
    <2>1. /\ buf' = [buf EXCEPT ![p] = b]
          /\ held' = [held EXCEPT ![p] = held[p] \cup {OrderRow(cur[p])}]
      BY <1>7 DEF OrderIssued, Take
    <2> HIDE DEF b
    <2> QED  BY <1>1, <1>2, <1>4, <1>5, <1>6, <2>1, BusyType
  <1>8. CASE ~StillPending(p)
    <2>1. /\ buf' = [buf EXCEPT ![p] = buf[p]] /\ {} \in SUBSET Locks
          /\ held' = [held EXCEPT ![p] = held[p] \cup {}]
      BY <1>8, Unchanged DEF OrderIssued
    <2> QED  BY <1>1, <1>2, <1>5, <1>6, <2>1, BusyType
  <1> QED  BY <1>7, <1>8

LEMMA OrderFailedType ==
  ASSUME TypeInv, NEW p \in Procs, OrderFailed(p)
  PROVE  TypeInv'
  <1> DEFINE r == [Own(p) EXCEPT !.status = "failed"]
             b == [buf[p] EXCEPT !.row = r]
  <1>1. /\ pc[p] = "fail" /\ buf[p] \in BufRec /\ p # Reconciler
        /\ pc[p] \in Busy \ {"commit"} /\ cur[p] \in OrderIds
        /\ buf[p].row \in OrderRec
    BY AtHand DEF OrderFailed, Busy
  <1>2. TablesOK' /\ \A o : Exists(o)' <=> Exists(o)
    BY SameTables, Unchanged DEF OrderFailed
  <1>3. r \in OrderRec
    BY <1>1, OwnRow, RowTypes DEF Statuses
  <1>4. b \in BufRec /\ b.row \in OrderRec
    <2> HIDE DEF r
    <2> QED  BY <1>1, <1>3, PutRow
  <1>5. {OrderRow(cur[p])} \in SUBSET Locks /\ {"refund", "release", "commit"} \subseteq Busy
    BY <1>1, LockTypes DEF Busy
  <1>6. cur' = cur
    BY DEF OrderFailed
  <1>7. CASE StillPending(p)
    <2>1. PICK l \in {"refund", "release"} : pc' = [pc EXCEPT ![p] = l]
      BY <1>7 DEF OrderFailed, Goto
    <2>2. /\ buf' = [buf EXCEPT ![p] = b]
          /\ held' = [held EXCEPT ![p] = held[p] \cup {OrderRow(cur[p])}]
      BY <1>7 DEF OrderFailed, Take
    <2> HIDE DEF b
    <2> QED  BY <1>1, <1>2, <1>4, <1>5, <1>6, <2>1, <2>2, BusyType
  <1>8. CASE ~StillPending(p)
    <2>1. /\ buf' = [buf EXCEPT ![p] = buf[p]] /\ {} \in SUBSET Locks
          /\ held' = [held EXCEPT ![p] = held[p] \cup {}]
          /\ pc' = [pc EXCEPT ![p] = "commit"]
      BY <1>8, Unchanged DEF OrderFailed, Goto
    <2> QED  BY <1>1, <1>2, <1>5, <1>6, <2>1, BusyType
  <1> QED  BY <1>7, <1>8

LEMMA RefundCabType ==
  ASSUME TypeInv, NEW p \in Procs, RefundCab(p)
  PROVE  TypeInv'
  <1> DEFINE n == balance[User(p)] + CabCost(buf[p].row.denom)
             b == [buf[p] EXCEPT !.bal = n, !.refund = TRUE]
  <1>1. /\ pc[p] = "refund" /\ buf[p] \in BufRec /\ User(p) \in Users
        /\ pc[p] \in Busy \ {"commit"} /\ buf[p].row \in OrderRec
    BY AtHand DEF RefundCab, Busy
  <1>2. TablesOK' /\ \A o : Exists(o)' <=> Exists(o)
    BY SameTables, Unchanged DEF RefundCab
  <1>3. n \in Nat
    <2>1. balance[User(p)] \in Nat /\ CabCost(buf[p].row.denom) \in Nat
      BY <1>1, RowTypes, CabCostNat DEF TypeInv, TablesOK
    <2> QED  BY <2>1
  <1>4. b \in BufRec /\ b.row \in OrderRec
    <2> HIDE DEF n
    <2> QED  BY <1>1, <1>3, PutRefund
  <1>5. {CabRow(User(p))} \in SUBSET Locks /\ "release" \in Busy
    BY <1>1, LockTypes DEF Busy
  <1>6. /\ cur' = cur /\ pc' = [pc EXCEPT ![p] = "release"] /\ buf' = [buf EXCEPT ![p] = b]
        /\ held' = [held EXCEPT ![p] = held[p] \cup {CabRow(User(p))}]
    BY DEF RefundCab, Goto, Take
  <1> HIDE DEF b
  <1> QED  BY <1>1, <1>2, <1>4, <1>5, <1>6, BusyType

LEMMA ReleaseCapType ==
  ASSUME TypeInv, NEW p \in Procs, ReleaseCap(p)
  PROVE  TypeInv'
  <1> DEFINE seen == IF UserRow(User(p)) \in held[p] THEN buf[p].ytd ELSE ytd[User(p)]
             n == Floor0(seen - buf[p].row.cap)
             r == [buf[p].row EXCEPT !.cap = 0]
             b == [buf[p] EXCEPT !.ytd = n, !.row = r]
  <1>1. /\ pc[p] = "release" /\ buf[p] \in BufRec /\ User(p) \in Users
        /\ pc[p] \in Busy \ {"commit"} /\ buf[p].row \in OrderRec
    BY AtHand DEF ReleaseCap, Busy
  <1>2. TablesOK' /\ \A o : Exists(o)' <=> Exists(o)
    BY SameTables, Unchanged DEF ReleaseCap
  <1>3. n \in Nat
    <2>1. seen \in Nat /\ buf[p].row.cap \in Nat
      BY <1>1, RowTypes, BufTypes DEF TypeInv, TablesOK
    <2> QED  BY <2>1 DEF Floor0
  <1>4. r \in OrderRec
    BY <1>1, RowTypes
  <1>5. b \in BufRec /\ b.row \in OrderRec
    <2> HIDE DEF n, r
    <2> QED  BY <1>1, <1>3, <1>4, PutRelease
  <1>6. {UserRow(User(p))} \in SUBSET Locks /\ "commit" \in Busy
    BY <1>1, LockTypes DEF Busy
  <1>7. cur' = cur /\ pc' = [pc EXCEPT ![p] = "commit"]
    BY DEF ReleaseCap, Goto
  <1>8. CASE buf[p].row.cap > 0
    <2>1. /\ buf' = [buf EXCEPT ![p] = b]
          /\ held' = [held EXCEPT ![p] = held[p] \cup {UserRow(User(p))}]
      BY <1>8 DEF ReleaseCap, Take
    <2> HIDE DEF b
    <2> QED  BY <1>1, <1>2, <1>5, <1>6, <1>7, <2>1, BusyType
  <1>9. CASE ~(buf[p].row.cap > 0)
    <2>1. /\ buf' = [buf EXCEPT ![p] = buf[p]] /\ {} \in SUBSET Locks
          /\ held' = [held EXCEPT ![p] = held[p] \cup {}]
      BY <1>9, Unchanged DEF ReleaseCap
    <2> QED  BY <1>1, <1>2, <1>6, <1>7, <2>1, BusyType
  <1> QED  BY <1>8, <1>9

LEMMA ShopDebitType ==
  ASSUME TypeInv, NEW p \in Procs, ShopDebit(p)
  PROVE  TypeInv'
  <1> DEFINE n == balance[User(p)] - CabCost(buf[p].row.denom)
             b == [buf[p] EXCEPT !.bal = n]
  <1>1. /\ pc[p] = "shopDebit" /\ buf[p] \in BufRec /\ User(p) \in Users
        /\ buf[p].row \in OrderRec /\ p \in Workers /\ p # Payout /\ p # Reconciler
    BY AtHand DEF ShopDebit, Procs
  <1>2. TablesOK' /\ \A o : Exists(o)' <=> Exists(o)
    BY SameTables, Unchanged DEF ShopDebit
  <1>3. CASE Drop(p)
    BY <1>2, <1>3, DropType
  <1>4. CASE /\ balance[User(p)] >= CabCost(buf[p].row.denom)
             /\ \E o \in Unused :
                  /\ Goto(p, "commit") /\ cur' = [cur EXCEPT ![p] = o]
                  /\ Take(p, {CabRow(User(p)), OrderRow(o)})
                  /\ buf' = [buf EXCEPT ![p] = b]
    <2>1. n \in Nat
      <3>1. balance[User(p)] \in Nat /\ CabCost(buf[p].row.denom) \in Nat
        BY <1>1, RowTypes, CabCostNat DEF TypeInv, TablesOK
      <3> QED  BY <1>4, <3>1
    <2>2. b \in BufRec /\ b.row = buf[p].row
      <3> HIDE DEF n
      <3> QED  BY <1>1, <2>1, PutBal
    <2> HIDE DEF b
    <2>3. PICK o \in Unused : /\ pc' = [pc EXCEPT ![p] = "commit"]
                              /\ cur' = [cur EXCEPT ![p] = o]
                              /\ held' = [held EXCEPT ![p] = held[p] \cup {CabRow(User(p)), OrderRow(o)}]
                              /\ buf' = [buf EXCEPT ![p] = b]
      BY <1>4 DEF Goto, Take
    <2>4. o \in OrderIds
      BY DEF Unused
    <2>5. {CabRow(User(p)), OrderRow(o)} \subseteq Locks
      BY <1>1, <2>4, LockTypes
    <2>6. ProcsOK'
      BY <2>2, <2>3, <2>4, <2>5 DEF TypeInv, ProcsOK, Labels
    <2>7. pc'[p] = "commit" /\ cur'[p] = o /\ OrderRow(o) \in held'[p] /\ buf'[p] = b
      BY <2>3 DEF TypeInv, ProcsOK
    <2>8. ShapeAt(p, pc[p], cur[p], held[p], buf[p])'
      BY <1>1, <2>2, <2>4, <2>7 DEF ShapeAt, Busy
    <2>9. \A q \in Procs \ {p} : /\ pc'[q] = pc[q] /\ cur'[q] = cur[q]
                                 /\ held'[q] = held[q] /\ buf'[q] = buf[q]
      BY <2>3 DEF TypeInv, ProcsOK
    <2> QED  BY <1>2, <2>6, <2>8, <2>9, LocalShape DEF TypeInv
  <1> QED  BY <1>3, <1>4 DEF ShopDebit

\* The earned-card events insert well-formed rows.
LEMMA EventRow ==
  ASSUME TypeInv, NEW e \in Events, NEW elig \in Nat \cup {NoElig}
  PROVE  NewOrder(e.user, e.source, e.ref, EarnedDenom, elig) \in OrderRec
  BY GiftCardsAssumption DEF TypeInv, TablesOK, NewOrder, OrderRec, Sources, Statuses

\* insert_gift_card_order keeps the table a table and removes nothing.
LEMMA InsertType ==
  ASSUME TypeInv, NEW o \in OrderIds, NEW r \in OrderRec, Insert(o, r)
  PROVE  /\ order' \in [OrderIds -> OrderRec \cup {NoOrder}]
         /\ \A x \in OrderIds : Exists(x) => Exists(x)'
         /\ Exists(o)'
  BY RowTypes DEF TypeInv, TablesOK, Insert, Exists

LEMMA EarnCardType ==
  ASSUME TypeInv, NEW p \in Workers, NEW e \in Events, EarnCard(p, e)
  PROVE  TypeInv'
  <1> DEFINE r == NewOrder(e.user, e.source, e.ref, EarnedDenom, NoElig)
  <1>1. r \in OrderRec
    BY EventRow
  <1> HIDE DEF r
  <1>2. PICK o \in InsertedId(e) : Insert(o, r) /\ cur' = [cur EXCEPT ![p] = o]
    BY DEF EarnCard, r
  <1>3. o \in OrderIds
    BY DEF InsertedId, Unused
  <1>4. /\ order' \in [OrderIds -> OrderRec \cup {NoOrder}]
        /\ \A x \in OrderIds : Exists(x) => Exists(x)'
        /\ Exists(o)'
    BY <1>1, <1>2, <1>3, InsertType
  <1>5. TablesOK'
    BY <1>4 DEF EarnCard, TypeInv, TablesOK, clock
  <1>6. /\ pc[p] = "idle" /\ pc' = [pc EXCEPT ![p] = "queued"] /\ UNCHANGED <<held, buf>>
    BY DEF EarnCard, Goto
  <1> QED  BY <1>2, <1>3, <1>4, <1>5, <1>6, QueueType

LEMMA EarnReferralType ==
  ASSUME TypeInv, NEW e \in Events, EarnReferral(e)
  PROVE  TypeInv'
  <1> DEFINE r == NewOrder(e.user, e.source, e.ref, EarnedDenom, day + ReferralDelay)
  <1>1. r \in OrderRec
    <2>1. day + ReferralDelay \in Nat
      BY GiftCardsAssumption DEF TypeInv, TablesOK
    <2> QED  BY <2>1, EventRow
  <1> HIDE DEF r
  <1>2. PICK o \in InsertedId(e) : Insert(o, r)
    BY DEF EarnReferral, r
  <1>3. o \in OrderIds
    BY DEF InsertedId, Unused
  <1>4. /\ order' \in [OrderIds -> OrderRec \cup {NoOrder}]
        /\ \A x \in OrderIds : Exists(x) => Exists(x)'
    BY <1>1, <1>2, <1>3, InsertType
  <1>5. TablesOK'
    BY <1>4 DEF EarnReferral, TypeInv, TablesOK, clock
  <1> QED  BY <1>4, <1>5, StillType DEF EarnReferral

LEMMA CommitType ==
  ASSUME TypeInv, NEW p \in Procs, Commit(p)
  PROVE  TypeInv'
  <1>1. /\ pc[p] = "commit" /\ buf[p] \in BufRec /\ User(p) \in Users
        /\ buf[p].row \in OrderRec /\ cur[p] \in OrderIds /\ p # Payout
    BY AtHand DEF Commit, Busy
  <1>2. buf[p].bal \in Nat /\ buf[p].ytd \in Nat
    BY <1>1, BufTypes
  <1>3. TablesOK'
    BY <1>1, <1>2 DEF Commit, TypeInv, TablesOK, clock
  <1>4. \A o \in OrderIds : Exists(o) => Exists(o)'
    BY <1>1, RowTypes DEF Commit, Exists, TypeInv, TablesOK
  <1>5. CASE Exists(cur[p])
    <2>1. Drop(p)
      BY <1>5 DEF Commit
    <2> QED  BY <1>3, <1>4, <2>1, DropType
  <1>6. CASE ~Exists(cur[p])
    <2>1. ShapeAt(p, pc[p], cur[p], held[p], buf[p])
      BY DEF TypeInv, Shape
    <2>2. OrderRow(cur[p]) \in held[p] /\ p \in Workers
      BY <1>1, <1>6, <2>1 DEF ShapeAt
    <2>3. Exists(cur[p])'
      BY <1>1, <1>6, <2>2, RowTypes DEF Commit, Exists, TypeInv, TablesOK
    <2>4. /\ pc' = [pc EXCEPT ![p] = "queued"] /\ cur' = cur
          /\ held' = [held EXCEPT ![p] = {}] /\ buf' = [buf EXCEPT ![p] = NoBuf]
      BY <1>6 DEF Commit, Goto
    <2>5. ProcsOK'
      BY <2>4, BufTypes DEF TypeInv, ProcsOK, Labels
    <2>6. pc'[p] = "queued" /\ cur'[p] = cur[p]
      BY <2>4 DEF TypeInv, ProcsOK
    <2>7. ShapeAt(p, pc[p], cur[p], held[p], buf[p])'
      BY <1>1, <2>2, <2>3, <2>4, <2>6, GiftCardsAssumption DEF ShapeAt, Busy, Exists
    <2>8. \A q \in Procs \ {p} : /\ pc'[q] = pc[q] /\ cur'[q] = cur[q]
                                 /\ held'[q] = held[q] /\ buf'[q] = buf[q]
      BY <2>4 DEF TypeInv, ProcsOK
    <2> QED  BY <1>3, <1>4, <2>5, <2>7, <2>8, LocalShape DEF TypeInv
  <1> QED  BY <1>5, <1>6

LEMMA ReconcileSelectType ==
  ASSUME TypeInv, ReconcileSelect
  PROVE  TypeInv'
  <1>1. todo' \in [Batches -> SUBSET OrderIds]
    BY DEF ReconcileSelect, TypeInv, TablesOK, StuckShopOrders
  <1>2. TablesOK' /\ \A o : Exists(o)' <=> Exists(o)
    BY <1>1, SameTables DEF ReconcileSelect
  <1> QED  BY <1>2, StillType DEF ReconcileSelect

LEMMA ReconcileOneType ==
  ASSUME TypeInv, NEW o \in OrderIds, ReconcileOne(o)
  PROVE  TypeInv'
  <1> DEFINE p == Reconciler
             r == [order[o] EXCEPT !.status = "failed"]
             b == [buf[p] EXCEPT !.row = r]
  <1>1. p \in Procs /\ p # Payout /\ p \notin Workers /\ pc[p] = "recNext" /\ buf[p] \in BufRec
    BY AtHand, GiftCardsAssumption DEF ReconcileOne, Procs
  <1>2. todo' \in [Batches -> SUBSET OrderIds]
    BY DEF ReconcileOne, TypeInv, TablesOK
  <1>3. TablesOK' /\ \A x : Exists(x)' <=> Exists(x)
    BY <1>2, SameTables DEF ReconcileOne
  <1>4. CASE Pending(o)
    <2>1. Exists(o) /\ order[o] \in OrderRec
      BY <1>4, ExistingRow DEF Exists, Pending, TypeInv
    <2>2. r \in OrderRec
      BY <2>1, RowTypes DEF Statuses
    <2>3. b \in BufRec /\ b.row \in OrderRec
      <3> HIDE DEF r
      <3> QED  BY <1>1, <2>2, PutRow
    <2>4. /\ pc' = [pc EXCEPT ![p] = "refund"] /\ cur' = [cur EXCEPT ![p] = o]
          /\ held' = [held EXCEPT ![p] = held[p] \cup {OrderRow(o)}]
          /\ buf' = [buf EXCEPT ![p] = b]
      BY <1>4 DEF ReconcileOne, Goto, Take
    <2> HIDE DEF b, p
    <2>5. ProcsOK'
      BY <1>1, <2>3, <2>4, LockTypes DEF TypeInv, ProcsOK, Labels
    <2>6. pc'[p] = "refund" /\ cur'[p] = o /\ buf'[p] = b
      BY <1>1, <2>4 DEF TypeInv, ProcsOK
    <2>7. ShapeAt(p, pc[p], cur[p], held[p], buf[p])'
      BY <1>1, <1>3, <2>1, <2>3, <2>6 DEF ShapeAt, Busy
    <2>8. \A q \in Procs \ {p} : /\ pc'[q] = pc[q] /\ cur'[q] = cur[q]
                                 /\ held'[q] = held[q] /\ buf'[q] = buf[q]
      BY <2>4 DEF TypeInv, ProcsOK
    <2> QED  BY <1>1, <1>3, <2>5, <2>7, <2>8, LocalShape DEF TypeInv
  <1>5. CASE ~Pending(o)
    BY <1>3, <1>5, StillType DEF ReconcileOne
  <1> QED  BY <1>4, <1>5

LEMMA ReissueType ==
  ASSUME TypeInv, NEW o \in OrderIds, Reissue(o)
  PROVE  TypeInv'
  <1>1. TablesOK' /\ \A x : Exists(x)' <=> Exists(x)
    BY SameTables DEF Reissue, TypeInv, TablesOK
  <1>2. Exists(o)'
    BY <1>1 DEF Reissue, Reissuable, Pending, Exists
  <1>3. PICK p \in Workers : /\ pc[p] = "idle" /\ pc' = [pc EXCEPT ![p] = "queued"]
                            /\ cur' = [cur EXCEPT ![p] = o]
    BY DEF Reissue, Goto
  <1>4. UNCHANGED <<held, buf>>
    BY DEF Reissue
  <1> QED  BY <1>1, <1>2, <1>3, <1>4, QueueType

LEMMA PayoutSelectType ==
  ASSUME TypeInv, PayoutSelect
  PROVE  TypeInv'
  <1> DEFINE p == Payout
  <1>1. todo' \in [Batches -> SUBSET OrderIds]
    BY DEF PayoutSelect, TypeInv, TablesOK, EligibleReferrals
  <1>2. TablesOK' /\ \A o : Exists(o)' <=> Exists(o)
    BY <1>1, SameTables DEF PayoutSelect
  <1>3. p \in Procs /\ p # Reconciler /\ p \notin Workers /\ buf[p] \in BufRec
    BY AtHand, GiftCardsAssumption DEF Procs
  <1>4. /\ pc[p] = "idle" /\ cur' = cur /\ pc' = [pc EXCEPT ![p] = "payout"]
        /\ buf' = [buf EXCEPT ![p] = buf[p]] /\ {} \in SUBSET Locks
        /\ held' = [held EXCEPT ![p] = held[p] \cup {}]
    BY <1>3, Unchanged DEF PayoutSelect, Goto
  <1>5. ShapeAt(p, "payout", cur[p], held[p] \cup {}, buf[p])
    <2>1. ShapeAt(p, pc[p], cur[p], held[p], buf[p])
      BY <1>3 DEF TypeInv, Shape
    <2> HIDE DEF p
    <2> QED  BY <2>1, <1>3, <1>4 DEF ShapeAt, Busy
  <1>6. "payout" \in Labels
    BY DEF Labels
  <1> HIDE DEF p
  <1> QED  BY <1>2, <1>3, <1>4, <1>5, <1>6, LocalType

LEMMA PayoutChurnType ==
  ASSUME TypeInv, NEW o \in OrderIds, PayoutChurn(o)
  PROVE  TypeInv'
  <1>1. todo' \in [Batches -> SUBSET OrderIds]
    BY DEF PayoutChurn, TypeInv, TablesOK
  <1>2. TablesOK' /\ \A x : Exists(x)' <=> Exists(x)
    BY <1>1, SameTables DEF PayoutChurn
  <1>3. Payout \in Procs /\ Payout # Reconciler /\ Payout \notin Workers
    BY GiftCardsAssumption DEF Procs
  <1>4. ProcsOK'
    BY <1>3, LockTypes DEF PayoutChurn, TypeInv, ProcsOK
  <1>5. ShapeAt(Payout, pc[Payout], cur[Payout], held[Payout], buf[Payout])'
    <2>1. ShapeAt(Payout, pc[Payout], cur[Payout], held[Payout], buf[Payout])
      BY <1>3 DEF TypeInv, Shape
    <2>2. pc'[Payout] = pc[Payout] /\ cur'[Payout] = cur[Payout] /\ buf'[Payout] = buf[Payout]
      BY DEF PayoutChurn
    <2>3. \A x \in OrderIds : OrderRow(x) \in held'[Payout] =>
                             OrderRow(x) \in held[Payout] \/ (x = o /\ Exists(o))
      BY <1>3, LockNames DEF PayoutChurn, TypeInv, ProcsOK, Pending, Exists
    <2>4. \A x \in OrderIds : OrderRow(x) \in held'[Payout] => Exists(x)'
      BY <1>2, <2>1, <2>3 DEF ShapeAt
    <2>5. pc[Payout] = "payout"
      BY DEF PayoutChurn
    <2> QED  BY <2>1, <2>2, <2>4, <2>5, <1>3 DEF ShapeAt, Busy
  <1>6. \A q \in Procs \ {Payout} : /\ pc'[q] = pc[q] /\ cur'[q] = cur[q]
                                    /\ held'[q] = held[q] /\ buf'[q] = buf[q]
    BY DEF PayoutChurn, TypeInv, ProcsOK
  <1> QED  BY <1>2, <1>3, <1>4, <1>5, <1>6, LocalShape DEF TypeInv

LEMMA PayoutNotifyType ==
  ASSUME TypeInv, NEW o \in OrderIds, PayoutNotify(o) \/ PayoutNotifyFails(o)
  PROVE  TypeInv'
  <1>1. todo' \in [Batches -> SUBSET OrderIds]
    BY DEF PayoutNotify, PayoutNotifyFails, TypeInv, TablesOK
  <1>2. TablesOK' /\ \A x : Exists(x)' <=> Exists(x)
    BY <1>1, SameTables DEF PayoutNotify, PayoutNotifyFails
  <1>3. CASE PayoutNotify(o)
    <2>1. Exists(o)' /\ UNCHANGED <<held, buf>>
      BY <1>2, <1>3 DEF PayoutNotify, Pending, Exists
    <2>2. PICK p \in Workers : /\ pc[p] = "idle" /\ pc' = [pc EXCEPT ![p] = "queued"]
                              /\ cur' = [cur EXCEPT ![p] = o]
      BY <1>3 DEF PayoutNotify, Goto
    <2> QED  BY <1>2, <2>1, <2>2, QueueType
  <1>4. CASE PayoutNotifyFails(o)
    BY <1>2, <1>4, StillType DEF PayoutNotifyFails
  <1> QED  BY <1>3, <1>4

LEMMA PayoutCommitType ==
  ASSUME TypeInv, PayoutCommit
  PROVE  TypeInv'
  <1>1. \A o \in OrderIds : /\ order'[o] \in OrderRec \cup {NoOrder}
                            /\ Exists(o) => Exists(o)'
    <2>1. \A o \in OrderIds : OrderRow(o) \in held[Payout] => Exists(o)
      BY DEF TypeInv, Shape, ShapeAt, Procs
    <2> SUFFICES ASSUME NEW o \in OrderIds
                 PROVE  /\ order'[o] \in OrderRec \cup {NoOrder}
                        /\ Exists(o) => Exists(o)'
      OBVIOUS
    <2>2. CASE OrderRow(o) \in held[Payout]
      <3>1. order[o] \in OrderRec
        BY <2>1, <2>2, ExistingRow DEF TypeInv
      <3>2. order'[o] = [order[o] EXCEPT !.status = "churned"]
        BY <2>2 DEF PayoutCommit
      <3>3. order'[o] \in OrderRec
        BY <3>1, <3>2, RowTypes DEF Statuses
      <3> QED  BY <3>3, RowTypes DEF Exists
    <2>3. CASE OrderRow(o) \notin held[Payout]
      BY <2>3 DEF PayoutCommit, Exists, TypeInv, TablesOK
    <2> QED  BY <2>2, <2>3
  <1>2. order' \in [OrderIds -> OrderRec \cup {NoOrder}]
    BY <1>1 DEF PayoutCommit
  <1>3. TablesOK'
    BY <1>2 DEF PayoutCommit, TypeInv, TablesOK, clock
  <1>4. Payout \in Procs /\ Drop(Payout)
    BY DEF Procs, PayoutCommit
  <1> QED  BY <1>1, <1>3, <1>4, DropType

LEMMA CrashType ==
  ASSUME TypeInv, NEW p \in Procs, Crash(p) \/ DeadlockVictim(p)
  PROVE  TypeInv'
  <1>1. TablesOK' /\ \A o : Exists(o)' <=> Exists(o)
    <2>1. todo' \in [Batches -> SUBSET OrderIds] /\ crashes' \in Nat
      BY DEF Crash, DeadlockVictim, TypeInv, TablesOK
    <2>2. UNCHANGED <<tables, clock, runa>>
      BY DEF Crash, DeadlockVictim
    <2> QED  BY <2>1, <2>2 DEF TypeInv, TablesOK, tables, clock, Exists
  <1>2. Drop(p)
    BY DEF Crash, DeadlockVictim
  <1> QED  BY <1>1, <1>2, DropType

LEMMA EnvironmentType ==
  ASSUME TypeInv,
         \/ \E o \in OrderIds : RunaResolve(o) \/ Age(o)
         \/ AnnualReset \/ NextDay
  PROVE  TypeInv'
  <1>1. UNCHANGED <<order, pc, cur, held, buf>>
    BY DEF RunaResolve, Age, AnnualReset, NextDay, tables, clock
  <1>2. \A o \in OrderIds : Exists(o) => Exists(o)'
    BY <1>1 DEF Exists
  <1>3. TablesOK'
    <2>1. ASSUME NEW o \in OrderIds, RunaResolve(o) PROVE TablesOK'
      BY <2>1 DEF RunaResolve, TypeInv, TablesOK, tables, clock
    <2>2. ASSUME NEW o \in OrderIds, Age(o) PROVE TablesOK'
      BY <2>2 DEF Age, TypeInv, TablesOK, tables
    <2>3. CASE AnnualReset
      BY <2>3 DEF AnnualReset, TypeInv, TablesOK
    <2>4. CASE NextDay
      BY <2>4 DEF NextDay, TypeInv, TablesOK, tables, IsJanuary
    <2> QED  BY <2>1, <2>2, <2>3, <2>4
  <1> QED  BY <1>1, <1>2, <1>3, StillType

LEMMA StutterType ==
  ASSUME TypeInv, UNCHANGED vars
  PROVE  TypeInv'
  <1>1. TablesOK' /\ \A o \in OrderIds : Exists(o) => Exists(o)'
    BY DEF vars, TypeInv, TablesOK, Exists
  <1> QED  BY <1>1, StillType DEF vars

LEMMA TypeInit == Init => TypeInv
  <1> SUFFICES ASSUME Init PROVE TypeInv
    OBVIOUS
  <1>1. TablesOK
    <2>1. order \in [OrderIds -> OrderRec \cup {NoOrder}]
      BY DEF Init
    <2>2. balance \in [Users -> Nat] /\ ytd \in [Users -> Nat]
      BY GiftCardsAssumption DEF Init
    <2>3. /\ refunds \in [OrderIds -> Nat] /\ resYear \in [OrderIds -> Nat]
          /\ age \in [OrderIds -> 0..2] /\ claims \subseteq Events
      BY DEF Init
    <2>4. /\ runa \in [OrderIds -> {"none", "processing", "complete", "failed"}]
          /\ todo \in [Batches -> SUBSET OrderIds]
      BY DEF Init
    <2>5. day \in Nat /\ resetDue \in BOOLEAN /\ crashes \in Nat
      BY DEF Init
    <2> QED  BY <2>1, <2>2, <2>3, <2>4, <2>5 DEF TablesOK
  <1>2. ProcsOK
    BY BufTypes DEF Init, ProcsOK, Labels, Idle
  <1>3. Shape
    BY GiftCardsAssumption DEF Init, Shape, ShapeAt, Procs, Busy, Idle
  <1> QED  BY <1>1, <1>2, <1>3 DEF TypeInv

LEMMA TypeNext == TypeInv /\ [Next]_vars => TypeInv'
  <1> SUFFICES ASSUME TypeInv, [Next]_vars PROVE TypeInv'
    OBVIOUS
  <1>1. ASSUME NEW p \in Workers, Request(p) PROVE TypeInv'
    BY <1>1, ShopBeginType, EarnCardType DEF Request
  <1>2. ASSUME NEW e \in Events, EarnReferral(e) PROVE TypeInv'
    BY <1>2, EarnReferralType
  <1>3. ASSUME NEW p \in Procs, Step(p) PROVE TypeInv'
    BY <1>3, ShopCapsType, ShopDebitType, IssueStartType, ReserveFastType,
       ReserveDecideType, ReserveUserType, ReserveOrderType, DeferType,
       CallRunaType, OrderIssuedType, OrderFailedType, RefundCabType,
       ReleaseCapType, CommitType, CrashType DEF Step
  <1>4. ASSUME NEW p \in Procs, Crash(p) PROVE TypeInv'
    BY <1>4, CrashType
  <1>5. CASE ReconcileStep
    BY <1>5, ReconcileSelectType, ReconcileOneType DEF ReconcileStep
  <1>6. CASE PayoutStep
    BY <1>6, PayoutSelectType, PayoutChurnType, PayoutNotifyType, PayoutCommitType
       DEF PayoutStep
  <1>7. ASSUME NEW o \in OrderIds, Reissue(o) PROVE TypeInv'
    BY <1>7, ReissueType
  <1>8. CASE \/ \E o \in OrderIds : RunaResolve(o) \/ Age(o)
             \/ AnnualReset \/ NextDay
    BY <1>8, EnvironmentType
  <1>9. CASE UNCHANGED vars
    BY <1>9, StutterType
  <1> QED
    BY <1>1, <1>2, <1>3, <1>4, <1>5, <1>6, <1>7, <1>8, <1>9 DEF Next, Quiescent

\* The gift-card tables stay well typed for every parameter value: no CAB
\* balance and no fiscal counter ever goes below zero, and an order is never
\* deleted or left with an unknown status.
THEOREM TypeCorrect == Spec => []TypeOK
  <1>1. TypeInv => TypeOK
    BY DEF TypeInv, TablesOK, ProcsOK, TypeOK
  <1> QED  BY <1>1, TypeInit, TypeNext, PTL DEF Spec
-----------------------------------------------------------------------------
(***************************************************************************)
(* Locks: every lock has one holder, and a task past the idempotence gate  *)
(* holds its order's advisory lock.                                        *)
(***************************************************************************)
\* What a step of p has to show for LockInv, given that it moves only p.
LEMMA LockFrame ==
  ASSUME TypeInv, LockInv, NEW p \in Procs,
         \A q \in Procs \ {p} :
           /\ pc'[q] = pc[q] /\ cur'[q] = cur[q] /\ held'[q] = held[q]
           /\ cur[q] \in OrderIds => (Exists(cur[q])' <=> Exists(cur[q]))
           /\ held'[p] \cap held[q] = {}
           /\ cur'[p] \in OrderIds /\ ~Exists(cur[p])' => cur[q] # cur'[p]
           /\ cur[q] \in OrderIds /\ ~Exists(cur[q]) => cur'[p] # cur[q],
         \A o \in OrderIds : OrderRow(o) \in held'[p] =>
           IF p = Payout THEN Pending(o)' ELSE cur'[p] = o,
         p # Payout =>
           \A o \in OrderIds : OrderRow(o) \in held[Payout] => Pending(o)',
         p \in Workers /\ pc'[p] \in Busy /\ Exists(cur[p])' =>
           IssueLock(cur'[p]) \in held'[p]
  PROVE  LockInv'
  <1>1. LockExclusion'
    <2> SUFFICES ASSUME NEW q \in Procs, NEW r \in Procs, q # r
                 PROVE  held'[q] \cap held'[r] = {}
      BY DEF LockExclusion
    <2> QED  BY DEF LockInv, LockExclusion
  <1>2. RowOwner'
    <2> SUFFICES ASSUME NEW q \in Procs, NEW o \in OrderIds, OrderRow(o) \in held'[q]
                 PROVE  IF q = Payout THEN Pending(o)' ELSE cur'[q] = o
      BY DEF RowOwner
    <2> QED  BY DEF LockInv, RowOwner
  <1>3. FreshIsPrivate'
    <2> SUFFICES ASSUME NEW q \in Procs, NEW r \in Procs, q # r,
                        cur'[q] \in OrderIds, ~Exists(cur[q])'
                 PROVE  cur'[r] # cur'[q]
      BY DEF FreshIsPrivate
    <2>1. CASE q = p
      BY <2>1
    <2>2. CASE r = p
      BY <2>2
    <2>3. CASE q # p /\ r # p
      <3>1. cur[q] \in OrderIds /\ ~Exists(cur[q])
        BY <2>3
      <3> QED  BY <2>3, <3>1 DEF LockInv, FreshIsPrivate
    <2> QED  BY <2>1, <2>2, <2>3
  <1>4. GateHeld'
    <2> SUFFICES ASSUME NEW q \in Workers, pc'[q] \in Busy, Exists(cur[q])'
                 PROVE  IssueLock(cur'[q]) \in held'[q]
      BY DEF GateHeld
    <2>1. q \in Procs
      BY DEF Procs
    <2>2. CASE q = p
      BY <2>2
    <2>3. CASE q # p
      <3>1. pc[q] \in Busy /\ cur'[q] = cur[q]
        BY <2>1, <2>3
      <3>2. cur[q] \in OrderIds
        BY <2>1, <3>1, AtHand
      <3> QED  BY <2>1, <2>3, <3>1, <3>2 DEF LockInv, GateHeld
    <2> QED  BY <2>2, <2>3
  <1> QED  BY <1>1, <1>2, <1>3, <1>4 DEF LockInv

\* A transaction of p ends and the orders stay as they are.
LEMMA LockDrop ==
  ASSUME TypeInv, LockInv, NEW p \in Procs, Drop(p), order' = order
  PROVE  LockInv'
  <1>1. pc'[p] \notin Busy /\ cur'[p] = NULL /\ held'[p] = {} /\ NULL \notin OrderIds
    BY GiftCardsAssumption DEF Drop, Goto, Idle, Busy, TypeInv, ProcsOK
  <1>2. \A q \in Procs \ {p} : pc'[q] = pc[q] /\ cur'[q] = cur[q] /\ held'[q] = held[q]
    BY DEF Drop, Goto, TypeInv, ProcsOK
  <1>3. \A o : (Exists(o)' <=> Exists(o)) /\ (Pending(o)' <=> Pending(o))
    BY DEF Exists, Pending
  <1>4. \A o \in OrderIds : OrderRow(o) \in held[Payout] => Pending(o)'
    BY <1>3 DEF LockInv, RowOwner, Procs
  <1> QED  BY <1>1, <1>2, <1>3, <1>4, LockFrame

\* A statement of p that takes free locks and changes no committed order.
LEMMA LockStep ==
  ASSUME TypeInv, LockInv, NEW p \in Procs, NEW l \in Labels,
         NEW L \in SUBSET Locks,
         order' = order, cur' = cur, pc' = [pc EXCEPT ![p] = l],
         held' = [held EXCEPT ![p] = held[p] \cup L],
         \A k \in L : FreeFor(p, k),
         \A o \in OrderIds : OrderRow(o) \in L => p # Payout /\ cur[p] = o,
         p \in Workers /\ l \in Busy => pc[p] \in Busy \/ IssueLock(cur[p]) \in L
  PROVE  LockInv'
  <1>1. pc'[p] = l /\ cur'[p] = cur[p] /\ held'[p] = held[p] \cup L
    BY DEF TypeInv, ProcsOK
  <1>2. \A q \in Procs \ {p} : /\ pc'[q] = pc[q] /\ cur'[q] = cur[q]
                               /\ held'[q] = held[q] /\ held'[p] \cap held[q] = {}
    BY <1>1 DEF TypeInv, ProcsOK, FreeFor, LockInv, LockExclusion
  <1>3. \A o : (Exists(o)' <=> Exists(o)) /\ (Pending(o)' <=> Pending(o))
    BY DEF Exists, Pending
  <1>4. \A q \in Procs \ {p} :
          /\ cur'[p] \in OrderIds /\ ~Exists(cur[p])' => cur[q] # cur'[p]
          /\ cur[q] \in OrderIds /\ ~Exists(cur[q]) => cur'[p] # cur[q]
    BY <1>1, <1>3 DEF LockInv, FreshIsPrivate
  <1>5. \A o \in OrderIds : OrderRow(o) \in held'[p] =>
          IF p = Payout THEN Pending(o)' ELSE cur'[p] = o
    BY <1>1, <1>3 DEF LockInv, RowOwner
  <1>6. \A o \in OrderIds : OrderRow(o) \in held[Payout] => Pending(o)'
    BY <1>3 DEF LockInv, RowOwner, Procs
  <1>7. p \in Workers /\ pc'[p] \in Busy /\ Exists(cur[p])' =>
          IssueLock(cur'[p]) \in held'[p]
    BY <1>1, <1>3 DEF LockInv, GateHeld
  <1> QED  BY <1>2, <1>3, <1>4, <1>5, <1>6, <1>7, LockFrame

\* A step that moves no process and changes no existing order.
LEMMA LockStill ==
  ASSUME TypeInv, LockInv, UNCHANGED <<pc, cur, held>>,
         \A o \in OrderIds : order'[o] = order[o] \/ o \in Unused
  PROVE  LockInv'
  <1>1. Payout \in Procs
    BY DEF Procs
  <1>2. \A q \in Procs : cur[q] \in OrderIds => (Exists(cur[q])' <=> Exists(cur[q]))
    BY DEF Exists, Unused
  <1>3. \A o \in OrderIds : OrderRow(o) \in held[Payout] => Pending(o)'
    BY <1>1 DEF LockInv, RowOwner, Pending, Unused, Exists
  <1>4. cur[Payout] \notin OrderIds /\ Payout \notin Workers
    BY <1>1, GiftCardsAssumption DEF TypeInv, Shape, ShapeAt, Busy
  <1> QED  BY <1>1, <1>2, <1>3, <1>4, LockFrame DEF LockInv, LockExclusion

\* A task for an existing order is queued; the order may just have been inserted.
LEMMA LockQueue ==
  ASSUME TypeInv, LockInv, NEW p \in Workers, NEW o \in OrderIds, Exists(o)',
         pc' = [pc EXCEPT ![p] = "queued"], cur' = [cur EXCEPT ![p] = o], held' = held,
         pc[p] = "idle",
         Exists(o) \/ o \in Unused,
         \A x \in OrderIds : order'[x] = order[x] \/ x \in Unused
  PROVE  LockInv'
  <1>p. p \in Procs /\ p # Payout /\ Payout \in Procs
    BY GiftCardsAssumption DEF Procs
  <1>1. pc'[p] = "queued" /\ cur'[p] = o /\ "queued" \notin Busy
    BY <1>p DEF TypeInv, ProcsOK, Busy
  <1>2. \A q \in Procs \ {p} : pc'[q] = pc[q] /\ cur'[q] = cur[q] /\ held'[q] = held[q]
    BY <1>p DEF TypeInv, ProcsOK
  <1>3. \A q \in Procs \ {p} :
          /\ held'[p] \cap held[q] = {}
          /\ cur[q] \in OrderIds => (Exists(cur[q])' <=> Exists(cur[q]))
    BY <1>p, <1>2 DEF LockInv, LockExclusion, Exists, Unused
  <1>4. \A q \in Procs \ {p} :
          /\ ~(cur'[p] \in OrderIds /\ ~Exists(cur[p])')
          /\ cur[q] \in OrderIds /\ ~Exists(cur[q]) => cur'[p] # cur[q]
    BY <1>1 DEF Unused, Exists
  <1>5. \A x \in OrderIds : OrderRow(x) \notin held'[p]
    <2>1. cur[p] \notin OrderIds
      BY <1>p, GiftCardsAssumption DEF TypeInv, Shape, ShapeAt, Busy
    <2> QED  BY <1>p, <2>1 DEF LockInv, RowOwner
  <1>6. \A x \in OrderIds : OrderRow(x) \in held[Payout] => Pending(x)'
    BY <1>p DEF LockInv, RowOwner, Pending, Unused, Exists
  <1> QED  BY <1>p, <1>1, <1>2, <1>3, <1>4, <1>5, <1>6, LockFrame

\* insert_gift_card_order touches only an id nobody uses.
LEMMA InsertUnused ==
  ASSUME TypeInv, NEW e \in Events, NEW o \in InsertedId(e), NEW r \in OrderRec,
         Insert(o, r)
  PROVE  /\ o \in OrderIds /\ Exists(o)' /\ (Exists(o) \/ o \in Unused)
         /\ \A x \in OrderIds : order'[x] = order[x] \/ x \in Unused
  <1>1. o \in OrderIds /\ (Exists(o) \/ o \in Unused)
    BY DEF InsertedId, Unused
  <1>2. Exists(o)'
    BY <1>1, InsertType
  <1>3. \A x \in OrderIds : order'[x] = order[x] \/ x \in Unused
    BY <1>1 DEF Insert, TypeInv, TablesOK
  <1> QED  BY <1>1, <1>2, <1>3

LEMMA RequestLock ==
  ASSUME TypeInv, LockInv, NEW p \in Workers, Request(p)
  PROVE  LockInv'
  <1>p. p \in Procs
    BY DEF Procs
  <1>1. ASSUME NEW u \in Users, NEW denom \in ShopDenoms, ShopBegin(p, u, denom)
        PROVE  LockInv'
    <2>1. /\ order' = order /\ cur' = cur /\ pc' = [pc EXCEPT ![p] = "shopLock"]
          /\ held' = [held EXCEPT ![p] = held[p] \cup {}] /\ {} \in SUBSET Locks
          /\ "shopLock" \notin Busy /\ "shopLock" \in Labels
      BY <1>p, <1>1, Unchanged DEF ShopBegin, Goto, tables, Busy, Labels
    <2> QED  BY <1>p, <2>1, LockStep
  <1>2. ASSUME NEW e \in Events, EarnCard(p, e)
        PROVE  LockInv'
    <2> DEFINE r == NewOrder(e.user, e.source, e.ref, EarnedDenom, NoElig)
    <2>1. r \in OrderRec
      BY EventRow
    <2> HIDE DEF r
    <2>2. PICK o \in InsertedId(e) : Insert(o, r) /\ cur' = [cur EXCEPT ![p] = o]
      BY <1>2 DEF EarnCard, r
    <2>3. pc' = [pc EXCEPT ![p] = "queued"] /\ held' = held /\ pc[p] = "idle"
      BY <1>2 DEF EarnCard, Goto
    <2> QED  BY <2>1, <2>2, <2>3, InsertUnused, LockQueue
  <1> QED  BY <1>1, <1>2 DEF Request

LEMMA EarnReferralLock ==
  ASSUME TypeInv, LockInv, NEW e \in Events, EarnReferral(e)
  PROVE  LockInv'
  <1> DEFINE r == NewOrder(e.user, e.source, e.ref, EarnedDenom, day + ReferralDelay)
  <1>1. r \in OrderRec
    <2>1. day + ReferralDelay \in Nat
      BY GiftCardsAssumption DEF TypeInv, TablesOK
    <2> QED  BY <2>1, EventRow
  <1> HIDE DEF r
  <1>2. PICK o \in InsertedId(e) : Insert(o, r)
    BY DEF EarnReferral, r
  <1>3. UNCHANGED <<pc, cur, held>>
    BY DEF EarnReferral
  <1> QED  BY <1>1, <1>2, <1>3, InsertUnused, LockStill

LEMMA ShopLock ==
  ASSUME TypeInv, LockInv, NEW p \in Procs, ShopCaps(p) \/ ShopDebit(p)
  PROVE  LockInv'
  <1>1. order' = order
    BY DEF ShopCaps, ShopDebit, tables
  <1>2. CASE Drop(p)
    BY <1>1, <1>2, LockDrop
  <1>3. CASE ShopCaps(p) /\ ~Drop(p)
    <2>1. /\ cur' = cur /\ pc' = [pc EXCEPT ![p] = "shopDebit"]
          /\ held' = [held EXCEPT ![p] = held[p] \cup {CapLock(User(p))}]
          /\ FreeFor(p, CapLock(User(p))) /\ "shopDebit" \notin Busy
          /\ "shopDebit" \in Labels
      BY <1>3 DEF ShopCaps, Goto, Take, Busy, Labels
    <2>2. User(p) \in Users
      BY <1>3, AtHand DEF ShopCaps
    <2>3. {CapLock(User(p))} \in SUBSET Locks
      BY <2>2, LockTypes
    <2>4. \A o \in OrderIds : OrderRow(o) \notin {CapLock(User(p))}
      BY LockNames
    <2> QED  BY <1>1, <2>1, <2>3, <2>4, LockStep
  <1>4. CASE ShopDebit(p) /\ ~Drop(p)
    <2> DEFINE L(o) == {CabRow(User(p)), OrderRow(o)}
    <2>1. PICK o \in Unused : /\ pc' = [pc EXCEPT ![p] = "commit"]
                              /\ cur' = [cur EXCEPT ![p] = o]
                              /\ held' = [held EXCEPT ![p] = held[p] \cup L(o)]
      BY <1>4 DEF ShopDebit, Goto, Take
    <2>2. o \in OrderIds /\ ~Exists(o) /\ \A q \in Procs : cur[q] # o
      BY DEF Unused
    <2>3. /\ pc[p] = "shopDebit" /\ p # Payout /\ Payout \in Procs
          /\ cur[p] \notin OrderIds /\ FreeFor(p, CabRow(User(p)))
      <3>1. pc[p] = "shopDebit" /\ FreeFor(p, CabRow(User(p)))
        BY <1>4 DEF ShopDebit
      <3> QED  BY <3>1, AtHand, GiftCardsAssumption DEF TypeInv, Shape, ShapeAt, Busy, Procs
    <2>4. /\ pc'[p] = "commit" /\ cur'[p] = o /\ held'[p] = held[p] \cup L(o)
          /\ \A q \in Procs \ {p} : pc'[q] = pc[q] /\ cur'[q] = cur[q] /\ held'[q] = held[q]
      BY <2>1 DEF TypeInv, ProcsOK
    <2>5. \A x : (Exists(x)' <=> Exists(x)) /\ (Pending(x)' <=> Pending(x))
      BY <1>1 DEF Exists, Pending
    <2>6. \A q \in Procs \ {p} : OrderRow(o) \notin held[q]
      BY <2>2 DEF LockInv, RowOwner, Exists, Pending
    <2>7. \A q \in Procs \ {p} : held'[p] \cap held[q] = {}
      BY <2>3, <2>4, <2>6 DEF FreeFor, LockInv, LockExclusion
    <2>8. \A x \in OrderIds : OrderRow(x) \in held'[p] => cur'[p] = x
      BY <2>3, <2>4, LockNames DEF LockInv, RowOwner
    <2>9. \A x \in OrderIds : OrderRow(x) \in held[Payout] => Pending(x)'
      BY <2>3, <2>5 DEF LockInv, RowOwner
    <2>10. ~Exists(cur[p])'
      BY <2>2, <2>4, <2>5
    <2> HIDE DEF L
    <2> QED  BY <2>2, <2>3, <2>4, <2>5, <2>7, <2>8, <2>9, <2>10, LockFrame
  <1> QED  BY <1>2, <1>3, <1>4

\* A statement of the issuance or of the 24 h batch takes at most one lock.
LEMMA BusyLock ==
  ASSUME TypeInv, LockInv, NEW p \in Procs, pc[p] \in Busy \ {"commit"},
         NEW l \in Busy, NEW k \in Locks,
         order' = order, cur' = cur, pc' = [pc EXCEPT ![p] = l],
         \/ held' = held
         \/ FreeFor(p, k) /\ held' = [held EXCEPT ![p] = held[p] \cup {k}],
         \A o \in OrderIds : k = OrderRow(o) => cur[p] = o
  PROVE  LockInv'
  <1>1. l \in Labels /\ p # Payout
    BY AtHand DEF Busy, Labels
  <1>2. CASE held' = held
    <2> DEFINE L == {}
    <2>1. held' = [held EXCEPT ![p] = held[p] \cup L] /\ L \in SUBSET Locks
      BY <1>2, Unchanged
    <2>2. pc[p] \in Busy
      OBVIOUS
    <2>3. /\ \A x \in L : FreeFor(p, x)
          /\ \A o \in OrderIds : OrderRow(o) \in L => p # Payout /\ cur[p] = o
      OBVIOUS
    <2> HIDE DEF L
    <2> QED  BY <1>1, <2>1, <2>2, <2>3, LockStep
  <1>3. CASE FreeFor(p, k) /\ held' = [held EXCEPT ![p] = held[p] \cup {k}]
    <2>1. {k} \in SUBSET Locks /\ pc[p] \in Busy
      OBVIOUS
    <2>2. \A x \in {k} : FreeFor(p, x)
      BY <1>3
    <2>3. \A o \in OrderIds : OrderRow(o) \in {k} => p # Payout /\ cur[p] = o
      BY <1>1
    <2> QED  BY <1>1, <1>3, <2>1, <2>2, <2>3, LockStep
  <1> QED  BY <1>2, <1>3

LEMMA IssueStartLock ==
  ASSUME TypeInv, LockInv, NEW p \in Procs, IssueStart(p)
  PROVE  LockInv'
  <1>1. order' = order
    BY DEF IssueStart, tables
  <1>2. CASE Drop(p)
    BY <1>1, <1>2, LockDrop
  <1>3. CASE ~Drop(p)
    <2>1. /\ cur' = cur /\ pc' = [pc EXCEPT ![p] = "reserve"]
          /\ held' = [held EXCEPT ![p] = held[p] \cup {IssueLock(cur[p])}]
          /\ FreeFor(p, IssueLock(cur[p])) /\ "reserve" \in Labels
      BY <1>3 DEF IssueStart, Goto, Take, Labels
    <2>2. {IssueLock(cur[p])} \in SUBSET Locks
      BY AtHand, LockTypes DEF IssueStart
    <2>3. \A o \in OrderIds : OrderRow(o) \notin {IssueLock(cur[p])}
      BY LockNames
    <2> QED  BY <1>1, <2>1, <2>2, <2>3, LockStep
  <1> QED  BY <1>2, <1>3

\* The statements on the user's rows: cap lock, users row, user_cab_balance row.
LEMMA UserLocks ==
  ASSUME TypeInv, LockInv, NEW p \in Procs,
         ReserveDecide(p) \/ ReserveUser(p) \/ RefundCab(p) \/ ReleaseCap(p)
  PROVE  LockInv'
  <1>1. order' = order /\ cur' = cur
    BY DEF ReserveDecide, ReserveUser, RefundCab, ReleaseCap, tables
  <1>2. pc[p] \in Busy \ {"commit"} /\ User(p) \in Users
    BY AtHand DEF ReserveDecide, ReserveUser, RefundCab, ReleaseCap, Busy
  <1>3. PICK l \in Busy : pc' = [pc EXCEPT ![p] = l]
    BY DEF ReserveDecide, CapDecision, ReserveUser, RefundCab, ReleaseCap, Goto, Busy
  <1>4. PICK k \in {CapLock(User(p)), UserRow(User(p)), CabRow(User(p))} :
          \/ held' = held
          \/ FreeFor(p, k) /\ held' = [held EXCEPT ![p] = held[p] \cup {k}]
    <2>1. CASE ReserveDecide(p)
      BY <2>1 DEF ReserveDecide, Take
    <2>2. CASE ReserveUser(p)
      BY <2>2 DEF ReserveUser, Take
    <2>3. CASE RefundCab(p)
      BY <2>3 DEF RefundCab, Take
    <2>4. CASE ReleaseCap(p)
      BY <2>4 DEF ReleaseCap, Take
    <2> QED  BY <2>1, <2>2, <2>3, <2>4
  <1>5. k \in Locks /\ \A o \in OrderIds : k # OrderRow(o)
    BY <1>2, LockTypes, LockNames
  <1> QED  BY <1>1, <1>2, <1>3, <1>4, <1>5, BusyLock

\* The statements on the order's row, and the ones that take no lock.
LEMMA OrderLocks ==
  ASSUME TypeInv, LockInv, NEW p \in Procs,
         \/ ReserveFast(p) \/ ReserveOrder(p) \/ Defer(p) \/ CallRuna(p)
         \/ OrderIssued(p) \/ OrderFailed(p)
  PROVE  LockInv'
  <1>1. order' = order /\ cur' = cur
    BY DEF ReserveFast, ReserveOrder, Defer, CallRuna, OrderIssued, OrderFailed, tables
  <1>2. pc[p] \in Busy \ {"commit"} /\ cur[p] \in OrderIds
    BY AtHand DEF ReserveFast, ReserveOrder, Defer, CallRuna, OrderIssued, OrderFailed, Busy
  <1>3. PICK l \in Busy : pc' = [pc EXCEPT ![p] = l]
    <2>1. CASE ReserveFast(p) \/ ReserveOrder(p) \/ Defer(p)
      BY <2>1 DEF ReserveFast, ReserveOrder, Defer, Goto, Busy
    <2>2. CASE CallRuna(p)
      BY <2>2 DEF CallRuna, Goto, Busy
    <2>3. CASE OrderIssued(p) \/ OrderFailed(p)
      BY <2>3 DEF OrderIssued, OrderFailed, Goto, Busy
    <2> QED  BY <2>1, <2>2, <2>3
  <1> DEFINE k == OrderRow(cur[p])
  <1>4. \/ held' = held
        \/ FreeFor(p, k) /\ held' = [held EXCEPT ![p] = held[p] \cup {k}]
    <2>1. CASE ReserveFast(p) \/ CallRuna(p)
      BY <2>1 DEF ReserveFast, CallRuna
    <2>2. CASE ReserveOrder(p) \/ Defer(p)
      BY <2>2 DEF ReserveOrder, Defer, Take
    <2>3. CASE OrderIssued(p) \/ OrderFailed(p)
      BY <2>3 DEF OrderIssued, OrderFailed, Take
    <2> QED  BY <2>1, <2>2, <2>3
  <1>5. k \in Locks /\ \A o \in OrderIds : k = OrderRow(o) => cur[p] = o
    BY <1>2, LockTypes, LockNames
  <1> HIDE DEF k
  <1> QED  BY <1>1, <1>2, <1>3, <1>4, <1>5, BusyLock

LEMMA CommitLock ==
  ASSUME TypeInv, LockInv, NEW p \in Procs, Commit(p)
  PROVE  LockInv'
  <1>1. /\ pc[p] = "commit" /\ cur[p] \in OrderIds /\ p # Payout /\ Payout \in Procs
        /\ buf[p].row \in OrderRec
    BY AtHand DEF Commit, Busy, Procs
  <1>2. \A o \in OrderIds : order'[o] = order[o] \/ (o = cur[p] /\ OrderRow(o) \in held[p])
    BY <1>1 DEF Commit, TypeInv, TablesOK
  <1>3. /\ held'[p] = {} /\ pc'[p] \notin Busy
        /\ \A q \in Procs \ {p} : pc'[q] = pc[q] /\ cur'[q] = cur[q] /\ held'[q] = held[q]
    BY DEF Commit, Drop, Goto, Idle, Busy, TypeInv, ProcsOK
  <1>4. \A q \in Procs \ {p} :
          cur[q] \in OrderIds => (Exists(cur[q])' <=> Exists(cur[q]))
    <2> SUFFICES ASSUME NEW q \in Procs \ {p}, cur[q] \in OrderIds
                 PROVE  Exists(cur[q])' <=> Exists(cur[q])
      OBVIOUS
    <2>1. CASE cur[q] # cur[p]
      BY <1>2, <1>3, <2>1 DEF Exists
    <2>2. CASE cur[q] = cur[p]
      <3>1. Exists(cur[p])
        BY <1>1, <2>2 DEF LockInv, FreshIsPrivate
      <3>2. order'[cur[p]] = order[cur[p]] \/ order'[cur[p]] = buf[p].row
        BY <1>1 DEF Commit, TypeInv, TablesOK
      <3> QED  BY <1>1, <1>3, <2>2, <3>1, <3>2, RowTypes DEF Exists
    <2> QED  BY <2>1, <2>2
  <1>5. \A o \in OrderIds : OrderRow(o) \in held[Payout] => Pending(o)'
    BY <1>1, <1>2 DEF LockInv, LockExclusion, RowOwner, Pending
  <1>6. \/ cur'[p] = NULL
        \/ /\ cur'[p] = cur[p] /\ ~Exists(cur[p]) /\ Exists(cur[p])'
    <2>1. CASE Exists(cur[p])
      BY <2>1 DEF Commit, Drop, TypeInv, ProcsOK
    <2>2. CASE ~Exists(cur[p])
      <3>1. cur' = cur
        BY <2>2 DEF Commit
      <3>2. OrderRow(cur[p]) \in held[p]
        BY <1>1, <2>2 DEF TypeInv, Shape, ShapeAt
      <3>3. order'[cur[p]] = buf[p].row
        BY <1>1, <3>2 DEF Commit, TypeInv, TablesOK
      <3> QED  BY <1>1, <2>2, <3>1, <3>3, RowTypes DEF Exists
    <2> QED  BY <2>1, <2>2
  <1>7. \A q \in Procs \ {p} :
          /\ cur'[p] \in OrderIds /\ ~Exists(cur[p])' => cur[q] # cur'[p]
          /\ cur[q] \in OrderIds /\ ~Exists(cur[q]) => cur'[p] # cur[q]
    BY <1>1, <1>6, GiftCardsAssumption DEF LockInv, FreshIsPrivate
  <1> QED  BY <1>1, <1>3, <1>4, <1>5, <1>7, LockFrame

LEMMA ReconcileLock ==
  ASSUME TypeInv, LockInv, ReconcileStep
  PROVE  LockInv'
  <1>1. CASE ReconcileSelect
    <2>1. UNCHANGED <<pc, cur, held, order>>
      BY <1>1 DEF ReconcileSelect, tables
    <2> QED  BY <2>1, LockStill
  <1>2. ASSUME NEW o \in OrderIds, ReconcileOne(o)
        PROVE  LockInv'
    <2>1. order' = order
      BY <1>2 DEF ReconcileOne, tables
    <2>2. CASE ~Pending(o)
      <3>1. UNCHANGED <<pc, cur, held>>
        BY <1>2, <2>2 DEF ReconcileOne
      <3> QED  BY <2>1, <3>1, LockStill
    <2>3. CASE Pending(o)
      <3> DEFINE p == Reconciler
      <3>1. /\ p \in Procs /\ p # Payout /\ p \notin Workers /\ Payout \in Procs
            /\ pc[p] = "recNext" /\ FreeFor(p, OrderRow(o))
        BY <1>2, GiftCardsAssumption DEF ReconcileOne, Procs
      <3>2. cur[p] \notin OrderIds
        BY <3>1, GiftCardsAssumption DEF TypeInv, Shape, ShapeAt, Busy
      <3>3. /\ cur' = [cur EXCEPT ![p] = o] /\ held' = [held EXCEPT ![p] = held[p] \cup {OrderRow(o)}]
            /\ pc' = [pc EXCEPT ![p] = "refund"]
        BY <1>2, <2>3 DEF ReconcileOne, Goto, Take
      <3> HIDE DEF p
      <3>4. /\ cur'[p] = o /\ held'[p] = held[p] \cup {OrderRow(o)}
            /\ \A q \in Procs \ {p} : pc'[q] = pc[q] /\ cur'[q] = cur[q] /\ held'[q] = held[q]
        BY <3>1, <3>3 DEF TypeInv, ProcsOK
      <3>5. \A x : (Exists(x)' <=> Exists(x)) /\ (Pending(x)' <=> Pending(x))
        BY <2>1 DEF Exists, Pending
      <3>6. Exists(o) /\ Exists(cur[p])'
        BY <2>3, <3>4, <3>5 DEF Exists, Pending
      <3>7. \A q \in Procs \ {p} : held'[p] \cap held[q] = {}
        BY <3>1, <3>4 DEF FreeFor, LockInv, LockExclusion
      <3>8. \A x \in OrderIds : OrderRow(x) \in held'[p] => cur'[p] = x
        BY <3>1, <3>2, <3>4, LockNames DEF LockInv, RowOwner
      <3>9. \A x \in OrderIds : OrderRow(x) \in held[Payout] => Pending(x)'
        BY <3>1, <3>5 DEF LockInv, RowOwner
      <3> QED  BY <3>1, <3>4, <3>5, <3>6, <3>7, <3>8, <3>9, LockFrame
    <2> QED  BY <2>2, <2>3
  <1> QED  BY <1>1, <1>2 DEF ReconcileStep

LEMMA PayoutLock ==
  ASSUME TypeInv, LockInv, PayoutStep
  PROVE  LockInv'
  <1> DEFINE p == Payout
  <1>p. p \in Procs /\ p \notin Workers /\ cur[p] \notin OrderIds
    BY GiftCardsAssumption DEF Procs, TypeInv, Shape, ShapeAt, Busy
  <1>1. CASE PayoutSelect
    <2> DEFINE L == {}
    <2>1. /\ order' = order /\ cur' = cur /\ pc' = [pc EXCEPT ![p] = "payout"]
          /\ held' = [held EXCEPT ![p] = held[p] \cup L] /\ L \in SUBSET Locks
          /\ "payout" \in Labels
      BY <1>1, <1>p, Unchanged DEF PayoutSelect, Goto, tables, Labels
    <2>2. /\ \A x \in L : FreeFor(p, x)
          /\ \A o \in OrderIds : OrderRow(o) \notin L
      OBVIOUS
    <2> HIDE DEF L, p
    <2> QED  BY <1>p, <2>1, <2>2, LockStep
  <1>2. ASSUME NEW o \in OrderIds, PayoutChurn(o)
        PROVE  LockInv'
    <2>1. UNCHANGED <<order, pc, cur>> /\ FreeFor(p, OrderRow(o))
      BY <1>2 DEF PayoutChurn, tables
    <2>2. \A x : (Exists(x)' <=> Exists(x)) /\ (Pending(x)' <=> Pending(x))
      BY <2>1 DEF Exists, Pending
    <2>3. \/ held' = held
          \/ Pending(o) /\ held' = [held EXCEPT ![p] = held[p] \cup {OrderRow(o)}]
      BY <1>2 DEF PayoutChurn
    <2> HIDE DEF p
    <2>4. \A q \in Procs \ {p} : /\ held'[q] = held[q] /\ held'[p] \cap held[q] = {}
      BY <1>p, <2>1, <2>3 DEF FreeFor, LockInv, LockExclusion, TypeInv, ProcsOK
    <2>5. \A x \in OrderIds : OrderRow(x) \in held'[p] => Pending(x)'
      BY <1>p, <2>2, <2>3, LockNames DEF LockInv, RowOwner, TypeInv, ProcsOK, p
    <2> QED  BY <1>p, <2>1, <2>2, <2>4, <2>5, LockFrame DEF p
  <1>3. ASSUME NEW o \in OrderIds, PayoutNotify(o)
        PROVE  LockInv'
    <2>1. order' = order /\ held' = held /\ Exists(o) /\ Exists(o)'
      BY <1>3 DEF PayoutNotify, tables, Pending, Exists
    <2>2. PICK w \in Workers : /\ pc[w] = "idle" /\ pc' = [pc EXCEPT ![w] = "queued"]
                              /\ cur' = [cur EXCEPT ![w] = o]
      BY <1>3 DEF PayoutNotify, Goto
    <2> QED  BY <2>1, <2>2, LockQueue
  <1>4. ASSUME NEW o \in OrderIds, PayoutNotifyFails(o)
        PROVE  LockInv'
    BY <1>4, LockStill DEF PayoutNotifyFails, tables
  <1>5. CASE PayoutCommit
    <2>1. /\ held'[p] = {} /\ pc'[p] \notin Busy /\ cur'[p] \notin OrderIds
          /\ \A q \in Procs \ {p} : pc'[q] = pc[q] /\ cur'[q] = cur[q] /\ held'[q] = held[q]
      BY <1>5, <1>p, GiftCardsAssumption
         DEF PayoutCommit, Drop, Goto, Idle, Busy, TypeInv, ProcsOK
    <2>2. \A x \in OrderIds : Exists(x)' <=> Exists(x)
      <3> SUFFICES ASSUME NEW x \in OrderIds PROVE Exists(x)' <=> Exists(x)
        OBVIOUS
      <3>1. CASE OrderRow(x) \in held[p]
        <4>1. order[x] \in OrderRec
          BY <1>p, <3>1, ExistingRow DEF TypeInv, Shape, ShapeAt
        <4>2. order'[x] = [order[x] EXCEPT !.status = "churned"]
          BY <1>5, <3>1 DEF PayoutCommit
        <4>3. order'[x] \in OrderRec
          BY <4>1, <4>2, RowTypes DEF Statuses
        <4> QED  BY <4>1, <4>3, RowTypes DEF Exists
      <3>2. CASE OrderRow(x) \notin held[p]
        BY <1>5, <3>2 DEF PayoutCommit, Exists
      <3> QED  BY <3>1, <3>2
    <2>3. \A q \in Procs \ {p} : cur[q] \in OrderIds => (Exists(cur[q])' <=> Exists(cur[q]))
      BY <2>1, <2>2 DEF Exists
    <2> HIDE DEF p
    <2> QED  BY <1>p, <2>1, <2>3, LockFrame, GiftCardsAssumption DEF p
  <1> QED  BY <1>1, <1>2, <1>3, <1>4, <1>5 DEF PayoutStep

LEMMA OtherLocks ==
  ASSUME TypeInv, LockInv,
         \/ \E p \in Procs : Crash(p) \/ DeadlockVictim(p)
         \/ \E o \in OrderIds : Reissue(o) \/ RunaResolve(o) \/ Age(o)
         \/ AnnualReset \/ NextDay \/ UNCHANGED vars
  PROVE  LockInv'
  <1>1. ASSUME NEW p \in Procs, Crash(p) \/ DeadlockVictim(p) PROVE LockInv'
    <2>1. Drop(p) /\ order' = order
      BY <1>1 DEF Crash, DeadlockVictim, tables
    <2> QED  BY <2>1, LockDrop
  <1>2. ASSUME NEW o \in OrderIds, Reissue(o) PROVE LockInv'
    <2>1. order' = order /\ held' = held /\ Exists(o) /\ Exists(o)'
      BY <1>2 DEF Reissue, Reissuable, tables, Pending, Exists
    <2>2. PICK w \in Workers : /\ pc[w] = "idle" /\ pc' = [pc EXCEPT ![w] = "queued"]
                              /\ cur' = [cur EXCEPT ![w] = o]
      BY <1>2 DEF Reissue, Goto
    <2> QED  BY <2>1, <2>2, LockQueue
  <1>3. ASSUME NEW o \in OrderIds, RunaResolve(o) \/ Age(o) PROVE LockInv'
    BY <1>3, LockStill DEF RunaResolve, Age, tables
  <1>4. ASSUME AnnualReset \/ NextDay \/ UNCHANGED vars PROVE LockInv'
    BY <1>4, LockStill DEF AnnualReset, NextDay, tables, vars
  <1> QED  BY <1>1, <1>2, <1>3, <1>4

LEMMA LockInit == Init => LockInv
  BY GiftCardsAssumption
     DEF Init, LockInv, LockExclusion, RowOwner, FreshIsPrivate, GateHeld, Idle, Busy, Procs

LEMMA LockNext == TypeInv /\ LockInv /\ [Next]_vars => LockInv'
  <1> SUFFICES ASSUME TypeInv, LockInv, [Next]_vars PROVE LockInv'
    OBVIOUS
  <1>1. ASSUME NEW p \in Workers, Request(p) PROVE LockInv'
    BY <1>1, RequestLock
  <1>2. ASSUME NEW e \in Events, EarnReferral(e) PROVE LockInv'
    BY <1>2, EarnReferralLock
  <1>3. ASSUME NEW p \in Procs, Step(p) PROVE LockInv'
    BY <1>3, ShopLock, IssueStartLock, UserLocks, OrderLocks, CommitLock, OtherLocks DEF Step
  <1>4. CASE ReconcileStep
    BY <1>4, ReconcileLock
  <1>5. CASE PayoutStep
    BY <1>5, PayoutLock
  <1>6. CASE \/ \E p \in Procs : Crash(p)
             \/ \E o \in OrderIds : Reissue(o) \/ RunaResolve(o) \/ Age(o)
             \/ AnnualReset \/ NextDay \/ UNCHANGED vars
    BY <1>6, OtherLocks
  <1> QED  BY <1>1, <1>2, <1>3, <1>4, <1>5, <1>6 DEF Next, Quiescent

\* Two background tasks never run past the idempotence gate of one order at the
\* same time, for any number of workers, crashes and re-triggers: the per-order
\* advisory lock of issue_gift_card does what its docstring claims.
THEOREM OneIssuerHolds == Spec => []OneIssuer
  <1>1. TypeInv /\ LockInv => OneIssuer
    <2> SUFFICES ASSUME TypeInv, LockInv, NEW p \in Workers, NEW q \in Workers, p # q,
                        Issuing(p), Issuing(q), cur[p] = cur[q]
                 PROVE  FALSE
      BY DEF OneIssuer
    <2>1. p \in Procs /\ q \in Procs /\ pc[p] \in Busy /\ pc[q] \in Busy
      BY DEF Procs, Issuing, Busy
    <2>2. cur[p] \in OrderIds
      BY <2>1, AtHand
    <2>3. Exists(cur[p])
      BY <2>1, <2>2 DEF LockInv, FreshIsPrivate
    <2>4. IssueLock(cur[p]) \in held[p] /\ IssueLock(cur[p]) \in held[q]
      BY <2>1, <2>3 DEF LockInv, GateHeld
    <2> QED  BY <2>1, <2>4 DEF LockInv, LockExclusion
  <1> QED  BY <1>1, TypeInit, TypeNext, LockInit, LockNext, PTL DEF Spec
-----------------------------------------------------------------------------
(***************************************************************************)
(* Transactions and rows: what a transaction's buffer has to do with the   *)
(* committed rows at each of its control points (TxInv), what the rows     *)
(* promise (TableInv), and what a batch has at hand (BatchOK).             *)
(***************************************************************************)
\* The columns no UPDATE touches.
Same(r, s) ==
  r.user = s.user /\ r.source = s.source /\ r.denom = s.denom /\ r.created = s.created

\* The row of a boutique order that is being created.
Fresh(r) ==
  /\ r.status = "pending" /\ r.cap = 0 /\ r.source = "shop_purchase"
  /\ r.created <= day /\ r.created <= LastOrderDay
  /\ r.denom \in ShopDenoms /\ r.denom # 0 /\ r.elig = NoElig

\* Only earned orders are ever deferred.
Plain(r) == r.source = "shop_purchase" => r.elig = NoElig

\* p's transaction has turned the pending order c into a failed one.
Failing(c, h, b) == OrderRow(c) \in h /\ Pending(c) /\ b.row.status = "failed"

After == {"runa", "issued", "fail", "refund", "release", "commit"}
NewCommit(l, c) == l = "commit" /\ ~Exists(c)

\* What p's version of its order row has to do with the committed row: p writes a
\* status of its own only over a pending row that it has locked.
RowAt(l, c, h, b) ==
  /\ l \in {"shopLock", "shopDebit"} \/ NewCommit(l, c) => Fresh(b.row)
  /\ l \in Busy => Plain(b.row)
  /\ l \in Busy /\ Exists(c) => Same(b.row, order[c])
  /\ l = "defer" => order[c].source # "shop_purchase"
  /\ c \in OrderIds /\ OrderRow(c) \in h => l \in After
  /\ l \in {"runa", "issued", "fail"} /\ OrderRow(c) \in h =>
       b.row.status = order[c].status
  /\ l \in {"refund", "release"} => Failing(c, h, b)
  /\ l = "refund" => b.row.source = "shop_purchase"
  /\ l = "commit" /\ Exists(c) /\ OrderRow(c) \in h =>
       \/ b.row.status = order[c].status
       \/ Pending(c) /\ b.row.status \in {"issued", "failed"}

\* The CAB side: the transaction holds a new balance exactly when it inserts a
\* boutique order or fails one, and then it is the committed one plus or minus
\* the price.
CabAt(l, c, h, b) ==
  /\ l \notin {"release", "commit"} =>
       ~b.refund /\ \A x \in Users : CabRow(x) \notin h
  /\ NewCommit(l, c) =>
       /\ ~b.refund /\ CabRow(b.row.user) \in h
       /\ b.bal = balance[b.row.user] - CabCost(b.row.denom)
  /\ l \in {"release", "commit"} /\ Exists(c) =>
       /\ b.refund <=> Failing(c, h, b) /\ b.row.source = "shop_purchase"
       /\ b.refund <=> CabRow(b.row.user) \in h
       /\ b.refund => b.bal = balance[b.row.user] + CabCost(b.row.denom)

\* The calendar year does not change, and the counters are not reset.
OneYear == MaxDay < DaysPerYear /\ ~JanuaryReruns

SeenYtd(h, b) == IF UserRow(b.row.user) \in h THEN b.ytd ELSE ytd[b.row.user]
SeenCap(c, h, b) == IF OrderRow(c) \in h THEN b.row.cap ELSE order[c].cap

\* The reservation: the counter and the order move together.
CapAt(p, l, c, h, b) ==
  /\ l \notin After \cup {"resOrder"} => \A x \in Users : UserRow(x) \notin h
  /\ l \in {"resUser", "resOrder"} => order[c].cap = 0 /\ CapLock(b.row.user) \in h
  /\ l = "resUser" => ytd[b.row.user] + b.row.denom <= CapAnnual
  /\ l = "resOrder" =>
       UserRow(b.row.user) \in h /\ b.ytd = ytd[b.row.user] + b.row.denom
  /\ l \in After => SeenYtd(h, b) + order[c].cap = ytd[b.row.user] + SeenCap(c, h, b)
  /\ l \in After \cup {"resOrder"} /\ UserRow(b.row.user) \in h =>
       b.ytd <= CapAnnual /\ (CapLock(b.row.user) \in h \/ b.ytd <= ytd[b.row.user])
  /\ l \in {"runa", "issued"} /\ Pending(c) => SeenCap(c, h, b) = b.row.denom
  /\ l \in {"runa", "issued", "fail"} /\ OrderRow(c) \in h => b.row.cap = b.row.denom
  /\ l \in After /\ OrderRow(c) \in h => b.row.cap \in {0, b.row.denom}
  /\ l = "commit" /\ OrderRow(c) \in h /\ b.row.status = "issued" =>
       b.row.cap = b.row.denom
  /\ p = Reconciler /\ l \in After => b.row.cap \in {0, order[c].cap}

\* A failing order has given its reservation back when it commits.
ReleasedAt(l, c, h, b) == l = "commit" /\ Exists(c) /\ Failing(c, h, b) => b.row.cap = 0

\* The 24 h batch works on the orders it fails, and on no other.
RecAt(p, l, c, h, b) == p = Reconciler /\ l \in After => Failing(c, h, b)

\* The first day of d's week.
WeekStart(d) == (d \div DaysPerWeek) * DaysPerWeek

\* A boutique order about to be inserted still fits under the caps of its day
\* and of its week.
DayAt(l, c, h, b) ==
  l = "shopDebit" \/ NewCommit(l, c) =>
    /\ CapLock(b.row.user) \in h
    /\ sum_redeemed_window(b.row.user, b.row.created) + b.row.denom <= CapDaily
    /\ sum_redeemed_window(b.row.user, WeekStart(b.row.created)) + b.row.denom <= CapWeekly

\* Background tasks are over before their order's grace period is.
PromptAt(p, l, c) ==
  /\ p \in Workers /\ c \in OrderIds /\ Exists(c) /\ order[c].source = "shop_purchase" =>
       age[c] # 2
  /\ p \in Workers /\ l \in Busy /\ Exists(c) => order[c].status # "failed"
  /\ p = Reconciler /\ c \in OrderIds =>
       order[c].source = "shop_purchase" /\ age[c] = 2

TxAt(p, l, c, h, b) ==
  /\ RowAt(l, c, h, b) /\ CabAt(l, c, h, b) /\ ReleasedAt(l, c, h, b)
  /\ DayAt(l, c, h, b) /\ RecAt(p, l, c, h, b)
  /\ OneYear => CapAt(p, l, c, h, b)
  /\ PromptTasks => PromptAt(p, l, c)

TxInv == \A p \in Procs : TxAt(p, pc[p], cur[p], held[p], buf[p])

\* The committed rows, and the batches that have them at hand.
RowsOK ==
  \A o \in OrderIds :
    /\ Exists(o) => order[o].created <= day /\ order[o].denom # 0
    /\ ~Exists(o) => age[o] = 0
    /\ order[o].source = "shop_purchase" =>
         order[o].status # "churned" /\ order[o].elig = NoElig

BatchOK ==
  \A o \in OrderIds :
    /\ o \in todo[Payout] \/ OrderRow(o) \in held[Payout] =>
         order[o].source = "referral_reward"
    /\ o \in todo[Reconciler] =>
         Exists(o) /\ order[o].source = "shop_purchase" /\ age[o] = 2

CapsOK ==
  OneYear =>
    /\ day <= MaxDay /\ ~resetDue
    /\ YtdMatchesReservations
    /\ \A u \in Users : ytd[u] <= CapAnnual
    /\ \A o \in OrderIds : /\ order[o].cap \in {0, order[o].denom} /\ resYear[o] = 0
                           /\ order[o].status = "issued" => order[o].cap = order[o].denom

FailedOK == PromptTasks => FailedHoldsNoReservation

TableInv == RowsOK /\ CabConservation /\ CapsOK /\ FailedOK /\ DailyCap

IInv == TypeInv /\ LockInv /\ TxInv /\ TableInv /\ BatchOK
-----------------------------------------------------------------------------
LEMMA LockKinds ==
  \A x, y : /\ CapLock(x) # CabRow(y) /\ CapLock(x) # UserRow(y) /\ CabRow(x) # UserRow(y)
            /\ IssueLock(x) # OrderRow(y) /\ IssueLock(x) # CapLock(y)
            /\ IssueLock(x) # CabRow(y) /\ IssueLock(x) # UserRow(y)
            /\ OrderRow(x) # CapLock(y) /\ OrderRow(x) # CabRow(y) /\ OrderRow(x) # UserRow(y)
  BY DEF IssueLock, OrderRow, CapLock, CabRow, UserRow

\* The sums are functions of the committed orders alone.
LEMMA SameSums ==
  ASSUME order' = order
  PROVE  /\ \A u, d : sum_redeemed_window(u, d)' = sum_redeemed_window(u, d)
         /\ \A u, S : Reserved(u, S)' = Reserved(u, S)
  BY DEF sum_redeemed_window, InWindow, Reserved

\* What a transaction knows does not depend on the other transactions.
LEMMA SameTx ==
  ASSUME UNCHANGED <<order, balance, ytd, day, age>>
  PROVE  \A p, l, c, h, b : TxAt(p, l, c, h, b) => TxAt(p, l, c, h, b)'
  <1>1. \A l, c, h, b : RowAt(l, c, h, b) => RowAt(l, c, h, b)'
    BY DEF RowAt, NewCommit, Fresh, Plain, Same, Failing, Exists, Pending
  <1>2. \A l, c, h, b : CabAt(l, c, h, b) => CabAt(l, c, h, b)'
    BY DEF CabAt, NewCommit, Failing, Exists, Pending
  <1>3. \A l, c, h, b : ReleasedAt(l, c, h, b) => ReleasedAt(l, c, h, b)'
    BY DEF ReleasedAt, Failing, Exists, Pending
  <1>r. \A p, l, c, h, b : RecAt(p, l, c, h, b) => RecAt(p, l, c, h, b)'
    BY DEF RecAt, Failing, Pending
  <1>4. \A l, c, h, b : DayAt(l, c, h, b) => DayAt(l, c, h, b)'
    BY SameSums DEF DayAt, NewCommit, Exists
  <1>5. \A p, l, c, h, b : CapAt(p, l, c, h, b) => CapAt(p, l, c, h, b)'
    BY DEF CapAt, SeenYtd, SeenCap, Pending
  <1>6. \A p, l, c : PromptAt(p, l, c) => PromptAt(p, l, c)'
    BY DEF PromptAt, Exists
  <1> QED  BY <1>1, <1>2, <1>3, <1>r, <1>4, <1>5, <1>6 DEF TxAt, OneYear

\* A step inside p's transaction.
LEMMA LocalTx ==
  ASSUME TxInv, NEW p \in Procs, UNCHANGED <<order, balance, ytd, day, age>>,
         \A q \in Procs \ {p} : /\ pc'[q] = pc[q] /\ cur'[q] = cur[q]
                                /\ held'[q] = held[q] /\ buf'[q] = buf[q],
         TxAt(p, pc'[p], cur'[p], held'[p], buf'[p])
  PROVE  TxInv'
  <1> SUFFICES ASSUME NEW q \in Procs
               PROVE  TxAt(q, pc[q], cur[q], held[q], buf[q])'
    BY DEF TxInv
  <1>1. TxAt(q, pc'[q], cur'[q], held'[q], buf'[q])
    <2>1. CASE q = p
      BY <2>1
    <2>2. CASE q # p
      <3>1. TxAt(q, pc[q], cur[q], held[q], buf[q])
        BY DEF TxInv
      <3> QED  BY <2>2, <3>1
    <2> QED  BY <2>1, <2>2
  <1> QED  BY <1>1, SameTx

\* A step that changes no committed row keeps what the rows promise.
LEMMA SameRows ==
  ASSUME TableInv, UNCHANGED <<order, balance, ytd, refunds, age, day, resetDue>>,
         OneYear => \A o \in OrderIds : resYear'[o] = 0
  PROVE  TableInv'
  <1>1. RowsOK'
    BY DEF TableInv, RowsOK, Exists
  <1>2. CabConservation'
    BY DEF TableInv, CabConservation, Stands
  <1>3. CapsOK'
    BY SameSums DEF TableInv, CapsOK, OneYear, YtdMatchesReservations
  <1>4. FailedOK'
    BY DEF TableInv, FailedOK, FailedHoldsNoReservation
  <1>5. DailyCap'
    BY DEF TableInv, DailyCap, Stands
  <1> QED  BY <1>1, <1>2, <1>3, <1>4, <1>5 DEF TableInv
-----------------------------------------------------------------------------
LEMMA Hand ==
  ASSUME IInv, NEW p \in Procs
  PROVE  /\ RowAt(pc[p], cur[p], held[p], buf[p])
         /\ CabAt(pc[p], cur[p], held[p], buf[p])
         /\ ReleasedAt(pc[p], cur[p], held[p], buf[p])
         /\ DayAt(pc[p], cur[p], held[p], buf[p])
         /\ RecAt(p, pc[p], cur[p], held[p], buf[p])
         /\ OneYear => CapAt(p, pc[p], cur[p], held[p], buf[p])
         /\ PromptTasks => PromptAt(p, pc[p], cur[p])
  BY DEF IInv, TxInv, TxAt

\* A process between two transactions.
LEMMA QuietTx ==
  ASSUME NEW p \in Procs, NEW l \in {"idle", "recNext"}
  PROVE  TxAt(p, l, NULL, {}, NoBuf)
  <1>1. NULL \notin OrderIds /\ ~NoBuf.refund
    BY GiftCardsAssumption DEF NoBuf
  <1>2. RowAt(l, NULL, {}, NoBuf)
    BY <1>1 DEF RowAt, NewCommit, Busy, Plain
  <1>3. CabAt(l, NULL, {}, NoBuf)
    BY <1>1 DEF CabAt, NewCommit
  <1>4. /\ ReleasedAt(l, NULL, {}, NoBuf) /\ DayAt(l, NULL, {}, NoBuf)
        /\ RecAt(p, l, NULL, {}, NoBuf)
    BY DEF ReleasedAt, DayAt, NewCommit, RecAt, After
  <1>5. CapAt(p, l, NULL, {}, NoBuf)
    BY DEF CapAt, After
  <1>6. PromptAt(p, l, NULL)
    BY <1>1 DEF PromptAt, Busy
  <1> QED  BY <1>2, <1>3, <1>4, <1>5, <1>6 DEF TxAt

LEMMA DropValues ==
  ASSUME TypeInv, NEW p \in Procs, Drop(p)
  PROVE  /\ pc'[p] \in {"idle", "recNext"} /\ cur'[p] = NULL /\ held'[p] = {}
         /\ buf'[p] = NoBuf
         /\ \A q \in Procs \ {p} : /\ pc'[q] = pc[q] /\ cur'[q] = cur[q]
                                   /\ held'[q] = held[q] /\ buf'[q] = buf[q]
  BY DEF TypeInv, ProcsOK, Drop, Goto, Idle

LEMMA DropTx ==
  ASSUME IInv, NEW p \in Procs, Drop(p), UNCHANGED <<order, balance, ytd, day, age>>
  PROVE  TxInv'
  <1>1. TypeInv /\ TxInv
    BY DEF IInv
  <1>2. TxAt(p, pc'[p], cur'[p], held'[p], buf'[p])
    BY <1>1, DropValues, QuietTx
  <1> QED  BY <1>1, <1>2, DropValues, LocalTx

\* An issuance task is queued on an idle worker.
LEMMA QueuedTx ==
  ASSUME IInv, NEW p \in Workers, NEW o \in OrderIds, pc[p] = "idle",
         PromptTasks /\ Exists(o) => order[o].source # "shop_purchase"
  PROVE  TxAt(p, "queued", o, held[p], buf[p])
  <1>p. p \in Procs /\ p # Payout /\ p # Reconciler /\ NULL \notin OrderIds
    BY GiftCardsAssumption DEF Procs
  <1>1. cur[p] = NULL
    BY <1>p DEF IInv, TypeInv, Shape, ShapeAt, Busy
  <1>2. OrderRow(o) \notin held[p]
    BY <1>p, <1>1 DEF IInv, LockInv, RowOwner
  <1>3. RowAt("queued", o, held[p], buf[p])
    BY <1>2 DEF RowAt, NewCommit, Busy, Plain
  <1>4. CabAt("queued", o, held[p], buf[p])
    BY <1>p, Hand DEF CabAt, NewCommit
  <1>5. /\ ReleasedAt("queued", o, held[p], buf[p]) /\ DayAt("queued", o, held[p], buf[p])
        /\ RecAt(p, "queued", o, held[p], buf[p])
    BY DEF ReleasedAt, DayAt, NewCommit, RecAt, After
  <1>6. OneYear => CapAt(p, "queued", o, held[p], buf[p])
    BY <1>p, Hand DEF CapAt, After
  <1>7. PromptTasks => PromptAt(p, "queued", o)
    BY <1>p DEF PromptAt, Busy
  <1> QED  BY <1>3, <1>4, <1>5, <1>6, <1>7 DEF TxAt

LEMMA ShopBeginTx ==
  ASSUME IInv, NEW p \in Workers, NEW u \in Users, NEW denom \in ShopDenoms,
         ShopBegin(p, u, denom)
  PROVE  TxInv'
  <1> DEFINE r == NewOrder(u, "shop_purchase", NULL, denom, NoElig)
  <1>p. p \in Procs /\ p # Payout /\ p # Reconciler /\ NULL \notin OrderIds
    BY GiftCardsAssumption DEF Procs
  <1>1. /\ r.status = "pending" /\ r.cap = 0 /\ r.source = "shop_purchase"
        /\ r.elig = NoElig /\ r.created = day /\ r.denom = denom /\ denom # 0 /\ day <= day
        /\ day <= LastOrderDay
    BY GiftCardsAssumption DEF NewOrder, IInv, TypeInv, TablesOK, ShopBegin
  <1> HIDE DEF r
  <1>2. /\ pc[p] = "idle" /\ pc'[p] = "shopLock" /\ cur' = cur /\ held' = held
        /\ buf'[p] = [buf[p] EXCEPT !.row = r] /\ TypeInv /\ TxInv
        /\ \A q \in Procs \ {p} : /\ pc'[q] = pc[q] /\ cur'[q] = cur[q]
                                  /\ held'[q] = held[q] /\ buf'[q] = buf[q]
        /\ UNCHANGED <<order, balance, ytd, day, age>>
    BY <1>p DEF ShopBegin, Goto, tables, clock, IInv, TypeInv, ProcsOK, r
  <1>3. cur[p] = NULL /\ buf[p] \in BufRec
    BY <1>p, <1>2 DEF TypeInv, Shape, ShapeAt, Busy, ProcsOK
  <1>4. PICK b \in BufRec : b = buf[p]
    BY <1>3
  <1>5. buf'[p].row = r /\ buf'[p].refund = buf[p].refund
    BY <1>2, <1>4 DEF BufRec
  <1>6. RowAt("shopLock", NULL, held[p], buf'[p])
    BY <1>p, <1>1, <1>5 DEF RowAt, Fresh, Plain, NewCommit, Busy
  <1>7. CabAt("shopLock", NULL, held[p], buf'[p])
    BY <1>p, <1>2, <1>5, Hand DEF CabAt, NewCommit
  <1>8. /\ ReleasedAt("shopLock", NULL, held[p], buf'[p]) /\ DayAt("shopLock", NULL, held[p], buf'[p])
        /\ RecAt(p, "shopLock", NULL, held[p], buf'[p])
    BY DEF ReleasedAt, DayAt, NewCommit, RecAt, After
  <1>9. OneYear => CapAt(p, "shopLock", NULL, held[p], buf'[p])
    BY <1>p, <1>2, Hand DEF CapAt, After
  <1>10. PromptAt(p, "shopLock", NULL)
    BY <1>p DEF PromptAt, Busy
  <1>11. TxAt(p, pc'[p], cur'[p], held'[p], buf'[p])
    BY <1>2, <1>3, <1>6, <1>7, <1>8, <1>9, <1>10 DEF TxAt
  <1> QED  BY <1>p, <1>2, <1>11, LocalTx

LEMMA ShopCapsTx ==
  ASSUME IInv, NEW p \in Procs, ShopCaps(p)
  PROVE  TxInv'
  <1>1. UNCHANGED <<order, balance, ytd, day, age>>
    BY DEF ShopCaps, tables, clock
  <1>2. CASE Drop(p)
    BY <1>1, <1>2, DropTx
  <1>3. CASE ~Drop(p)
    <2> DEFINE k == CapLock(User(p))
    <2>1. /\ pc[p] = "shopLock" /\ pc'[p] = "shopDebit" /\ cur' = cur
          /\ held'[p] = held[p] \cup {k} /\ buf' = buf /\ TypeInv /\ TxInv
          /\ \A q \in Procs \ {p} : pc'[q] = pc[q] /\ held'[q] = held[q]
          /\ sum_redeemed_window(User(p), buf[p].row.created) + buf[p].row.denom <= CapDaily
          /\ sum_redeemed_window(User(p), WeekStart(buf[p].row.created)) + buf[p].row.denom
               <= CapWeekly
      BY <1>3 DEF ShopCaps, Goto, Take, IInv, TypeInv, ProcsOK, count_redeemed_today,
                  count_redeemed_this_week, WeekStart
    <2>2. cur[p] = NULL /\ NULL \notin OrderIds /\ p # Reconciler
      BY <2>1, GiftCardsAssumption DEF TypeInv, Shape, ShapeAt, Busy
    <2>3. k = CapLock(buf[p].row.user) /\ User(p) = buf[p].row.user
      BY DEF User
    <2>k. /\ \A x : k # CabRow(x) /\ k # UserRow(x) /\ k # OrderRow(x)
      BY LockKinds
    <2> HIDE DEF k
    <2>4. RowAt("shopDebit", NULL, held'[p], buf[p])
      BY <2>1, <2>2, Hand DEF RowAt, NewCommit, Busy, Plain
    <2>5. CabAt("shopDebit", NULL, held'[p], buf[p])
      BY <2>1, <2>k, Hand DEF CabAt, NewCommit
    <2>6. /\ ReleasedAt("shopDebit", NULL, held'[p], buf[p]) /\ DayAt("shopDebit", NULL, held'[p], buf[p])
          /\ RecAt(p, "shopDebit", NULL, held'[p], buf[p])
      BY <2>1, <2>3 DEF ReleasedAt, DayAt, RecAt, After
    <2>7. OneYear => CapAt(p, "shopDebit", NULL, held'[p], buf[p])
      BY <2>1, <2>k, Hand DEF CapAt, After
    <2>8. PromptAt(p, "shopDebit", NULL)
      BY <2>2 DEF PromptAt, Busy
    <2>9. TxAt(p, pc'[p], cur'[p], held'[p], buf'[p])
      BY <2>1, <2>2, <2>4, <2>5, <2>6, <2>7, <2>8 DEF TxAt
    <2> QED  BY <1>1, <2>1, <2>9, LocalTx
  <1> QED  BY <1>2, <1>3

LEMMA NoRow ==
  ASSUME TypeInv, NEW o \in OrderIds, ~Exists(o)
  PROVE  order[o] = NoOrder /\ order[o].cap = 0
  BY RowTypes DEF TypeInv, TablesOK, Exists, NoOrder

LEMMA ShopDebitTx ==
  ASSUME IInv, NEW p \in Procs, ShopDebit(p)
  PROVE  TxInv'
  <1>1. UNCHANGED <<order, balance, ytd, day, age>>
    BY DEF ShopDebit, tables, clock
  <1>2. CASE Drop(p)
    BY <1>1, <1>2, DropTx
  <1>3. CASE ~Drop(p)
    <2> DEFINE u == buf[p].row.user
    <2>0. /\ pc[p] = "shopDebit" /\ TypeInv /\ TxInv
      BY <1>3 DEF ShopDebit, IInv
    <2>h. /\ cur[p] = NULL /\ NULL \notin OrderIds /\ p # Reconciler
          /\ buf[p] \in BufRec /\ buf[p].row \in OrderRec /\ u \in Users
      BY <2>0, AtHand, GiftCardsAssumption DEF TypeInv, Shape, ShapeAt, Busy, User
    <2>n. balance[u] - CabCost(buf[p].row.denom) \in Nat
      <3>1. balance[u] \in Nat /\ CabCost(buf[p].row.denom) \in Nat
        BY <2>0, <2>h, CabCostNat, RowTypes DEF TypeInv, TablesOK
      <3>2. balance[u] >= CabCost(buf[p].row.denom)
        BY <1>3 DEF ShopDebit, User
      <3> QED  BY <3>1, <3>2
    <2>m. PICK n \in Nat : n = balance[u] - CabCost(buf[p].row.denom)
      BY <2>n
    <2>1. PICK o \in Unused :
            /\ pc' = [pc EXCEPT ![p] = "commit"] /\ cur' = [cur EXCEPT ![p] = o]
            /\ held' = [held EXCEPT ![p] = held[p] \cup {CabRow(u), OrderRow(o)}]
            /\ buf' = [buf EXCEPT ![p] = [buf[p] EXCEPT !.bal = n]]
      BY <1>3, <2>m DEF ShopDebit, Goto, Take, User
    <2>2. /\ pc'[p] = "commit" /\ cur'[p] = o
          /\ held'[p] = held[p] \cup {CabRow(u), OrderRow(o)}
          /\ buf'[p] = [buf[p] EXCEPT !.bal = n]
          /\ \A q \in Procs \ {p} : /\ pc'[q] = pc[q] /\ cur'[q] = cur[q]
                                    /\ held'[q] = held[q] /\ buf'[q] = buf[q]
      BY <2>0, <2>1 DEF TypeInv, ProcsOK
    <2>3. /\ buf'[p].row = buf[p].row /\ buf'[p].refund = buf[p].refund /\ buf'[p].bal = n
      BY <2>2, <2>h DEF BufRec
    <2>4. o \in OrderIds /\ ~Exists(o) /\ order[o].cap = 0
      BY <2>0, NoRow DEF Unused
    <2>5. RowAt("commit", o, held'[p], buf'[p])
      <3>1. Fresh(buf[p].row)
        BY <2>0, Hand DEF RowAt
      <3> QED  BY <2>3, <2>4, <3>1 DEF RowAt, Busy, Fresh, Plain, After
    <2>6. CabAt("commit", o, held'[p], buf'[p])
      <3>1. ~buf[p].refund
        BY <2>0, Hand DEF CabAt
      <3> QED  BY <2>2, <2>3, <2>4, <2>m, <3>1 DEF CabAt
    <2>7. ReleasedAt("commit", o, held'[p], buf'[p])
      BY <2>4 DEF ReleasedAt
    <2>8. DayAt("commit", o, held'[p], buf'[p]) /\ RecAt(p, "commit", o, held'[p], buf'[p])
      BY <2>0, <2>h, <2>2, <2>3, Hand DEF DayAt, RecAt
    <2>9. OneYear => CapAt(p, "commit", o, held'[p], buf'[p])
      <3> HAVE OneYear
      <3>1. UserRow(u) \notin held'[p] /\ OrderRow(o) \in held'[p]
        <4>1. UserRow(u) \notin held[p]
          BY <2>0, <2>h, Hand DEF CapAt, After
        <4>2. UserRow(u) # CabRow(u) /\ UserRow(u) # OrderRow(o)
          BY LockKinds
        <4> QED  BY <2>2, <4>1, <4>2
      <3>2. Fresh(buf[p].row)
        BY <2>0, Hand DEF RowAt
      <3>3. ytd[u] \in Nat
        BY <2>0, <2>h DEF TypeInv, TablesOK
      <3> QED  BY <2>h, <2>3, <2>4, <3>1, <3>2, <3>3
               DEF CapAt, After, SeenYtd, SeenCap, Fresh
    <2>10. PromptAt(p, "commit", o)
      BY <2>4, <2>h DEF PromptAt
    <2>11. TxAt(p, pc'[p], cur'[p], held'[p], buf'[p])
      BY <2>2, <2>5, <2>6, <2>7, <2>8, <2>9, <2>10 DEF TxAt
    <2> QED  BY <1>1, <2>0, <2>2, <2>11, LocalTx
  <1> QED  BY <1>2, <1>3

\* A worker that is not inserting an order is working on an existing one.
LEMMA AtWork ==
  ASSUME IInv, NEW p \in Procs, pc[p] \in (Busy \ {"commit"}) \cup {"queued"}
  PROVE  /\ TypeInv /\ TxInv /\ TableInv /\ cur[p] \in OrderIds /\ Exists(cur[p])
         /\ Plain(order[cur[p]]) /\ (pc[p] # "queued" => Plain(buf[p].row))
         /\ order[cur[p]] \in OrderRec
         /\ pc[p] # "queued" => /\ buf[p] \in BufRec /\ buf[p].row \in OrderRec
                                /\ buf[p].row.user \in Users /\ User(p) = buf[p].row.user
                                /\ Same(buf[p].row, order[cur[p]])
         /\ p # Payout
         /\ pc[p] \notin {"refund", "release"} => p # Reconciler
  <1>1. TypeInv /\ TxInv /\ TableInv
    BY DEF IInv
  <1>2. /\ cur[p] \in OrderIds /\ Exists(cur[p]) /\ order[cur[p]] \in OrderRec /\ p # Payout
        /\ pc[p] \notin {"refund", "release"} => p # Reconciler
    BY <1>1, AtHand DEF Busy
  <1>3. pc[p] # "queued" => /\ buf[p] \in BufRec /\ buf[p].row \in OrderRec
                            /\ buf[p].row.user \in Users /\ User(p) = buf[p].row.user
    BY <1>1, AtHand DEF User
  <1>4. pc[p] # "queued" => Same(buf[p].row, order[cur[p]])
    BY <1>2, Hand DEF RowAt
  <1>5. pc[p] # "queued" => Plain(buf[p].row)
    BY Hand DEF RowAt
  <1>6. Plain(order[cur[p]])
    BY <1>1, <1>2 DEF TableInv, RowsOK, Plain
  <1> QED  BY <1>1, <1>2, <1>3, <1>4, <1>5, <1>6

LEMMA IssueStartTx ==
  ASSUME IInv, NEW p \in Procs, IssueStart(p)
  PROVE  TxInv'
  <1>1. UNCHANGED <<order, balance, ytd, day, age>>
    BY DEF IssueStart, tables, clock
  <1>2. CASE Drop(p)
    BY <1>1, <1>2, DropTx
  <1>3. CASE ~Drop(p)
    <2> DEFINE o == cur[p]
    <2>0. pc[p] = "queued"
      BY DEF IssueStart
    <2>h. TypeInv /\ TxInv /\ o \in OrderIds /\ Exists(o) /\ p # Reconciler
          /\ order[o] \in OrderRec /\ buf[p] \in BufRec /\ Plain(order[o])
      BY <2>0, AtWork DEF TypeInv, ProcsOK
    <2>1. /\ pc'[p] = "reserve" /\ cur' = cur /\ Pending(o)
          /\ held'[p] = held[p] \cup {IssueLock(o)}
          /\ buf'[p] = [buf[p] EXCEPT !.row = order[o]]
          /\ \A q \in Procs \ {p} : /\ pc'[q] = pc[q] /\ cur'[q] = cur[q]
                                    /\ held'[q] = held[q] /\ buf'[q] = buf[q]
      BY <1>3, <2>h DEF IssueStart, Goto, Take, TypeInv, ProcsOK
    <2>2. buf'[p].row = order[o] /\ buf'[p].refund = buf[p].refund
      BY <2>1, <2>h DEF BufRec
    <2>k. \A x : /\ OrderRow(x) \in held'[p] => OrderRow(x) \in held[p]
                 /\ CabRow(x) \in held'[p] => CabRow(x) \in held[p]
                 /\ UserRow(x) \in held'[p] => UserRow(x) \in held[p]
      BY <2>1, LockKinds
    <2> HIDE DEF o
    <2>4. RowAt("reserve", o, held'[p], buf'[p])
      <3>1. OrderRow(o) \notin held'[p]
        BY <2>0, <2>h, <2>k, Hand DEF RowAt, After, o
      <3> QED  BY <2>2, <2>h, <3>1 DEF RowAt, NewCommit, Busy, Plain, Same
    <2>5. CabAt("reserve", o, held'[p], buf'[p])
      BY <2>0, <2>2, <2>k, Hand DEF CabAt, NewCommit
    <2>6. /\ ReleasedAt("reserve", o, held'[p], buf'[p]) /\ DayAt("reserve", o, held'[p], buf'[p])
          /\ RecAt(p, "reserve", o, held'[p], buf'[p])
      BY DEF ReleasedAt, DayAt, NewCommit, RecAt, After
    <2>7. OneYear => CapAt(p, "reserve", o, held'[p], buf'[p])
      BY <2>0, <2>k, Hand DEF CapAt, After
    <2>8. PromptTasks => PromptAt(p, "reserve", o)
      BY <2>0, <2>1, <2>h, Hand DEF PromptAt, Pending, o
    <2>9. TxAt(p, pc'[p], cur'[p], held'[p], buf'[p])
      BY <2>1, <2>4, <2>5, <2>6, <2>7, <2>8 DEF TxAt, o
    <2> QED  BY <1>1, <2>1, <2>h, <2>9, LocalTx
  <1> QED  BY <1>2, <1>3

LEMMA ReserveFastTx ==
  ASSUME IInv, NEW p \in Procs, ReserveFast(p)
  PROVE  TxInv'
  <1> DEFINE o == cur[p]
             l == IF AlreadyReserved(o) THEN "runa" ELSE "capLock"
  <1>0. pc[p] = "reserve"
    BY DEF ReserveFast
  <1>h. /\ TypeInv /\ TxInv /\ TableInv /\ o \in OrderIds /\ Exists(o) /\ p # Reconciler
        /\ order[o] \in OrderRec /\ buf[p].row.user \in Users /\ Same(buf[p].row, order[o]) /\ Plain(buf[p].row)
    BY <1>0, AtWork DEF Busy
  <1>1. /\ pc'[p] = l /\ cur' = cur /\ held' = held /\ buf' = buf
        /\ \A q \in Procs \ {p} : pc'[q] = pc[q]
        /\ UNCHANGED <<order, balance, ytd, day, age>>
    BY <1>h DEF ReserveFast, Goto, TypeInv, ProcsOK, tables, clock
  <1>2. l \in {"runa", "capLock"} /\ (l = "runa" => order[o].cap > 0)
    BY DEF AlreadyReserved
  <1>3. OrderRow(o) \notin held[p]
    BY <1>0, <1>h, Hand DEF RowAt, After
  <1> HIDE DEF o, l
  <1>4. RowAt(l, o, held[p], buf[p])
    BY <1>h, <1>2, <1>3 DEF RowAt, NewCommit, Busy, Plain
  <1>5. CabAt(l, o, held[p], buf[p])
    BY <1>0, <1>2, Hand DEF CabAt, NewCommit
  <1>6. /\ ReleasedAt(l, o, held[p], buf[p]) /\ DayAt(l, o, held[p], buf[p])
        /\ RecAt(p, l, o, held[p], buf[p])
    BY <1>2, <1>h DEF ReleasedAt, DayAt, NewCommit, RecAt, After
  <1>7. OneYear => CapAt(p, l, o, held[p], buf[p])
    <2> HAVE OneYear
    <2>1. \A x \in Users : UserRow(x) \notin held[p]
      BY <1>0, Hand DEF CapAt, After
    <2>2. /\ order[o].cap \in {0, order[o].denom} /\ order[o].cap \in Nat
          /\ ytd[buf[p].row.user] \in Nat /\ order[o].denom = buf[p].row.denom
      BY <1>h, RowTypes DEF TableInv, CapsOK, Same, TypeInv, TablesOK
    <2>3. l = "runa" => order[o].cap = buf[p].row.denom
      BY <1>2, <2>2
    <2> QED  BY <1>h, <1>2, <1>3, <2>1, <2>2, <2>3 DEF CapAt, After, SeenYtd, SeenCap
  <1>8. PromptTasks => PromptAt(p, l, o)
    BY <1>0, <1>h, Hand DEF PromptAt, Busy, o
  <1>9. TxAt(p, pc'[p], cur'[p], held'[p], buf'[p])
    BY <1>1, <1>4, <1>5, <1>6, <1>7, <1>8 DEF TxAt, o
  <1> QED  BY <1>1, <1>h, <1>9, LocalTx

LEMMA ReserveDecideTx ==
  ASSUME IInv, NEW p \in Procs, ReserveDecide(p)
  PROVE  TxInv'
  <1> DEFINE o == cur[p]
             l == CapDecision(p)
             u == buf[p].row.user
  <1>0. pc[p] = "capLock"
    BY DEF ReserveDecide
  <1>h. /\ TypeInv /\ TxInv /\ TableInv /\ o \in OrderIds /\ Exists(o) /\ p # Reconciler
        /\ order[o] \in OrderRec /\ u \in Users /\ Same(buf[p].row, order[o]) /\ Plain(buf[p].row)
        /\ User(p) = u
    BY <1>0, AtWork DEF Busy
  <1>1. /\ pc'[p] = l /\ cur' = cur /\ held'[p] = held[p] \cup {CapLock(u)} /\ buf' = buf
        /\ \A q \in Procs \ {p} : pc'[q] = pc[q] /\ held'[q] = held[q]
        /\ UNCHANGED <<order, balance, ytd, day, age>>
    BY <1>h DEF ReserveDecide, Goto, Take, TypeInv, ProcsOK, tables, clock
  <1>2. /\ l \in {"runa", "resUser", "defer", "fail"}
        /\ l = "runa" => order[o].cap > 0
        /\ l = "defer" => order[o].source # "shop_purchase"
        /\ l = "resUser" => ~(order[o].cap > 0) /\ ytd[u] + order[o].denom <= CapAnnual
    BY <1>h DEF CapDecision, AlreadyReserved
  <1>k. \A x : /\ OrderRow(x) \in held'[p] => OrderRow(x) \in held[p]
               /\ CabRow(x) \in held'[p] => CabRow(x) \in held[p]
               /\ UserRow(x) \in held'[p] => UserRow(x) \in held[p]
    BY <1>1, LockKinds
  <1>3. OrderRow(o) \notin held'[p]
    BY <1>0, <1>h, <1>k, Hand DEF RowAt, After
  <1> HIDE DEF o, l
  <1>4. RowAt(l, o, held'[p], buf[p])
    BY <1>h, <1>2, <1>3 DEF RowAt, NewCommit, Busy, Plain
  <1>5. CabAt(l, o, held'[p], buf[p])
    BY <1>0, <1>2, <1>k, Hand DEF CabAt, NewCommit
  <1>6. /\ ReleasedAt(l, o, held'[p], buf[p]) /\ DayAt(l, o, held'[p], buf[p])
        /\ RecAt(p, l, o, held'[p], buf[p])
    BY <1>2, <1>h DEF ReleasedAt, DayAt, NewCommit, RecAt, After
  <1>7. OneYear => CapAt(p, l, o, held'[p], buf[p])
    <2> HAVE OneYear
    <2>1. \A x \in Users : UserRow(x) \notin held'[p]
      BY <1>0, <1>k, Hand DEF CapAt, After
    <2>2. /\ order[o].cap \in {0, order[o].denom} /\ order[o].cap \in Nat
          /\ ytd[u] \in Nat /\ order[o].denom = buf[p].row.denom
      BY <1>h, RowTypes DEF TableInv, CapsOK, Same, TypeInv, TablesOK
    <2>3. /\ l = "runa" => order[o].cap = buf[p].row.denom
          /\ l = "defer" => order[o].source # "shop_purchase"
        /\ l = "resUser" => order[o].cap = 0
      BY <1>2, <2>2
    <2>4. CapLock(u) \in held'[p]
      BY <1>1
    <2> QED  BY <1>h, <1>2, <1>3, <2>1, <2>2, <2>3, <2>4
             DEF CapAt, After, SeenYtd, SeenCap
  <1>8. PromptTasks => PromptAt(p, l, o)
    BY <1>0, <1>h, Hand DEF PromptAt, Busy, o
  <1>9. TxAt(p, pc'[p], cur'[p], held'[p], buf'[p])
    BY <1>1, <1>4, <1>5, <1>6, <1>7, <1>8 DEF TxAt, o
  <1> QED  BY <1>1, <1>h, <1>9, LocalTx

LEMMA ReserveUserTx ==
  ASSUME IInv, NEW p \in Procs, ReserveUser(p)
  PROVE  TxInv'
  <1> DEFINE o == cur[p]
             u == buf[p].row.user
  <1>0. pc[p] = "resUser"
    BY DEF ReserveUser
  <1>h. /\ TypeInv /\ TxInv /\ TableInv /\ o \in OrderIds /\ Exists(o) /\ p # Reconciler
        /\ order[o] \in OrderRec /\ u \in Users /\ Same(buf[p].row, order[o]) /\ Plain(buf[p].row)
        /\ User(p) = u /\ buf[p] \in BufRec /\ ytd[u] \in Nat /\ order[o].denom \in Nat
        /\ buf[p].row.denom = order[o].denom
    BY <1>0, AtWork, RowTypes DEF Busy, TypeInv, TablesOK, Same
  <1>m. PICK n \in Nat : n = ytd[u] + order[o].denom
    BY <1>h
  <1>1. /\ pc'[p] = "resOrder" /\ cur' = cur /\ held'[p] = held[p] \cup {UserRow(u)}
        /\ buf'[p] = [buf[p] EXCEPT !.ytd = n]
        /\ \A q \in Procs \ {p} : pc'[q] = pc[q] /\ held'[q] = held[q] /\ buf'[q] = buf[q]
        /\ UNCHANGED <<order, balance, ytd, day, age>>
    BY <1>h, <1>m DEF ReserveUser, Goto, Take, TypeInv, ProcsOK, tables, clock
  <1>2. buf'[p].row = buf[p].row /\ buf'[p].refund = buf[p].refund /\ buf'[p].ytd = n
    BY <1>1, <1>h DEF BufRec
  <1>k. \A x : /\ OrderRow(x) \in held'[p] => OrderRow(x) \in held[p]
               /\ CabRow(x) \in held'[p] => CabRow(x) \in held[p]
    BY <1>1, LockKinds
  <1>3. OrderRow(o) \notin held'[p]
    BY <1>0, <1>h, <1>k, Hand DEF RowAt, After
  <1> HIDE DEF o
  <1>4. RowAt("resOrder", o, held'[p], buf'[p])
    BY <1>h, <1>2, <1>3 DEF RowAt, NewCommit, Busy, Plain
  <1>5. CabAt("resOrder", o, held'[p], buf'[p])
    BY <1>0, <1>2, <1>k, Hand DEF CabAt, NewCommit
  <1>6. /\ ReleasedAt("resOrder", o, held'[p], buf'[p]) /\ DayAt("resOrder", o, held'[p], buf'[p])
        /\ RecAt(p, "resOrder", o, held'[p], buf'[p])
    BY <1>h DEF ReleasedAt, DayAt, NewCommit, RecAt, After
  <1>7. OneYear => CapAt(p, "resOrder", o, held'[p], buf'[p])
    <2> HAVE OneYear
    <2>1. /\ order[o].cap = 0 /\ CapLock(u) \in held[p]
          /\ ytd[u] + buf[p].row.denom <= CapAnnual
      BY <1>0, Hand DEF CapAt, o
    <2>2. CapLock(u) \in held'[p] /\ UserRow(u) \in held'[p]
      BY <1>1, <2>1
    <2> QED  BY <1>h, <1>m, <1>2, <2>1, <2>2 DEF CapAt, After
  <1>8. PromptTasks => PromptAt(p, "resOrder", o)
    BY <1>0, <1>h, Hand DEF PromptAt, Busy, o
  <1>9. TxAt(p, pc'[p], cur'[p], held'[p], buf'[p])
    BY <1>1, <1>4, <1>5, <1>6, <1>7, <1>8 DEF TxAt, o
  <1> QED  BY <1>1, <1>h, <1>9, LocalTx

\* A reservation is part of its user's counter.
LEMMA YtdCovers ==
  ASSUME TypeInv, YtdMatchesReservations, NEW o \in OrderIds, NEW u \in Users,
         order[o].user = u
  PROVE  order[o].cap <= ytd[u]
  <1> DEFINE f == [x \in OrderIds |->
                     IF x \in OrderIds /\ order[x].user = u THEN order[x].cap ELSE 0]
  <1>1. \A x \in OrderIds : order[x].cap \in Nat
    BY RowTypes DEF TypeInv, TablesOK, NoOrder
  <1>2. f \in [OrderIds -> Nat] /\ f[o] = order[o].cap
    BY <1>1
  <1>3. ytd[u] = SumFunction(f)
    BY DEF YtdMatchesReservations, Reserved
  <1> HIDE DEF f
  <1> QED  BY <1>2, <1>3, SumNat, GiftCardsAssumption

LEMMA ReserveOrderTx ==
  ASSUME IInv, NEW p \in Procs, ReserveOrder(p)
  PROVE  TxInv'
  <1> DEFINE o == cur[p]
             u == buf[p].row.user
             r == [order[o] EXCEPT !.cap = order[o].denom]
  <1>0. pc[p] = "resOrder"
    BY DEF ReserveOrder
  <1>h. /\ TypeInv /\ TxInv /\ TableInv /\ o \in OrderIds /\ Exists(o) /\ p # Reconciler
        /\ order[o] \in OrderRec /\ u \in Users /\ Same(buf[p].row, order[o]) /\ Plain(buf[p].row)
        /\ Plain(order[o]) /\ buf[p] \in BufRec /\ ytd[u] \in Nat /\ order[o].denom \in Nat
        /\ buf[p].row.denom = order[o].denom /\ buf[p].row.user = order[o].user
    BY <1>0, AtWork, RowTypes DEF Busy, TypeInv, TablesOK, Same
  <1>r. /\ Plain(r) /\ r \in OrderRec /\ Same(r, order[o]) /\ r.status = order[o].status
        /\ r.cap = order[o].denom /\ r.denom = order[o].denom /\ r.user = u
    BY <1>h DEF OrderRec, Same, Plain
  <1>1. /\ pc'[p] = "runa" /\ cur' = cur /\ held'[p] = held[p] \cup {OrderRow(o)}
        /\ buf'[p] = [buf[p] EXCEPT !.row = r]
        /\ \A q \in Procs \ {p} : pc'[q] = pc[q] /\ held'[q] = held[q] /\ buf'[q] = buf[q]
        /\ UNCHANGED <<order, balance, ytd, day, age>>
    BY <1>h DEF ReserveOrder, ReservedRow, Goto, Take, TypeInv, ProcsOK, tables, clock
  <1> HIDE DEF r
  <1>2. buf'[p].row = r /\ buf'[p].refund = buf[p].refund /\ buf'[p].ytd = buf[p].ytd
    BY <1>1, <1>h DEF BufRec
  <1>k. /\ \A x : /\ CabRow(x) \in held'[p] => CabRow(x) \in held[p]
                  /\ UserRow(x) \in held'[p] <=> UserRow(x) \in held[p]
                  /\ CapLock(x) \in held'[p] <=> CapLock(x) \in held[p]
        /\ OrderRow(o) \in held'[p]
    BY <1>1, LockKinds
  <1> HIDE DEF o
  <1>4. RowAt("runa", o, held'[p], buf'[p])
    BY <1>h, <1>r, <1>2 DEF RowAt, NewCommit, Busy, Plain, After
  <1>5. CabAt("runa", o, held'[p], buf'[p])
    BY <1>0, <1>2, <1>k, Hand DEF CabAt, NewCommit
  <1>6. /\ ReleasedAt("runa", o, held'[p], buf'[p]) /\ DayAt("runa", o, held'[p], buf'[p])
        /\ RecAt(p, "runa", o, held'[p], buf'[p])
    BY <1>h DEF ReleasedAt, DayAt, NewCommit, RecAt, After
  <1>7. OneYear => CapAt(p, "runa", o, held'[p], buf'[p])
    <2> HAVE OneYear
    <2>1. /\ order[o].cap = 0 /\ CapLock(u) \in held[p] /\ UserRow(u) \in held[p]
          /\ buf[p].ytd = ytd[u] + buf[p].row.denom /\ buf[p].ytd <= CapAnnual
      BY <1>0, Hand DEF CapAt, o
    <2>2. CapLock(u) \in held'[p] /\ UserRow(u) \in held'[p]
      BY <1>k, <2>1
    <2> QED  BY <1>h, <1>r, <1>k, <1>2, <2>1, <2>2 DEF CapAt, After, SeenYtd, SeenCap
  <1>8. PromptTasks => PromptAt(p, "runa", o)
    BY <1>0, <1>h, Hand DEF PromptAt, Busy, o
  <1>9. TxAt(p, pc'[p], cur'[p], held'[p], buf'[p])
    BY <1>1, <1>4, <1>5, <1>6, <1>7, <1>8 DEF TxAt, o
  <1> QED  BY <1>1, <1>h, <1>9, LocalTx

LEMMA DeferTx ==
  ASSUME IInv, NEW p \in Procs, Defer(p)
  PROVE  TxInv'
  <1> DEFINE o == cur[p]
             u == buf[p].row.user
             r == [order[o] EXCEPT !.elig = NextJan1(day)]
  <1>0. pc[p] = "defer"
    BY DEF Defer
  <1>h. /\ TypeInv /\ TxInv /\ TableInv /\ o \in OrderIds /\ Exists(o) /\ p # Reconciler
        /\ order[o] \in OrderRec /\ u \in Users /\ Same(buf[p].row, order[o]) /\ Plain(buf[p].row)
        /\ order[o].source # "shop_purchase" /\ buf[p] \in BufRec /\ ytd[u] \in Nat /\ order[o].cap \in Nat
        /\ buf[p].row.user = order[o].user
    BY <1>0, AtWork, RowTypes, Hand DEF Busy, TypeInv, TablesOK, Same, RowAt
  <1>r. /\ Plain(r) /\ Same(r, order[o]) /\ r.status = order[o].status /\ r.user = u
        /\ r.cap = order[o].cap /\ r.denom = order[o].denom
    BY <1>h DEF OrderRec, Same, Plain
  <1>1. /\ pc'[p] = "commit" /\ cur' = cur /\ held'[p] = held[p] \cup {OrderRow(o)}
        /\ buf'[p] = [buf[p] EXCEPT !.row = r]
        /\ \A q \in Procs \ {p} : pc'[q] = pc[q] /\ held'[q] = held[q] /\ buf'[q] = buf[q]
        /\ UNCHANGED <<order, balance, ytd, day, age>>
    BY <1>h DEF Defer, Goto, Take, TypeInv, ProcsOK, tables, clock
  <1> HIDE DEF r
  <1>2. buf'[p].row = r /\ buf'[p].refund = buf[p].refund
    BY <1>1, <1>h DEF BufRec
  <1>k. /\ \A x : /\ CabRow(x) \in held'[p] => CabRow(x) \in held[p]
                  /\ UserRow(x) \in held'[p] => UserRow(x) \in held[p]
        /\ OrderRow(o) \in held'[p]
    BY <1>1, LockKinds
  <1> HIDE DEF o
  <1>f. ~Failing(o, held'[p], buf'[p])
    BY <1>r, <1>2 DEF Failing, Pending
  <1>4. RowAt("commit", o, held'[p], buf'[p])
    BY <1>h, <1>r, <1>2 DEF RowAt, NewCommit, Busy, Plain, After
  <1>5. CabAt("commit", o, held'[p], buf'[p])
    BY <1>0, <1>h, <1>r, <1>2, <1>k, <1>f, Hand DEF CabAt, NewCommit
  <1>6. /\ ReleasedAt("commit", o, held'[p], buf'[p]) /\ DayAt("commit", o, held'[p], buf'[p])
        /\ RecAt(p, "commit", o, held'[p], buf'[p])
    BY <1>h, <1>f DEF ReleasedAt, DayAt, NewCommit, RecAt, After
  <1>7. OneYear => CapAt(p, "commit", o, held'[p], buf'[p])
    <2> HAVE OneYear
    <2>1. \A x \in Users : UserRow(x) \notin held'[p]
      BY <1>0, <1>k, Hand DEF CapAt, After
    <2>2. /\ order[o].cap \in {0, order[o].denom}
          /\ order[o].status = "issued" => order[o].cap = order[o].denom
      BY <1>h DEF TableInv, CapsOK
    <2> QED  BY <1>h, <1>r, <1>k, <1>2, <2>1, <2>2 DEF CapAt, After, SeenYtd, SeenCap
  <1>8. PromptTasks => PromptAt(p, "commit", o)
    BY <1>0, <1>h, Hand DEF PromptAt, Busy, o
  <1>9. TxAt(p, pc'[p], cur'[p], held'[p], buf'[p])
    BY <1>1, <1>4, <1>5, <1>6, <1>7, <1>8 DEF TxAt, o
  <1> QED  BY <1>1, <1>h, <1>9, LocalTx

LEMMA CallRunaTx ==
  ASSUME IInv, NEW p \in Procs, CallRuna(p)
  PROVE  TxInv'
  <1> DEFINE o == cur[p]
             u == buf[p].row.user
             l == pc'[p]
  <1>0. pc[p] = "runa"
    BY DEF CallRuna
  <1>h. /\ TypeInv /\ TxInv /\ o \in OrderIds /\ Exists(o) /\ p # Reconciler
        /\ u \in Users /\ Same(buf[p].row, order[o]) /\ Plain(buf[p].row) /\ buf[p] \in BufRec
    BY <1>0, AtWork DEF Busy
  <1>1. /\ cur' = cur /\ held' = held
        /\ \A q \in Procs \ {p} : pc'[q] = pc[q] /\ buf'[q] = buf[q]
        /\ UNCHANGED <<order, balance, ytd, day, age>>
    BY <1>h DEF CallRuna, Goto, TypeInv, ProcsOK, tables, clock
  <1>2. /\ l \in {"issued", "commit", "fail"}
        /\ buf'[p].row = buf[p].row /\ buf'[p].refund = buf[p].refund
        /\ buf'[p].ytd = buf[p].ytd
    <2>1. runa[o] \in {"none", "processing", "complete", "failed"}
      BY <1>h DEF TypeInv, TablesOK
    <2>2. PICK a \in {"processing", "complete", "failed", "error"},
               k \in {"issued", "commit", "fail"} :
            /\ buf' = [buf EXCEPT ![p] = [buf[p] EXCEPT !.answer = a]]
            /\ pc' = [pc EXCEPT ![p] = k]
      BY <2>1 DEF CallRuna, Goto
    <2>3. pc'[p] = k /\ buf'[p] = [buf[p] EXCEPT !.answer = a]
      BY <2>2, <1>h DEF TypeInv, ProcsOK
    <2> QED  BY <1>h, <2>2, <2>3 DEF BufRec
  <1>3. OrderRow(o) \in held[p] => buf[p].row.status = order[o].status
    BY <1>0, Hand DEF RowAt
  <1>f. ~Failing(o, held[p], buf'[p])
    BY <1>2, <1>3 DEF Failing, Pending
  <1> HIDE DEF o, l
  <1>4. RowAt(l, o, held[p], buf'[p])
    BY <1>h, <1>2, <1>3 DEF RowAt, NewCommit, Busy, Plain, After
  <1>5. CabAt(l, o, held[p], buf'[p])
    <2>1. ~buf'[p].refund /\ \A x \in Users : CabRow(x) \notin held[p]
      BY <1>0, <1>2, Hand DEF CabAt
    <2> QED  BY <1>h, <1>2, <1>f, <2>1 DEF CabAt, NewCommit
  <1>6. /\ ReleasedAt(l, o, held[p], buf'[p]) /\ DayAt(l, o, held[p], buf'[p])
        /\ RecAt(p, l, o, held[p], buf'[p])
    BY <1>h, <1>2, <1>f DEF ReleasedAt, DayAt, NewCommit, RecAt, After
  <1>7. OneYear => CapAt(p, l, o, held[p], buf'[p])
    <2> HAVE OneYear
    <2>1. CapAt(p, "runa", o, held[p], buf[p])
      BY <1>0, Hand DEF o
    <2> QED  BY <1>h, <1>2, <2>1 DEF CapAt, After, SeenYtd, SeenCap
  <1>8. PromptTasks => PromptAt(p, l, o)
    BY <1>0, <1>h, Hand DEF PromptAt, Busy, o
  <1>9. TxAt(p, pc'[p], cur'[p], held'[p], buf'[p])
    BY <1>1, <1>4, <1>5, <1>6, <1>7, <1>8 DEF TxAt, o, l
  <1> QED  BY <1>1, <1>h, <1>9, LocalTx

\* p's view of the order row before it writes the outcome.
LEMMA OwnView ==
  ASSUME IInv, NEW p \in Procs, pc[p] \in {"issued", "fail"}
  PROVE  /\ Plain(Own(p)) /\ Own(p) \in OrderRec /\ Same(Own(p), order[cur[p]])
         /\ Own(p).status = order[cur[p]].status
         /\ Own(p).cap = SeenCap(cur[p], held[p], buf[p])
         /\ Own(p).user = buf[p].row.user /\ Own(p).denom = buf[p].row.denom
         /\ OneYear => Own(p).cap \in {0, Own(p).denom}
  <1>h. /\ TypeInv /\ cur[p] \in OrderIds /\ Exists(cur[p]) /\ order[cur[p]] \in OrderRec
        /\ Plain(order[cur[p]]) /\ Plain(buf[p].row)
        /\ buf[p].row \in OrderRec /\ Same(buf[p].row, order[cur[p]]) /\ TableInv
    BY AtWork DEF Busy
  <1>1. CASE OrderRow(cur[p]) \in held[p]
    <2>1. Own(p) = buf[p].row
      BY <1>1 DEF Own
    <2>2. buf[p].row.status = order[cur[p]].status
      BY <1>1, Hand DEF RowAt
    <2>3. OneYear => buf[p].row.cap \in {0, buf[p].row.denom}
      BY <1>1, Hand DEF CapAt, After
    <2> QED  BY <1>h, <1>1, <2>1, <2>2, <2>3 DEF Same, SeenCap
  <1>2. CASE OrderRow(cur[p]) \notin held[p]
    <2>1. Own(p) = order[cur[p]]
      BY <1>2 DEF Own
    <2>2. OneYear => order[cur[p]].cap \in {0, order[cur[p]].denom}
      BY <1>h DEF TableInv, CapsOK
    <2> QED  BY <1>h, <1>2, <2>1, <2>2 DEF Same, SeenCap
  <1> QED  BY <1>1, <1>2

LEMMA OrderIssuedTx ==
  ASSUME IInv, NEW p \in Procs, OrderIssued(p)
  PROVE  TxInv'
  <1> DEFINE o == cur[p]
             u == buf[p].row.user
  <1>0. pc[p] = "issued"
    BY DEF OrderIssued
  <1>h. /\ TypeInv /\ TxInv /\ o \in OrderIds /\ Exists(o) /\ p # Reconciler
        /\ u \in Users /\ Same(buf[p].row, order[o]) /\ Plain(buf[p].row) /\ buf[p] \in BufRec
        /\ buf[p].row \in OrderRec
    BY <1>0, AtWork DEF Busy
  <1>1. /\ pc'[p] = "commit" /\ cur' = cur
        /\ \A q \in Procs \ {p} : pc'[q] = pc[q] /\ held'[q] = held[q] /\ buf'[q] = buf[q]
        /\ UNCHANGED <<order, balance, ytd, day, age>>
    BY <1>h DEF OrderIssued, Goto, Take, TypeInv, ProcsOK, tables, clock
  <1>s. OrderRow(o) \in held[p] => buf[p].row.status = order[o].status
    BY <1>0, Hand DEF RowAt
  <1>c. ~buf[p].refund /\ \A x \in Users : CabRow(x) \notin held[p]
    BY <1>0, Hand DEF CabAt
  <1>2. CASE StillPending(p)
    <2> DEFINE r == [Own(p) EXCEPT !.status = "issued"]
    <2>v. /\ Plain(Own(p)) /\ Own(p) \in OrderRec /\ Same(Own(p), order[o])
          /\ Own(p).status = order[o].status /\ Own(p).cap = SeenCap(o, held[p], buf[p])
          /\ Own(p).user = u /\ Own(p).denom = buf[p].row.denom
      BY <1>0, OwnView
    <2>r. /\ Plain(r) /\ Same(r, order[o]) /\ r.status = "issued" /\ r.user = u
          /\ r.cap = SeenCap(o, held[p], buf[p]) /\ r.denom = buf[p].row.denom
      BY <2>v DEF OrderRec, Same, Plain
    <2>p. Pending(o)
      BY <1>2, <2>v DEF StillPending, Pending
    <2>1. /\ held'[p] = held[p] \cup {OrderRow(o)} /\ buf'[p] = [buf[p] EXCEPT !.row = r]
      BY <1>2, <1>h DEF OrderIssued, Take, TypeInv, ProcsOK
    <2> HIDE DEF r
    <2>2. buf'[p].row = r /\ buf'[p].refund = buf[p].refund /\ buf'[p].ytd = buf[p].ytd
      BY <2>1, <1>h DEF BufRec
    <2>k. /\ \A x : /\ CabRow(x) \in held'[p] => CabRow(x) \in held[p]
                    /\ UserRow(x) \in held'[p] <=> UserRow(x) \in held[p]
                    /\ CapLock(x) \in held'[p] <=> CapLock(x) \in held[p]
          /\ OrderRow(o) \in held'[p]
      BY <2>1, LockKinds
    <2> HIDE DEF o
    <2>f. ~Failing(o, held'[p], buf'[p])
      BY <2>r, <2>2 DEF Failing
    <2>4. RowAt("commit", o, held'[p], buf'[p])
      BY <1>h, <2>r, <2>2, <2>p DEF RowAt, NewCommit, Busy, Plain, After
    <2>5. CabAt("commit", o, held'[p], buf'[p])
      BY <1>h, <1>c, <2>r, <2>2, <2>k, <2>f DEF CabAt, NewCommit
    <2>6. /\ ReleasedAt("commit", o, held'[p], buf'[p]) /\ DayAt("commit", o, held'[p], buf'[p])
          /\ RecAt(p, "commit", o, held'[p], buf'[p])
      BY <1>h, <2>f DEF ReleasedAt, DayAt, NewCommit, RecAt, After
    <2>7. OneYear => CapAt(p, "commit", o, held'[p], buf'[p])
      <3> HAVE OneYear
      <3>1. CapAt(p, "issued", o, held[p], buf[p])
        BY <1>0, Hand DEF o
      <3>2. SeenCap(o, held[p], buf[p]) = buf[p].row.denom
        BY <2>p, <3>1 DEF CapAt
      <3>3. SeenYtd(held[p], buf[p]) + order[o].cap = ytd[u] + SeenCap(o, held[p], buf[p])
        BY <3>1 DEF CapAt, After
      <3>4. SeenYtd(held'[p], buf'[p]) = SeenYtd(held[p], buf[p])
        BY <2>r, <2>2, <2>k DEF SeenYtd
      <3>5. SeenCap(o, held'[p], buf'[p]) = SeenCap(o, held[p], buf[p])
        BY <2>r, <2>2, <2>k DEF SeenCap
      <3>6. UserRow(u) \in held'[p] =>
              buf'[p].ytd <= CapAnnual /\ (CapLock(u) \in held'[p] \/ buf'[p].ytd <= ytd[u])
        BY <2>2, <2>k, <3>1 DEF CapAt, After
      <3> QED  BY <1>h, <2>r, <2>2, <3>2, <3>3, <3>4, <3>5, <3>6 DEF CapAt, After
    <2>8. PromptTasks => PromptAt(p, "commit", o)
      BY <1>0, <1>h, Hand DEF PromptAt, Busy, o
    <2>9. TxAt(p, pc'[p], cur'[p], held'[p], buf'[p])
      BY <1>1, <2>4, <2>5, <2>6, <2>7, <2>8 DEF TxAt, o
    <2> QED  BY <1>1, <1>h, <2>9, LocalTx
  <1>3. CASE ~StillPending(p)
    <2>1. held' = held /\ buf' = buf
      BY <1>3 DEF OrderIssued
    <2> HIDE DEF o
    <2>f. ~Failing(o, held[p], buf[p])
      BY <1>s DEF Failing, Pending
    <2>4. RowAt("commit", o, held[p], buf[p])
      BY <1>h, <1>s DEF RowAt, NewCommit, Busy, Plain, After
    <2>5. CabAt("commit", o, held[p], buf[p])
      BY <1>h, <1>c, <2>f DEF CabAt, NewCommit
    <2>6. /\ ReleasedAt("commit", o, held[p], buf[p]) /\ DayAt("commit", o, held[p], buf[p])
          /\ RecAt(p, "commit", o, held[p], buf[p])
      BY <1>h, <2>f DEF ReleasedAt, DayAt, NewCommit, RecAt, After
    <2>7. OneYear => CapAt(p, "commit", o, held[p], buf[p])
      <3> HAVE OneYear
      <3>1. CapAt(p, "issued", o, held[p], buf[p])
        BY <1>0, Hand DEF o
      <3> QED  BY <1>h, <3>1 DEF CapAt, After
    <2>8. PromptTasks => PromptAt(p, "commit", o)
      BY <1>0, <1>h, Hand DEF PromptAt, Busy, o
    <2>9. TxAt(p, pc'[p], cur'[p], held'[p], buf'[p])
      BY <1>1, <2>1, <2>4, <2>5, <2>6, <2>7, <2>8 DEF TxAt, o
    <2> QED  BY <1>1, <1>h, <2>1, <2>9, LocalTx
  <1> QED  BY <1>2, <1>3

LEMMA OrderFailedTx ==
  ASSUME IInv, NEW p \in Procs, OrderFailed(p)
  PROVE  TxInv'
  <1> DEFINE o == cur[p]
             u == buf[p].row.user
             l == pc'[p]
  <1>0. pc[p] = "fail"
    BY DEF OrderFailed
  <1>h. /\ TypeInv /\ TxInv /\ o \in OrderIds /\ Exists(o) /\ p # Reconciler
        /\ u \in Users /\ Same(buf[p].row, order[o]) /\ Plain(buf[p].row) /\ buf[p] \in BufRec
        /\ buf[p].row \in OrderRec
    BY <1>0, AtWork DEF Busy
  <1>1. /\ cur' = cur
        /\ \A q \in Procs \ {p} : pc'[q] = pc[q] /\ held'[q] = held[q] /\ buf'[q] = buf[q]
        /\ UNCHANGED <<order, balance, ytd, day, age>>
    BY <1>h DEF OrderFailed, Goto, Take, TypeInv, ProcsOK, tables, clock
  <1>s. OrderRow(o) \in held[p] => buf[p].row.status = order[o].status
    BY <1>0, Hand DEF RowAt
  <1>c. ~buf[p].refund /\ \A x \in Users : CabRow(x) \notin held[p]
    BY <1>0, Hand DEF CabAt
  <1>2. CASE StillPending(p)
    <2> DEFINE r == [Own(p) EXCEPT !.status = "failed"]
    <2>v. /\ Plain(Own(p)) /\ Own(p) \in OrderRec /\ Same(Own(p), order[o])
          /\ Own(p).status = order[o].status /\ Own(p).cap = SeenCap(o, held[p], buf[p])
          /\ Own(p).user = u /\ Own(p).denom = buf[p].row.denom
          /\ OneYear => Own(p).cap \in {0, Own(p).denom}
      BY <1>0, OwnView
    <2>r. /\ Plain(r) /\ Same(r, order[o]) /\ r.status = "failed" /\ r.user = u
          /\ r.cap = SeenCap(o, held[p], buf[p]) /\ r.denom = buf[p].row.denom
          /\ r.source = Own(p).source /\ r.cap = Own(p).cap
      BY <2>v DEF OrderRec, Same, Plain
    <2>p. Pending(o)
      BY <1>2, <2>v DEF StillPending, Pending
    <2>1. /\ held'[p] = held[p] \cup {OrderRow(o)} /\ buf'[p] = [buf[p] EXCEPT !.row = r]
          /\ l = IF r.source = "shop_purchase" THEN "refund" ELSE "release"
      BY <1>2, <1>h, <2>r DEF OrderFailed, Take, Goto, TypeInv, ProcsOK
    <2>l. l \in {"refund", "release"} /\ (l = "refund" <=> r.source = "shop_purchase")
      BY <2>1
    <2> HIDE DEF r, l
    <2>2. buf'[p].row = r /\ buf'[p].refund = buf[p].refund /\ buf'[p].ytd = buf[p].ytd
      BY <2>1, <1>h DEF BufRec
    <2>k. /\ \A x : /\ CabRow(x) \in held'[p] => CabRow(x) \in held[p]
                    /\ UserRow(x) \in held'[p] <=> UserRow(x) \in held[p]
                    /\ CapLock(x) \in held'[p] <=> CapLock(x) \in held[p]
          /\ OrderRow(o) \in held'[p]
      BY <2>1, LockKinds
    <2> HIDE DEF o
    <2>f. Failing(o, held'[p], buf'[p])
      BY <2>r, <2>2, <2>k, <2>p DEF Failing
    <2>4. RowAt(l, o, held'[p], buf'[p])
      BY <1>h, <2>l, <2>r, <2>2, <2>p, <2>f DEF RowAt, NewCommit, Busy, Plain, After
    <2>5. CabAt(l, o, held'[p], buf'[p])
      BY <1>h, <1>c, <2>l, <2>r, <2>2, <2>k DEF CabAt, NewCommit
    <2>6. /\ ReleasedAt(l, o, held'[p], buf'[p]) /\ DayAt(l, o, held'[p], buf'[p])
          /\ RecAt(p, l, o, held'[p], buf'[p])
      BY <1>h, <2>l DEF ReleasedAt, DayAt, NewCommit, RecAt, After
    <2>7. OneYear => CapAt(p, l, o, held'[p], buf'[p])
      <3> HAVE OneYear
      <3>1. CapAt(p, "fail", o, held[p], buf[p])
        BY <1>0, Hand DEF o
      <3>2. r.cap \in {0, r.denom}
        BY <2>r, <2>v
      <3>3. SeenYtd(held[p], buf[p]) + order[o].cap = ytd[u] + SeenCap(o, held[p], buf[p])
        BY <3>1 DEF CapAt, After
      <3>4. SeenYtd(held'[p], buf'[p]) = SeenYtd(held[p], buf[p])
        BY <2>r, <2>2, <2>k DEF SeenYtd
      <3>5. SeenCap(o, held'[p], buf'[p]) = SeenCap(o, held[p], buf[p])
        BY <2>r, <2>2, <2>k DEF SeenCap
      <3>6. UserRow(u) \in held'[p] =>
              buf'[p].ytd <= CapAnnual /\ (CapLock(u) \in held'[p] \/ buf'[p].ytd <= ytd[u])
        BY <2>2, <2>k, <3>1 DEF CapAt, After
      <3> QED  BY <1>h, <2>l, <2>r, <2>2, <3>2, <3>3, <3>4, <3>5, <3>6 DEF CapAt, After
    <2>8. PromptTasks => PromptAt(p, l, o)
      BY <1>0, <1>h, Hand DEF PromptAt, Busy, o
    <2>9. TxAt(p, pc'[p], cur'[p], held'[p], buf'[p])
      BY <1>1, <2>4, <2>5, <2>6, <2>7, <2>8 DEF TxAt, o, l
    <2> QED  BY <1>1, <1>h, <2>9, LocalTx
  <1>3. CASE ~StillPending(p)
    <2>1. held' = held /\ buf' = buf /\ pc'[p] = "commit"
      BY <1>3, <1>h DEF OrderFailed, Goto, TypeInv, ProcsOK
    <2> HIDE DEF o
    <2>f. ~Failing(o, held[p], buf[p])
      BY <1>s DEF Failing, Pending
    <2>4. RowAt("commit", o, held[p], buf[p])
      BY <1>h, <1>s DEF RowAt, NewCommit, Busy, Plain, After
    <2>5. CabAt("commit", o, held[p], buf[p])
      BY <1>h, <1>c, <2>f DEF CabAt, NewCommit
    <2>6. /\ ReleasedAt("commit", o, held[p], buf[p]) /\ DayAt("commit", o, held[p], buf[p])
          /\ RecAt(p, "commit", o, held[p], buf[p])
      BY <1>h, <2>f DEF ReleasedAt, DayAt, NewCommit, RecAt, After
    <2>7. OneYear => CapAt(p, "commit", o, held[p], buf[p])
      <3> HAVE OneYear
      <3>1. CapAt(p, "fail", o, held[p], buf[p])
        BY <1>0, Hand DEF o
      <3> QED  BY <1>h, <3>1 DEF CapAt, After
    <2>8. PromptTasks => PromptAt(p, "commit", o)
      BY <1>0, <1>h, Hand DEF PromptAt, Busy, o
    <2>9. TxAt(p, pc'[p], cur'[p], held'[p], buf'[p])
      BY <1>1, <2>1, <2>4, <2>5, <2>6, <2>7, <2>8 DEF TxAt, o
    <2> QED  BY <1>1, <1>h, <2>1, <2>9, LocalTx
  <1> QED  BY <1>2, <1>3

LEMMA RefundCabTx ==
  ASSUME IInv, NEW p \in Procs, RefundCab(p)
  PROVE  TxInv'
  <1> DEFINE o == cur[p]
             u == buf[p].row.user
  <1>0. pc[p] = "refund"
    BY DEF RefundCab
  <1>h. /\ TypeInv /\ TxInv /\ o \in OrderIds /\ Exists(o) /\ User(p) = u
        /\ u \in Users /\ Same(buf[p].row, order[o]) /\ Plain(buf[p].row) /\ buf[p] \in BufRec
        /\ buf[p].row \in OrderRec
    BY <1>0, AtWork DEF Busy
  <1>m. PICK n \in Nat : n = balance[u] + CabCost(buf[p].row.denom)
    <2>1. balance[u] \in Nat /\ CabCost(buf[p].row.denom) \in Nat
      BY <1>h, RowTypes, CabCostNat DEF TypeInv, TablesOK
    <2> QED  BY <2>1
  <1>1. /\ pc'[p] = "release" /\ cur' = cur /\ held'[p] = held[p] \cup {CabRow(u)}
        /\ buf'[p] = [buf[p] EXCEPT !.bal = n, !.refund = TRUE]
        /\ \A q \in Procs \ {p} : pc'[q] = pc[q] /\ held'[q] = held[q] /\ buf'[q] = buf[q]
        /\ UNCHANGED <<order, balance, ytd, day, age>>
    BY <1>h, <1>m DEF RefundCab, Goto, Take, TypeInv, ProcsOK, tables, clock
  <1>2. /\ buf'[p].row = buf[p].row /\ buf'[p].refund /\ buf'[p].ytd = buf[p].ytd
        /\ buf'[p].bal = n
    BY <1>1, <1>h DEF BufRec
  <1>k. /\ \A x : /\ OrderRow(x) \in held'[p] <=> OrderRow(x) \in held[p]
                  /\ UserRow(x) \in held'[p] <=> UserRow(x) \in held[p]
                  /\ CapLock(x) \in held'[p] <=> CapLock(x) \in held[p]
        /\ CabRow(u) \in held'[p]
    BY <1>1, LockKinds
  <1>r. RowAt("refund", o, held[p], buf[p])
    BY <1>0, Hand
  <1> HIDE DEF o
  <1>f. Failing(o, held'[p], buf'[p]) /\ buf[p].row.source = "shop_purchase"
    BY <1>2, <1>k, <1>r DEF RowAt, Failing
  <1>4. RowAt("release", o, held'[p], buf'[p])
    BY <1>h, <1>2, <1>f DEF RowAt, NewCommit, Busy, Plain, After
  <1>5. CabAt("release", o, held'[p], buf'[p])
    BY <1>h, <1>m, <1>2, <1>k, <1>f DEF CabAt, NewCommit
  <1>6. /\ ReleasedAt("release", o, held'[p], buf'[p]) /\ DayAt("release", o, held'[p], buf'[p])
        /\ RecAt(p, "release", o, held'[p], buf'[p])
    BY <1>f DEF ReleasedAt, DayAt, NewCommit, RecAt, After
  <1>7. OneYear => CapAt(p, "release", o, held'[p], buf'[p])
    <2> HAVE OneYear
    <2>1. CapAt(p, "refund", o, held[p], buf[p])
      BY <1>0, Hand DEF o
    <2> QED  BY <1>h, <1>2, <1>k, <2>1 DEF CapAt, After, SeenYtd, SeenCap
  <1>8. PromptTasks => PromptAt(p, "release", o)
    BY <1>0, <1>h, Hand DEF PromptAt, Busy, o
  <1>9. TxAt(p, pc'[p], cur'[p], held'[p], buf'[p])
    BY <1>1, <1>4, <1>5, <1>6, <1>7, <1>8 DEF TxAt, o
  <1> QED  BY <1>1, <1>h, <1>9, LocalTx

LEMMA ReleaseCapTx ==
  ASSUME IInv, NEW p \in Procs, ReleaseCap(p)
  PROVE  TxInv'
  <1> DEFINE o == cur[p]
             u == buf[p].row.user
  <1>0. pc[p] = "release"
    BY DEF ReleaseCap
  <1>h. /\ TypeInv /\ TxInv /\ TableInv /\ o \in OrderIds /\ Exists(o) /\ User(p) = u
        /\ u \in Users /\ Same(buf[p].row, order[o]) /\ Plain(buf[p].row) /\ buf[p] \in BufRec
        /\ buf[p].row \in OrderRec /\ ytd[u] \in Nat /\ buf[p].ytd \in Nat
        /\ buf[p].row.cap \in Nat /\ order[o].cap \in Nat /\ order[o].user = u
    BY <1>0, AtWork, RowTypes, BufTypes DEF Busy, TypeInv, TablesOK, Same
  <1>1. /\ pc'[p] = "commit" /\ cur' = cur
        /\ \A q \in Procs \ {p} : pc'[q] = pc[q] /\ held'[q] = held[q] /\ buf'[q] = buf[q]
        /\ UNCHANGED <<order, balance, ytd, day, age>>
    BY <1>h DEF ReleaseCap, Goto, Take, TypeInv, ProcsOK, tables, clock
  <1>r. RowAt("release", o, held[p], buf[p]) /\ CabAt("release", o, held[p], buf[p])
    BY <1>0, Hand
  <1>f. Failing(o, held[p], buf[p])
    BY <1>r DEF RowAt
  <1>2. CASE buf[p].row.cap > 0
    <2> DEFINE r == [buf[p].row EXCEPT !.cap = 0]
    <2>m. PICK n \in Nat : n = Floor0(SeenYtd(held[p], buf[p]) - buf[p].row.cap)
      BY <1>h DEF Floor0, SeenYtd
    <2>r. /\ Plain(r) /\ Same(r, order[o]) /\ r.status = "failed" /\ r.user = u /\ r.cap = 0
          /\ r.source = buf[p].row.source /\ r.denom = buf[p].row.denom
      BY <1>h, <1>f DEF OrderRec, Same, Failing, Plain
    <2>1. /\ held'[p] = held[p] \cup {UserRow(u)}
          /\ buf'[p] = [buf[p] EXCEPT !.ytd = n, !.row = r]
      BY <1>2, <1>h, <2>m DEF ReleaseCap, SeenYtd, Take, TypeInv, ProcsOK
    <2> HIDE DEF r
    <2>2. /\ buf'[p].row = r /\ buf'[p].refund = buf[p].refund /\ buf'[p].ytd = n
          /\ buf'[p].bal = buf[p].bal
      BY <2>1, <1>h DEF BufRec
    <2>k. /\ \A x : /\ CabRow(x) \in held'[p] <=> CabRow(x) \in held[p]
                    /\ OrderRow(x) \in held'[p] <=> OrderRow(x) \in held[p]
          /\ UserRow(u) \in held'[p]
      BY <2>1, LockKinds
    <2> HIDE DEF o
    <2>f. Failing(o, held'[p], buf'[p])
      BY <1>f, <2>r, <2>2, <2>k DEF Failing
    <2>4. RowAt("commit", o, held'[p], buf'[p])
      BY <1>h, <2>r, <2>2, <2>f DEF RowAt, NewCommit, Busy, Plain, After, Failing
    <2>5. CabAt("commit", o, held'[p], buf'[p])
      BY <1>h, <1>r, <1>f, <2>r, <2>2, <2>k, <2>f DEF CabAt, NewCommit
    <2>6. /\ ReleasedAt("commit", o, held'[p], buf'[p]) /\ DayAt("commit", o, held'[p], buf'[p])
          /\ RecAt(p, "commit", o, held'[p], buf'[p])
      BY <1>h, <2>r, <2>2, <2>f DEF ReleasedAt, DayAt, NewCommit, RecAt, After
    <2>7. OneYear => CapAt(p, "commit", o, held'[p], buf'[p])
      <3> HAVE OneYear
      <3>1. CapAt(p, "release", o, held[p], buf[p])
        BY <1>0, Hand DEF o
      <3>2. SeenYtd(held[p], buf[p]) + order[o].cap = ytd[u] + buf[p].row.cap
        BY <1>f, <3>1 DEF CapAt, After, SeenCap, Failing
      <3>3. order[o].cap <= ytd[u] /\ ytd[u] <= CapAnnual
        BY <1>h, YtdCovers DEF TableInv, CapsOK
      <3>4. SeenYtd(held[p], buf[p]) \in Nat
        BY <1>h DEF SeenYtd
      <3>5. n = ytd[u] - order[o].cap
        BY <1>h, <2>m, <3>2, <3>3, <3>4 DEF Floor0
      <3>6. SeenYtd(held'[p], buf'[p]) = n
        BY <2>r, <2>2, <2>k DEF SeenYtd
      <3>7. SeenCap(o, held'[p], buf'[p]) = 0
        BY <2>r, <2>2, <2>f DEF SeenCap, Failing
      <3>8. n + order[o].cap = ytd[u] + 0 /\ n <= ytd[u] /\ n <= CapAnnual
        BY <1>h, <3>3, <3>5, GiftCardsAssumption
      <3> QED  BY <1>h, <2>r, <2>2, <3>6, <3>7, <3>8 DEF CapAt, After
    <2>8. PromptTasks => PromptAt(p, "commit", o)
      BY <1>0, <1>h, Hand DEF PromptAt, Busy, o
    <2>9. TxAt(p, pc'[p], cur'[p], held'[p], buf'[p])
      BY <1>1, <2>4, <2>5, <2>6, <2>7, <2>8 DEF TxAt, o
    <2> QED  BY <1>1, <1>h, <2>9, LocalTx
  <1>3. CASE ~(buf[p].row.cap > 0)
    <2>1. held' = held /\ buf' = buf /\ buf[p].row.cap = 0
      BY <1>3, <1>h DEF ReleaseCap
    <2> HIDE DEF o
    <2>4. RowAt("commit", o, held[p], buf[p])
      BY <1>h, <1>f DEF RowAt, NewCommit, Busy, Plain, After, Failing
    <2>5. CabAt("commit", o, held[p], buf[p])
      BY <1>h, <1>r DEF CabAt, NewCommit
    <2>6. /\ ReleasedAt("commit", o, held[p], buf[p]) /\ DayAt("commit", o, held[p], buf[p])
          /\ RecAt(p, "commit", o, held[p], buf[p])
      BY <1>h, <1>f, <2>1 DEF ReleasedAt, DayAt, NewCommit, RecAt, After
    <2>7. OneYear => CapAt(p, "commit", o, held[p], buf[p])
      <3> HAVE OneYear
      <3>1. CapAt(p, "release", o, held[p], buf[p])
        BY <1>0, Hand DEF o
      <3> QED  BY <1>h, <1>f, <2>1, <3>1 DEF CapAt, After, Failing
    <2>8. PromptTasks => PromptAt(p, "commit", o)
      BY <1>0, <1>h, Hand DEF PromptAt, Busy, o
    <2>9. TxAt(p, pc'[p], cur'[p], held'[p], buf'[p])
      BY <1>1, <2>1, <2>4, <2>5, <2>6, <2>7, <2>8 DEF TxAt, o
    <2> QED  BY <1>1, <1>h, <2>1, <2>9, LocalTx
  <1> QED  BY <1>2, <1>3

LEMMA ReconcileOneTx ==
  ASSUME IInv, NEW o \in OrderIds, ReconcileOne(o)
  PROVE  TxInv'
  <1> DEFINE p == Reconciler
             r == [order[o] EXCEPT !.status = "failed"]
  <1>p. p \in Procs /\ p # Payout /\ p \notin Workers /\ TypeInv /\ TxInv /\ TableInv
    BY GiftCardsAssumption DEF Procs, IInv
  <1>1. UNCHANGED <<order, balance, ytd, day, age>> /\ pc[p] = "recNext" /\ o \in todo[p]
    BY DEF ReconcileOne, tables, clock
  <1>2. CASE ~Pending(o)
    <2>1. UNCHANGED <<pc, cur, held, buf>>
      BY <1>2 DEF ReconcileOne
    <2>2. TxAt(p, pc'[p], cur'[p], held'[p], buf'[p])
      BY <1>p, <2>1 DEF TxInv
    <2> QED  BY <1>p, <1>1, <2>1, <2>2, LocalTx
  <1>3. CASE Pending(o)
    <2>h. /\ Exists(o) /\ order[o] \in OrderRec /\ buf[p] \in BufRec
          /\ order[o].source = "shop_purchase" /\ age[o] = 2
      BY <1>p, <1>1, <1>3, ExistingRow DEF Exists, Pending, TypeInv, ProcsOK, IInv, BatchOK
    <2>u. order[o].user \in Users /\ order[o].cap \in Nat /\ ytd[order[o].user] \in Nat
      BY <1>p, <2>h, RowTypes DEF TypeInv, TablesOK
    <2>r. /\ Plain(r) /\ Same(r, order[o]) /\ r.status = "failed" /\ r.cap = order[o].cap
          /\ r.denom = order[o].denom /\ r.source = "shop_purchase" /\ r.user = order[o].user
      BY <1>p, <2>h DEF OrderRec, Same, Plain, TableInv, RowsOK
    <2>1. /\ pc'[p] = "refund" /\ cur'[p] = o /\ held'[p] = held[p] \cup {OrderRow(o)}
          /\ buf'[p] = [buf[p] EXCEPT !.row = r]
          /\ \A q \in Procs \ {p} : /\ pc'[q] = pc[q] /\ cur'[q] = cur[q]
                                    /\ held'[q] = held[q] /\ buf'[q] = buf[q]
      BY <1>p, <1>3 DEF ReconcileOne, Goto, Take, TypeInv, ProcsOK
    <2> HIDE DEF r, p
    <2>2. buf'[p].row = r /\ buf'[p].refund = buf[p].refund
      BY <2>1, <2>h DEF BufRec
    <2>k. /\ \A x : /\ CabRow(x) \in held'[p] => CabRow(x) \in held[p]
                    /\ UserRow(x) \in held'[p] => UserRow(x) \in held[p]
          /\ OrderRow(o) \in held'[p]
      BY <2>1, LockKinds
    <2>f. Failing(o, held'[p], buf'[p])
      BY <1>3, <2>r, <2>2, <2>k DEF Failing
    <2>4. RowAt("refund", o, held'[p], buf'[p])
      BY <2>h, <2>r, <2>2, <2>f DEF RowAt, NewCommit, Busy, Plain, After, Failing
    <2>5. CabAt("refund", o, held'[p], buf'[p])
      BY <1>p, <1>1, <2>2, <2>k, Hand DEF CabAt, NewCommit
    <2>6. /\ ReleasedAt("refund", o, held'[p], buf'[p]) /\ DayAt("refund", o, held'[p], buf'[p])
          /\ RecAt(p, "refund", o, held'[p], buf'[p])
      BY <2>f DEF ReleasedAt, DayAt, NewCommit, RecAt, After
    <2>7. OneYear => CapAt(p, "refund", o, held'[p], buf'[p])
      <3> HAVE OneYear
      <3>1. \A x \in Users : UserRow(x) \notin held'[p]
        BY <1>p, <1>1, <2>k, Hand DEF CapAt, After
      <3>2. order[o].cap \in {0, order[o].denom}
        BY <1>p DEF TableInv, CapsOK
      <3> QED  BY <2>u, <2>r, <2>2, <2>k, <3>1, <3>2 DEF CapAt, After, SeenYtd, SeenCap
    <2>8. PromptAt(p, "refund", o)
      BY <1>p, <2>h DEF PromptAt
    <2>9. TxAt(p, pc'[p], cur'[p], held'[p], buf'[p])
      BY <2>1, <2>4, <2>5, <2>6, <2>7, <2>8 DEF TxAt
    <2> QED  BY <1>p, <1>1, <2>1, <2>9, LocalTx
  <1> QED  BY <1>2, <1>3

\* The payout batch only takes locks on rows of referral orders.
LEMMA PayoutTx ==
  ASSUME IInv, UNCHANGED <<order, balance, ytd, day, age, cur, buf>>,
         pc'[Payout] \in {"idle", "payout"},
         \A q \in Procs \ {Payout} : pc'[q] = pc[q] /\ held'[q] = held[q],
         \A x \in Users : /\ CabRow(x) \in held'[Payout] => CabRow(x) \in held[Payout]
                          /\ UserRow(x) \in held'[Payout] => UserRow(x) \in held[Payout]
  PROVE  TxInv'
  <1> DEFINE p == Payout
             l == pc'[p]
  <1>p. /\ p \in Procs /\ p # Reconciler /\ p \notin Workers /\ TypeInv /\ TxInv
        /\ NULL \notin OrderIds
    BY GiftCardsAssumption DEF Procs, IInv
  <1>h. cur[p] = NULL /\ pc[p] \in {"idle", "payout"} /\ l \in {"idle", "payout"}
    BY <1>p DEF TypeInv, Shape, ShapeAt, Busy
  <1>k. \A x \in Users : /\ CabRow(x) \in held'[p] => CabRow(x) \in held[p]
                         /\ UserRow(x) \in held'[p] => UserRow(x) \in held[p]
    OBVIOUS
  <1>o. \A q \in Procs \ {p} : pc'[q] = pc[q] /\ held'[q] = held[q]
    OBVIOUS
  <1> HIDE DEF p, l
  <1>1. RowAt(l, NULL, held'[p], buf[p])
    BY <1>p, <1>h DEF RowAt, NewCommit, Busy, Plain
  <1>2. CabAt(l, NULL, held'[p], buf[p])
    BY <1>p, <1>h, <1>k, Hand DEF CabAt, NewCommit
  <1>3. /\ ReleasedAt(l, NULL, held'[p], buf[p]) /\ DayAt(l, NULL, held'[p], buf[p])
        /\ RecAt(p, l, NULL, held'[p], buf[p])
    BY <1>h DEF ReleasedAt, DayAt, NewCommit, RecAt, After
  <1>4. OneYear => CapAt(p, l, NULL, held'[p], buf[p])
    BY <1>p, <1>h, <1>k, Hand DEF CapAt, After
  <1>5. PromptAt(p, l, NULL)
    BY <1>p DEF PromptAt
  <1>6. TxAt(p, pc'[p], cur'[p], held'[p], buf'[p])
    BY <1>h, <1>1, <1>2, <1>3, <1>4, <1>5 DEF TxAt, l
  <1> QED  BY <1>p, <1>o, <1>6, LocalTx
-----------------------------------------------------------------------------
\* What a COMMIT does to the rows and to the processes.
LEMMA CommitValues ==
  ASSUME IInv, NEW p \in Procs, Commit(p)
  PROVE  /\ pc[p] = "commit" /\ cur[p] \in OrderIds /\ p # Payout
         /\ buf[p] \in BufRec /\ buf[p].row \in OrderRec /\ buf[p].row.user \in Users
         /\ \A x \in OrderIds : x # cur[p] => order'[x] = order[x]
         /\ OrderRow(cur[p]) \in held[p] => order'[cur[p]] = buf[p].row
         /\ OrderRow(cur[p]) \notin held[p] => order' = order
         /\ \A x \in Users :
              /\ x # buf[p].row.user => balance'[x] = balance[x] /\ ytd'[x] = ytd[x]
              /\ balance'[x] = balance[x] \/ CabRow(x) \in held[p]
              /\ ytd'[x] = ytd[x] \/ UserRow(x) \in held[p]
         /\ balance'[buf[p].row.user] = IF CabRow(buf[p].row.user) \in held[p]
                                          THEN buf[p].bal ELSE balance[buf[p].row.user]
         /\ ytd'[buf[p].row.user] = SeenYtd(held[p], buf[p])
         /\ \A x \in OrderIds : refunds'[x] =
              IF x = cur[p] /\ buf[p].refund THEN refunds[x] + 1 ELSE refunds[x]
         /\ UNCHANGED <<age, day, todo, resYear, resetDue>>
         /\ \A q \in Procs \ {p} : /\ pc'[q] = pc[q] /\ cur'[q] = cur[q]
                                   /\ held'[q] = held[q] /\ buf'[q] = buf[q]
         /\ held'[p] = {} /\ buf'[p] = NoBuf
         /\ Exists(cur[p]) => pc'[p] \in {"idle", "recNext"} /\ cur'[p] = NULL
         /\ ~Exists(cur[p]) => pc'[p] = "queued" /\ cur'[p] = cur[p]
  <1>0. pc[p] = "commit" /\ TypeInv
    BY DEF Commit, IInv
  <1>1. /\ cur[p] \in OrderIds /\ p # Payout /\ buf[p] \in BufRec
        /\ buf[p].row \in OrderRec /\ buf[p].row.user \in Users /\ User(p) = buf[p].row.user
    BY <1>0, AtHand DEF Busy, User
  <1>2. /\ \A x \in OrderIds : x # cur[p] => order'[x] = order[x]
        /\ OrderRow(cur[p]) \in held[p] => order'[cur[p]] = buf[p].row
        /\ OrderRow(cur[p]) \notin held[p] => order' = order
    BY <1>0, <1>1 DEF Commit, TypeInv, TablesOK
  <1>3. /\ \A x \in Users : /\ x # buf[p].row.user => balance'[x] = balance[x]
                            /\ balance'[x] = balance[x] \/ CabRow(x) \in held[p]
        /\ balance'[buf[p].row.user] = IF CabRow(buf[p].row.user) \in held[p]
                                         THEN buf[p].bal ELSE balance[buf[p].row.user]
    BY <1>0, <1>1 DEF Commit, TypeInv, TablesOK
  <1>4. /\ \A x \in Users : /\ x # buf[p].row.user => ytd'[x] = ytd[x]
                            /\ ytd'[x] = ytd[x] \/ UserRow(x) \in held[p]
        /\ ytd'[buf[p].row.user] = SeenYtd(held[p], buf[p])
    BY <1>0, <1>1 DEF Commit, TypeInv, TablesOK, SeenYtd
  <1>5. \A x \in OrderIds : refunds'[x] =
          IF x = cur[p] /\ buf[p].refund THEN refunds[x] + 1 ELSE refunds[x]
    BY <1>0, <1>1 DEF Commit, TypeInv, TablesOK
  <1>6. UNCHANGED <<age, day, todo, resYear, resetDue>>
    BY DEF Commit, clock
  <1>7. CASE Exists(cur[p])
    <2>1. Drop(p)
      BY <1>7 DEF Commit
    <2> QED  BY <1>0, <1>1, <1>2, <1>3, <1>4, <1>5, <1>6, <1>7, <2>1, DropValues
  <1>8. CASE ~Exists(cur[p])
    <2>1. /\ pc' = [pc EXCEPT ![p] = "queued"] /\ cur' = cur
          /\ held' = [held EXCEPT ![p] = {}] /\ buf' = [buf EXCEPT ![p] = NoBuf]
      BY <1>8 DEF Commit, Goto
    <2>2. /\ pc'[p] = "queued" /\ cur'[p] = cur[p] /\ held'[p] = {} /\ buf'[p] = NoBuf
          /\ \A q \in Procs \ {p} : /\ pc'[q] = pc[q] /\ cur'[q] = cur[q]
                                    /\ held'[q] = held[q] /\ buf'[q] = buf[q]
      BY <1>0, <2>1 DEF TypeInv, ProcsOK
    <2> QED  BY <1>0, <1>1, <1>2, <1>3, <1>4, <1>5, <1>6, <1>8, <2>2
  <1> QED  BY <1>7, <1>8

\* The row a COMMIT writes over an existing order.
LEMMA CommitOver ==
  ASSUME IInv, NEW p \in Procs, pc[p] = "commit", cur[p] \in OrderIds, Exists(cur[p])
  PROVE  /\ Same(buf[p].row, order[cur[p]])
         /\ OrderRow(cur[p]) \in held[p] =>
              \/ buf[p].row.status = order[cur[p]].status
              \/ Pending(cur[p]) /\ buf[p].row.status \in {"issued", "failed"}
  BY Hand DEF RowAt, Busy

\* The row a COMMIT inserts.
LEMMA CommitNew ==
  ASSUME IInv, NEW p \in Procs, pc[p] = "commit", cur[p] \in OrderIds, ~Exists(cur[p])
  PROVE  /\ p \in Workers /\ OrderRow(cur[p]) \in held[p] /\ Fresh(buf[p].row)
         /\ ~buf[p].refund /\ CabRow(buf[p].row.user) \in held[p]
         /\ buf[p].bal = balance[buf[p].row.user] - CabCost(buf[p].row.denom)
         /\ CapLock(buf[p].row.user) \in held[p]
         /\ sum_redeemed_window(buf[p].row.user, buf[p].row.created)
              + buf[p].row.denom <= CapDaily
         /\ sum_redeemed_window(buf[p].row.user, WeekStart(buf[p].row.created))
              + buf[p].row.denom <= CapWeekly
  <1>1. p \in Workers /\ OrderRow(cur[p]) \in held[p]
    BY DEF IInv, TypeInv, Shape, ShapeAt
  <1> QED  BY <1>1, Hand DEF RowAt, CabAt, DayAt, NewCommit

\* The orders p's COMMIT and another transaction have at hand are different, or
\* the other one has not locked the row and the order exists.
LEMMA CommitApart ==
  ASSUME IInv, NEW p \in Procs, NEW q \in Procs, p # q, Commit(p)
  PROVE  /\ cur[q] = cur[p] => Exists(cur[p])
         /\ cur[q] \in OrderIds => (Exists(cur[q])' <=> Exists(cur[q]))
         /\ cur[q] \in OrderIds /\ OrderRow(cur[q]) \in held[q] => order'[cur[q]] = order[cur[q]]
         /\ held[p] \cap held[q] = {}
  <1>1. /\ cur[p] \in OrderIds /\ pc[p] = "commit"
        /\ \A x \in OrderIds : x # cur[p] => order'[x] = order[x]
        /\ OrderRow(cur[p]) \in held[p] => order'[cur[p]] = buf[p].row
        /\ OrderRow(cur[p]) \notin held[p] => order' = order
        /\ buf[p].row \in OrderRec /\ cur'[q] = cur[q]
    BY CommitValues
  <1>2. held[p] \cap held[q] = {} /\ (cur[q] = cur[p] => Exists(cur[p]))
    BY <1>1 DEF IInv, LockInv, LockExclusion, FreshIsPrivate
  <1>3. cur[q] \in OrderIds => (Exists(cur[q])' <=> Exists(cur[q]))
    <2>1. CASE cur[q] # cur[p]
      BY <1>1, <2>1 DEF Exists
    <2>2. CASE cur[q] = cur[p]
      BY <1>1, <1>2, <2>2, RowTypes DEF Exists
    <2> QED  BY <2>1, <2>2
  <1>4. ASSUME cur[q] \in OrderIds, OrderRow(cur[q]) \in held[q]
        PROVE  order'[cur[q]] = order[cur[q]]
    <2>1. CASE cur[q] # cur[p]
      BY <1>1, <1>4, <2>1
    <2>2. CASE cur[q] = cur[p]
      BY <1>1, <1>2, <1>4, <2>2
    <2> QED  BY <2>1, <2>2
  <1> QED  BY <1>2, <1>3, <1>4

\* Two workers are never past the gate of one order.
LEMMA OneAtWork ==
  ASSUME IInv, NEW p \in Workers, NEW q \in Workers, p # q,
         pc[p] \in Busy, pc[q] \in Busy, cur[p] = cur[q], Exists(cur[p])
  PROVE  FALSE
  <1>1. p \in Procs /\ q \in Procs
    BY DEF Procs
  <1>2. IssueLock(cur[p]) \in held[p] /\ IssueLock(cur[p]) \in held[q]
    BY DEF IInv, LockInv, GateHeld
  <1> QED  BY <1>1, <1>2 DEF IInv, LockInv, LockExclusion

LEMMA RowNumbers ==
  \A r \in OrderRec \cup {NoOrder} :
    r.denom \in Nat /\ r.cap \in Nat /\ r.created \in Nat /\ CabCost(r.denom) \in Nat
  <1>1. \A r \in OrderRec \cup {NoOrder} : r.denom \in Nat /\ r.cap \in Nat /\ r.created \in Nat
    BY DEF OrderRec, NoOrder
  <1> QED  BY <1>1, CabCostNat

LEMMA WeekDay ==
  ASSUME NEW n \in Nat
  PROVE  WeekStart(n) \in Int
  <1>1. DaysPerWeek \in Nat \ {0}
    BY GiftCardsAssumption
  <1>2. n \div DaysPerWeek \in Int
    BY <1>1
  <1>3. (n \div DaysPerWeek) * DaysPerWeek \in Int
    BY <1>1, <1>2
  <1> QED  BY <1>3 DEF WeekStart

\* Only the insertion of a boutique order of u adds to u's window.
LEMMA CommitWindow ==
  ASSUME IInv, TypeInv', NEW p \in Procs, Commit(p), NEW u \in Users, NEW d \in Int,
         Exists(cur[p]) \/ buf[p].row.user # u
  PROVE  sum_redeemed_window(u, d)' <= sum_redeemed_window(u, d)
  <1> DEFINE f == [o \in OrderIds |-> IF InWindow(order[o], u, d) THEN order[o].denom ELSE 0]
             g == [o \in OrderIds |-> IF InWindow(order'[o], u, d) THEN order'[o].denom ELSE 0]
  <1>1. f \in [OrderIds -> Nat] /\ g \in [OrderIds -> Nat]
    BY RowNumbers DEF IInv, TypeInv, TablesOK
  <1>2. ASSUME NEW o \in OrderIds PROVE g[o] <= f[o]
    <2>1. CASE order'[o] = order[o]
      BY <1>1, <2>1
    <2>2. CASE order'[o] # order[o]
      <3>1. /\ o = cur[p] /\ order'[o] = buf[p].row /\ OrderRow(o) \in held[p]
            /\ pc[p] = "commit"
        BY <2>2, CommitValues
      <3>2. CASE InWindow(order'[o], u, d)
        <4>1. buf[p].row.user = u
          BY <3>1, <3>2 DEF InWindow
        <4>2. Exists(o)
          BY <3>1, <4>1
        <4>3. /\ Same(buf[p].row, order[o])
              /\ buf[p].row.status = order[o].status \/ Pending(o)
          BY <3>1, <4>2, CommitOver
        <4>4. InWindow(order[o], u, d)
          BY <3>1, <3>2, <4>3 DEF InWindow, Same, Pending
        <4>5. g[o] = order'[o].denom /\ f[o] = order[o].denom /\ order'[o].denom = order[o].denom
          BY <3>1, <3>2, <4>3, <4>4 DEF Same
        <4> QED  BY <1>1, <4>5
      <3>3. CASE ~InWindow(order'[o], u, d)
        BY <1>1, <3>3
      <3> QED  BY <3>2, <3>3
    <2> QED  BY <2>1, <2>2
  <1>3. sum_redeemed_window(u, d) = SumFunction(f) /\ sum_redeemed_window(u, d)' = SumFunction(g)
    BY DEF sum_redeemed_window
  <1> HIDE DEF f, g
  <1>4. f \in [OrderIds -> Int] /\ g \in [OrderIds -> Int]
    BY <1>1
  <1> QED  BY <1>2, <1>3, <1>4, SumOrder, GiftCardsAssumption

\* The other transactions keep their knowledge: what they have read of the rows
\* p writes they have locked.
LEMMA CommitOthers ==
  ASSUME IInv, TypeInv', NEW p \in Procs, NEW q \in Procs, p # q, Commit(p)
  PROVE  TxAt(q, pc[q], cur[q], held[q], buf[q])'
  <1> DEFINE o == cur[p]
             c == cur[q]
             v == buf[q].row.user
  <1>v. /\ pc[p] = "commit" /\ o \in OrderIds /\ p # Payout
        /\ buf[p].row \in OrderRec
        /\ \A x \in OrderIds : x # o => order'[x] = order[x]
        /\ OrderRow(o) \in held[p] => order'[o] = buf[p].row
        /\ OrderRow(o) \notin held[p] => order' = order
        /\ \A x \in Users : /\ balance'[x] = balance[x] \/ CabRow(x) \in held[p]
                            /\ ytd'[x] = ytd[x] \/ UserRow(x) \in held[p]
        /\ UNCHANGED <<age, day>>
        /\ pc'[q] = pc[q] /\ cur'[q] = c /\ held'[q] = held[q] /\ buf'[q] = buf[q]
    BY CommitValues
  <1>a. /\ c = o => Exists(o)
        /\ c \in OrderIds => (Exists(c)' <=> Exists(c))
        /\ c \in OrderIds /\ OrderRow(c) \in held[q] => order'[c] = order[c]
        /\ held[p] \cap held[q] = {}
    BY CommitApart
  <1>t. TypeInv /\ LockInv /\ TableInv /\ pc[q] \in Labels /\ held[q] \in SUBSET Locks
    BY AtHand DEF IInv
  <1>c. /\ pc[q] \in Busy \cup {"queued"} => c \in OrderIds
        /\ pc[q] \notin Busy \cup {"queued"} => c \notin OrderIds
        /\ pc[q] \in Busy \cup {"shopLock", "shopDebit"} => v \in Users
        /\ pc[q] \in (Busy \ {"commit"}) \cup {"queued"} => Exists(c)
    BY <1>t, AtHand, GiftCardsAssumption DEF TypeInv, Shape, ShapeAt, User
  <1>s. c \in OrderIds /\ Exists(c) => Same(order'[c], order[c])
    <2>1. CASE c # o \/ OrderRow(o) \notin held[p]
      BY <1>v, <2>1 DEF Same
    <2>2. CASE c = o /\ OrderRow(o) \in held[p]
      BY <1>v, <1>a, <2>2, CommitOver DEF Same
    <2> QED  BY <2>1, <2>2
  <1>w. /\ \A x \in Users : /\ CabRow(x) \in held[q] => balance'[x] = balance[x]
                            /\ UserRow(x) \in held[q] => ytd'[x] = ytd[x]
    BY <1>v, <1>a
  <1> HIDE DEF o, c, v
  <1>1. RowAt(pc[q], c, held[q], buf[q])'
    <2>1. RowAt(pc[q], c, held[q], buf[q])
      BY Hand DEF c
    <2>2. NewCommit(pc[q], c) => ~Exists(c)
      BY DEF NewCommit
    <2> QED  BY <1>v, <1>a, <1>c, <1>s, <2>1
             DEF RowAt, NewCommit, Fresh, Plain, Failing, Same, Pending, Busy, After, c
  <1>2. CabAt(pc[q], c, held[q], buf[q])'
    <2>1. CabAt(pc[q], c, held[q], buf[q])
      BY Hand DEF c
    <2> QED  BY <1>v, <1>a, <1>c, <1>w, <2>1
             DEF CabAt, NewCommit, Failing, Pending, Busy, c, v
  <1>3. /\ ReleasedAt(pc[q], c, held[q], buf[q])'
        /\ RecAt(q, pc[q], c, held[q], buf[q])'
    <2>1. ReleasedAt(pc[q], c, held[q], buf[q]) /\ RecAt(q, pc[q], c, held[q], buf[q])
      BY Hand DEF c
    <2> QED  BY <1>v, <1>a, <1>c, <2>1
             DEF ReleasedAt, RecAt, Failing, Pending, Busy, After, c
  <1>4. DayAt(pc[q], c, held[q], buf[q])'
    <2> SUFFICES ASSUME pc[q] = "shopDebit" \/ NewCommit(pc[q], c)
                 PROVE  /\ CapLock(v) \in held[q]
                        /\ sum_redeemed_window(v, buf[q].row.created)'
                             + buf[q].row.denom <= CapDaily
                        /\ sum_redeemed_window(v, WeekStart(buf[q].row.created))'
                             + buf[q].row.denom <= CapWeekly
      BY <1>v, <1>a, <1>c DEF DayAt, NewCommit, Busy, WeekStart, c, v
    <2>1. /\ CapLock(v) \in held[q]
          /\ sum_redeemed_window(v, buf[q].row.created) + buf[q].row.denom <= CapDaily
          /\ sum_redeemed_window(v, WeekStart(buf[q].row.created)) + buf[q].row.denom
               <= CapWeekly
      BY Hand DEF DayAt, c, v
    <2>2. /\ v \in Users /\ buf[q].row.denom \in Nat /\ buf[q].row.created \in Int
          /\ WeekStart(buf[q].row.created) \in Int
      <3>1. buf[q].row \in OrderRec
        BY <1>t, AtHand DEF NewCommit, Busy
      <3> QED  BY <3>1, RowTypes, WeekDay DEF v
    <2>3. Exists(o) \/ buf[p].row.user # v
      BY <1>v, <1>a, <2>1, CommitNew DEF o
    <2>m. PICK d \in Int : d = buf[q].row.created
      BY <2>2
    <2>k. PICK k \in Int : k = WeekStart(buf[q].row.created)
      BY <2>2
    <2>u. PICK x \in Users : x = v
      BY <2>2
    <2>4. ASSUME NEW e \in Int, NEW cap \in Int,
                 sum_redeemed_window(x, e) + buf[q].row.denom <= cap
          PROVE  sum_redeemed_window(x, e)' + buf[q].row.denom <= cap
      <3>1. sum_redeemed_window(x, e)' <= sum_redeemed_window(x, e)
        BY <2>3, <2>u, CommitWindow DEF o
      <3>2. sum_redeemed_window(x, e)' \in Int /\ sum_redeemed_window(x, e) \in Int
        <4> DEFINE f == [y \in OrderIds |-> IF InWindow(order[y], x, e) THEN order[y].denom ELSE 0]
                   g == [y \in OrderIds |-> IF InWindow(order'[y], x, e) THEN order'[y].denom ELSE 0]
        <4>1. f \in [OrderIds -> Int] /\ g \in [OrderIds -> Int]
          BY RowNumbers DEF IInv, TypeInv, TablesOK
        <4>2. sum_redeemed_window(x, e) = SumFunction(f) /\ sum_redeemed_window(x, e)' = SumFunction(g)
          BY DEF sum_redeemed_window
        <4> HIDE DEF f, g
        <4> QED  BY <4>1, <4>2, SumInt, GiftCardsAssumption
      <3> QED  BY <2>2, <2>4, <3>1, <3>2
    <2>5. CapDaily \in Int /\ CapWeekly \in Int
      BY GiftCardsAssumption
    <2>6. sum_redeemed_window(x, d)' + buf[q].row.denom <= CapDaily
      BY <2>1, <2>m, <2>u, <2>4, <2>5
    <2>7. sum_redeemed_window(x, k)' + buf[q].row.denom <= CapWeekly
      BY <2>1, <2>k, <2>u, <2>4, <2>5
    <2> QED  BY <1>v, <2>1, <2>6, <2>7, <2>m, <2>k, <2>u DEF v
  <1>6. PromptTasks => PromptAt(q, pc[q], c)'
    <2> HAVE PromptTasks
    <2>1. PromptAt(q, pc[q], c)
      BY Hand DEF c
    <2>2. c \in OrderIds /\ Exists(c) => order'[c].source = order[c].source
      BY <1>s DEF Same
    <2>3. ASSUME q \in Workers, pc[q] \in Busy, c \in OrderIds, Exists(c),
                 order'[c].status = "failed"
          PROVE  FALSE
      <3>1. order[c].status # "failed"
        BY <2>1, <2>3 DEF PromptAt
      <3>2. c = o /\ OrderRow(o) \in held[p]
        BY <1>v, <2>3, <3>1
      <3>3. p \notin Workers
        BY <1>v, <2>3, <3>2, OneAtWork DEF Busy, o, c
      <3>4. p = Reconciler
        BY <1>v, <3>3 DEF Procs
      <3>5. order[o].source = "shop_purchase" /\ age[o] = 2
        BY <1>v, <3>4, Hand DEF PromptAt, o
      <3> QED  BY <2>1, <2>3, <3>2, <3>5 DEF PromptAt
    <2> QED  BY <1>v, <1>a, <1>c, <2>1, <2>2, <2>3 DEF PromptAt, Busy, c
  <1>5. OneYear => CapAt(q, pc[q], c, held[q], buf[q])'
    <2> HAVE OneYear
    <2>1. CapAt(q, pc[q], c, held[q], buf[q])
      BY Hand DEF c
    <2>2. ASSUME pc[q] \in {"resUser", "resOrder", "runa", "issued"},
                 c = o, OrderRow(o) \in held[p]
          PROVE  /\ order'[c].cap \in {0, order[c].cap} /\ order'[c].status # "pending"
      <3>1. p \notin Workers
        <4>1. q \in Workers
          BY <2>2, <1>t, AtHand DEF Procs
        <4> QED  BY <1>v, <1>a, <2>2, <4>1, OneAtWork DEF Busy, o, c
      <3>2. p = Reconciler
        BY <1>v, <3>1 DEF Procs
      <3>3. buf[p].row.cap \in {0, order[o].cap} /\ buf[p].row.status = "failed"
        BY <1>v, <3>2, Hand DEF CapAt, RecAt, After, Failing, o
      <3> QED  BY <1>v, <2>2, <3>3
    <2>3. c \in OrderIds /\ (c # o \/ OrderRow(o) \notin held[p]) => order'[c] = order[c]
      BY <1>v
    <2>4. ASSUME v \in Users, CapLock(v) \in held[q]
          PROVE  ytd'[v] <= ytd[v]
      <3>1. CASE ytd'[v] = ytd[v]
        BY <1>t, <2>4, <3>1 DEF TypeInv, TablesOK
      <3>2. CASE ytd'[v] # ytd[v]
        <4>1. v = buf[p].row.user /\ UserRow(v) \in held[p] /\ ytd'[v] = SeenYtd(held[p], buf[p])
          BY <2>4, <3>2, CommitValues
        <4>2. CapLock(v) \in held[p] \/ buf[p].ytd <= ytd[v]
          BY <1>v, <4>1, Hand DEF CapAt, After
        <4> QED  BY <1>a, <2>4, <4>1, <4>2 DEF SeenYtd
      <3> QED  BY <3>1, <3>2
    <2>n. /\ pc[q] \in Busy => /\ v \in Users /\ c \in OrderIds /\ buf[q].row.denom \in Nat
                               /\ buf[q].row.cap \in Nat
          /\ buf[q].ytd \in Nat
          /\ v \in Users => ytd[v] \in Nat /\ ytd'[v] \in Nat
          /\ c \in OrderIds => order[c].cap \in Nat /\ order'[c].cap \in Nat
          /\ CapAnnual \in Nat
      <3>1. pc[q] \in Busy => buf[q].row \in OrderRec
        BY <1>t, AtHand
      <3>2. buf[q].ytd \in Nat
        BY <1>t, AtHand, BufTypes
      <3>3. v \in Users => ytd[v] \in Nat /\ ytd'[v] \in Nat
        BY <1>t DEF TypeInv, TablesOK
      <3>4. c \in OrderIds => order[c] \in OrderRec \cup {NoOrder} /\ order'[c] \in OrderRec \cup {NoOrder}
        BY <1>t DEF TypeInv, TablesOK
      <3> QED  BY <1>c, <3>1, <3>2, <3>3, <3>4, RowNumbers, GiftCardsAssumption
    <2>b. pc[q] \in {"resUser", "resOrder"} => order'[c].cap = 0 /\ CapLock(v) \in held[q]
      <3> SUFFICES ASSUME pc[q] \in {"resUser", "resOrder"}
                   PROVE  order'[c].cap = 0 /\ CapLock(v) \in held[q]
        OBVIOUS
      <3>1. order[c].cap = 0 /\ CapLock(v) \in held[q] /\ c \in OrderIds
        BY <2>1, <1>c DEF CapAt, v, Busy
      <3> QED  BY <2>2, <2>3, <3>1
    <2>c. pc[q] = "resUser" => ytd'[v] + buf[q].row.denom <= CapAnnual
      <3> SUFFICES ASSUME pc[q] = "resUser"
                   PROVE  ytd'[v] + buf[q].row.denom <= CapAnnual
        OBVIOUS
      <3>1. ytd[v] + buf[q].row.denom <= CapAnnual
        BY <2>1 DEF CapAt, v
      <3>2. ytd'[v] <= ytd[v]
        BY <2>b, <2>4, <2>n DEF Busy
      <3> QED  BY <2>n, <3>1, <3>2 DEF Busy
    <2>d. pc[q] = "resOrder" =>
            UserRow(v) \in held[q] /\ buf[q].ytd = ytd'[v] + buf[q].row.denom
      BY <2>1, <1>w, <2>n DEF CapAt, v, Busy
    <2>e. ASSUME pc[q] \in After
          PROVE  (IF UserRow(v) \in held[q] THEN buf[q].ytd ELSE ytd'[v]) + order'[c].cap
                   = ytd'[v] + (IF OrderRow(c) \in held[q] THEN buf[q].row.cap ELSE order'[c].cap)
      <3>0. /\ v \in Users /\ c \in OrderIds /\ buf[q].row.cap \in Nat /\ buf[q].ytd \in Nat
            /\ ytd[v] \in Nat /\ ytd'[v] \in Nat /\ order[c].cap \in Nat /\ order'[c].cap \in Nat
        BY <2>e, <2>n DEF After, Busy
      <3>1. (IF UserRow(v) \in held[q] THEN buf[q].ytd ELSE ytd[v]) + order[c].cap
              = ytd[v] + (IF OrderRow(c) \in held[q] THEN buf[q].row.cap ELSE order[c].cap)
        BY <2>1, <2>e DEF CapAt, SeenYtd, SeenCap, v
      <3>2. UserRow(v) \in held[q] => ytd'[v] = ytd[v]
        BY <1>w, <3>0
      <3>3. CASE OrderRow(c) \in held[q]
        <4>1. order'[c] = order[c]
          BY <1>a, <3>0, <3>3
        <4> QED  BY <3>0, <3>1, <3>2, <3>3, <4>1
      <3>4. CASE OrderRow(c) \notin held[q]
        BY <3>0, <3>1, <3>2, <3>4
      <3> QED  BY <3>3, <3>4
    <2>f. pc[q] \in After \cup {"resOrder"} /\ UserRow(v) \in held[q] =>
            buf[q].ytd <= CapAnnual /\ (CapLock(v) \in held[q] \/ buf[q].ytd <= ytd'[v])
      BY <2>1, <1>w, <2>n DEF CapAt, v, Busy, After
    <2>g. ASSUME pc[q] \in {"runa", "issued"}, order'[c].status = "pending"
          PROVE  (IF OrderRow(c) \in held[q] THEN buf[q].row.cap ELSE order'[c].cap)
                   = buf[q].row.denom
      <3>1. c \in OrderIds /\ order'[c] = order[c]
        BY <2>g, <2>2, <2>3, <2>n DEF Busy
      <3> QED  BY <2>1, <2>g, <3>1 DEF CapAt, SeenCap, Pending
    <2>k. q = Reconciler /\ pc[q] \in After => buf[q].row.cap \in {0, order'[c].cap}
      <3> SUFFICES ASSUME q = Reconciler, pc[q] \in After
                   PROVE  buf[q].row.cap \in {0, order'[c].cap}
        OBVIOUS
      <3>1. OrderRow(c) \in held[q] /\ c \in OrderIds
        BY <2>n, Hand DEF RecAt, Failing, After, Busy, c
      <3>2. order'[c] = order[c]
        BY <1>a, <3>1
      <3>3. buf[q].row.cap \in {0, order[c].cap}
        BY <2>1 DEF CapAt
      <3> QED  BY <3>2, <3>3
    <2> QED  BY <1>v, <2>1, <2>b, <2>c, <2>d, <2>e, <2>f, <2>g, <2>k
             DEF CapAt, SeenYtd, SeenCap, Pending, c, v
  <1> QED  BY <1>1, <1>2, <1>3, <1>4, <1>5, <1>6, <1>v DEF TxAt, OneYear, c

LEMMA CommitTx ==
  ASSUME IInv, TypeInv', NEW p \in Procs, Commit(p)
  PROVE  TxInv'
  <1> DEFINE o == cur[p]
  <1>v. /\ pc[p] = "commit" /\ o \in OrderIds /\ UNCHANGED <<age, day>>
        /\ OrderRow(o) \in held[p] => order'[o] = buf[p].row
        /\ held'[p] = {} /\ buf'[p] = NoBuf
        /\ Exists(o) => pc'[p] \in {"idle", "recNext"} /\ cur'[p] = NULL
        /\ ~Exists(o) => pc'[p] = "queued" /\ cur'[p] = o
    BY CommitValues
  <1>n. NULL \notin OrderIds /\ NoBuf.refund = FALSE
    BY GiftCardsAssumption DEF NoBuf
  <1> HIDE DEF o
  <1>1. TxAt(p, pc[p], cur[p], held[p], buf[p])'
    <2>1. CASE Exists(o)
      <3>1. RowAt(pc[p], cur[p], held[p], buf[p])'
        BY <1>v, <1>n, <2>1 DEF RowAt, NewCommit, Busy, Plain
      <3>2. CabAt(pc[p], cur[p], held[p], buf[p])'
        BY <1>v, <1>n, <2>1 DEF CabAt, NewCommit
      <3>3. /\ ReleasedAt(pc[p], cur[p], held[p], buf[p])' /\ DayAt(pc[p], cur[p], held[p], buf[p])'
            /\ RecAt(p, pc[p], cur[p], held[p], buf[p])'
        BY <1>v, <2>1 DEF ReleasedAt, DayAt, NewCommit, RecAt, After
      <3>4. CapAt(p, pc[p], cur[p], held[p], buf[p])'
        BY <1>v, <2>1 DEF CapAt, After
      <3>5. PromptAt(p, pc[p], cur[p])'
        BY <1>v, <1>n, <2>1 DEF PromptAt, Busy
      <3> QED  BY <3>1, <3>2, <3>3, <3>4, <3>5 DEF TxAt
    <2>2. CASE ~Exists(o)
      <3>1. RowAt(pc[p], cur[p], held[p], buf[p])'
        BY <1>v, <2>2 DEF RowAt, NewCommit, Busy, Plain
      <3>2. CabAt(pc[p], cur[p], held[p], buf[p])'
        BY <1>v, <1>n, <2>2 DEF CabAt, NewCommit
      <3>3. /\ ReleasedAt(pc[p], cur[p], held[p], buf[p])' /\ DayAt(pc[p], cur[p], held[p], buf[p])'
            /\ RecAt(p, pc[p], cur[p], held[p], buf[p])'
        BY <1>v, <2>2 DEF ReleasedAt, DayAt, NewCommit, RecAt, After
      <3>4. CapAt(p, pc[p], cur[p], held[p], buf[p])'
        BY <1>v, <2>2 DEF CapAt, After
      <3>5. PromptAt(p, pc[p], cur[p])'
        <4>1. p \in Workers
          BY <1>v, <2>2, CommitNew DEF o
        <4>2. p # Reconciler /\ age[o] = 0
          BY <1>v, <2>2, <4>1, GiftCardsAssumption DEF IInv, TableInv, RowsOK
        <4> QED  BY <1>v, <2>2, <4>2 DEF PromptAt, Busy
      <3> QED  BY <3>1, <3>2, <3>3, <3>4, <3>5 DEF TxAt
    <2> QED  BY <2>1, <2>2
  <1> QED  BY <1>1, CommitOthers DEF TxInv

\* What a COMMIT does to the promises of the rows: three kinds of it.
LEMMA CommitKinds ==
  ASSUME IInv, NEW p \in Procs, Commit(p)
  PROVE  LET o == cur[p]  b == buf[p] IN
    \/ ~Exists(o) /\ Fresh(b.row) /\ order'[o] = b.row
    \/ Exists(o) /\ order'[o] = order[o]
    \/ /\ Exists(o) /\ order'[o] = b.row /\ Same(b.row, order[o]) /\ OrderRow(o) \in held[p]
       /\ \/ b.row.status = order[o].status
          \/ Pending(o) /\ b.row.status \in {"issued", "failed"}
  BY CommitValues, CommitNew, CommitOver

LEMMA CommitRows ==
  ASSUME IInv, NEW p \in Procs, Commit(p)
  PROVE  RowsOK' /\ BatchOK'
  <1> DEFINE o == cur[p]
  <1>v. /\ o \in OrderIds /\ UNCHANGED <<age, day, todo>> /\ pc[p] = "commit"
        /\ \A x \in OrderIds : x # o => order'[x] = order[x]
        /\ held'[p] = {} /\ p # Payout /\ held'[Payout] = held[Payout]
    BY CommitValues DEF Procs
  <1>k. \/ ~Exists(o) /\ Fresh(buf[p].row) /\ order'[o] = buf[p].row
        \/ Exists(o) /\ order'[o] = order[o]
        \/ /\ Exists(o) /\ order'[o] = buf[p].row /\ Same(buf[p].row, order[o])
           /\ \/ buf[p].row.status = order[o].status
              \/ Pending(o) /\ buf[p].row.status \in {"issued", "failed"}
    BY CommitKinds
  <1>r. RowsOK /\ BatchOK /\ Plain(buf[p].row)
    BY <1>v, Hand DEF IInv, TableInv, RowAt, Busy
  <1>s. Exists(o) => order'[o].source = order[o].source
    BY <1>k DEF Same
  <1>t. Payout \in Procs /\ Reconciler \in Procs
    BY DEF Procs
  <1>e. order'[o].status # "none"
    BY <1>k DEF Exists, Fresh, Pending
  <1> HIDE DEF o
  <1>1. RowsOK'
    <2> SUFFICES ASSUME NEW x \in OrderIds
                 PROVE  /\ Exists(x)' => order'[x].created <= day /\ order'[x].denom # 0
                        /\ ~Exists(x)' => age[x] = 0
                        /\ order'[x].source = "shop_purchase" =>
                             order'[x].status # "churned" /\ order'[x].elig = NoElig
      BY <1>v DEF RowsOK
    <2>1. CASE x # o
      BY <1>v, <1>r, <2>1 DEF RowsOK, Exists
    <2>2. CASE x = o
      BY <1>k, <1>r, <1>e, <2>2 DEF RowsOK, Exists, Fresh, Same, Plain, Pending
    <2> QED  BY <2>1, <2>2
  <1>2. BatchOK'
    <2> SUFFICES ASSUME NEW x \in OrderIds
                 PROVE  /\ x \in todo[Payout] \/ OrderRow(x) \in held[Payout] =>
                             order'[x].source = "referral_reward"
                        /\ x \in todo[Reconciler] =>
                             /\ Exists(x)' /\ order'[x].source = "shop_purchase" /\ age[x] = 2
      BY <1>v DEF BatchOK
    <2>1. CASE x # o
      BY <1>v, <1>r, <2>1 DEF BatchOK, Exists
    <2>2. CASE x = o
      <3>1. CASE Exists(o)
        BY <1>r, <1>s, <1>e, <2>2, <3>1 DEF BatchOK, Exists
      <3>2. CASE ~Exists(o)
        <4>1. order[x].source = "none"
          BY <1>v, <2>2, <3>2 DEF IInv, TypeInv, TablesOK, Exists, NoOrder, OrderRec, Statuses
        <4>2. x \notin todo[Reconciler] /\ x \notin todo[Payout] /\ OrderRow(x) \notin held[Payout]
          BY <1>r, <2>2, <3>2, <4>1 DEF BatchOK
        <4> QED  BY <4>2
      <3> QED  BY <3>1, <3>2
    <2> QED  BY <2>1, <2>2
  <1> QED  BY <1>1, <1>2

\* What a boutique order costs its user as long as it stands.
Price(r, u) == IF Stands(r, u) THEN CabCost(r.denom) ELSE 0

LEMMA CommitPrices ==
  ASSUME IInv, NEW p \in Procs, Commit(p), NEW u \in Users
  PROVE  balance'[u] = balance[u] + Price(order[cur[p]], u) - Price(order'[cur[p]], u)
  <1> DEFINE o == cur[p]
             b == buf[p]
             w == b.row.user
  <1>v. /\ pc[p] = "commit" /\ o \in OrderIds /\ b.row \in OrderRec /\ w \in Users
        /\ u # w => balance'[u] = balance[u]
        /\ balance'[w] = IF CabRow(w) \in held[p] THEN b.bal ELSE balance[w]
        /\ OrderRow(o) \in held[p] => order'[o] = b.row
        /\ OrderRow(o) \notin held[p] => order' = order
    BY CommitValues
  <1>k. \/ ~Exists(o) /\ Fresh(b.row) /\ order'[o] = b.row
        \/ Exists(o) /\ order'[o] = order[o]
        \/ /\ Exists(o) /\ order'[o] = b.row /\ Same(b.row, order[o]) /\ OrderRow(o) \in held[p]
           /\ \/ b.row.status = order[o].status
              \/ Pending(o) /\ b.row.status \in {"issued", "failed"}
    BY CommitKinds
  <1>c. CabAt("commit", o, held[p], b) /\ balance[u] \in Nat /\ balance[w] \in Nat
    BY <1>v, Hand DEF IInv, TypeInv, TablesOK
  <1>n. Price(order[o], u) \in Nat /\ Price(order'[o], u) \in Nat
    <2>1. order[o] \in OrderRec \cup {NoOrder} /\ (order'[o] = order[o] \/ order'[o] = b.row)
      BY <1>v DEF IInv, TypeInv, TablesOK
    <2> QED  BY <1>v, <2>1, RowNumbers DEF Price
  <1>m. CabCost(b.row.denom) \in Nat
    BY <1>v, RowNumbers
  <1> SUFFICES balance'[u] = balance[u] + Price(order[o], u) - Price(order'[o], u)
    OBVIOUS
  <1> HIDE DEF o, b, w
  <1>1. CASE ~Exists(o)
    <2>1. order[o] = NoOrder
      BY <1>v, <1>1 DEF IInv, TypeInv, TablesOK, Exists, OrderRec, Statuses
    <2>2. Price(order[o], u) = 0
      BY <2>1 DEF Price, Stands, NoOrder
    <2>3. Fresh(b.row) /\ order'[o] = b.row
      BY <1>k, <1>1
    <2>4. CASE u = w
      <3>1. balance'[u] = balance[u] - CabCost(b.row.denom)
        BY <1>v, <1>c, <1>1, <2>4 DEF CabAt, NewCommit, w
      <3>2. Price(order'[o], u) = CabCost(b.row.denom)
        BY <2>3, <2>4 DEF Price, Stands, Fresh, w
      <3> QED  BY <1>c, <1>m, <2>2, <3>1, <3>2
    <2>5. CASE u # w
      <3>1. Price(order'[o], u) = 0
        BY <2>3, <2>5 DEF Price, Stands, w
      <3> QED  BY <1>v, <1>c, <2>2, <2>5, <3>1
    <2> QED  BY <2>4, <2>5
  <1>2. CASE Exists(o) /\ b.refund
    <2>1. /\ Failing(o, held[p], b) /\ b.row.source = "shop_purchase"
          /\ CabRow(w) \in held[p] /\ b.bal = balance[w] + CabCost(b.row.denom)
      BY <1>c, <1>2 DEF CabAt, w
    <2>2. order'[o] = b.row /\ Same(b.row, order[o]) /\ b.row.status = "failed" /\ Pending(o)
      BY <1>v, <2>1, CommitOver, <1>2 DEF Failing, o, b
    <2>3. Price(order'[o], u) = 0
      BY <2>2 DEF Price, Stands
    <2>4. Price(order[o], u) = IF u = w THEN CabCost(b.row.denom) ELSE 0
      BY <2>1, <2>2 DEF Price, Stands, Same, Pending, w
    <2> QED  BY <1>v, <1>c, <1>m, <2>1, <2>3, <2>4
  <1>3. CASE Exists(o) /\ ~b.refund
    <2>1. CabRow(w) \notin held[p] /\ ~(Failing(o, held[p], b) /\ b.row.source = "shop_purchase")
      BY <1>c, <1>3 DEF CabAt, w
    <2>2. balance'[u] = balance[u]
      BY <1>v, <2>1
    <2>3. Price(order'[o], u) = Price(order[o], u)
      <3>1. CASE order'[o] = order[o]
        BY <3>1
      <3>2. CASE order'[o] = b.row /\ Same(b.row, order[o]) /\ b.row.status = order[o].status
        BY <3>2 DEF Price, Stands, Same
      <3>3. CASE /\ order'[o] = b.row /\ Same(b.row, order[o]) /\ Pending(o)
                 /\ b.row.status \in {"issued", "failed"} /\ OrderRow(o) \in held[p]
        <4>1. b.row.status = "failed" => b.row.source # "shop_purchase"
          BY <2>1, <3>3 DEF Failing
        <4> QED  BY <3>3, <4>1 DEF Price, Stands, Same, Pending
      <3> QED  BY <1>k, <1>3, <3>1, <3>2, <3>3
    <2> QED  BY <1>c, <1>n, <2>2, <2>3
  <1> QED  BY <1>1, <1>2, <1>3

LEMMA CommitCab ==
  ASSUME IInv, TypeInv', NEW p \in Procs, Commit(p)
  PROVE  CabConservation'
  <1> DEFINE o == cur[p]
             b == buf[p]
  <1>v. /\ pc[p] = "commit" /\ o \in OrderIds
        /\ \A x \in OrderIds : x # o => order'[x] = order[x]
        /\ OrderRow(o) \in held[p] => order'[o] = b.row
        /\ OrderRow(o) \notin held[p] => order' = order
        /\ \A x \in OrderIds : refunds'[x] = IF x = o /\ b.refund THEN refunds[x] + 1 ELSE refunds[x]
    BY CommitValues
  <1>k. \/ ~Exists(o) /\ Fresh(b.row) /\ order'[o] = b.row
        \/ Exists(o) /\ order'[o] = order[o]
        \/ /\ Exists(o) /\ order'[o] = b.row /\ Same(b.row, order[o]) /\ OrderRow(o) \in held[p]
           /\ \/ b.row.status = order[o].status
              \/ Pending(o) /\ b.row.status \in {"issued", "failed"}
    BY CommitKinds
  <1>c. CabAt("commit", o, held[p], b) /\ CabConservation
    BY <1>v, Hand DEF IInv, TableInv
  <1>1. \A x \in OrderIds :
          refunds'[x] = IF order'[x].status = "failed" /\ order'[x].source = "shop_purchase"
                          THEN 1 ELSE 0
    <2> HIDE DEF o, b
    <2> SUFFICES ASSUME NEW x \in OrderIds
                 PROVE  refunds'[x] = IF order'[x].status = "failed" /\ order'[x].source = "shop_purchase"
                                        THEN 1 ELSE 0
      OBVIOUS
    <2>0. refunds[x] = IF order[x].status = "failed" /\ order[x].source = "shop_purchase"
                         THEN 1 ELSE 0
      BY <1>c DEF CabConservation
    <2>1. CASE x # o
      BY <1>v, <2>0, <2>1
    <2>2. CASE x = o /\ ~Exists(o)
      BY <1>v, <1>k, <1>c, <2>0, <2>2, CommitNew DEF Fresh, Exists, o, b
    <2>3. CASE x = o /\ Exists(o) /\ b.refund
      <3>1. Failing(o, held[p], b) /\ b.row.source = "shop_purchase"
        BY <1>c, <2>3 DEF CabAt
      <3> QED  BY <1>v, <2>0, <2>3, <3>1 DEF Failing, Pending
    <2>4. CASE x = o /\ Exists(o) /\ ~b.refund
      <3>1. ~(Failing(o, held[p], b) /\ b.row.source = "shop_purchase")
        BY <1>c, <2>4 DEF CabAt
      <3>2. refunds'[x] = refunds[x]
        BY <1>v, <2>4
      <3>3. CASE order'[o] = order[o]
        BY <2>0, <2>4, <3>2, <3>3
      <3>4. CASE /\ order'[o] = b.row /\ Same(b.row, order[o])
                 /\ b.row.status = order[o].status
        BY <2>0, <2>4, <3>2, <3>4 DEF Same
      <3>5. CASE /\ order'[o] = b.row /\ Same(b.row, order[o]) /\ OrderRow(o) \in held[p]
                 /\ Pending(o) /\ b.row.status \in {"issued", "failed"}
        BY <2>0, <2>4, <3>1, <3>2, <3>5 DEF Failing, Pending
      <3> QED  BY <1>k, <2>4, <3>3, <3>4, <3>5
    <2> QED  BY <2>1, <2>2, <2>3, <2>4
  <1>2. ASSUME NEW u \in Users
        PROVE  balance'[u] = InitBalance - SumFunction([x \in OrderIds |->
                 IF Stands(order'[x], u) THEN CabCost(order'[x].denom) ELSE 0])
    <2> DEFINE f == [x \in OrderIds |-> IF Stands(order[x], u) THEN CabCost(order[x].denom) ELSE 0]
               g == [x \in OrderIds |-> IF Stands(order'[x], u) THEN CabCost(order'[x].denom) ELSE 0]
    <2>1. \A x \in OrderIds : order[x] \in OrderRec \cup {NoOrder} /\ order'[x] \in OrderRec \cup {NoOrder}
      BY DEF IInv, TypeInv, TablesOK
    <2>2. f \in [OrderIds -> Int] /\ g \in [OrderIds -> Int]
      BY <2>1, RowNumbers
    <2>3. PICK y \in OrderIds : y = o
      BY <1>v
    <2>4. /\ \A x \in OrderIds : x # y => g[x] = f[x]
          /\ f[y] = Price(order[y], u) /\ g[y] = Price(order'[y], u)
      BY <1>v, <2>3 DEF Price
    <2>5. balance'[u] = balance[u] + Price(order[y], u) - Price(order'[y], u)
      BY <2>3, CommitPrices
    <2>6. balance[u] = InitBalance - SumFunction(f) /\ balance[u] \in Int
      BY <1>c DEF CabConservation, IInv, TypeInv, TablesOK
    <2> HIDE DEF f, g
    <2>7. SumFunction(g) = SumFunction(f) - f[y] + g[y] /\ SumFunction(f) \in Int
      BY <2>2, <2>4, SumChange, SumInt, GiftCardsAssumption
    <2>8. f[y] \in Int /\ g[y] \in Int /\ InitBalance \in Int
      BY <2>2, GiftCardsAssumption
    <2>9. balance'[u] = InitBalance - SumFunction(g)
      BY <2>4, <2>5, <2>6, <2>7, <2>8
    <2> QED  BY <2>9 DEF g
  <1> QED  BY <1>1, <1>2 DEF CabConservation

LEMMA CommitCaps ==
  ASSUME IInv, TypeInv', NEW p \in Procs, Commit(p)
  PROVE  CapsOK'
  <1> SUFFICES ASSUME OneYear
               PROVE  /\ (day <= MaxDay /\ ~resetDue)'
                      /\ YtdMatchesReservations'
                      /\ \A u \in Users : ytd'[u] <= CapAnnual
                      /\ \A x \in OrderIds :
                           /\ order'[x].cap \in {0, order'[x].denom} /\ resYear'[x] = 0
                           /\ order'[x].status = "issued" => order'[x].cap = order'[x].denom
    BY DEF CapsOK, OneYear
  <1> DEFINE o == cur[p]
             b == buf[p]
             w == b.row.user
  <1>v. /\ pc[p] = "commit" /\ o \in OrderIds /\ b.row \in OrderRec /\ w \in Users
        /\ b \in BufRec /\ UNCHANGED <<day, resetDue, resYear>>
        /\ \A x \in OrderIds : x # o => order'[x] = order[x]
        /\ OrderRow(o) \in held[p] => order'[o] = b.row
        /\ OrderRow(o) \notin held[p] => order' = order
        /\ \A x \in Users : x # w => ytd'[x] = ytd[x]
        /\ ytd'[w] = SeenYtd(held[p], b)
    BY CommitValues
  <1>c. CapAt(p, "commit", o, held[p], b) /\ CapsOK
    BY <1>v, Hand DEF IInv, TableInv
  <1>s. /\ Exists(o) => Same(b.row, order[o])
        /\ ~Exists(o) => OrderRow(o) \in held[p] /\ order[o] = NoOrder /\ Fresh(b.row)
    <2>1. Exists(o) => Same(b.row, order[o])
      BY <1>v, CommitOver
    <2>2. ~Exists(o) => OrderRow(o) \in held[p] /\ Fresh(b.row)
      BY <1>v, CommitNew
    <2>3. order[o] \in OrderRec \cup {NoOrder}
      BY <1>v DEF IInv, TypeInv, TablesOK
    <2>4. ~Exists(o) => order[o] = NoOrder
      BY <2>3 DEF Exists, OrderRec, Statuses
    <2> QED  BY <2>1, <2>2, <2>4
  <1>n. /\ b.row.cap \in Nat /\ order[o].cap \in Nat /\ b.ytd \in Nat /\ NoOrder.cap = 0
        /\ \A x \in Users : ytd[x] \in Nat /\ ytd'[x] \in Nat
        /\ \A x \in OrderIds : order[x].cap \in Nat /\ order'[x].cap \in Nat
    <2>1. \A x \in OrderIds : order[x] \in OrderRec \cup {NoOrder} /\ order'[x] \in OrderRec \cup {NoOrder}
      BY DEF IInv, TypeInv, TablesOK
    <2>2. \A x \in Users : ytd[x] \in Nat /\ ytd'[x] \in Nat
      BY DEF IInv, TypeInv, TablesOK
    <2> QED  BY <1>v, <2>1, <2>2, RowNumbers, BufTypes DEF NoOrder
  <1> HIDE DEF o, b, w
  <1>1. (day <= MaxDay /\ ~resetDue)'
    BY <1>v, <1>c DEF CapsOK
  <1>2. YtdMatchesReservations'
    <2> SUFFICES ASSUME NEW u \in Users PROVE ytd'[u] = Reserved(u, OrderIds)'
      BY DEF YtdMatchesReservations
    <2> DEFINE f == [x \in OrderIds |-> IF x \in OrderIds /\ order[x].user = u THEN order[x].cap ELSE 0]
               g == [x \in OrderIds |-> IF x \in OrderIds /\ order'[x].user = u THEN order'[x].cap ELSE 0]
    <2>1. f \in [OrderIds -> Int] /\ g \in [OrderIds -> Int]
      BY <1>n
    <2>2. PICK y \in OrderIds : y = o
      BY <1>v
    <2>3. \A x \in OrderIds : x # y => g[x] = f[x]
      BY <1>v, <2>2
    <2>4. Reserved(u, OrderIds) = SumFunction(f) /\ Reserved(u, OrderIds)' = SumFunction(g)
      BY DEF Reserved
    <2>5. f[y] = (IF order[y].user = u THEN order[y].cap ELSE 0)
          /\ g[y] = (IF order'[y].user = u THEN order'[y].cap ELSE 0)
      OBVIOUS
    <2>6. ytd[u] = SumFunction(f)
      BY <1>c, <2>4 DEF CapsOK, YtdMatchesReservations
    <2> HIDE DEF f, g
    <2>7. ytd'[u] = ytd[u] - f[y] + g[y]
      <3>1. CASE u # w
        <4>1. f[y] = g[y]
          <5>1. CASE order'[o] = order[o]
            BY <2>2, <2>5, <5>1
          <5>2. CASE Exists(o) /\ order'[o] = b.row
            BY <1>s, <2>2, <2>5, <3>1, <5>2 DEF Same, w
          <5>3. CASE ~Exists(o)
            BY <1>v, <1>s, <1>n, <2>2, <2>5, <3>1, <5>3 DEF w
          <5> QED  BY <1>v, <5>1, <5>2, <5>3
        <4>2. ytd'[u] = ytd[u] /\ ytd[u] \in Nat /\ f[y] \in Int
          BY <1>v, <1>n, <2>1, <3>1
        <4> QED  BY <4>1, <4>2
      <3>2. CASE u = w
        <4>1. f[y] = order[o].cap
          BY <1>s, <1>n, <2>2, <2>5, <3>2 DEF Same, w
        <4>2. g[y] = SeenCap(o, held[p], b)
          BY <1>v, <1>s, <2>2, <2>5, <3>2 DEF Same, SeenCap, w
        <4>3. ytd'[u] + order[o].cap = ytd[u] + SeenCap(o, held[p], b)
          BY <1>v, <1>c, <3>2 DEF CapAt, After, w
        <4>4. SeenCap(o, held[p], b) \in Nat /\ ytd[u] \in Nat /\ ytd'[u] \in Nat
          BY <1>n DEF SeenCap
        <4> QED  BY <1>n, <4>1, <4>2, <4>3, <4>4
      <3> QED  BY <3>1, <3>2
    <2>8. SumFunction(g) = SumFunction(f) - f[y] + g[y]
      BY <2>1, <2>3, SumChange, GiftCardsAssumption
    <2> QED  BY <2>4, <2>6, <2>7, <2>8
  <1>3. ASSUME NEW u \in Users PROVE ytd'[u] <= CapAnnual
    <2>1. CASE u # w
      BY <1>v, <1>c, <2>1 DEF CapsOK
    <2>2. CASE u = w /\ UserRow(w) \in held[p]
      BY <1>v, <1>c, <2>2 DEF CapAt, After, SeenYtd, w
    <2>3. CASE u = w /\ UserRow(w) \notin held[p]
      BY <1>v, <1>c, <2>3 DEF CapsOK, SeenYtd, w
    <2> QED  BY <2>1, <2>2, <2>3
  <1>4. ASSUME NEW x \in OrderIds
        PROVE  /\ order'[x].cap \in {0, order'[x].denom} /\ resYear'[x] = 0
               /\ order'[x].status = "issued" => order'[x].cap = order'[x].denom
    <2>1. CASE order'[x] = order[x]
      BY <1>v, <1>c, <2>1 DEF CapsOK
    <2>2. CASE order'[x] # order[x]
      <3>1. x = o /\ order'[x] = b.row /\ OrderRow(o) \in held[p]
        BY <1>v, <2>2
      <3> QED  BY <1>v, <1>c, <3>1 DEF CapsOK, CapAt, After
    <2> QED  BY <2>1, <2>2
  <1> QED  BY <1>1, <1>2, <1>3, <1>4

LEMMA CommitFailed ==
  ASSUME IInv, NEW p \in Procs, Commit(p)
  PROVE  FailedOK'
  <1> DEFINE o == cur[p]
             b == buf[p]
  <1> SUFFICES ASSUME PromptTasks, NEW x \in OrderIds, order'[x].status = "failed"
               PROVE  order'[x].cap = 0
    BY DEF FailedOK, FailedHoldsNoReservation
  <1>v. /\ pc[p] = "commit" /\ o \in OrderIds /\ p # Payout
        /\ \A y \in OrderIds : y # o => order'[y] = order[y]
        /\ OrderRow(o) \in held[p] => order'[o] = b.row
        /\ OrderRow(o) \notin held[p] => order' = order
    BY CommitValues
  <1>1. order[x].status = "failed" => order[x].cap = 0
    BY DEF IInv, TableInv, FailedOK, FailedHoldsNoReservation
  <1>2. CASE order'[x] = order[x]
    BY <1>1, <1>2
  <1>3. CASE order'[x] # order[x]
    <2>1. x = o /\ order'[x] = b.row /\ OrderRow(o) \in held[p] /\ b.row.status = "failed"
      BY <1>v, <1>3
    <2>2. Exists(o)
      BY <1>v, <2>1, CommitNew DEF Fresh
    <2>3. order[o].status # "failed"
      <3>1. CASE p \in Workers
        BY <1>v, <2>2, <3>1, Hand DEF PromptAt, Busy
      <3>2. CASE p = Reconciler
        BY <1>v, <3>2, Hand DEF RecAt, After, Failing, Pending
      <3> QED  BY <1>v, <3>1, <3>2 DEF Procs
    <2>4. Failing(o, held[p], b)
      BY <1>v, <2>1, <2>2, <2>3, CommitOver DEF Failing
    <2> QED  BY <1>v, <2>1, <2>2, <2>4, Hand DEF ReleasedAt
  <1> QED  BY <1>2, <1>3

LEMMA CommitDaily ==
  ASSUME IInv, TypeInv', NEW p \in Procs, Commit(p)
  PROVE  DailyCap'
  <1> DEFINE o == cur[p]
             b == buf[p]
  <1>v. /\ pc[p] = "commit" /\ o \in OrderIds /\ day' = day /\ b.row \in OrderRec
        /\ \A x \in OrderIds : x # o => order'[x] = order[x]
    BY CommitValues
  <1>k. \/ ~Exists(o) /\ Fresh(b.row) /\ order'[o] = b.row
        \/ Exists(o) /\ order'[o] = order[o]
        \/ /\ Exists(o) /\ order'[o] = b.row /\ Same(b.row, order[o])
           /\ \/ b.row.status = order[o].status
              \/ Pending(o) /\ b.row.status \in {"issued", "failed"}
    BY CommitKinds
  <1>w. ~Exists(o) => /\ sum_redeemed_window(b.row.user, b.row.created) + b.row.denom <= CapDaily
                      /\ order[o] = NoOrder
    BY <1>v, CommitNew DEF IInv, TypeInv, TablesOK, Exists, OrderRec, Statuses
  <1>d. DailyCap
    BY DEF IInv, TableInv
  <1>t. \A x \in OrderIds : order[x] \in OrderRec \cup {NoOrder} /\ order'[x] \in OrderRec \cup {NoOrder}
    BY DEF IInv, TypeInv, TablesOK
  <1> HIDE DEF o, b
  <1> SUFFICES ASSUME NEW u \in Users, NEW d \in 0..day
               PROVE  SumFunction([x \in OrderIds |->
                        IF Stands(order'[x], u) /\ order'[x].created = d
                          THEN order'[x].denom ELSE 0]) <= CapDaily
    BY <1>v DEF DailyCap
  <1> DEFINE f == [x \in OrderIds |->
                     IF Stands(order[x], u) /\ order[x].created = d THEN order[x].denom ELSE 0]
             g == [x \in OrderIds |->
                     IF Stands(order'[x], u) /\ order'[x].created = d THEN order'[x].denom ELSE 0]
             h == [x \in OrderIds |-> IF InWindow(order[x], u, d) THEN order[x].denom ELSE 0]
  <1>1. f \in [OrderIds -> Int] /\ g \in [OrderIds -> Int] /\ h \in [OrderIds -> Int]
    BY <1>t, RowNumbers
  <1>2. PICK y \in OrderIds : y = o
    BY <1>v
  <1>3. \A x \in OrderIds : x # y => g[x] = f[x]
    BY <1>v, <1>2
  <1>4. /\ f[y] = IF Stands(order[y], u) /\ order[y].created = d THEN order[y].denom ELSE 0
        /\ g[y] = IF Stands(order'[y], u) /\ order'[y].created = d THEN order'[y].denom ELSE 0
    OBVIOUS
  <1>5. SumFunction(f) <= CapDaily
    BY <1>d DEF DailyCap
  <1>6. \A x \in OrderIds : f[x] <= h[x]
    <2> SUFFICES ASSUME NEW x \in OrderIds PROVE f[x] <= h[x]
      OBVIOUS
    <2>1. order[x].denom \in Nat /\ order[x].created \in Nat
      BY <1>t, RowNumbers
    <2>2. Stands(order[x], u) /\ order[x].created = d => InWindow(order[x], u, d)
      BY <2>1 DEF Stands, InWindow
    <2> QED  BY <2>1, <2>2
  <1>7. sum_redeemed_window(u, d) = SumFunction(h)
    BY DEF sum_redeemed_window
  <1> HIDE DEF f, g, h
  <1>n. /\ SumFunction(f) \in Int /\ SumFunction(g) \in Int /\ SumFunction(h) \in Int
        /\ CapDaily \in Int /\ f[y] \in Int /\ g[y] \in Int
    BY <1>1, SumInt, GiftCardsAssumption
  <1>8. CASE g[y] <= f[y]
    <2>1. \A x \in OrderIds : g[x] <= f[x]
      <3> SUFFICES ASSUME NEW x \in OrderIds PROVE g[x] <= f[x]
        OBVIOUS
      <3>1. f[x] \in Int
        BY <1>1
      <3> QED  BY <1>3, <1>8, <3>1
    <2>2. SumFunction(g) <= SumFunction(f)
      BY <1>1, <2>1, SumOrder, GiftCardsAssumption
    <2> QED  BY <1>5, <1>n, <2>2 DEF g
  <1>9. CASE ~(g[y] <= f[y])
    <2>1. ~Exists(o)
      <3> SUFFICES ASSUME Exists(o) PROVE g[y] <= f[y]
        BY <1>9
      <3>1. CASE order'[o] = order[o]
        BY <1>2, <1>4, <1>n, <3>1
      <3>2. CASE /\ order'[o] = b.row /\ Same(b.row, order[o])
                 /\ \/ b.row.status = order[o].status
                    \/ Pending(o) /\ b.row.status \in {"issued", "failed"}
        <4>1. Stands(order'[o], u) => Stands(order[o], u)
          BY <3>2 DEF Stands, Same, Pending
        <4>2. order'[o].denom = order[o].denom /\ order'[o].created = order[o].created
          BY <3>2 DEF Same
        <4>3. order[o].denom \in Nat
          BY <1>v, <1>t, RowNumbers
        <4> QED  BY <1>2, <1>4, <4>1, <4>2, <4>3
      <3> QED  BY <1>k, <3>1, <3>2
    <2>2. order'[y] = b.row /\ b.row.denom \in Nat /\ f[y] = 0
      BY <1>v, <1>k, <1>w, <1>2, <1>4, <2>1, RowNumbers DEF Stands, NoOrder
    <2>3. g[y] = b.row.denom /\ b.row.user = u /\ b.row.created = d
      BY <1>4, <1>9, <2>2 DEF Stands
    <2>4. SumFunction(h) + b.row.denom <= CapDaily
      BY <1>w, <1>7, <2>1, <2>3
    <2>5. SumFunction(f) <= SumFunction(h)
      BY <1>1, <1>6, SumOrder, GiftCardsAssumption
    <2>6. SumFunction(g) = SumFunction(f) - f[y] + g[y]
      BY <1>1, <1>3, SumChange, GiftCardsAssumption
    <2>7. SumFunction(g) <= CapDaily
      BY <1>n, <2>2, <2>3, <2>4, <2>5, <2>6
    <2> QED  BY <2>7 DEF g
  <1> QED  BY <1>8, <1>9
-----------------------------------------------------------------------------
\* Before the end of the first year the year is 0, and no day but the first is
\* 1 January.
LEMMA FirstYear ==
  ASSUME NEW d \in Nat, d < DaysPerYear
  PROVE  Year(d) = 0 /\ (d # 0 => ~IsJanuary(d))
  <1>1. DaysPerYear \in Nat /\ DaysPerYear > 0
    BY GiftCardsAssumption
  <1>2. d \div DaysPerYear = 0 /\ d % DaysPerYear = d
    BY <1>1
  <1> QED  BY <1>2 DEF Year, IsJanuary

\* What the batches have at hand stays what they selected.
LEMMA SameBatch ==
  ASSUME IInv, UNCHANGED <<order, age>>,
         \A o \in OrderIds :
           /\ o \in todo'[Payout] \/ OrderRow(o) \in held'[Payout] =>
                \/ o \in todo[Payout] \/ OrderRow(o) \in held[Payout]
                \/ order[o].source = "referral_reward"
           /\ o \in todo'[Reconciler] =>
                \/ o \in todo[Reconciler]
                \/ Exists(o) /\ order[o].source = "shop_purchase" /\ age[o] = 2
  PROVE  BatchOK'
  BY DEF IInv, BatchOK, Exists

LEMMA StepTx ==
  ASSUME IInv, TypeInv', NEW p \in Procs, Step(p)
  PROVE  TxInv'
  <1>1. CASE DeadlockVictim(p)
    <2>1. Drop(p) /\ UNCHANGED <<order, balance, ytd, day, age>>
      BY <1>1 DEF DeadlockVictim, tables, clock
    <2> QED  BY <2>1, DropTx
  <1> QED  BY <1>1, ShopCapsTx, ShopDebitTx, IssueStartTx, ReserveFastTx, ReserveDecideTx,
              ReserveUserTx, ReserveOrderTx, DeferTx, CallRunaTx, OrderIssuedTx,
              OrderFailedTx, RefundCabTx, ReleaseCapTx, CommitTx
           DEF Step

LEMMA StepTable ==
  ASSUME IInv, TypeInv', NEW p \in Procs, Step(p)
  PROVE  TableInv'
  <1>1. CASE Commit(p)
    BY <1>1, CommitRows, CommitCab, CommitCaps, CommitFailed, CommitDaily DEF TableInv
  <1>2. CASE ReserveUser(p)
    <2>1. UNCHANGED <<order, balance, ytd, refunds, age, day, resetDue>>
      BY <1>2 DEF ReserveUser, clock
    <2>2. ASSUME OneYear, NEW o \in OrderIds PROVE resYear'[o] = 0
      <3>1. day \in Nat /\ day <= MaxDay /\ resYear[o] = 0 /\ resYear \in [OrderIds -> Nat]
        BY <2>2 DEF IInv, TypeInv, TablesOK, TableInv, CapsOK
      <3>2. Year(day) = 0
        <4>1. MaxDay \in Nat /\ DaysPerYear \in Nat
          BY GiftCardsAssumption
        <4> QED  BY <2>2, <3>1, <4>1, FirstYear DEF OneYear
      <3>3. resYear' = [resYear EXCEPT ![cur[p]] = Year(day)]
        BY <1>2 DEF ReserveUser
      <3> QED  BY <3>1, <3>2, <3>3
    <2> QED  BY <2>1, <2>2, SameRows DEF IInv
  <1>3. CASE ~Commit(p) /\ ~ReserveUser(p)
    <2>1. UNCHANGED <<order, balance, ytd, refunds, age, day, resetDue, resYear>>
      BY <1>3 DEF Step, ShopCaps, ShopDebit, IssueStart, ReserveFast, ReserveDecide,
                  ReserveOrder, Defer, CallRuna, OrderIssued, OrderFailed, RefundCab,
                  ReleaseCap, DeadlockVictim, tables, clock
    <2>2. OneYear => \A o \in OrderIds : resYear'[o] = 0
      BY <2>1 DEF IInv, TableInv, CapsOK
    <2> QED  BY <2>1, <2>2, SameRows DEF IInv
  <1> QED  BY <1>1, <1>2, <1>3

LEMMA StepBatch ==
  ASSUME IInv, NEW p \in Procs, Step(p)
  PROVE  BatchOK'
  <1>0. TypeInv /\ Payout \in Procs
    BY DEF IInv, Procs
  <1>1. CASE Commit(p)
    BY <1>1, CommitRows
  <1>2. CASE DeadlockVictim(p)
    <2>1. UNCHANGED <<order, age, todo>> /\ Drop(p)
      BY <1>2 DEF DeadlockVictim, tables, clock
    <2>2. held'[Payout] \in {held[Payout], {}}
      BY <1>0, <2>1, DropValues
    <2> QED  BY <2>1, <2>2, SameBatch
  <1>3. CASE ~Commit(p) /\ ~DeadlockVictim(p)
    <2>1. UNCHANGED <<order, age, todo>>
      BY <1>3 DEF Step, ShopCaps, ShopDebit, IssueStart, ReserveFast, ReserveDecide,
                  ReserveUser, ReserveOrder, Defer, CallRuna, OrderIssued, OrderFailed,
                  RefundCab, ReleaseCap, tables, clock
    <2>2. pc[p] \notin {"idle", "payout"}
      BY <1>3 DEF Step, ShopCaps, ShopDebit, IssueStart, ReserveFast, ReserveDecide,
                  ReserveUser, ReserveOrder, Defer, CallRuna, OrderIssued, OrderFailed,
                  RefundCab, ReleaseCap
    <2>3. p # Payout
      BY <1>0, <2>2, AtHand
    <2>4. held' = held \/ (\E ls : Take(p, ls)) \/ Drop(p)
      BY <1>3 DEF Step, ShopCaps, ShopDebit, IssueStart, ReserveFast, ReserveDecide,
                  ReserveUser, ReserveOrder, Defer, CallRuna, OrderIssued, OrderFailed,
                  RefundCab, ReleaseCap
    <2>5. held'[Payout] = held[Payout]
      BY <1>0, <2>3, <2>4 DEF Take, Drop, TypeInv, ProcsOK
    <2> QED  BY <2>1, <2>5, SameBatch
  <1> QED  BY <1>1, <1>2, <1>3
-----------------------------------------------------------------------------
(***************************************************************************)
(* Earned cards: the INSERT of an order that is not a boutique order.      *)
(***************************************************************************)
\* What an earned card's INSERT does: nothing, or a new pending row.
LEMMA InsertRow ==
  ASSUME IInv, NEW e \in Events, NEW o \in InsertedId(e), NEW elig,
         Insert(o, NewOrder(e.user, e.source, e.ref, EarnedDenom, elig))
  PROVE  /\ o \in OrderIds
         /\ \A x \in OrderIds : x # o => order'[x] = order[x]
         /\ Exists(o) => order' = order /\ order[o].source = e.source
         /\ ~Exists(o) =>
              /\ order[o] = NoOrder /\ \A q \in Procs : cur[q] # o
              /\ order'[o].source = e.source /\ order'[o].status = "pending"
              /\ order'[o].cap = 0 /\ order'[o].denom = EarnedDenom /\ order'[o].created = day
              /\ order'[o].user = e.user
         /\ e.source # "shop_purchase"
  <1>1. o \in OrderIds /\ (Exists(o) => order[o].source = e.source)
        /\ (~Exists(o) => \A q \in Procs : cur[q] # o)
    BY DEF InsertedId, Unused
  <1>2. order' = IF Exists(o) THEN order
                 ELSE [order EXCEPT ![o] = NewOrder(e.user, e.source, e.ref, EarnedDenom, elig)]
    BY DEF Insert
  <1>3. order \in [OrderIds -> OrderRec \cup {NoOrder}]
    BY DEF IInv, TypeInv, TablesOK
  <1>4. ~Exists(o) => order[o] = NoOrder
    BY <1>1, <1>3 DEF Exists, OrderRec, Statuses
  <1>5. e.source # "shop_purchase"
    BY GiftCardsAssumption
  <1> QED  BY <1>1, <1>2, <1>3, <1>4, <1>5 DEF NewOrder

LEMMA InsertTable ==
  ASSUME IInv, TypeInv', NEW e \in Events, NEW o \in InsertedId(e), NEW elig,
         Insert(o, NewOrder(e.user, e.source, e.ref, EarnedDenom, elig)),
         UNCHANGED <<balance, ytd, refunds, resYear, age, day, resetDue>>
  PROVE  TableInv'
  <1>r. /\ o \in OrderIds /\ e.source # "shop_purchase"
        /\ \A x \in OrderIds : x # o => order'[x] = order[x]
        /\ Exists(o) => order' = order
        /\ ~Exists(o) =>
             /\ order[o] = NoOrder
             /\ order'[o].source = e.source /\ order'[o].status = "pending"
             /\ order'[o].cap = 0 /\ order'[o].denom = EarnedDenom /\ order'[o].created = day
    BY InsertRow
  <1>t. TableInv /\ day \in Nat /\ EarnedDenom # 0
    BY GiftCardsAssumption DEF IInv, TypeInv, TablesOK
  <1>n. /\ NoOrder.cap = 0 /\ NoOrder.status = "none" /\ NoOrder.source = "none"
        /\ NoOrder.denom = 0
    BY DEF NoOrder
  <1>1. CASE Exists(o)
    BY <1>r, <1>t, <1>1, SameRows DEF TableInv, CapsOK
  <1>2. CASE ~Exists(o)
    <2>1. RowsOK'
      BY <1>r, <1>t, <1>2 DEF TableInv, RowsOK, Exists
    <2>2. CabConservation'
      <3>1. \A x \in OrderIds :
              refunds'[x] = IF order'[x].status = "failed" /\ order'[x].source = "shop_purchase"
                              THEN 1 ELSE 0
        BY <1>r, <1>t, <1>n, <1>2 DEF TableInv, CabConservation
      <3>2. ASSUME NEW u \in Users
            PROVE  [x \in OrderIds |-> IF Stands(order'[x], u) THEN CabCost(order'[x].denom) ELSE 0]
                     = [x \in OrderIds |-> IF Stands(order[x], u) THEN CabCost(order[x].denom) ELSE 0]
        <4>1. ~Stands(order[o], u) /\ ~Stands(order'[o], u)
          BY <1>r, <1>n, <1>2 DEF Stands
        <4> QED  BY <1>r, <4>1
      <3> QED  BY <1>t, <3>1, <3>2 DEF TableInv, CabConservation
    <2>3. CapsOK'
      <3> SUFFICES ASSUME OneYear
                   PROVE  /\ (day <= MaxDay /\ ~resetDue)'
                          /\ YtdMatchesReservations'
                          /\ \A u \in Users : ytd'[u] <= CapAnnual
                          /\ \A x \in OrderIds :
                               /\ order'[x].cap \in {0, order'[x].denom} /\ resYear'[x] = 0
                               /\ order'[x].status = "issued" => order'[x].cap = order'[x].denom
        BY DEF CapsOK, OneYear
      <3>1. ASSUME NEW u \in Users
            PROVE  [x \in OrderIds |-> IF x \in OrderIds /\ order'[x].user = u THEN order'[x].cap ELSE 0]
                     = [x \in OrderIds |-> IF x \in OrderIds /\ order[x].user = u THEN order[x].cap ELSE 0]
        BY <1>r, <1>n, <1>2
      <3>2. YtdMatchesReservations'
        BY <1>t, <3>1 DEF TableInv, CapsOK, YtdMatchesReservations, Reserved
      <3> QED  BY <1>r, <1>t, <1>2, <3>2 DEF TableInv, CapsOK
    <2>4. FailedOK'
      BY <1>r, <1>t, <1>2 DEF TableInv, FailedOK, FailedHoldsNoReservation
    <2>5. DailyCap'
      <3> SUFFICES ASSUME NEW u \in Users, NEW d \in 0..day
                   PROVE  SumFunction([x \in OrderIds |->
                            IF Stands(order'[x], u) /\ order'[x].created = d
                              THEN order'[x].denom ELSE 0]) <= CapDaily
        BY DEF DailyCap
      <3>1. ~Stands(order[o], u) /\ ~Stands(order'[o], u)
        BY <1>r, <1>n, <1>2 DEF Stands
      <3>2. [x \in OrderIds |-> IF Stands(order'[x], u) /\ order'[x].created = d
                                  THEN order'[x].denom ELSE 0]
              = [x \in OrderIds |-> IF Stands(order[x], u) /\ order[x].created = d
                                      THEN order[x].denom ELSE 0]
        BY <1>r, <3>1
      <3> QED  BY <1>t, <3>2 DEF TableInv, DailyCap
    <2> QED  BY <2>1, <2>2, <2>3, <2>4, <2>5 DEF TableInv
  <1> QED  BY <1>1, <1>2

LEMMA InsertBatch ==
  ASSUME IInv, NEW e \in Events, NEW o \in InsertedId(e), NEW elig,
         Insert(o, NewOrder(e.user, e.source, e.ref, EarnedDenom, elig)),
         UNCHANGED <<age, todo, held>>
  PROVE  BatchOK'
  <1>r. /\ o \in OrderIds
        /\ \A x \in OrderIds : x # o => order'[x] = order[x]
        /\ Exists(o) => order' = order
        /\ ~Exists(o) => order[o] = NoOrder
    BY InsertRow
  <1>1. CASE Exists(o)
    BY <1>r, <1>1 DEF IInv, BatchOK, Exists
  <1>2. CASE ~Exists(o)
    <2>1. BatchOK /\ order[o].source = "none"
      BY <1>r, <1>2 DEF IInv, NoOrder
    <2>2. /\ o \notin todo[Payout] /\ OrderRow(o) \notin held[Payout]
          /\ o \notin todo[Reconciler]
      BY <1>r, <1>2, <2>1 DEF BatchOK
    <2> QED  BY <1>r, <2>1, <2>2 DEF BatchOK, Exists
  <1> QED  BY <1>1, <1>2

\* No transaction has the inserted order at hand.
LEMMA InsertOthers ==
  ASSUME IInv, NEW e \in Events, NEW o \in InsertedId(e), NEW elig,
         Insert(o, NewOrder(e.user, e.source, e.ref, EarnedDenom, elig)),
         UNCHANGED <<balance, ytd, day, age>>, NEW q \in Procs,
         pc'[q] = pc[q], cur'[q] = cur[q], held'[q] = held[q], buf'[q] = buf[q]
  PROVE  TxAt(q, pc[q], cur[q], held[q], buf[q])'
  <1> DEFINE c == cur[q]
  <1>r. /\ o \in OrderIds /\ e.source # "shop_purchase"
        /\ \A x \in OrderIds : x # o => order'[x] = order[x]
        /\ Exists(o) => order' = order
        /\ ~Exists(o) =>
             /\ order[o] = NoOrder /\ c # o
             /\ order'[o].source = e.source
    BY InsertRow
  <1>h. TxAt(q, pc[q], c, held[q], buf[q])
    BY DEF IInv, TxInv
  <1>t. /\ TypeInv /\ pc[q] \in Labels
        /\ pc[q] \in Busy \cup {"queued"} => c \in OrderIds
        /\ pc[q] \notin Busy \cup {"queued"} => c \notin OrderIds
    BY AtHand, GiftCardsAssumption DEF IInv, TypeInv, Shape, ShapeAt
  <1>u. c \in OrderIds => order'[c] = order[c]
    BY <1>r
  <1>w. \A u, d : sum_redeemed_window(u, d)' = sum_redeemed_window(u, d)
    <2>1. CASE Exists(o)
      BY <1>r, <2>1, SameSums
    <2>2. CASE ~Exists(o)
      <3> SUFFICES ASSUME NEW u, NEW d
                   PROVE  sum_redeemed_window(u, d)' = sum_redeemed_window(u, d)
        OBVIOUS
      <3>1. ~InWindow(order[o], u, d) /\ ~InWindow(order'[o], u, d)
        BY <1>r, <2>2 DEF InWindow, NoOrder
      <3>2. [x \in OrderIds |-> IF InWindow(order'[x], u, d) THEN order'[x].denom ELSE 0]
              = [x \in OrderIds |-> IF InWindow(order[x], u, d) THEN order[x].denom ELSE 0]
        BY <1>r, <3>1
      <3> QED  BY <3>2 DEF sum_redeemed_window
    <2> QED  BY <2>1, <2>2
  <1> HIDE DEF c
  <1>s. pc'[q] = pc[q] /\ cur'[q] = c /\ held'[q] = held[q] /\ buf'[q] = buf[q]
    BY DEF c
  <1>1. RowAt(pc[q], c, held[q], buf[q])'
    BY <1>h, <1>t, <1>u, <1>s
       DEF TxAt, RowAt, NewCommit, Fresh, Plain, Failing, Same, Exists, Pending, Busy, After, c
  <1>2. CabAt(pc[q], c, held[q], buf[q])'
    BY <1>h, <1>t, <1>u, <1>s DEF TxAt, CabAt, NewCommit, Failing, Exists, Pending, Busy, c
  <1>3. /\ ReleasedAt(pc[q], c, held[q], buf[q])' /\ RecAt(q, pc[q], c, held[q], buf[q])'
    BY <1>h, <1>t, <1>u, <1>s
       DEF TxAt, ReleasedAt, RecAt, Failing, Exists, Pending, Busy, After, c
  <1>4. DayAt(pc[q], c, held[q], buf[q])'
    BY <1>h, <1>t, <1>u, <1>s, <1>w DEF TxAt, DayAt, NewCommit, Exists, Busy, c
  <1>5. OneYear => CapAt(q, pc[q], c, held[q], buf[q])'
    BY <1>h, <1>t, <1>u, <1>s DEF TxAt, CapAt, SeenYtd, SeenCap, Pending, Busy, After, c
  <1>6. PromptTasks => PromptAt(q, pc[q], c)'
    BY <1>h, <1>t, <1>u, <1>s DEF TxAt, PromptAt, Exists, Busy, c
  <1> QED  BY <1>1, <1>2, <1>3, <1>4, <1>5, <1>6, <1>s DEF TxAt, OneYear, c

LEMMA EarnCardSafe ==
  ASSUME IInv, TypeInv', NEW p \in Workers, NEW e \in Events, EarnCard(p, e)
  PROVE  TxInv' /\ TableInv' /\ BatchOK'
  <1> DEFINE row == NewOrder(e.user, e.source, e.ref, EarnedDenom, NoElig)
  <1>1. PICK o \in InsertedId(e) : Insert(o, row) /\ cur' = [cur EXCEPT ![p] = o]
    BY DEF EarnCard
  <1>2. /\ UNCHANGED <<balance, ytd, refunds, resYear, age, day, resetDue, todo, held, buf>>
        /\ pc' = [pc EXCEPT ![p] = "queued"] /\ pc[p] = "idle"
    BY DEF EarnCard, Goto, clock
  <1>3. TableInv' /\ BatchOK'
    BY <1>1, <1>2, InsertTable, InsertBatch
  <1>p. p \in Procs /\ p # Reconciler
    BY GiftCardsAssumption DEF Procs
  <1>4. /\ pc'[p] = "queued" /\ cur'[p] = o /\ held'[p] = held[p] /\ buf'[p] = buf[p]
        /\ \A q \in Procs \ {p} : /\ pc'[q] = pc[q] /\ cur'[q] = cur[q]
                                  /\ held'[q] = held[q] /\ buf'[q] = buf[q]
    BY <1>p, <1>1, <1>2 DEF IInv, TypeInv, ProcsOK
  <1>5. ASSUME NEW q \in Procs, q # p PROVE TxAt(q, pc[q], cur[q], held[q], buf[q])'
    BY <1>1, <1>2, <1>4, <1>5, InsertOthers
  <1>6. TxAt(p, pc[p], cur[p], held[p], buf[p])'
    <2>1. order'[o].source # "shop_purchase"
      BY <1>1, InsertRow
    <2>2. cur[p] = NULL /\ NULL \notin OrderIds /\ o \in OrderIds
      BY <1>p, <1>1, <1>2, InsertRow, GiftCardsAssumption DEF IInv, TypeInv, Shape, ShapeAt, Busy
    <2>3. OrderRow(o) \notin held[p]
      BY <1>p, <2>2, GiftCardsAssumption DEF IInv, LockInv, RowOwner
    <2>4. RowAt(pc[p], cur[p], held[p], buf[p])'
      BY <1>4, <2>3 DEF RowAt, NewCommit, Busy, Plain
    <2>5. CabAt(pc[p], cur[p], held[p], buf[p])'
      BY <1>p, <1>2, <1>4, Hand DEF CabAt, NewCommit
    <2>6. /\ ReleasedAt(pc[p], cur[p], held[p], buf[p])' /\ DayAt(pc[p], cur[p], held[p], buf[p])'
          /\ RecAt(p, pc[p], cur[p], held[p], buf[p])'
      BY <1>4 DEF ReleasedAt, DayAt, NewCommit, RecAt, After
    <2>7. OneYear => CapAt(p, pc[p], cur[p], held[p], buf[p])'
      BY <1>p, <1>2, <1>4, Hand DEF CapAt, After
    <2>8. PromptAt(p, pc[p], cur[p])'
      BY <1>p, <1>4, <2>1 DEF PromptAt, Busy
    <2> QED  BY <2>4, <2>5, <2>6, <2>7, <2>8 DEF TxAt, OneYear
  <1>7. TxInv'
    BY <1>5, <1>6 DEF TxInv
  <1> QED  BY <1>3, <1>7

LEMMA EarnReferralSafe ==
  ASSUME IInv, TypeInv', NEW e \in Events, EarnReferral(e)
  PROVE  TxInv' /\ TableInv' /\ BatchOK'
  <1>1. PICK o \in InsertedId(e) :
          Insert(o, NewOrder(e.user, e.source, e.ref, EarnedDenom, day + ReferralDelay))
    BY DEF EarnReferral
  <1>2. UNCHANGED <<balance, ytd, refunds, resYear, age, day, resetDue, todo, pc, cur, held, buf>>
    BY DEF EarnReferral, clock
  <1>e. PICK elig \in Nat : elig = day + ReferralDelay
    BY GiftCardsAssumption DEF IInv, TypeInv, TablesOK
  <1>i. Insert(o, NewOrder(e.user, e.source, e.ref, EarnedDenom, elig))
    BY <1>1, <1>e
  <1>3. TableInv' /\ BatchOK'
    BY <1>i, <1>2, InsertTable, InsertBatch
  <1>4. ASSUME NEW q \in Procs PROVE TxAt(q, pc[q], cur[q], held[q], buf[q])'
    BY <1>i, <1>2, <1>4, InsertOthers
  <1> QED  BY <1>3, <1>4 DEF TxInv

\* A queued task of an earned order, whoever queues it.
LEMMA QueueSafe ==
  ASSUME IInv, NEW o \in OrderIds, order[o].source # "shop_purchase", NEW p \in Workers,
         pc[p] = "idle", Goto(p, "queued"), cur' = [cur EXCEPT ![p] = o],
         UNCHANGED <<tables, clock, held, buf>>,
         \A x \in OrderIds : /\ x \in todo'[Payout] => x \in todo[Payout]
                             /\ x \in todo'[Reconciler] => x \in todo[Reconciler]
  PROVE  TxInv' /\ TableInv' /\ BatchOK'
  <1>p. p \in Procs /\ TxInv /\ TableInv /\ TypeInv
    BY DEF Procs, IInv
  <1>u. UNCHANGED <<order, balance, ytd, refunds, resYear, age, day, resetDue>>
    BY DEF tables, clock
  <1>1. /\ pc'[p] = "queued" /\ cur'[p] = o /\ held'[p] = held[p] /\ buf'[p] = buf[p]
        /\ \A q \in Procs \ {p} : /\ pc'[q] = pc[q] /\ cur'[q] = cur[q]
                                  /\ held'[q] = held[q] /\ buf'[q] = buf[q]
    BY <1>p DEF Goto, TypeInv, ProcsOK
  <1>2. TxAt(p, pc'[p], cur'[p], held'[p], buf'[p])
    BY <1>1, QueuedTx
  <1>3. TxInv'
    BY <1>p, <1>u, <1>1, <1>2, LocalTx
  <1>4. TableInv'
    BY <1>p, <1>u, SameRows DEF TableInv, CapsOK
  <1>5. BatchOK'
    BY <1>u, SameBatch
  <1> QED  BY <1>3, <1>4, <1>5

LEMMA ReissueSafe ==
  ASSUME IInv, NEW o \in OrderIds, Reissue(o)
  PROVE  TxInv' /\ TableInv' /\ BatchOK'
  <1>1. PICK p \in Workers : pc[p] = "idle" /\ Goto(p, "queued") /\ cur' = [cur EXCEPT ![p] = o]
    BY DEF Reissue
  <1>2. UNCHANGED <<tables, clock, held, buf, todo>> /\ Reissuable(o)
    BY DEF Reissue
  <1>3. order[o].source # "shop_purchase"
    BY <1>2 DEF Reissuable, IInv, TableInv, RowsOK
  <1> QED  BY <1>1, <1>2, <1>3, QueueSafe

\* The batches' bookkeeping: nothing is written, nothing is locked but by Payout.
LEMMA BookSafe ==
  ASSUME IInv, UNCHANGED <<tables, clock, cur, buf>>,
         pc' = pc \/ (Goto(Payout, "payout") /\ pc[Payout] = "idle"),
         held' = held \/ \E o \in OrderIds : /\ o \in todo[Payout]
                           /\ held' = [held EXCEPT ![Payout] = @ \cup {OrderRow(o)}],
         \A x \in OrderIds :
           /\ x \in todo'[Payout] => x \in todo[Payout] \/ x \in EligibleReferrals
           /\ x \in todo'[Reconciler] => x \in todo[Reconciler] \/ x \in StuckShopOrders
  PROVE  TxInv' /\ TableInv' /\ BatchOK'
  <1>p. Payout \in Procs /\ TableInv /\ TypeInv /\ BatchOK
    BY DEF Procs, IInv
  <1>u. UNCHANGED <<order, balance, ytd, refunds, resYear, age, day, resetDue, cur, buf>>
    BY DEF tables, clock
  <1>1. /\ pc'[Payout] \in {"idle", "payout"}
        /\ \A q \in Procs \ {Payout} : pc'[q] = pc[q] /\ held'[q] = held[q]
    <2>1. pc[Payout] \in {"idle", "payout"}
      BY <1>p DEF TypeInv, Shape, ShapeAt
    <2> QED  BY <1>p, <2>1 DEF Goto, TypeInv, ProcsOK
  <1>2. \A k \in held'[Payout] :
          k \in held[Payout] \/ \E o \in OrderIds : o \in todo[Payout] /\ k = OrderRow(o)
    BY <1>p DEF TypeInv, ProcsOK
  <1>3. \A x \in Users : /\ CabRow(x) \in held'[Payout] => CabRow(x) \in held[Payout]
                         /\ UserRow(x) \in held'[Payout] => UserRow(x) \in held[Payout]
    BY <1>2, LockKinds
  <1>4. \A x \in OrderIds : OrderRow(x) \in held'[Payout] =>
          OrderRow(x) \in held[Payout] \/ x \in todo[Payout]
    BY <1>2, LockNames
  <1>5. TxInv'
    BY <1>u, <1>1, <1>3, PayoutTx
  <1>6. TableInv'
    BY <1>p, <1>u, SameRows DEF TableInv, CapsOK
  <1>7. BatchOK'
    <2>1. \A x \in OrderIds :
            /\ x \in EligibleReferrals => order[x].source = "referral_reward"
            /\ x \in StuckShopOrders =>
                 Exists(x) /\ order[x].source = "shop_purchase" /\ age[x] = 2
      BY DEF EligibleReferrals, StuckShopOrders, Pending, Exists
    <2> QED  BY <1>u, <1>4, <2>1, SameBatch
  <1> QED  BY <1>5, <1>6, <1>7

\* The churned orders: pending referral orders whose rows only Payout has locked.
LEMMA ChurnedRows ==
  ASSUME IInv, PayoutCommit
  PROVE  \A x \in OrderIds :
           \/ order'[x] = order[x]
           \/ /\ OrderRow(x) \in held[Payout] /\ Pending(x) /\ order'[x].status = "churned"
              /\ order[x].source = "referral_reward" /\ Same(order'[x], order[x])
              /\ order'[x].cap = order[x].cap /\ order'[x].elig = order[x].elig
  <1> SUFFICES ASSUME NEW x \in OrderIds, OrderRow(x) \in held[Payout]
               PROVE  /\ Pending(x) /\ order'[x].status = "churned"
                      /\ order[x].source = "referral_reward" /\ Same(order'[x], order[x])
                      /\ order'[x].cap = order[x].cap /\ order'[x].elig = order[x].elig
    BY DEF PayoutCommit
  <1>1. order'[x] = [order[x] EXCEPT !.status = "churned"]
    BY DEF PayoutCommit
  <1>2. Pending(x) /\ order[x].source = "referral_reward"
    BY DEF IInv, LockInv, RowOwner, BatchOK, Procs
  <1>3. order[x] \in OrderRec
    BY <1>2, ExistingRow DEF IInv, TypeInv, Exists, Pending
  <1> QED  BY <1>1, <1>2, <1>3 DEF Same, OrderRec

LEMMA PayoutCommitOthers ==
  ASSUME IInv, PayoutCommit, NEW q \in Procs, q # Payout
  PROVE  TxAt(q, pc[q], cur[q], held[q], buf[q])'
  <1> DEFINE c == cur[q]
  <1>0. TypeInv /\ Payout \in Procs /\ Drop(Payout) /\ UNCHANGED <<balance, ytd, day, age>>
    BY DEF IInv, Procs, PayoutCommit, clock
  <1>s. pc'[q] = pc[q] /\ cur'[q] = c /\ held'[q] = held[q] /\ buf'[q] = buf[q]
    BY <1>0, DropValues
  <1>h. TxAt(q, pc[q], c, held[q], buf[q])
    BY DEF IInv, TxInv
  <1>t. /\ pc[q] \in Labels
        /\ pc[q] \in Busy \cup {"queued"} => c \in OrderIds
        /\ pc[q] \notin Busy \cup {"queued"} => c \notin OrderIds
    BY <1>0, AtHand, GiftCardsAssumption DEF TypeInv, Shape, ShapeAt
  <1>c. c \in OrderIds =>
          \/ order'[c] = order[c]
          \/ /\ OrderRow(c) \notin held[q] /\ Pending(c) /\ order'[c].status = "churned"
             /\ order[c].source = "referral_reward" /\ Same(order'[c], order[c])
             /\ order'[c].cap = order[c].cap
    BY <1>0, ChurnedRows DEF IInv, LockInv, LockExclusion
  <1>w. \A u, d : sum_redeemed_window(u, d)' = sum_redeemed_window(u, d)
    <2> SUFFICES ASSUME NEW u, NEW d
                 PROVE  sum_redeemed_window(u, d)' = sum_redeemed_window(u, d)
      OBVIOUS
    <2>1. ASSUME NEW x \in OrderIds
          PROVE  (IF InWindow(order'[x], u, d) THEN order'[x].denom ELSE 0)
                   = (IF InWindow(order[x], u, d) THEN order[x].denom ELSE 0)
      BY ChurnedRows DEF InWindow, Same
    <2>2. [x \in OrderIds |-> IF InWindow(order'[x], u, d) THEN order'[x].denom ELSE 0]
            = [x \in OrderIds |-> IF InWindow(order[x], u, d) THEN order[x].denom ELSE 0]
      BY <2>1
    <2> QED  BY <2>2 DEF sum_redeemed_window
  <1> HIDE DEF c
  <1>1. RowAt(pc[q], c, held[q], buf[q])'
    BY <1>0, <1>h, <1>t, <1>c, <1>s
       DEF TxAt, RowAt, NewCommit, Fresh, Plain, Failing, Same, Exists, Pending, Busy, After, c
  <1>2. CabAt(pc[q], c, held[q], buf[q])'
    BY <1>0, <1>h, <1>t, <1>c, <1>s
       DEF TxAt, CabAt, NewCommit, Failing, Exists, Pending, Busy, c
  <1>3. /\ ReleasedAt(pc[q], c, held[q], buf[q])' /\ RecAt(q, pc[q], c, held[q], buf[q])'
    BY <1>h, <1>t, <1>c, <1>s
       DEF TxAt, ReleasedAt, RecAt, Failing, Exists, Pending, Busy, After, c
  <1>4. DayAt(pc[q], c, held[q], buf[q])'
    BY <1>h, <1>t, <1>c, <1>s, <1>w DEF TxAt, DayAt, NewCommit, Exists, Pending, Busy, c
  <1>5. OneYear => CapAt(q, pc[q], c, held[q], buf[q])'
    BY <1>0, <1>h, <1>t, <1>c, <1>s DEF TxAt, CapAt, SeenYtd, SeenCap, Pending, Busy, After, c
  <1>6. PromptTasks => PromptAt(q, pc[q], c)'
    BY <1>0, <1>h, <1>t, <1>c, <1>s DEF TxAt, PromptAt, Exists, Pending, Busy, Same, c
  <1> QED  BY <1>1, <1>2, <1>3, <1>4, <1>5, <1>6, <1>s DEF TxAt, OneYear, c

LEMMA PayoutCommitTable ==
  ASSUME IInv, PayoutCommit
  PROVE  TableInv'
  <1>t. TableInv /\ UNCHANGED <<balance, ytd, refunds, resYear, age, day, resetDue>>
    BY DEF IInv, PayoutCommit, clock
  <1>c. \A x \in OrderIds :
          \/ order'[x] = order[x]
          \/ /\ Pending(x) /\ order'[x].status = "churned"
             /\ order[x].source = "referral_reward" /\ Same(order'[x], order[x])
             /\ order'[x].cap = order[x].cap /\ order'[x].elig = order[x].elig
    BY ChurnedRows
  <1>1. RowsOK'
    BY <1>t, <1>c DEF TableInv, RowsOK, Exists, Pending, Same
  <1>2. CabConservation'
    <2>1. \A x \in OrderIds :
            refunds'[x] = IF order'[x].status = "failed" /\ order'[x].source = "shop_purchase"
                            THEN 1 ELSE 0
      BY <1>t, <1>c DEF TableInv, CabConservation, Pending
    <2>2. ASSUME NEW u \in Users
          PROVE  [x \in OrderIds |-> IF Stands(order'[x], u) THEN CabCost(order'[x].denom) ELSE 0]
                   = [x \in OrderIds |-> IF Stands(order[x], u) THEN CabCost(order[x].denom) ELSE 0]
      <3>1. ASSUME NEW x \in OrderIds
            PROVE  (IF Stands(order'[x], u) THEN CabCost(order'[x].denom) ELSE 0)
                     = (IF Stands(order[x], u) THEN CabCost(order[x].denom) ELSE 0)
        BY <1>c DEF Stands, Same
      <3> QED  BY <3>1
    <2> QED  BY <1>t, <2>1, <2>2 DEF TableInv, CabConservation
  <1>3. CapsOK'
    <2> SUFFICES ASSUME OneYear
                 PROVE  /\ (day <= MaxDay /\ ~resetDue)'
                        /\ YtdMatchesReservations'
                        /\ \A u \in Users : ytd'[u] <= CapAnnual
                        /\ \A x \in OrderIds :
                             /\ order'[x].cap \in {0, order'[x].denom} /\ resYear'[x] = 0
                             /\ order'[x].status = "issued" => order'[x].cap = order'[x].denom
      BY DEF CapsOK, OneYear
    <2>1. ASSUME NEW u \in Users
          PROVE  [x \in OrderIds |-> IF x \in OrderIds /\ order'[x].user = u THEN order'[x].cap ELSE 0]
                   = [x \in OrderIds |-> IF x \in OrderIds /\ order[x].user = u THEN order[x].cap ELSE 0]
      BY <1>c DEF Same
    <2>2. YtdMatchesReservations'
      BY <1>t, <2>1 DEF TableInv, CapsOK, YtdMatchesReservations, Reserved
    <2> QED  BY <1>t, <1>c, <2>2 DEF TableInv, CapsOK, Same
  <1>4. FailedOK'
    BY <1>t, <1>c DEF TableInv, FailedOK, FailedHoldsNoReservation
  <1>5. DailyCap'
    <2> SUFFICES ASSUME NEW u \in Users, NEW d \in 0..day
                 PROVE  SumFunction([x \in OrderIds |->
                          IF Stands(order'[x], u) /\ order'[x].created = d
                            THEN order'[x].denom ELSE 0]) <= CapDaily
      BY <1>t DEF DailyCap
    <2>1. ASSUME NEW x \in OrderIds
          PROVE  (IF Stands(order'[x], u) /\ order'[x].created = d THEN order'[x].denom ELSE 0)
                   = (IF Stands(order[x], u) /\ order[x].created = d THEN order[x].denom ELSE 0)
      BY <1>c DEF Stands, Same
    <2>2. [x \in OrderIds |-> IF Stands(order'[x], u) /\ order'[x].created = d
                                THEN order'[x].denom ELSE 0]
            = [x \in OrderIds |-> IF Stands(order[x], u) /\ order[x].created = d
                                    THEN order[x].denom ELSE 0]
      BY <2>1
    <2> QED  BY <1>t, <2>2 DEF TableInv, DailyCap
  <1> QED  BY <1>1, <1>2, <1>3, <1>4, <1>5 DEF TableInv

LEMMA PayoutCommitSafe ==
  ASSUME IInv, PayoutCommit
  PROVE  TxInv' /\ TableInv' /\ BatchOK'
  <1>0. /\ TypeInv /\ Payout \in Procs /\ Payout # Reconciler /\ Payout \notin Workers
        /\ Drop(Payout) /\ UNCHANGED <<age, todo>> /\ todo[Payout] = {}
    BY GiftCardsAssumption DEF IInv, Procs, PayoutCommit, clock
  <1>v. /\ pc'[Payout] = "idle" /\ cur'[Payout] = NULL /\ held'[Payout] = {}
        /\ buf'[Payout] = NoBuf
    <2>1. Goto(Payout, "idle")
      BY <1>0 DEF Drop, Idle
    <2>2. pc'[Payout] = "idle"
      BY <1>0, <2>1 DEF Goto, TypeInv, ProcsOK
    <2> QED  BY <1>0, <2>2, DropValues
  <1>n. NULL \notin OrderIds /\ NoBuf.refund = FALSE
    BY GiftCardsAssumption DEF NoBuf
  <1>1. TxAt(Payout, pc[Payout], cur[Payout], held[Payout], buf[Payout])'
    <2>1. RowAt(pc[Payout], cur[Payout], held[Payout], buf[Payout])'
      BY <1>v, <1>n DEF RowAt, NewCommit, Busy, Plain
    <2>2. CabAt(pc[Payout], cur[Payout], held[Payout], buf[Payout])'
      BY <1>v, <1>n DEF CabAt, NewCommit
    <2>3. /\ ReleasedAt(pc[Payout], cur[Payout], held[Payout], buf[Payout])'
          /\ DayAt(pc[Payout], cur[Payout], held[Payout], buf[Payout])'
          /\ RecAt(Payout, pc[Payout], cur[Payout], held[Payout], buf[Payout])'
      BY <1>v DEF ReleasedAt, DayAt, NewCommit, RecAt, After
    <2>4. CapAt(Payout, pc[Payout], cur[Payout], held[Payout], buf[Payout])'
      BY <1>v DEF CapAt, After
    <2>5. PromptAt(Payout, pc[Payout], cur[Payout])'
      BY <1>0 DEF PromptAt
    <2> QED  BY <2>1, <2>2, <2>3, <2>4, <2>5 DEF TxAt
  <1>2. TxInv'
    BY <1>1, PayoutCommitOthers DEF TxInv
  <1>3. BatchOK'
    <2> SUFFICES ASSUME NEW x \in OrderIds, x \in todo[Reconciler]
                 PROVE  Exists(x)' /\ order'[x].source = "shop_purchase" /\ age[x] = 2
      BY <1>0, <1>v DEF BatchOK
    <2>1. Exists(x) /\ order[x].source = "shop_purchase" /\ age[x] = 2
      BY DEF IInv, BatchOK
    <2> QED  BY <2>1, ChurnedRows DEF Exists
  <1> QED  BY <1>2, <1>3, PayoutCommitTable
-----------------------------------------------------------------------------
\* 1 January never comes within one calendar year; otherwise only the counters
\* change, of which nothing is promised.
LEMMA ResetSafe ==
  ASSUME IInv, AnnualReset
  PROVE  TxInv' /\ TableInv' /\ BatchOK'
  <1>0. UNCHANGED <<order, balance, refunds, resYear, age, day, todo, pc, cur, held, buf>>
    BY DEF AnnualReset
  <1>1. ~OneYear
    BY DEF AnnualReset, OneYear, IInv, TableInv, CapsOK
  <1>2. TxInv'
    <2> SUFFICES ASSUME NEW q \in Procs
                 PROVE  TxAt(q, pc[q], cur[q], held[q], buf[q])'
      BY DEF TxInv
    <2>1. TxAt(q, pc[q], cur[q], held[q], buf[q])
      BY DEF IInv, TxInv
    <2>2. RowAt(pc[q], cur[q], held[q], buf[q])'
      BY <1>0, <2>1 DEF TxAt, RowAt, NewCommit, Fresh, Plain, Same, Failing, Exists, Pending
    <2>3. CabAt(pc[q], cur[q], held[q], buf[q])'
      BY <1>0, <2>1 DEF TxAt, CabAt, NewCommit, Failing, Exists, Pending
    <2>4. /\ ReleasedAt(pc[q], cur[q], held[q], buf[q])'
          /\ RecAt(q, pc[q], cur[q], held[q], buf[q])'
      BY <1>0, <2>1 DEF TxAt, ReleasedAt, RecAt, Failing, Exists, Pending
    <2>5. DayAt(pc[q], cur[q], held[q], buf[q])'
      BY <1>0, <2>1, SameSums DEF TxAt, DayAt, NewCommit, Exists
    <2>6. PromptTasks => PromptAt(q, pc[q], cur[q])'
      BY <1>0, <2>1 DEF TxAt, PromptAt, Exists
    <2> QED  BY <1>1, <2>2, <2>3, <2>4, <2>5, <2>6 DEF TxAt, OneYear
  <1>3. TableInv'
    <2>1. RowsOK' /\ FailedOK'
      BY <1>0 DEF IInv, TableInv, RowsOK, FailedOK, FailedHoldsNoReservation, Exists
    <2>2. CabConservation' /\ DailyCap'
      BY <1>0 DEF IInv, TableInv, CabConservation, DailyCap, Stands
    <2> QED  BY <1>1, <2>1, <2>2 DEF TableInv, CapsOK, OneYear
  <1>4. BatchOK'
    BY <1>0, SameBatch
  <1> QED  BY <1>2, <1>3, <1>4

LEMMA AgeSafe ==
  ASSUME IInv, NEW o \in OrderIds, Age(o)
  PROVE  TxInv' /\ TableInv' /\ BatchOK'
  <1>0. /\ UNCHANGED <<order, balance, ytd, refunds, resYear, day, resetDue, todo,
                       pc, cur, held, buf>>
        /\ Exists(o) /\ age[o] < 2 /\ age' = [age EXCEPT ![o] = @ + 1]
        /\ age \in [OrderIds -> 0..2] /\ TableInv /\ BatchOK
    BY DEF Age, tables, IInv, TypeInv, TablesOK
  <1>1. /\ age'[o] = age[o] + 1 /\ age[o] \in {0, 1}
        /\ \A x \in OrderIds : x # o => age'[x] = age[x]
    BY <1>0
  <1>2. TxInv'
    <2> SUFFICES ASSUME NEW q \in Procs
                 PROVE  TxAt(q, pc[q], cur[q], held[q], buf[q])'
      BY DEF TxInv
    <2>1. TxAt(q, pc[q], cur[q], held[q], buf[q])
      BY DEF IInv, TxInv
    <2>2. RowAt(pc[q], cur[q], held[q], buf[q])'
      BY <1>0, <2>1 DEF TxAt, RowAt, NewCommit, Fresh, Plain, Same, Failing, Exists, Pending
    <2>3. CabAt(pc[q], cur[q], held[q], buf[q])'
      BY <1>0, <2>1 DEF TxAt, CabAt, NewCommit, Failing, Exists, Pending
    <2>4. /\ ReleasedAt(pc[q], cur[q], held[q], buf[q])'
          /\ RecAt(q, pc[q], cur[q], held[q], buf[q])'
      BY <1>0, <2>1 DEF TxAt, ReleasedAt, RecAt, Failing, Exists, Pending
    <2>5. DayAt(pc[q], cur[q], held[q], buf[q])'
      BY <1>0, <2>1, SameSums DEF TxAt, DayAt, NewCommit, Exists
    <2>6. OneYear => CapAt(q, pc[q], cur[q], held[q], buf[q])'
      BY <1>0, <2>1 DEF TxAt, CapAt, SeenYtd, SeenCap, Pending
    <2>7. PromptTasks => PromptAt(q, pc[q], cur[q])'
      <3> HAVE PromptTasks
      <3>1. PromptAt(q, pc[q], cur[q])
        BY <2>1 DEF TxAt
      <3>2. q \in Workers /\ cur[q] = o => age[o] # 1
        BY DEF Age
      <3> QED  BY <1>0, <1>1, <3>1, <3>2 DEF PromptAt, Exists
    <2> QED  BY <2>2, <2>3, <2>4, <2>5, <2>6, <2>7 DEF TxAt, OneYear
  <1>3. TableInv'
    <2>1. RowsOK'
      BY <1>0, <1>1 DEF TableInv, RowsOK, Exists
    <2>2. FailedOK' /\ CabConservation' /\ DailyCap'
      BY <1>0 DEF TableInv, FailedOK, FailedHoldsNoReservation, CabConservation, DailyCap, Stands
    <2>3. CapsOK'
      BY <1>0, SameSums DEF TableInv, CapsOK, OneYear, YtdMatchesReservations
    <2> QED  BY <2>1, <2>2, <2>3 DEF TableInv
  <1>4. BatchOK'
    BY <1>0, <1>1 DEF BatchOK, Exists
  <1> QED  BY <1>2, <1>3, <1>4

LEMMA NextDaySafe ==
  ASSUME IInv, NextDay
  PROVE  TxInv' /\ TableInv' /\ BatchOK'
  <1>0. /\ UNCHANGED <<order, balance, ytd, refunds, resYear, todo, age, pc, cur, held, buf>>
        /\ day < MaxDay /\ day' = day + 1 /\ day \in Nat
        /\ resetDue' = (resetDue \/ IsJanuary(day + 1)) /\ TableInv /\ TypeInv
    BY DEF NextDay, tables, IInv, TypeInv, TablesOK
  <1>r. \A r \in OrderRec : r.created \in Nat
    BY RowTypes
  <1>1. TxInv'
    <2> SUFFICES ASSUME NEW q \in Procs
                 PROVE  TxAt(q, pc[q], cur[q], held[q], buf[q])'
      BY DEF TxInv
    <2>1. TxAt(q, pc[q], cur[q], held[q], buf[q])
      BY DEF IInv, TxInv
    <2>2. RowAt(pc[q], cur[q], held[q], buf[q])'
      <3>1. RowAt(pc[q], cur[q], held[q], buf[q])
        BY <2>1 DEF TxAt
      <3>2. pc[q] \in Busy \cup {"shopLock", "shopDebit"} => buf[q].row.created \in Nat
        BY <1>0, <1>r, AtHand
      <3>3. pc[q] \in Busy \cup {"shopLock", "shopDebit"} => (Fresh(buf[q].row) => Fresh(buf[q].row)')
        BY <1>0, <3>2 DEF Fresh
      <3>4. \A c : NewCommit(pc[q], c)' <=> NewCommit(pc[q], c)
        BY <1>0 DEF NewCommit, Exists
      <3>5. "commit" \in Busy
        BY DEF Busy
      <3> QED  BY <1>0, <3>1, <3>3, <3>4, <3>5
               DEF RowAt, NewCommit, Plain, Same, Failing, Exists, Pending
    <2>3. CabAt(pc[q], cur[q], held[q], buf[q])'
      BY <1>0, <2>1 DEF TxAt, CabAt, NewCommit, Failing, Exists, Pending
    <2>4. /\ ReleasedAt(pc[q], cur[q], held[q], buf[q])'
          /\ RecAt(q, pc[q], cur[q], held[q], buf[q])'
      BY <1>0, <2>1 DEF TxAt, ReleasedAt, RecAt, Failing, Exists, Pending
    <2>5. DayAt(pc[q], cur[q], held[q], buf[q])'
      BY <1>0, <2>1, SameSums DEF TxAt, DayAt, NewCommit, Exists
    <2>6. OneYear => CapAt(q, pc[q], cur[q], held[q], buf[q])'
      BY <1>0, <2>1 DEF TxAt, CapAt, SeenYtd, SeenCap, Pending
    <2>7. PromptTasks => PromptAt(q, pc[q], cur[q])'
      BY <1>0, <2>1 DEF TxAt, PromptAt, Exists
    <2> QED  BY <2>2, <2>3, <2>4, <2>5, <2>6, <2>7 DEF TxAt, OneYear
  <1>2. RowsOK'
    <2> SUFFICES ASSUME NEW o \in OrderIds, Exists(o) PROVE order[o].created <= day'
      BY <1>0 DEF TableInv, RowsOK, Exists
    <2>1. order[o].created \in Nat
      BY <1>0, <1>r, ExistingRow DEF TypeInv
    <2> QED  BY <1>0, <2>1 DEF TableInv, RowsOK
  <1>3. CabConservation' /\ FailedOK'
    BY <1>0 DEF TableInv, FailedOK, FailedHoldsNoReservation, CabConservation, Stands
  <1>4. CapsOK'
    <2> SUFFICES ASSUME OneYear PROVE (day <= MaxDay /\ ~resetDue)'
      BY <1>0, SameSums DEF TableInv, CapsOK, OneYear, YtdMatchesReservations
    <2>1. day + 1 \in Nat /\ day + 1 <= MaxDay /\ day + 1 < DaysPerYear /\ day + 1 # 0
      BY <1>0, GiftCardsAssumption DEF OneYear
    <2>2. ~IsJanuary(day + 1)
      BY <2>1, FirstYear
    <2> QED  BY <1>0, <2>1, <2>2 DEF TableInv, CapsOK
  <1>5. DailyCap'
    <2> SUFFICES ASSUME NEW u \in Users, NEW d \in 0..(day + 1)
                 PROVE  SumFunction([x \in OrderIds |->
                          IF Stands(order[x], u) /\ order[x].created = d
                            THEN order[x].denom ELSE 0]) <= CapDaily
      BY <1>0 DEF DailyCap, Stands
    <2>1. CASE d \in 0..day
      BY <1>0, <2>1 DEF TableInv, DailyCap
    <2>2. CASE d \notin 0..day
      <3> DEFINE f == [x \in OrderIds |-> IF Stands(order[x], u) /\ order[x].created = d
                                            THEN order[x].denom ELSE 0]
      <3>1. ASSUME NEW x \in OrderIds PROVE f[x] = 0
        <4>1. Stands(order[x], u) => Exists(x)
          BY DEF Stands, Exists
        <4>2. Exists(x) => order[x].created \in 0..day
          <5>1. Exists(x) => order[x].created \in Nat /\ order[x].created <= day
            BY <1>0, <1>r, ExistingRow DEF TypeInv, TableInv, RowsOK
          <5> QED  BY <1>0, <5>1
        <4> QED  BY <2>2, <4>1, <4>2
      <3>2. f \in [OrderIds -> Int]
        BY <3>1
      <3> HIDE DEF f
      <3>3. SumFunction(f) = 0 /\ CapDaily \in Nat
        BY <3>1, <3>2, SumZero, GiftCardsAssumption
      <3>4. SumFunction(f) <= CapDaily
        BY <3>3
      <3> QED  BY <3>4 DEF f
    <2> QED  BY <2>1, <2>2
  <1>6. BatchOK'
    BY <1>0, SameBatch
  <1> QED  BY <1>1, <1>2, <1>3, <1>4, <1>5, <1>6 DEF TableInv

\* Steps that neither write nor lock anything.
LEMMA StillSafe ==
  ASSUME IInv, UNCHANGED <<tables, clock, pc, cur, held, buf>>,
         \A x \in OrderIds : /\ x \in todo'[Payout] => x \in todo[Payout]
                             /\ x \in todo'[Reconciler] => x \in todo[Reconciler]
  PROVE  TxInv' /\ TableInv' /\ BatchOK'
  <1>1. UNCHANGED <<tables, clock, cur, buf>>
    OBVIOUS
  <1>2. pc' = pc \/ (Goto(Payout, "payout") /\ pc[Payout] = "idle")
    OBVIOUS
  <1>3. held' = held \/ \E o \in OrderIds : /\ o \in todo[Payout]
                          /\ held' = [held EXCEPT ![Payout] = @ \cup {OrderRow(o)}]
    OBVIOUS
  <1>4. \A x \in OrderIds :
          /\ x \in todo'[Payout] => x \in todo[Payout] \/ x \in EligibleReferrals
          /\ x \in todo'[Reconciler] => x \in todo[Reconciler] \/ x \in StuckShopOrders
    OBVIOUS
  <1> QED  BY <1>1, <1>2, <1>3, <1>4, BookSafe

LEMMA CrashSafe ==
  ASSUME IInv, NEW p \in Procs, Crash(p)
  PROVE  TxInv' /\ TableInv' /\ BatchOK'
  <1>0. /\ UNCHANGED <<order, balance, ytd, refunds, resYear, age, day, resetDue>> /\ Drop(p)
        /\ Payout \in Procs /\ TypeInv /\ TableInv
        /\ todo' = IF p \in Batches THEN [todo EXCEPT ![p] = {}] ELSE todo
    BY DEF Crash, tables, clock, Procs, IInv
  <1>1. TxInv'
    BY <1>0, DropTx
  <1>2. TableInv'
    BY <1>0, SameRows DEF TableInv, CapsOK
  <1>3. held'[Payout] \in {held[Payout], {}}
    BY <1>0, DropValues
  <1>4. \A b \in Batches : todo'[b] \subseteq todo[b]
    BY <1>0 DEF TypeInv, TablesOK
  <1>5. BatchOK'
    BY <1>0, <1>3, <1>4, SameBatch DEF Batches
  <1> QED  BY <1>1, <1>2, <1>5

LEMMA PayoutSafe ==
  ASSUME IInv, PayoutStep
  PROVE  TxInv' /\ TableInv' /\ BatchOK'
  <1>0. /\ todo \in [Batches -> SUBSET OrderIds] /\ Payout \in Batches /\ Reconciler \in Batches
        /\ Payout # Reconciler /\ BatchOK
    BY GiftCardsAssumption DEF IInv, TypeInv, TablesOK, Batches
  <1>1. CASE PayoutSelect
    <2>1. /\ UNCHANGED <<tables, clock, cur, buf>> /\ held' = held
          /\ Goto(Payout, "payout") /\ pc[Payout] = "idle"
          /\ todo' = [todo EXCEPT ![Payout] = EligibleReferrals]
      BY <1>1 DEF PayoutSelect
    <2>2. todo'[Payout] = EligibleReferrals /\ todo'[Reconciler] = todo[Reconciler]
      BY <1>0, <2>1
    <2> QED  BY <2>1, <2>2, BookSafe
  <1>2. ASSUME NEW o \in OrderIds, PayoutChurn(o)
        PROVE  TxInv' /\ TableInv' /\ BatchOK'
    <2>1. /\ UNCHANGED <<tables, clock, cur, buf>> /\ pc' = pc /\ o \in todo[Payout]
          /\ held' = held \/ held' = [held EXCEPT ![Payout] = @ \cup {OrderRow(o)}]
          /\ todo' = [todo EXCEPT ![Payout] = @ \ {o}]
      BY <1>2 DEF PayoutChurn
    <2>2. todo'[Payout] \subseteq todo[Payout] /\ todo'[Reconciler] = todo[Reconciler]
      BY <1>0, <2>1
    <2>3. pc' = pc \/ (Goto(Payout, "payout") /\ pc[Payout] = "idle")
      BY <2>1
    <2>4. held' = held \/ \E x \in OrderIds : /\ x \in todo[Payout]
                            /\ held' = [held EXCEPT ![Payout] = @ \cup {OrderRow(x)}]
      BY <2>1
    <2> QED  BY <2>1, <2>2, <2>3, <2>4, BookSafe
  <1>3. ASSUME NEW o \in OrderIds, PayoutNotify(o)
        PROVE  TxInv' /\ TableInv' /\ BatchOK'
    <2>1. PICK p \in Workers : pc[p] = "idle" /\ Goto(p, "queued") /\ cur' = [cur EXCEPT ![p] = o]
      BY <1>3 DEF PayoutNotify
    <2>2. /\ UNCHANGED <<tables, clock, held, buf>> /\ o \in todo[Payout]
          /\ todo' = [todo EXCEPT ![Payout] = @ \ {o}]
      BY <1>3 DEF PayoutNotify
    <2>3. todo'[Payout] \subseteq todo[Payout] /\ todo'[Reconciler] = todo[Reconciler]
      BY <1>0, <2>2
    <2>4. order[o].source # "shop_purchase"
      BY <1>0, <2>2 DEF BatchOK
    <2> QED  BY <2>1, <2>2, <2>3, <2>4, QueueSafe
  <1>4. ASSUME NEW o \in OrderIds, PayoutNotifyFails(o)
        PROVE  TxInv' /\ TableInv' /\ BatchOK'
    <2>1. /\ UNCHANGED <<tables, clock, pc, cur, held, buf>>
          /\ todo' = [todo EXCEPT ![Payout] = @ \ {o}]
      BY <1>4 DEF PayoutNotifyFails
    <2>2. todo'[Payout] \subseteq todo[Payout] /\ todo'[Reconciler] = todo[Reconciler]
      BY <1>0, <2>1
    <2> QED  BY <2>1, <2>2, StillSafe
  <1> QED  BY <1>1, <1>2, <1>3, <1>4, PayoutCommitSafe DEF PayoutStep

LEMMA ReconcileSafe ==
  ASSUME IInv, ReconcileStep
  PROVE  TxInv' /\ TableInv' /\ BatchOK'
  <1>0. /\ todo \in [Batches -> SUBSET OrderIds] /\ Payout \in Batches /\ Reconciler \in Batches
        /\ Payout # Reconciler /\ BatchOK /\ TypeInv /\ TableInv /\ Payout \in Procs
    BY GiftCardsAssumption DEF IInv, TypeInv, TablesOK, Batches, Procs
  <1>1. CASE ReconcileSelect
    <2>1. /\ UNCHANGED <<tables, clock, cur, buf>> /\ held' = held /\ pc' = pc
          /\ todo' = [todo EXCEPT ![Reconciler] = StuckShopOrders]
      BY <1>1 DEF ReconcileSelect
    <2>2. todo'[Reconciler] = StuckShopOrders /\ todo'[Payout] = todo[Payout]
      BY <1>0, <2>1
    <2>3. pc' = pc \/ (Goto(Payout, "payout") /\ pc[Payout] = "idle")
      BY <2>1
    <2>4. held' = held \/ \E x \in OrderIds : /\ x \in todo[Payout]
                            /\ held' = [held EXCEPT ![Payout] = @ \cup {OrderRow(x)}]
      BY <2>1
    <2> QED  BY <2>1, <2>2, <2>3, <2>4, BookSafe
  <1>2. ASSUME NEW o \in OrderIds, ReconcileOne(o)
        PROVE  TxInv' /\ TableInv' /\ BatchOK'
    <2>1. /\ UNCHANGED <<order, balance, ytd, refunds, resYear, age, day, resetDue>>
          /\ todo' = [todo EXCEPT ![Reconciler] = @ \ {o}]
          /\ held' = held \/ Take(Reconciler, {OrderRow(o)})
      BY <1>2 DEF ReconcileOne, tables, clock
    <2>2. todo'[Reconciler] \subseteq todo[Reconciler] /\ todo'[Payout] = todo[Payout]
      BY <1>0, <2>1
    <2>3. held'[Payout] = held[Payout]
      BY <1>0, <2>1 DEF Take, TypeInv, ProcsOK
    <2>4. TableInv'
      BY <1>0, <2>1, SameRows DEF TableInv, CapsOK
    <2>5. BatchOK'
      BY <2>1, <2>2, <2>3, SameBatch
    <2> QED  BY <1>2, <2>4, <2>5, ReconcileOneTx
  <1> QED  BY <1>1, <1>2 DEF ReconcileStep

LEMMA RequestSafe ==
  ASSUME IInv, TypeInv', NEW p \in Workers, Request(p)
  PROVE  TxInv' /\ TableInv' /\ BatchOK'
  <1>1. ASSUME NEW u \in Users, NEW denom \in ShopDenoms, ShopBegin(p, u, denom)
        PROVE  TxInv' /\ TableInv' /\ BatchOK'
    <2>1. UNCHANGED <<order, balance, ytd, refunds, resYear, age, day, resetDue, held, todo>>
      BY <1>1 DEF ShopBegin, tables, clock
    <2>2. TableInv'
      BY <2>1, SameRows DEF IInv, TableInv, CapsOK
    <2>3. BatchOK'
      BY <2>1, SameBatch
    <2> QED  BY <1>1, <2>2, <2>3, ShopBeginTx
  <1> QED  BY <1>1, EarnCardSafe DEF Request

LEMMA RunaResolveSafe ==
  ASSUME IInv, NEW o \in OrderIds, RunaResolve(o)
  PROVE  TxInv' /\ TableInv' /\ BatchOK'
  <1>1. UNCHANGED <<tables, clock, pc, cur, held, buf, todo>>
    BY DEF RunaResolve
  <1> QED  BY <1>1, StillSafe

LEMMA IInvInit == Init => IInv
  <1> SUFFICES ASSUME Init PROVE IInv
    OBVIOUS
  <1>1. TypeInv /\ LockInv
    BY TypeInit, LockInit
  <1>2. /\ order = [o \in OrderIds |-> NoOrder] /\ balance = [u \in Users |-> InitBalance]
        /\ ytd = [u \in Users |-> 0] /\ refunds = [o \in OrderIds |-> 0]
        /\ age = [o \in OrderIds |-> 0] /\ resYear = [o \in OrderIds |-> 0]
        /\ pc = [p \in Procs |-> Idle(p)] /\ cur = [p \in Procs |-> NULL]
        /\ held = [p \in Procs |-> {}] /\ buf = [p \in Procs |-> NoBuf]
        /\ todo = [b \in Batches |-> {}] /\ day = 0 /\ ~resetDue
    BY DEF Init
  <1>3. TxInv
    <2> SUFFICES ASSUME NEW p \in Procs PROVE TxAt(p, pc[p], cur[p], held[p], buf[p])
      BY DEF TxInv
    <2>1. pc[p] \in {"idle", "recNext"} /\ cur[p] = NULL /\ held[p] = {} /\ buf[p] = NoBuf
      BY <1>2 DEF Idle
    <2> QED  BY <2>1, QuietTx
  <1>4. RowsOK /\ BatchOK
    BY <1>2 DEF RowsOK, BatchOK, Exists, NoOrder, Procs, Batches
  <1>n. /\ NoOrder.cap = 0 /\ NoOrder.status = "none" /\ NoOrder.denom = 0
    BY DEF NoOrder
  <1>z. /\ SumFunction([o \in OrderIds |-> 0]) = 0
    <2> DEFINE z == [o \in OrderIds |-> 0]
    <2>1. z \in [OrderIds -> Int] /\ \A o \in OrderIds : z[o] = 0
      OBVIOUS
    <2> HIDE DEF z
    <2>2. SumFunction(z) = 0
      BY <2>1, SumZero, GiftCardsAssumption
    <2> QED  BY <2>2 DEF z
  <1>5. CabConservation
    <2>1. ASSUME NEW u \in Users
          PROVE  [o \in OrderIds |-> IF Stands(order[o], u) THEN CabCost(order[o].denom) ELSE 0]
                   = [o \in OrderIds |-> 0]
      BY <1>2, <1>n DEF Stands
    <2>2. ASSUME NEW u \in Users
          PROVE  balance[u] = InitBalance - SumFunction([o \in OrderIds |->
                   IF Stands(order[o], u) THEN CabCost(order[o].denom) ELSE 0])
      <3>1. balance[u] = InitBalance - 0
        BY <1>2, GiftCardsAssumption
      <3> QED  BY <1>z, <2>1, <3>1
    <2>3. ASSUME NEW o \in OrderIds
          PROVE  refunds[o] = IF order[o].status = "failed" /\ order[o].source = "shop_purchase"
                                THEN 1 ELSE 0
      BY <1>2, <1>n
    <2> QED  BY <2>2, <2>3 DEF CabConservation
  <1>6. CapsOK
    <2>1. ASSUME NEW u \in Users
          PROVE  [o \in OrderIds |-> IF o \in OrderIds /\ order[o].user = u THEN order[o].cap ELSE 0]
                   = [o \in OrderIds |-> 0]
      BY <1>2, <1>n
    <2>2. YtdMatchesReservations
      BY <1>2, <1>z, <2>1 DEF YtdMatchesReservations, Reserved
    <2>3. day <= MaxDay /\ \A u \in Users : ytd[u] <= CapAnnual
      BY <1>2, GiftCardsAssumption
    <2> QED  BY <1>2, <1>n, <2>2, <2>3 DEF CapsOK
  <1>7. FailedOK
    BY <1>2, <1>n DEF FailedOK, FailedHoldsNoReservation
  <1>8. DailyCap
    <2> SUFFICES ASSUME NEW u \in Users, NEW d \in 0..day
                 PROVE  SumFunction([o \in OrderIds |->
                          IF Stands(order[o], u) /\ order[o].created = d
                            THEN order[o].denom ELSE 0]) <= CapDaily
      BY DEF DailyCap
    <2>1. [o \in OrderIds |-> IF Stands(order[o], u) /\ order[o].created = d
                                THEN order[o].denom ELSE 0] = [o \in OrderIds |-> 0]
      BY <1>2, <1>n DEF Stands
    <2>2. 0 <= CapDaily
      BY GiftCardsAssumption
    <2> QED  BY <1>z, <2>1, <2>2
  <1> QED  BY <1>1, <1>3, <1>4, <1>5, <1>6, <1>7, <1>8 DEF IInv, TableInv

LEMMA IInvNext == IInv /\ [Next]_vars => IInv'
  <1> SUFFICES ASSUME IInv, [Next]_vars PROVE IInv'
    OBVIOUS
  <1>1. TypeInv' /\ LockInv'
    BY TypeNext, LockNext DEF IInv
  <1>2. TxInv' /\ TableInv' /\ BatchOK'
    <2>1. ASSUME NEW p \in Workers, Request(p)
          PROVE  TxInv' /\ TableInv' /\ BatchOK'
      BY <1>1, <2>1, RequestSafe
    <2>2. ASSUME NEW p \in Procs, Step(p)
          PROVE  TxInv' /\ TableInv' /\ BatchOK'
      BY <1>1, <2>2, StepTx, StepTable, StepBatch
    <2>3. ASSUME UNCHANGED vars
          PROVE  TxInv' /\ TableInv' /\ BatchOK'
      <3>1. UNCHANGED <<tables, clock, pc, cur, held, buf, todo>>
        BY <2>3 DEF vars, tables, clock
      <3> QED  BY <3>1, StillSafe
    <2> QED  BY <1>1, <2>1, <2>2, <2>3, EarnReferralSafe, CrashSafe, ReconcileSafe, PayoutSafe,
                ReissueSafe, RunaResolveSafe, AgeSafe, ResetSafe, NextDaySafe
             DEF Next, Quiescent
  <1> QED  BY <1>1, <1>2 DEF IInv

LEMMA IInvAlways == Spec => []IInv
  <1> QED  BY IInvInit, IInvNext, PTL DEF Spec
-----------------------------------------------------------------------------
\* No user's balance loses CAB without an order that stands, or gets it back twice
\* or for an order that did not fail, whoever fails it and however tasks, batches,
\* crashes and lock cycles interleave (debit_cab, _refund_order_cab,
\* _reconcile_one_order).
THEOREM CabConservationHolds == Spec => []CabConservation
  <1>1. IInv => CabConservation
    BY DEF IInv, TableInv
  <1> QED  BY <1>1, IInvAlways, PTL

\* Concurrent requests never bring a user's orders of one day above the daily cap:
\* create_order keeps the advisory lock from its check to its commit.
THEOREM DailyCapHolds == Spec => []DailyCap
  <1>1. IInv => DailyCap
    BY DEF IInv, TableInv
  <1> QED  BY <1>1, IInvAlways, PTL

\* Within a calendar year the yearly counter of a user is the sum of his orders'
\* reservations, whatever fails between the two UPDATEs of
\* reserve_gift_card_cap and of release_gift_card_cap.
THEOREM YtdMatchesReservationsHolds == OneYear => (Spec => []YtdMatchesReservations)
  <1> SUFFICES ASSUME OneYear PROVE Spec => []YtdMatchesReservations
    OBVIOUS
  <1>1. IInv => YtdMatchesReservations
    BY DEF IInv, TableInv, CapsOK
  <1> QED  BY <1>1, IInvAlways, PTL

\* Within a calendar year nobody's reservations exceed the fiscal cap, and no card
\* is issued without its reservation (reserve_gift_card_cap).
THEOREM FiscalCapHolds == OneYear => (Spec => []FiscalCap)
  <1> SUFFICES ASSUME OneYear PROVE Spec => []FiscalCap
    OBVIOUS
  <1>1. IInv => FiscalCap
    <2> SUFFICES ASSUME IInv PROVE FiscalCap
      OBVIOUS
    <2>0. TypeInv /\ CapsOK
      BY DEF IInv, TableInv
    <2>1. \A o \in OrderIds : order[o].status = "issued" => order[o].cap = order[o].denom
      BY <2>0 DEF CapsOK
    <2>2. Year(day) = 0
      <3>1. day \in Nat /\ day < DaysPerYear
        BY <2>0, GiftCardsAssumption DEF CapsOK, OneYear, TypeInv, TablesOK
      <3> QED  BY <3>1, FirstYear
    <2>3. {o \in OrderIds : resYear[o] = Year(day)} = OrderIds
      BY <2>0, <2>2 DEF CapsOK
    <2>4. \A u \in Users : Reserved(u, OrderIds) <= CapAnnual
      BY <2>0 DEF CapsOK, YtdMatchesReservations
    <2> QED  BY <2>1, <2>3, <2>4 DEF FiscalCap
  <1> QED  BY <1>1, IInvAlways, PTL

\* When no background task outlives its order's grace period, a failed order has
\* given its reservation back (_mark_failed, _reconcile_one_order).
THEOREM FailedHoldsNoReservationHolds == PromptTasks => (Spec => []FailedHoldsNoReservation)
  <1> SUFFICES ASSUME PromptTasks PROVE Spec => []FailedHoldsNoReservation
    OBVIOUS
  <1>1. IInv => FailedHoldsNoReservation
    BY DEF IInv, TableInv, FailedOK
  <1> QED  BY <1>1, IInvAlways, PTL

LEMMA TerminalStep ==
  ASSUME IInv, [Next]_vars, NEW o \in OrderIds,
         order[o].status \in {"issued", "failed", "churned"}
  PROVE  order'[o].status = order[o].status
  <1>1. ASSUME NEW p \in Procs, Commit(p)
        PROVE  order'[o].status = order[o].status
    <2>1. CASE o # cur[p]
      BY <1>1, <2>1, CommitValues
    <2>2. CASE o = cur[p]
      BY <1>1, <2>2, CommitKinds DEF Exists, Pending
    <2> QED  BY <2>1, <2>2
  <1>2. ASSUME PayoutCommit PROVE order'[o].status = order[o].status
    BY <1>2, ChurnedRows DEF Pending
  <1>3. ASSUME NEW e \in Events, NEW x \in InsertedId(e), NEW elig,
               Insert(x, NewOrder(e.user, e.source, e.ref, EarnedDenom, elig))
        PROVE  order'[o].status = order[o].status
    BY <1>3, InsertRow DEF Exists
  <1>4. ASSUME NEW p \in Workers, Request(p) PROVE order'[o].status = order[o].status
    <2>1. ASSUME NEW e \in Events, EarnCard(p, e) PROVE order'[o].status = order[o].status
      BY <1>3, <2>1 DEF EarnCard
    <2> QED  BY <1>4, <2>1 DEF Request, ShopBegin, tables
  <1>5. ASSUME NEW e \in Events, EarnReferral(e) PROVE order'[o].status = order[o].status
    <2>1. PICK x \in InsertedId(e) :
            Insert(x, NewOrder(e.user, e.source, e.ref, EarnedDenom, day + ReferralDelay))
      BY <1>5 DEF EarnReferral
    <2>2. PICK elig \in Nat : elig = day + ReferralDelay
      BY GiftCardsAssumption DEF IInv, TypeInv, TablesOK
    <2> QED  BY <1>3, <2>1, <2>2
  <1>6. ASSUME NEW p \in Procs, Step(p), ~Commit(p) PROVE order' = order
    BY <1>6 DEF Step, ShopCaps, ShopDebit, IssueStart, ReserveFast, ReserveDecide, ReserveUser,
                ReserveOrder, Defer, CallRuna, OrderIssued, OrderFailed, RefundCab, ReleaseCap,
                DeadlockVictim, tables
  <1>7. ASSUME NEW p \in Procs, Crash(p) PROVE order' = order
    BY <1>7 DEF Crash, tables
  <1>8. CASE ReconcileStep
    BY <1>8 DEF ReconcileStep, ReconcileSelect, ReconcileOne, tables
  <1>9. CASE PayoutStep
    BY <1>2, <1>9 DEF PayoutStep, PayoutSelect, PayoutChurn, PayoutNotify, PayoutNotifyFails, tables
  <1>10. CASE \/ \E x \in OrderIds : Reissue(x) \/ RunaResolve(x) \/ Age(x)
              \/ AnnualReset \/ NextDay \/ UNCHANGED vars
    BY <1>10 DEF Reissue, RunaResolve, Age, AnnualReset, NextDay, tables, vars
  <1> QED  BY <1>1, <1>4, <1>5, <1>6, <1>7, <1>8, <1>9, <1>10 DEF Next, Quiescent

\* An issued, failed or churned order keeps its status for ever: every COMMIT that
\* changes a status was the transaction's own UPDATE ... WHERE status = 'pending' on
\* a row it still has locked.
THEOREM TerminalIsFinalHolds == Spec => TerminalIsFinal
  <1>1. IInv /\ [Next]_vars
          => [\A o \in OrderIds :
                order[o].status \in {"issued", "failed", "churned"}
                  => order'[o].status = order[o].status]_vars
    BY TerminalStep
  <1> QED  BY <1>1, IInvAlways, PTL DEF Spec, TerminalIsFinal
-----------------------------------------------------------------------------
(***************************************************************************)
(* The refinement of CardOrders.  An issuance task writes "issued" only    *)
(* after Runa has made the card (Delivery); with it every COMMIT is a      *)
(* purchase, an issue, a failure or nothing.                               *)
(***************************************************************************)
\* A transaction that is about to write, or has written, "issued" has had Runa's
\* answer, which stays true.
DeliverAt(l, c, h, b) ==
  /\ l = "issued" => runa[c] = "complete"
  /\ l = "commit" /\ OrderRow(c) \in h /\ b.row.status = "issued" => runa[c] = "complete"

Delivery ==
  /\ \A o \in OrderIds : /\ runa[o] # "none" => Exists(o)
                         /\ order[o].status = "issued" => runa[o] = "complete"
  /\ \A p \in Procs : DeliverAt(pc[p], cur[p], held[p], buf[p])

\* A step that touches the rows and Runa as every step does, and leaves p where
\* it was or in a state that respects Delivery.
LEMMA KeepDelivery ==
  ASSUME IInv, Delivery,
         \A o \in OrderIds :
           /\ runa[o] = "complete" => runa'[o] = "complete"
           /\ runa'[o] # "none" => Exists(o)'
           /\ order'[o].status = "issued" => runa'[o] = "complete",
         \A q \in Procs :
           \/ /\ pc'[q] = pc[q] /\ cur'[q] = cur[q] /\ held'[q] = held[q] /\ buf'[q] = buf[q]
           \/ DeliverAt(pc[q], cur[q], held[q], buf[q])'
  PROVE  Delivery'
  <1> SUFFICES ASSUME NEW q \in Procs, pc'[q] = pc[q], cur'[q] = cur[q],
                      held'[q] = held[q], buf'[q] = buf[q]
               PROVE  DeliverAt(pc[q], cur[q], held[q], buf[q])'
    BY DEF Delivery
  <1>1. DeliverAt(pc[q], cur[q], held[q], buf[q])
    BY DEF Delivery
  <1>2. pc[q] \in {"issued", "commit"} => cur[q] \in OrderIds
    BY AtHand DEF IInv, Busy
  <1> QED  BY <1>1, <1>2 DEF DeliverAt

\* ... when it changes neither the orders nor what Runa has.
LEMMA QuietDelivery ==
  ASSUME IInv, Delivery, UNCHANGED <<order, runa>>,
         \A q \in Procs :
           \/ /\ pc'[q] = pc[q] /\ cur'[q] = cur[q] /\ held'[q] = held[q] /\ buf'[q] = buf[q]
           \/ DeliverAt(pc[q], cur[q], held[q], buf[q])'
  PROVE  Delivery'
  <1>1. \A o \in OrderIds : /\ runa[o] = "complete" => runa'[o] = "complete"
                            /\ runa'[o] # "none" => Exists(o)'
                            /\ order'[o].status = "issued" => runa'[o] = "complete"
    BY DEF Delivery, Exists
  <1> QED  BY <1>1, KeepDelivery

LEMMA DropDelivery ==
  ASSUME IInv, Delivery, NEW p \in Procs, Drop(p), UNCHANGED <<order, runa>>
  PROVE  Delivery'
  <1>1. DeliverAt(pc[p], cur[p], held[p], buf[p])'
    BY DropValues DEF IInv, DeliverAt
  <1> QED  BY <1>1, DropValues, QuietDelivery DEF IInv

\* A statement after which p's next one neither commits nor writes "issued".
LEMMA MidDelivery ==
  ASSUME IInv, Delivery, NEW p \in Procs, UNCHANGED <<order, runa>>,
         pc'[p] \notin {"issued", "commit"},
         \A q \in Procs \ {p} : /\ pc'[q] = pc[q] /\ cur'[q] = cur[q]
                                /\ held'[q] = held[q] /\ buf'[q] = buf[q]
  PROVE  Delivery'
  <1>1. DeliverAt(pc[p], cur[p], held[p], buf[p])'
    BY DEF DeliverAt
  <1> QED  BY <1>1, QuietDelivery

\* Every statement moves its own process only.
LEMMA StepApart ==
  ASSUME IInv, NEW p \in Procs, Step(p), NEW q \in Procs, q # p
  PROVE  pc'[q] = pc[q] /\ cur'[q] = cur[q] /\ held'[q] = held[q] /\ buf'[q] = buf[q]
  <1>1. TypeInv
    BY DEF IInv
  <1>2. CASE Commit(p)
    BY <1>2, CommitValues
  <1>3. CASE Drop(p)
    BY <1>1, <1>3, DropValues
  <1>4. CASE ~Commit(p) /\ ~Drop(p)
    <2>1. /\ \E l : pc' = [pc EXCEPT ![p] = l]
          /\ cur' = cur \/ \E o : cur' = [cur EXCEPT ![p] = o]
          /\ held' = held \/ \E ls : held' = [held EXCEPT ![p] = held[p] \cup ls]
          /\ buf' = buf \/ \E b : buf' = [buf EXCEPT ![p] = b]
      BY <1>4 DEF Step, ShopCaps, ShopDebit, IssueStart, ReserveFast, ReserveDecide,
                  ReserveUser, ReserveOrder, Defer, CallRuna, OrderIssued, OrderFailed,
                  RefundCab, ReleaseCap, DeadlockVictim, Goto, Take
    <2> QED  BY <1>1, <2>1 DEF TypeInv, ProcsOK
  <1> QED  BY <1>2, <1>3, <1>4

LEMMA ShopDebitDelivery ==
  ASSUME IInv, Delivery, NEW p \in Procs, ShopDebit(p), IInv'
  PROVE  Delivery'
  <1>1. UNCHANGED <<order, runa>> /\ Step(p) /\ TypeInv
    BY DEF ShopDebit, tables, Step, IInv
  <1>2. CASE Drop(p)
    BY <1>1, <1>2, DropDelivery
  <1>3. CASE ~Drop(p)
    <2>1. pc'[p] = "commit" /\ cur'[p] \in OrderIds /\ ~Exists(cur'[p])
      BY <1>1, <1>3 DEF ShopDebit, Goto, TypeInv, ProcsOK, Unused
    <2>2. Fresh(buf[p].row)'
      <3>1. RowAt(pc[p], cur[p], held[p], buf[p])'
        BY DEF IInv, TxInv, TxAt
      <3>2. NewCommit(pc[p], cur[p])'
        BY <1>1, <2>1 DEF NewCommit, Exists
      <3> QED  BY <3>1, <3>2 DEF RowAt
    <2>3. DeliverAt(pc[p], cur[p], held[p], buf[p])'
      BY <2>1, <2>2 DEF DeliverAt, Fresh
    <2> QED  BY <1>1, <2>3, StepApart, QuietDelivery
  <1> QED  BY <1>2, <1>3

LEMMA DeferDelivery ==
  ASSUME IInv, Delivery, NEW p \in Procs, Defer(p)
  PROVE  Delivery'
  <1>1. UNCHANGED <<order, runa>> /\ Step(p) /\ pc[p] = "defer"
    BY DEF Defer, tables, Step
  <1>h. TypeInv /\ cur[p] \in OrderIds /\ order[cur[p]] \in OrderRec /\ buf[p] \in BufRec
    BY <1>1, AtWork DEF Busy
  <1>2. /\ pc'[p] = "commit" /\ cur' = cur
        /\ buf'[p] = [buf[p] EXCEPT !.row = [order[cur[p]] EXCEPT !.elig = NextJan1(day)]]
    BY <1>h DEF Defer, Goto, TypeInv, ProcsOK
  <1>3. buf'[p].row.status = order[cur[p]].status
    BY <1>h, <1>2 DEF BufRec, OrderRec
  <1>4. DeliverAt(pc[p], cur[p], held[p], buf[p])'
    BY <1>1, <1>h, <1>2, <1>3 DEF DeliverAt, Delivery
  <1> QED  BY <1>1, <1>4, StepApart, QuietDelivery

\* CallRuna answers "complete" only for a card that Runa has made, and forgets
\* none.
LEMMA CallRunaDelivery ==
  ASSUME IInv, Delivery, NEW p \in Procs, CallRuna(p)
  PROVE  Delivery'
  <1> DEFINE o == cur[p]
  <1>1. order' = order /\ Step(p) /\ pc[p] = "runa" /\ cur' = cur /\ held' = held
    BY DEF CallRuna, tables, Step
  <1>h. TypeInv /\ o \in OrderIds /\ Exists(o) /\ buf[p] \in BufRec
    BY <1>1, AtWork DEF Busy
  <1>2. PICK s \in {"none", "processing", "complete", "failed"},
             a \in {"processing", "complete", "failed", "error"} :
          /\ runa[o] # "none" => s = runa[o]
          /\ runa' = [runa EXCEPT ![o] = s] /\ a \in {s, "error"}
          /\ buf' = [buf EXCEPT ![p] = [buf[p] EXCEPT !.answer = a]]
          /\ pc' = [pc EXCEPT ![p] = CASE a = "complete"   -> "issued"
                                       [] a = "processing" -> "commit"
                                       [] OTHER            -> "fail"]
    <2>1. runa[o] \in {"none", "processing", "complete", "failed"}
      BY <1>h DEF TypeInv, TablesOK
    <2> QED  BY <2>1 DEF CallRuna, Goto
  <1>3. /\ buf'[p].row = buf[p].row
        /\ pc'[p] = "issued" => a = "complete"
        /\ runa'[o] = s /\ \A x \in OrderIds : x # o => runa'[x] = runa[x]
    BY <1>h, <1>2 DEF TypeInv, ProcsOK, TablesOK, BufRec
  <1>4. OrderRow(o) \in held[p] => buf[p].row.status = order[o].status
    BY <1>1, Hand DEF RowAt
  <1>5. runa[o] = "complete" => runa'[o] = "complete"
    BY <1>2, <1>3
  <1>6. pc'[p] = "issued" => runa'[o] = "complete"
    BY <1>2, <1>3
  <1>7. order[o].status = "issued" => runa'[o] = "complete"
    BY <1>h, <1>5 DEF Delivery
  <1>8. DeliverAt(pc[p], cur[p], held[p], buf[p])'
    BY <1>1, <1>3, <1>4, <1>6, <1>7 DEF DeliverAt
  <1>9. \A x \in OrderIds : /\ runa[x] = "complete" => runa'[x] = "complete"
                            /\ runa'[x] # "none" => Exists(x)'
                            /\ order'[x].status = "issued" => runa'[x] = "complete"
    BY <1>1, <1>h, <1>3, <1>5, <1>7 DEF Delivery, Exists
  <1> QED  BY <1>1, <1>8, <1>9, StepApart, KeepDelivery

LEMMA OrderIssuedDelivery ==
  ASSUME IInv, Delivery, NEW p \in Procs, OrderIssued(p)
  PROVE  Delivery'
  <1>1. UNCHANGED <<order, runa, cur>> /\ Step(p) /\ pc[p] = "issued"
    BY DEF OrderIssued, tables, Step
  <1>2. TypeInv /\ pc'[p] = "commit" /\ runa[cur[p]] = "complete"
    BY <1>1 DEF OrderIssued, Goto, IInv, TypeInv, ProcsOK, Delivery, DeliverAt
  <1>3. DeliverAt(pc[p], cur[p], held[p], buf[p])'
    BY <1>1, <1>2 DEF DeliverAt
  <1> QED  BY <1>1, <1>3, StepApart, QuietDelivery

LEMMA OrderFailedDelivery ==
  ASSUME IInv, Delivery, NEW p \in Procs, OrderFailed(p)
  PROVE  Delivery'
  <1>1. UNCHANGED <<order, runa, cur>> /\ Step(p) /\ pc[p] = "fail"
    BY DEF OrderFailed, tables, Step
  <1>h. TypeInv /\ cur[p] \in OrderIds
    BY <1>1, AtWork DEF Busy
  <1>2. CASE StillPending(p)
    <2>1. pc'[p] \in {"refund", "release"}
      BY <1>h, <1>2 DEF OrderFailed, Goto, TypeInv, ProcsOK
    <2> QED  BY <1>1, <2>1, StepApart, MidDelivery
  <1>3. CASE ~StillPending(p)
    <2>1. held' = held /\ buf' = buf /\ pc'[p] = "commit"
      BY <1>h, <1>3 DEF OrderFailed, Goto, TypeInv, ProcsOK
    <2>2. OrderRow(cur[p]) \in held[p] => buf[p].row.status = order[cur[p]].status
      BY <1>1, Hand DEF RowAt
    <2>3. DeliverAt(pc[p], cur[p], held[p], buf[p])'
      BY <1>1, <1>h, <2>1, <2>2 DEF DeliverAt, Delivery
    <2> QED  BY <1>1, <2>3, StepApart, QuietDelivery
  <1> QED  BY <1>2, <1>3

LEMMA ReleaseCapDelivery ==
  ASSUME IInv, Delivery, NEW p \in Procs, ReleaseCap(p)
  PROVE  Delivery'
  <1>1. UNCHANGED <<order, runa, cur>> /\ Step(p) /\ pc[p] = "release"
    BY DEF ReleaseCap, tables, Step
  <1>h. TypeInv /\ buf[p] \in BufRec /\ buf[p].row \in OrderRec
    BY <1>1, AtWork DEF Busy
  <1>2. buf[p].row.status = "failed"
    BY <1>1, Hand DEF RowAt, Failing
  <1>3. buf'[p].row.status = "failed" /\ pc'[p] = "commit"
    <2>1. pc'[p] = "commit"
      BY <1>h DEF ReleaseCap, Goto, TypeInv, ProcsOK
    <2>2. CASE buf' = buf
      BY <1>2, <2>1, <2>2
    <2>3. CASE buf' # buf
      <3>1. PICK n : buf' = [buf EXCEPT ![p] = [buf[p] EXCEPT
                               !.ytd = n, !.row = [buf[p].row EXCEPT !.cap = 0]]]
        BY <2>3 DEF ReleaseCap
      <3>2. buf'[p] = [buf[p] EXCEPT !.ytd = n, !.row = [buf[p].row EXCEPT !.cap = 0]]
        BY <1>h, <3>1 DEF TypeInv, ProcsOK
      <3>3. [buf[p].row EXCEPT !.cap = 0].status = "failed"
        BY <1>h, <1>2 DEF OrderRec
      <3>4. buf'[p].row = [buf[p].row EXCEPT !.cap = 0]
        BY <1>h, <3>2 DEF BufRec
      <3> QED  BY <2>1, <3>3, <3>4
    <2> QED  BY <2>2, <2>3
  <1>4. DeliverAt(pc[p], cur[p], held[p], buf[p])'
    BY <1>3 DEF DeliverAt
  <1> QED  BY <1>1, <1>4, StepApart, QuietDelivery

LEMMA CommitDelivery ==
  ASSUME IInv, Delivery, NEW p \in Procs, Commit(p)
  PROVE  Delivery'
  <1> DEFINE o == cur[p]
  <1>v. /\ pc[p] = "commit" /\ o \in OrderIds /\ runa' = runa
        /\ \A x \in OrderIds : x # o => order'[x] = order[x]
        /\ OrderRow(o) \in held[p] => order'[o] = buf[p].row
        /\ OrderRow(o) \notin held[p] => order' = order
        /\ pc'[p] \in {"idle", "recNext", "queued"}
    BY CommitValues DEF Commit
  <1>1. order'[o].status # "none"
    BY CommitKinds DEF Exists, Fresh, Pending
  <1>2. order'[o].status = "issued" => runa[o] = "complete"
    BY <1>v DEF Delivery, DeliverAt
  <1> HIDE DEF o
  <1>3. \A x \in OrderIds : /\ runa[x] = "complete" => runa'[x] = "complete"
                            /\ runa'[x] # "none" => Exists(x)'
                            /\ order'[x].status = "issued" => runa'[x] = "complete"
    BY <1>v, <1>1, <1>2 DEF Delivery, Exists
  <1>4. DeliverAt(pc[p], cur[p], held[p], buf[p])'
    BY <1>v DEF DeliverAt
  <1> QED  BY <1>3, <1>4, StepApart, KeepDelivery DEF Step

LEMMA StepDelivery ==
  ASSUME IInv, IInv', Delivery, NEW p \in Procs, Step(p)
  PROVE  Delivery'
  <1>0. TypeInv
    BY DEF IInv
  <1>1. CASE Drop(p)
    <2>1. CASE Commit(p)
      BY <2>1, CommitDelivery
    <2>2. CASE ~Commit(p)
      <3>1. pc'[p] \in {"idle", "recNext"}
        BY <1>0, <1>1, DropValues
      <3>2. CASE CallRuna(p)
        BY <3>2, CallRunaDelivery
      <3>3. CASE ~CallRuna(p)
        <4>1. UNCHANGED <<order, runa>>
          BY <2>2, <3>3 DEF Step, ShopCaps, ShopDebit, IssueStart, ReserveFast, ReserveDecide,
                  ReserveUser, ReserveOrder, Defer, OrderIssued, OrderFailed,
                  RefundCab, ReleaseCap, DeadlockVictim, tables
        <4> QED  BY <1>1, <4>1, DropDelivery
      <3> QED  BY <3>2, <3>3
    <2> QED  BY <2>1, <2>2
  <1>2. CASE /\ ~Drop(p)
             /\ \/ ShopCaps(p) \/ IssueStart(p) \/ ReserveFast(p) \/ ReserveDecide(p)
                \/ ReserveUser(p) \/ ReserveOrder(p) \/ RefundCab(p)
    <2>1. UNCHANGED <<order, runa>>
      BY <1>2 DEF ShopCaps, IssueStart, ReserveFast, ReserveDecide, ReserveUser, ReserveOrder,
                  RefundCab, tables
    <2>2. \E l \in {"shopDebit", "reserve", "runa", "capLock", "resUser", "defer", "resOrder",
                    "fail", "release"} : pc' = [pc EXCEPT ![p] = l]
      BY <1>2 DEF ShopCaps, IssueStart, ReserveFast, ReserveDecide, CapDecision, ReserveUser,
                  ReserveOrder, RefundCab, Goto
    <2>3. pc'[p] \notin {"issued", "commit"}
      BY <1>0, <2>2 DEF TypeInv, ProcsOK
    <2> QED  BY <2>1, <2>3, StepApart, MidDelivery
  <1> QED  BY <1>1, <1>2, ShopDebitDelivery, DeferDelivery, CallRunaDelivery,
              OrderIssuedDelivery, OrderFailedDelivery, ReleaseCapDelivery, CommitDelivery
           DEF Step, DeadlockVictim

LEMMA InsertDelivery ==
  ASSUME IInv, Delivery, NEW e \in Events, NEW o \in InsertedId(e), NEW elig,
         Insert(o, NewOrder(e.user, e.source, e.ref, EarnedDenom, elig)), runa' = runa,
         \A q \in Procs :
           \/ /\ pc'[q] = pc[q] /\ cur'[q] = cur[q] /\ held'[q] = held[q] /\ buf'[q] = buf[q]
           \/ DeliverAt(pc[q], cur[q], held[q], buf[q])'
  PROVE  Delivery'
  <1>r. /\ o \in OrderIds
        /\ \A x \in OrderIds : x # o => order'[x] = order[x]
        /\ Exists(o) => order' = order
        /\ ~Exists(o) => order'[o].status = "pending"
    BY InsertRow
  <1>1. \A x \in OrderIds : /\ runa[x] = "complete" => runa'[x] = "complete"
                            /\ runa'[x] # "none" => Exists(x)'
                            /\ order'[x].status = "issued" => runa'[x] = "complete"
    BY <1>r DEF Delivery, Exists
  <1> QED  BY <1>1, KeepDelivery

\* A task queued on an idle worker.
LEMMA QueueDelivery ==
  ASSUME IInv, Delivery, NEW p \in Workers, NEW o, pc[p] = "idle", Goto(p, "queued"),
         cur' = [cur EXCEPT ![p] = o], UNCHANGED <<order, runa, held, buf>>
  PROVE  Delivery'
  <1>1. p \in Procs /\ TypeInv
    BY DEF Procs, IInv
  <1>2. pc'[p] = "queued" /\ \A q \in Procs \ {p} : pc'[q] = pc[q] /\ cur'[q] = cur[q]
    BY <1>1 DEF Goto, TypeInv, ProcsOK
  <1> QED  BY <1>1, <1>2, MidDelivery

LEMMA RequestDelivery ==
  ASSUME IInv, Delivery, NEW p \in Workers, Request(p)
  PROVE  Delivery'
  <1>0. p \in Procs /\ TypeInv
    BY DEF Procs, IInv
  <1>1. ASSUME NEW u \in Users, NEW denom \in ShopDenoms, ShopBegin(p, u, denom)
        PROVE  Delivery'
    <2>1. UNCHANGED <<order, runa, cur, held>>
      BY <1>1 DEF ShopBegin, tables
    <2>2. /\ pc'[p] = "shopLock"
          /\ \A q \in Procs \ {p} : pc'[q] = pc[q] /\ buf'[q] = buf[q]
      BY <1>0, <1>1 DEF ShopBegin, Goto, TypeInv, ProcsOK
    <2> QED  BY <1>0, <2>1, <2>2, MidDelivery
  <1>2. ASSUME NEW e \in Events, EarnCard(p, e)
        PROVE  Delivery'
    <2>1. PICK o \in InsertedId(e) :
            /\ Insert(o, NewOrder(e.user, e.source, e.ref, EarnedDenom, NoElig))
            /\ cur' = [cur EXCEPT ![p] = o]
      BY <1>2 DEF EarnCard
    <2>2. UNCHANGED <<runa, held, buf>> /\ Goto(p, "queued")
      BY <1>2 DEF EarnCard
    <2>3. pc'[p] = "queued" /\ \A q \in Procs \ {p} : pc'[q] = pc[q] /\ cur'[q] = cur[q]
      BY <1>0, <2>1, <2>2 DEF Goto, TypeInv, ProcsOK
    <2>4. DeliverAt(pc[p], cur[p], held[p], buf[p])'
      BY <2>3 DEF DeliverAt
    <2> QED  BY <2>1, <2>2, <2>3, <2>4, InsertDelivery
  <1> QED  BY <1>1, <1>2 DEF Request

LEMMA EarnReferralDelivery ==
  ASSUME IInv, Delivery, NEW e \in Events, EarnReferral(e)
  PROVE  Delivery'
  <1>1. PICK o \in InsertedId(e) :
          Insert(o, NewOrder(e.user, e.source, e.ref, EarnedDenom, day + ReferralDelay))
    BY DEF EarnReferral
  <1>2. UNCHANGED <<runa, pc, cur, held, buf>>
    BY DEF EarnReferral
  <1>3. PICK elig \in Nat : elig = day + ReferralDelay
    BY GiftCardsAssumption DEF IInv, TypeInv, TablesOK
  <1>4. Insert(o, NewOrder(e.user, e.source, e.ref, EarnedDenom, elig))
    BY <1>1, <1>3
  <1> QED  BY <1>2, <1>4, InsertDelivery

LEMMA PayoutDelivery ==
  ASSUME IInv, Delivery, PayoutStep
  PROVE  Delivery'
  <1>0. TypeInv /\ Payout \in Procs
    BY DEF IInv, Procs
  <1>1. CASE PayoutCommit
    <2>1. Drop(Payout) /\ runa' = runa
      BY <1>1 DEF PayoutCommit
    <2>2. DeliverAt(pc[Payout], cur[Payout], held[Payout], buf[Payout])'
      BY <1>0, <2>1, DropValues DEF DeliverAt
    <2>3. \A x \in OrderIds : /\ runa[x] = "complete" => runa'[x] = "complete"
                              /\ runa'[x] # "none" => Exists(x)'
                              /\ order'[x].status = "issued" => runa'[x] = "complete"
      BY <1>1, <2>1, ChurnedRows DEF Delivery, Exists
    <2> QED  BY <1>0, <2>1, <2>2, <2>3, DropValues, KeepDelivery
  <1>2. ASSUME NEW o \in OrderIds, PayoutNotify(o)
        PROVE  Delivery'
    <2>1. PICK p \in Workers : pc[p] = "idle" /\ Goto(p, "queued") /\ cur' = [cur EXCEPT ![p] = o]
      BY <1>2 DEF PayoutNotify
    <2>2. UNCHANGED <<order, runa, held, buf>>
      BY <1>2 DEF PayoutNotify, tables
    <2> QED  BY <2>1, <2>2, QueueDelivery
  <1>3. CASE PayoutSelect \/ \E o \in OrderIds : PayoutChurn(o) \/ PayoutNotifyFails(o)
    <2>1. /\ UNCHANGED <<order, runa, cur, buf>>
          /\ pc' = pc \/ pc' = [pc EXCEPT ![Payout] = "payout"]
          /\ held' = held \/ \E o : held' = [held EXCEPT ![Payout] = @ \cup {OrderRow(o)}]
      BY <1>3 DEF PayoutSelect, PayoutChurn, PayoutNotifyFails, tables, Goto
    <2>2. pc[Payout] \in {"idle", "payout"}
      BY <1>0 DEF TypeInv, Shape, ShapeAt
    <2>3. /\ pc'[Payout] \in {"idle", "payout"}
          /\ \A q \in Procs \ {Payout} : pc'[q] = pc[q] /\ held'[q] = held[q]
      BY <1>0, <2>1, <2>2 DEF TypeInv, ProcsOK
    <2> QED  BY <1>0, <2>1, <2>3, MidDelivery
  <1> QED  BY <1>1, <1>2, <1>3 DEF PayoutStep

LEMMA ReconcileDelivery ==
  ASSUME IInv, Delivery, ReconcileStep
  PROVE  Delivery'
  <1>0. TypeInv /\ Reconciler \in Procs
    BY DEF IInv, Procs
  <1>1. CASE ReconcileSelect
    BY <1>1, QuietDelivery DEF ReconcileSelect, tables
  <1>2. ASSUME NEW o \in OrderIds, ReconcileOne(o)
        PROVE  Delivery'
    <2>1. UNCHANGED <<order, runa>>
      BY <1>2 DEF ReconcileOne, tables
    <2>2. CASE ~Pending(o)
      BY <1>2, <2>1, <2>2, QuietDelivery DEF ReconcileOne
    <2>3. CASE Pending(o)
      <3>1. /\ pc'[Reconciler] = "refund"
            /\ \A q \in Procs \ {Reconciler} : /\ pc'[q] = pc[q] /\ cur'[q] = cur[q]
                                               /\ held'[q] = held[q] /\ buf'[q] = buf[q]
        BY <1>0, <1>2, <2>3 DEF ReconcileOne, Goto, Take, TypeInv, ProcsOK
      <3> QED  BY <1>0, <2>1, <3>1, MidDelivery
    <2> QED  BY <2>2, <2>3
  <1> QED  BY <1>1, <1>2 DEF ReconcileStep

LEMMA DeliveryInit == Init => Delivery
  BY DEF Init, Delivery, DeliverAt, Idle, NoOrder, Exists

LEMMA DeliveryNext == IInv /\ Delivery /\ [Next]_vars => Delivery'
  <1> SUFFICES ASSUME IInv, Delivery, [Next]_vars PROVE Delivery'
    OBVIOUS
  <1>0. IInv'
    BY IInvNext
  <1>1. ASSUME NEW p \in Procs, Crash(p) PROVE Delivery'
    BY <1>1, DropDelivery DEF Crash, tables
  <1>2. ASSUME NEW o \in OrderIds, Reissue(o) PROVE Delivery'
    BY <1>2, QueueDelivery DEF Reissue, tables
  <1>3. ASSUME NEW o \in OrderIds, RunaResolve(o) PROVE Delivery'
    <2>1. /\ UNCHANGED <<order, pc, cur, held, buf>> /\ runa[o] = "processing"
          /\ \E s \in {"complete", "failed"} : runa' = [runa EXCEPT ![o] = s]
      BY <1>3 DEF RunaResolve, tables
    <2>2. \A x \in OrderIds : x # o => runa'[x] = runa[x]
      BY <2>1 DEF IInv, TypeInv, TablesOK
    <2>3. Exists(o) /\ order[o].status # "issued"
      BY <2>1 DEF Delivery
    <2>4. \A x \in OrderIds : /\ runa[x] = "complete" => runa'[x] = "complete"
                              /\ runa'[x] # "none" => Exists(x)'
                              /\ order'[x].status = "issued" => runa'[x] = "complete"
      BY <2>1, <2>2, <2>3 DEF Delivery, Exists
    <2> QED  BY <2>1, <2>4, KeepDelivery
  <1>4. CASE (\E o \in OrderIds : Age(o)) \/ AnnualReset \/ NextDay \/ UNCHANGED vars
    <2>1. UNCHANGED <<order, runa, pc, cur, held, buf>>
      BY <1>4 DEF Age, AnnualReset, NextDay, vars, tables
    <2> QED  BY <2>1, QuietDelivery
  <1> QED  BY <1>0, <1>1, <1>2, <1>3, <1>4, RequestDelivery, EarnReferralDelivery, StepDelivery,
              ReconcileDelivery, PayoutDelivery DEF Next, Quiescent

\* An order that shows as issued has its card at Runa.
LEMMA DeliveryAlways == Spec => []Delivery
  <1> QED  BY IInvAlways, DeliveryInit, DeliveryNext, PTL DEF Spec
-----------------------------------------------------------------------------
LEMMA SameSum ==
  \A f : Abstract!SumFunction(f) = SumFunction(f)
  BY DEF Abstract!SumFunction, Abstract!SumFunctionOnSet, Abstract!FoldFunctionOnSet,
         Abstract!MapThenFoldSet, SumFunction, SumFunctionOnSet, FoldFunctionOnSet, MapThenFoldSet

\* What CardOrders calls spent is what the service sums before the debit.
LEMMA SpentWindow ==
  ASSUME TypeInv, NEW u, NEW d
  PROVE  Abstract!Spent(u, d) = sum_redeemed_window(u, d)
  <1> DEFINE f == [o \in OrderIds |->
                     IF /\ Cards[o].user = u /\ Cards[o].bought /\ Cards[o].day >= d
                        /\ Cards[o].state # "failed"
                       THEN Cards[o].value ELSE 0]
             g == [o \in OrderIds |-> IF InWindow(order[o], u, d) THEN order[o].denom ELSE 0]
  <1>1. ASSUME NEW o \in OrderIds PROVE f[o] = g[o]
    <2>1. ~Exists(o) => order[o].source # "shop_purchase"
      BY NoRow DEF NoOrder
    <2> QED  BY <2>1 DEF Cards, CardOf, InWindow, Exists
  <1>2. f = g
    BY <1>1
  <1>3. Abstract!Spent(u, d) = SumFunction(f)
    BY SameSum DEF Abstract!Spent
  <1>4. sum_redeemed_window(u, d) = SumFunction(g)
    BY DEF sum_redeemed_window
  <1> QED  BY <1>2, <1>3, <1>4

\* What a step is to CardOrders when it changes neither orders, nor balances, nor
\* what Runa has made.
LEMMA Stutter ==
  ASSUME \A o \in OrderIds : CardOf(o)' = CardOf(o), balance' = balance,
         \A o \in OrderIds : (runa'[o] = "complete") = (runa[o] = "complete")
  PROVE  UNCHANGED Abstract!vars
  <1>1. Cards' = Cards /\ Deliveries' = Deliveries
    BY DEF Cards, Deliveries
  <1> QED  BY <1>1 DEF Abstract!vars

\* The new value of one card.
LEMMA OneCard ==
  ASSUME NEW o \in OrderIds, NEW c,
         \A x \in OrderIds : x # o => CardOf(x)' = CardOf(x), CardOf(o)' = c
  PROVE  Cards' = [Cards EXCEPT ![o] = c]
  BY DEF Cards

LEMMA SameDeliveries ==
  ASSUME runa' = runa
  PROVE  Deliveries' = Deliveries
  BY DEF Deliveries

\* The COMMIT of create_order is a purchase.
LEMMA CommitBuys ==
  ASSUME IInv, IInv', NEW p \in Procs, Commit(p), ~Exists(cur[p])
  PROVE  Abstract!Next
  <1> DEFINE r == buf[p].row
             u == r.user
  <1>o. PICK o \in OrderIds : o = cur[p]
    BY CommitValues
  <1>v. /\ pc[p] = "commit" /\ o \in OrderIds /\ r \in OrderRec /\ u \in Users
        /\ buf[p] \in BufRec
        /\ \A x \in OrderIds : x # o => order'[x] = order[x]
        /\ order' = IF OrderRow(o) \in held[p] THEN [order EXCEPT ![o] = r] ELSE order
        /\ balance' = IF CabRow(u) \in held[p] THEN [balance EXCEPT ![u] = buf[p].bal] ELSE balance
        /\ runa' = runa
    BY <1>o, CommitValues DEF Commit, User
  <1>n. /\ OrderRow(o) \in held[p] /\ Fresh(r) /\ CabRow(u) \in held[p]
        /\ buf[p].bal = balance[u] - CabCost(r.denom)
        /\ sum_redeemed_window(u, r.created) + r.denom <= CapDaily
        /\ sum_redeemed_window(u, WeekStart(r.created)) + r.denom <= CapWeekly
    BY <1>o, <1>v, CommitNew
  <1>t. /\ order \in [OrderIds -> OrderRec \cup {NoOrder}] /\ balance \in [Users -> Nat]
        /\ r.created \in Nat /\ r.denom \in Nat /\ buf[p].bal \in Nat
        /\ CabCost(r.denom) \in Nat /\ TypeInv
    BY <1>v, RowTypes, BufTypes, CabCostNat DEF IInv, TypeInv, TablesOK
  <1>1. r.created \in 0..LastOrderDay /\ r.denom \in ShopDenoms
    BY <1>n, <1>t, GiftCardsAssumption DEF Fresh
  <1>2. ~Abstract!Ordered(o)
    BY <1>o, <1>v DEF Abstract!Ordered, Cards, CardOf, Exists
  <1>3. Abstract!Price(r.denom) = CabCost(r.denom)
    BY DEF Abstract!Price, CabCost
  <1>4. balance[u] >= Abstract!Price(r.denom)
    BY <1>v, <1>n, <1>t, <1>3
  <1>5. /\ Abstract!Spent(u, r.created) + r.denom <= CapDaily
        /\ Abstract!Spent(u, Abstract!FirstOfWeek(r.created)) + r.denom <= CapWeekly
    BY <1>n, <1>t, SpentWindow DEF Abstract!FirstOfWeek, WeekStart
  <1>6. Abstract!New(o, u, TRUE, r.denom, r.created)
    <2>1. order'[o] = r
      BY <1>v, <1>n, <1>t
    <2>2. CardOf(o)' = [user |-> u, bought |-> TRUE, value |-> r.denom, day |-> r.created,
                        state |-> "pending"]
      BY <1>n, <2>1 DEF CardOf, Fresh
    <2>3. \A x \in OrderIds : x # o => CardOf(x)' = CardOf(x)
      BY <1>v DEF CardOf
    <2> HIDE DEF u, r
    <2> QED  BY <1>v, <2>2, <2>3, OneCard DEF Abstract!New
  <1>7. balance' = [balance EXCEPT ![u] = @ - Abstract!Price(r.denom)]
    BY <1>v, <1>n, <1>t, <1>3
  <1>8. Deliveries' = Deliveries
    BY <1>v, SameDeliveries
  <1>9. Abstract!Buy(o, u, r.denom, r.created)
    BY <1>2, <1>4, <1>5, <1>6, <1>7, <1>8 DEF Abstract!Buy
  <1> HIDE DEF u, r
  <1> QED  BY <1>v, <1>1, <1>9 DEF Abstract!Next

\* The COMMIT of a task that had Runa's card issues the order.
LEMMA CommitIssues ==
  ASSUME IInv, Delivery, NEW p \in Procs, Commit(p), Exists(cur[p]),
         OrderRow(cur[p]) \in held[p], Pending(cur[p]), buf[p].row.status = "issued"
  PROVE  Abstract!Next
  <1> DEFINE r == buf[p].row
             u == r.user
  <1>o. PICK o \in OrderIds : o = cur[p]
    BY CommitValues
  <1>v. /\ pc[p] = "commit" /\ o \in OrderIds /\ u \in Users
        /\ \A x \in OrderIds : x # o => order'[x] = order[x]
        /\ order'[o] = r /\ runa' = runa /\ Same(r, order[o])
        /\ balance' = IF CabRow(u) \in held[p] THEN [balance EXCEPT ![u] = buf[p].bal] ELSE balance
    BY <1>o, CommitValues, CommitOver DEF Commit, User
  <1>1. balance' = balance
    <2>1. ~buf[p].refund /\ CabRow(u) \notin held[p]
      BY <1>o, <1>v, Hand DEF CabAt, Failing
    <2> QED  BY <1>v, <2>1
  <1>2. Abstract!Becomes(o, "issued")
    <2>1. CardOf(o)' = [CardOf(o) EXCEPT !.state = "issued"]
      BY <1>v DEF CardOf, Same
    <2>2. CardOf(o)' = [Cards[o] EXCEPT !.state = "issued"]
      BY <1>v, <2>1 DEF Cards
    <2>3. \A x \in OrderIds : x # o => CardOf(x)' = CardOf(x)
      BY <1>v DEF CardOf
    <2> HIDE DEF u, r
    <2> QED  BY <1>v, <2>2, <2>3, OneCard DEF Abstract!Becomes
  <1>3. Abstract!Open(o) /\ Deliveries[o]
    BY <1>o, <1>v DEF Abstract!Open, Cards, CardOf, Pending, Deliveries, Delivery, DeliverAt
  <1>4. Deliveries' = Deliveries
    BY <1>v, SameDeliveries
  <1>5. Abstract!Issue(o)
    BY <1>1, <1>2, <1>3, <1>4 DEF Abstract!Issue
  <1> HIDE DEF u, r
  <1> QED  BY <1>v, <1>5 DEF Abstract!Next

\* The COMMIT of a failed issuance, or of the 24 h batch, fails the order and gives
\* the price of a boutique order back.
LEMMA CommitFails ==
  ASSUME IInv, NEW p \in Procs, Commit(p), Exists(cur[p]),
         OrderRow(cur[p]) \in held[p], Pending(cur[p]), buf[p].row.status = "failed"
  PROVE  Abstract!Next
  <1> DEFINE r == buf[p].row
             u == r.user
  <1>o. PICK o \in OrderIds : o = cur[p]
    BY CommitValues
  <1>v. /\ pc[p] = "commit" /\ o \in OrderIds /\ u \in Users /\ r \in OrderRec
        /\ \A x \in OrderIds : x # o => order'[x] = order[x]
        /\ order'[o] = r /\ runa' = runa /\ Same(r, order[o])
        /\ balance' = IF CabRow(u) \in held[p] THEN [balance EXCEPT ![u] = buf[p].bal] ELSE balance
        /\ balance \in [Users -> Nat]
    BY <1>o, CommitValues, CommitOver DEF Commit, User, IInv, TypeInv, TablesOK
  <1>c. /\ Cards[o].user = u /\ Cards[o].value = r.denom
        /\ Cards[o].bought = (r.source = "shop_purchase")
    BY <1>v DEF Cards, CardOf, Same
  <1>1. balance' = IF Cards[o].bought
                     THEN [balance EXCEPT ![Cards[o].user] = @ + Abstract!Price(Cards[o].value)]
                     ELSE balance
    <2>1. /\ buf[p].refund <=> r.source = "shop_purchase"
          /\ buf[p].refund <=> CabRow(u) \in held[p]
          /\ buf[p].refund => buf[p].bal = balance[u] + CabCost(r.denom)
      BY <1>o, <1>v, Hand DEF CabAt, Failing
    <2>2. Abstract!Price(r.denom) = CabCost(r.denom)
      BY DEF Abstract!Price, CabCost
    <2> HIDE DEF u, r
    <2> QED  BY <1>v, <1>c, <2>1, <2>2
  <1>2. Abstract!Becomes(o, "failed")
    <2>1. CardOf(o)' = [CardOf(o) EXCEPT !.state = "failed"]
      BY <1>v DEF CardOf, Same
    <2>2. CardOf(o)' = [Cards[o] EXCEPT !.state = "failed"]
      BY <1>v, <2>1 DEF Cards
    <2>3. \A x \in OrderIds : x # o => CardOf(x)' = CardOf(x)
      BY <1>v DEF CardOf
    <2> HIDE DEF u, r
    <2> QED  BY <1>v, <2>2, <2>3, OneCard DEF Abstract!Becomes
  <1>3. Abstract!Open(o)
    BY <1>o, <1>v DEF Abstract!Open, Cards, CardOf, Pending
  <1>4. Deliveries' = Deliveries
    BY <1>v, SameDeliveries
  <1>5. Abstract!Fail(o)
    BY <1>1, <1>2, <1>3, <1>4 DEF Abstract!Fail
  <1> HIDE DEF u, r
  <1> QED  BY <1>v, <1>5 DEF Abstract!Next

\* Any other COMMIT changes no order that CardOrders sees, and no balance.
LEMMA CommitKeeps ==
  ASSUME IInv, NEW p \in Procs, Commit(p), Exists(cur[p]),
         OrderRow(cur[p]) \in held[p] => buf[p].row.status = order[cur[p]].status
  PROVE  UNCHANGED Abstract!vars
  <1> DEFINE r == buf[p].row
             u == r.user
  <1>o. PICK o \in OrderIds : o = cur[p]
    BY CommitValues
  <1>v. /\ pc[p] = "commit" /\ o \in OrderIds /\ runa' = runa /\ Same(r, order[o])
        /\ \A x \in OrderIds : x # o => order'[x] = order[x]
        /\ order'[o] = r \/ order' = order
        /\ OrderRow(o) \in held[p] => order'[o] = r
        /\ OrderRow(o) \notin held[p] => order' = order
        /\ balance' = IF CabRow(u) \in held[p] THEN [balance EXCEPT ![u] = buf[p].bal] ELSE balance
    BY <1>o, CommitValues, CommitOver DEF Commit, User
  <1>1. balance' = balance
    <2>1. ~Failing(o, held[p], buf[p])
      BY <1>o DEF Failing, Pending
    <2>2. CabRow(u) \notin held[p]
      BY <1>o, <1>v, <2>1, Hand DEF CabAt
    <2> QED  BY <1>v, <2>2
  <1>2. \A x \in OrderIds : CardOf(x)' = CardOf(x)
    <2>1. CardOf(o)' = CardOf(o)
      BY <1>o, <1>v DEF CardOf, Same
    <2>2. \A x \in OrderIds : x # o => CardOf(x)' = CardOf(x)
      BY <1>v DEF CardOf
    <2> QED  BY <2>1, <2>2
  <1> QED  BY <1>v, <1>1, <1>2, Stutter

LEMMA CommitRefines ==
  ASSUME IInv, IInv', Delivery, NEW p \in Procs, Commit(p)
  PROVE  [Abstract!Next]_(Abstract!vars)
  <1>1. CASE ~Exists(cur[p])
    BY <1>1, CommitBuys
  <1>2. CASE Exists(cur[p])
    <2>1. pc[p] = "commit" /\ cur[p] \in OrderIds
      BY CommitValues
    <2>2. OrderRow(cur[p]) \in held[p] =>
            \/ buf[p].row.status = order[cur[p]].status
            \/ Pending(cur[p]) /\ buf[p].row.status \in {"issued", "failed"}
      BY <1>2, <2>1, CommitOver
    <2> QED  BY <1>2, <2>2, CommitIssues, CommitFails, CommitKeeps
  <1> QED  BY <1>1, <1>2

\* The INSERT of an earned card's order.
LEMMA InsertRefines ==
  ASSUME IInv, NEW e \in Events, NEW x \in InsertedId(e), NEW elig, day <= LastOrderDay,
         Insert(x, NewOrder(e.user, e.source, e.ref, EarnedDenom, elig)),
         UNCHANGED <<balance, runa>>
  PROVE  [Abstract!Next]_(Abstract!vars)
  <1>o. PICK o \in OrderIds : o = x
    BY InsertRow
  <1>r. /\ \A y \in OrderIds : y # o => order'[y] = order[y]
        /\ Exists(o) => order' = order
        /\ ~Exists(o) => /\ order'[o].user = e.user /\ order'[o].source = e.source
                         /\ order'[o].status = "pending" /\ order'[o].denom = EarnedDenom
                         /\ order'[o].created = day
        /\ e.source # "shop_purchase"
    BY <1>o, InsertRow
  <1>1. CASE Exists(o)
    <2>1. \A y \in OrderIds : CardOf(y)' = CardOf(y)
      BY <1>r, <1>1 DEF CardOf
    <2> QED  BY <2>1, Stutter
  <1>2. CASE ~Exists(o)
    <2>1. e.user \in Users /\ day \in 0..LastOrderDay
      BY GiftCardsAssumption DEF IInv, TypeInv, TablesOK
    <2>2. ~Abstract!Ordered(o)
      BY <1>2 DEF Abstract!Ordered, Cards, CardOf, Exists
    <2>3. CardOf(o)' = [user |-> e.user, bought |-> FALSE, value |-> EarnedDenom, day |-> day,
                        state |-> "pending"]
      BY <1>r, <1>2 DEF CardOf
    <2>4. \A y \in OrderIds : y # o => CardOf(y)' = CardOf(y)
      BY <1>r DEF CardOf
    <2>5. Abstract!New(o, e.user, FALSE, EarnedDenom, day)
      BY <2>3, <2>4, OneCard DEF Abstract!New
    <2>6. Deliveries' = Deliveries
      BY SameDeliveries
    <2>7. Abstract!Earn(o, e.user, day)
      BY <2>2, <2>5, <2>6 DEF Abstract!Earn
    <2> QED  BY <2>1, <2>7 DEF Abstract!Next
  <1> QED  BY <1>1, <1>2

\* Runa makes a card: at the call, or later.
LEMMA DeliverRefines ==
  ASSUME IInv, NEW o \in OrderIds, Exists(o), order' = order, balance' = balance,
         runa' = [runa EXCEPT ![o] = "complete"]
  PROVE  Abstract!Next
  <1>1. Deliveries' = [Deliveries EXCEPT ![o] = TRUE]
    BY DEF Deliveries, IInv, TypeInv, TablesOK
  <1>2. Cards' = Cards
    BY DEF Cards, CardOf
  <1>3. Abstract!Ordered(o)
    BY DEF Abstract!Ordered, Cards, CardOf, Exists
  <1>4. Abstract!Deliver(o)
    BY <1>1, <1>2, <1>3 DEF Abstract!Deliver
  <1> QED  BY <1>4 DEF Abstract!Next

\* Runa's other answers make no card and take none back.
LEMMA NoDeliveryRefines ==
  ASSUME IInv, NEW o \in OrderIds, order' = order, balance' = balance,
         NEW s, runa' = [runa EXCEPT ![o] = s], (s = "complete") = (runa[o] = "complete")
  PROVE  UNCHANGED Abstract!vars
  <1>1. \A x \in OrderIds : (runa'[x] = "complete") = (runa[x] = "complete")
    BY DEF IInv, TypeInv, TablesOK
  <1>2. \A x \in OrderIds : CardOf(x)' = CardOf(x)
    BY DEF CardOf
  <1> QED  BY <1>1, <1>2, Stutter

LEMMA CallRunaRefines ==
  ASSUME IInv, NEW p \in Procs, CallRuna(p)
  PROVE  [Abstract!Next]_(Abstract!vars)
  <1>1. pc[p] = "runa" /\ UNCHANGED <<order, balance>>
    BY DEF CallRuna, tables
  <1>2. PICK o \in OrderIds : o = cur[p]
    BY <1>1, AtWork DEF Busy
  <1>3. Exists(o)
    BY <1>1, <1>2, AtWork DEF Busy
  <1>4. \E s \in {"none", "processing", "complete", "failed"} :
          runa' = [runa EXCEPT ![o] = s] /\ (runa[o] # "none" => s = runa[o])
    <2>1. runa[o] \in {"none", "processing", "complete", "failed"}
      BY DEF IInv, TypeInv, TablesOK
    <2> QED  BY <1>2, <2>1 DEF CallRuna
  <1>5. PICK s \in {"none", "processing", "complete", "failed"} :
          runa' = [runa EXCEPT ![o] = s] /\ (runa[o] # "none" => s = runa[o])
    BY <1>4
  <1>6. CASE s = "complete"
    BY <1>1, <1>3, <1>5, <1>6, DeliverRefines
  <1>7. CASE s # "complete"
    BY <1>1, <1>5, <1>7, NoDeliveryRefines
  <1> QED  BY <1>6, <1>7

LEMMA RunaResolveRefines ==
  ASSUME IInv, Delivery, NEW o \in OrderIds, RunaResolve(o)
  PROVE  [Abstract!Next]_(Abstract!vars)
  <1>1. runa[o] = "processing" /\ UNCHANGED <<order, balance>>
    BY DEF RunaResolve, tables
  <1>2. Exists(o)
    BY <1>1 DEF Delivery
  <1>3. CASE runa' = [runa EXCEPT ![o] = "complete"]
    BY <1>1, <1>2, <1>3, DeliverRefines
  <1>4. CASE runa' = [runa EXCEPT ![o] = "failed"]
    BY <1>1, <1>4, NoDeliveryRefines
  <1> QED  BY <1>3, <1>4 DEF RunaResolve

\* The payout's COMMIT closes the earned orders whose referral has lapsed.
LEMMA PayoutCommitRefines ==
  ASSUME IInv, PayoutCommit
  PROVE  Abstract!Next
  <1>1. PICK S \in SUBSET OrderIds : S = {o \in OrderIds : OrderRow(o) \in held[Payout]}
    OBVIOUS
  <1>2. \A o \in S : Abstract!Open(o) /\ ~Cards[o].bought
    <2> SUFFICES ASSUME NEW o \in OrderIds, OrderRow(o) \in held[Payout]
                 PROVE  Pending(o) /\ order[o].source = "referral_reward"
      BY <1>1 DEF Abstract!Open, Cards, CardOf, Pending
    <2> QED  BY DEF IInv, LockInv, RowOwner, BatchOK, Procs
  <1>3. ASSUME NEW o \in OrderIds
        PROVE  CardOf(o)' = IF o \in S THEN [Cards[o] EXCEPT !.state = "churned"] ELSE Cards[o]
    <2>1. CASE o \in S
      <3>1. order'[o].status = "churned" /\ Same(order'[o], order[o])
        <4>1. order[o] \in OrderRec /\ OrderRow(o) \in held[Payout]
          <5>1. Pending(o)
            BY <1>1, <2>1 DEF IInv, LockInv, RowOwner, Procs
          <5> QED  BY <1>1, <2>1, <5>1, ExistingRow DEF IInv, TypeInv, Exists, Pending
        <4>2. order'[o] = [order[o] EXCEPT !.status = "churned"]
          BY <4>1 DEF PayoutCommit
        <4> QED  BY <4>1, <4>2 DEF Same, OrderRec
      <3> QED  BY <2>1, <3>1 DEF Cards, CardOf, Same
    <2>2. CASE o \notin S
      <3>1. order'[o] = order[o]
        BY <1>1, <2>2 DEF PayoutCommit
      <3> QED  BY <2>2, <3>1 DEF Cards, CardOf
    <2> QED  BY <2>1, <2>2
  <1>4. Cards' = [o \in OrderIds |->
                    IF o \in S THEN [Cards[o] EXCEPT !.state = "churned"] ELSE Cards[o]]
    BY <1>3 DEF Cards
  <1>5. balance' = balance /\ Deliveries' = Deliveries
    BY SameDeliveries DEF PayoutCommit
  <1>6. Abstract!Churn(S)
    BY <1>2, <1>4, <1>5 DEF Abstract!Churn
  <1> QED  BY <1>6 DEF Abstract!Next

LEMMA CardStepRefines ==
  ASSUME IInv, Delivery, [Next]_vars
  PROVE  [Abstract!Next]_(Abstract!vars)
  <1>0. IInv'
    BY IInvNext
  <1>q. ASSUME UNCHANGED <<order, balance, runa>>
        PROVE  UNCHANGED Abstract!vars
    <2>1. \A x \in OrderIds : CardOf(x)' = CardOf(x)
      BY <1>q DEF CardOf
    <2> QED  BY <1>q, <2>1, Stutter
  <1>1. ASSUME NEW p \in Workers, Request(p)
        PROVE  [Abstract!Next]_(Abstract!vars)
    <2>1. ASSUME NEW e \in Events, EarnCard(p, e)
          PROVE  [Abstract!Next]_(Abstract!vars)
      <3>1. UNCHANGED <<balance, runa>> /\ day <= LastOrderDay
        BY <2>1 DEF EarnCard
      <3>2. PICK x \in InsertedId(e) :
              Insert(x, NewOrder(e.user, e.source, e.ref, EarnedDenom, NoElig))
        BY <2>1 DEF EarnCard
      <3> QED  BY <3>1, <3>2, InsertRefines
    <2>2. ASSUME NEW u \in Users, NEW denom \in ShopDenoms, ShopBegin(p, u, denom)
          PROVE  UNCHANGED <<order, balance, runa>>
      BY <2>2 DEF ShopBegin, tables
    <2> QED  BY <1>1, <1>q, <2>1, <2>2 DEF Request
  <1>2. ASSUME NEW e \in Events, EarnReferral(e)
        PROVE  [Abstract!Next]_(Abstract!vars)
    <2>1. UNCHANGED <<balance, runa>> /\ day <= LastOrderDay
      BY <1>2 DEF EarnReferral
    <2>2. PICK elig \in Nat : elig = day + ReferralDelay
      BY GiftCardsAssumption DEF IInv, TypeInv, TablesOK
    <2>3. PICK x \in InsertedId(e) :
            Insert(x, NewOrder(e.user, e.source, e.ref, EarnedDenom, elig))
      BY <1>2, <2>2 DEF EarnReferral
    <2> QED  BY <2>1, <2>3, InsertRefines
  <1>3. ASSUME NEW p \in Procs, Step(p)
        PROVE  [Abstract!Next]_(Abstract!vars)
    <2>1. CASE ~Commit(p) /\ ~CallRuna(p)
      <3>1. UNCHANGED <<order, balance, runa>>
        BY <1>3, <2>1 DEF Step, ShopCaps, ShopDebit, IssueStart, ReserveFast, ReserveDecide,
                  ReserveUser, ReserveOrder, Defer, OrderIssued, OrderFailed,
                  RefundCab, ReleaseCap, DeadlockVictim, tables
      <3> QED  BY <1>q, <3>1
    <2> QED  BY <1>0, <2>1, CommitRefines, CallRunaRefines
  <1>4. CASE PayoutStep
    <2>1. CASE ~PayoutCommit
      <3>1. UNCHANGED <<order, balance, runa>>
        BY <1>4, <2>1 DEF PayoutStep, PayoutSelect, PayoutChurn, PayoutNotify,
                          PayoutNotifyFails, tables
      <3> QED  BY <1>q, <3>1
    <2> QED  BY <2>1, PayoutCommitRefines
  <1>5. CASE ReconcileStep
    <2>1. UNCHANGED <<order, balance, runa>>
      BY <1>5 DEF ReconcileStep, ReconcileSelect, ReconcileOne, tables
    <2> QED  BY <1>q, <2>1
  <1>6. CASE \/ \E p \in Procs : Crash(p)
             \/ \E o \in OrderIds : Reissue(o) \/ Age(o)
             \/ AnnualReset \/ NextDay \/ UNCHANGED vars
    <2>1. UNCHANGED <<order, balance, runa>>
      BY <1>6 DEF Crash, Reissue, Age, AnnualReset, NextDay, tables, vars
    <2> QED  BY <1>q, <2>1
  <1> QED  BY <1>1, <1>2, <1>3, <1>4, <1>5, <1>6, RunaResolveRefines DEF Next, Quiescent

LEMMA CardInitRefines == Init => Abstract!Init
  <1> SUFFICES ASSUME Init PROVE Abstract!Init
    OBVIOUS
  <1>1. Cards = [o \in OrderIds |-> Abstract!NoCard]
    BY DEF Init, Cards, CardOf, NoOrder, Abstract!NoCard
  <1>2. Deliveries = [o \in OrderIds |-> FALSE]
    BY DEF Init, Deliveries
  <1> QED  BY <1>1, <1>2 DEF Init, Abstract!Init

\* create_order, issue_gift_card and the batches implement CardOrders, for any
\* number of users, tasks, crashes and lock cycles: each transaction is one
\* purchase, issue, failure with its refund or closing of earned orders, or nothing.
THEOREM ImplementsCardOrdersHolds == Spec => ImplementsCardOrders
  <1>1. IInv /\ Delivery /\ [Next]_vars => [Abstract!Next]_(Abstract!vars)
    BY CardStepRefines
  <1> QED  BY <1>1, CardInitRefines, IInvAlways, DeliveryAlways, PTL
           DEF Spec, ImplementsCardOrders, Abstract!Spec
=============================================================================
