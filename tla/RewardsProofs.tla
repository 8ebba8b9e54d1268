---------------------------- MODULE RewardsProofs ----------------------------
(***************************************************************************)
(* Proofs about the reward service: RewardEvents, what it pays the user,   *)
(* and Notifications, the outbox through which it tells the user, for all  *)
(* numbers of scans, missions, database sessions, outbox rows, replicas,   *)
(* tasks and tokens, and every clock.                                      *)
(***************************************************************************)
EXTENDS RewardEvents, Notifications, FiniteSums, WellFoundedInduction, TLAPS

(***************************************************************************)
(* RewardEvents.                                                           *)
(***************************************************************************)
EventKinds == LabelKinds \cup {"receipt", "promo"}
EventRow == [status : {"none", "skipped", "processed"}, day : Nat, cab : Nat]
Creditors == {"none", "batch", "mystery"} \cup EventKinds
JobState == [e : Events \cup {NULL}, s : Scans \cup {NULL}, m : Missions \cup {NULL},
             cab : Nat, day : Nat, todo : SUBSET Scans, portions : Nat, full : BOOLEAN]

Tags == {Category[s] : s \in Scans}
UmRow == [status : {"none", "pending", "completed", "claimed"}, count : Nat, target : Nat,
          seen : SUBSET Tags, n : Nat, portions : Nat, burst : Nat,
          locked : BOOLEAN, frozen : BOOLEAN]

TypeOK ==
  /\ event \in [Events -> EventRow] /\ credit \in [Scans -> Creditors]
  /\ retro \subseteq Receipts /\ bal \in Int /\ challenge \in Nat
  /\ prized \in BOOLEAN /\ day \in Nat
  /\ um \in [Missions -> UmRow]
  /\ DOMAIN pc = Threads /\ job \in [Threads -> JobState] /\ DOMAIN held = Threads

LockInv == \A p, q \in Threads : p # q => held[p] \cap held[q] = {}

\* What a thread at l, with locals j and locks h, has locked and found there: the
\* rows it is about to write are as it has read them.
EventAt(l, j, h) ==
  l \in {"award", "ledger", "missions"} =>
    /\ j.e \in Events /\ Key(j.e) \in h /\ event[j.e].status = "none"
    /\ l = "missions" /\ ScanClass(j.e) /\ j.cab > 0 =>
         Entry(j.e[1]) \in h /\ Uncredited(j.e[1])

MissionAt(l, j, h) ==
  l \in {"claim", "freeze"} =>
    /\ j.m \in Missions /\ Row(j.m) \in h /\ um[j.m].status # "none"
    /\ l = "claim" => /\ j.portions > um[j.m].portions
                      /\ j.cab = (j.portions - um[j.m].portions) * Reward
    /\ l = "freeze" => ~um[j.m].frozen

PrizeAt(l, h) == l = "prize" => Claimed \in h /\ ~prized

BatchAt(l, j, h) ==
  /\ l = "pay" => j.s \in Labels /\ Entry(j.s) \in h /\ Uncredited(j.s)
  /\ l \in {"retro", "retropay"} => j.todo \subseteq Receipts
  /\ l = "retropay" => j.todo \cap retro = {} /\ \A r \in j.todo : Retro(r) \in h

At(l, j, h) ==
  EventAt(l, j, h) /\ MissionAt(l, j, h) /\ PrizeAt(l, h) /\ BatchAt(l, j, h)

ThreadInv == \A p \in Threads : At(pc[p], job[p], held[p])

\* Only processed events are paid, and a mission without a row has made no progress.
RowInv ==
  /\ \A e \in Events : event[e].status # "processed" => event[e].cab = 0
  /\ \A m \in Missions : um[m].status = "none" => um[m] = NoRow

\* A distinct mission has seen the values of its events.
SeenInv ==
  \A m \in Missions :
    Template[m].action = "scan_distinct" /\ um[m].status # "claimed" =>
      um[m].seen = Values(m)

IInv == /\ TypeOK /\ LockInv /\ ThreadInv /\ RowInv /\ SeenInv
        /\ EventOwnsCredit /\ CabIntegrity /\ MissionCounts
-----------------------------------------------------------------------------
LEMMA Constants ==
  /\ Promos \in Nat /\ Promos > 0 /\ Target \in Nat /\ Reward \in Nat /\ Rate \in Nat
  /\ BatchCab \in Nat /\ Prize \in Nat /\ FreezeCost \in Nat /\ MysteryPrize \in Nat
  /\ NULL \notin Scans /\ IsFiniteSet(Missions) /\ IsFiniteSet(Scans)
BY RewardEventsAssumption

LEMMA EventParts ==
  ASSUME NEW e \in Events
  PROVE  e[1] \in Scans /\ e[2] \in EventKinds /\ e = <<e[1], e[2]>>
BY DEF Events, EventKinds

LEMMA FiniteEvents == IsFiniteSet(Events) /\ IsFiniteSet(Receipts)
<1>1. IsFiniteSet(EventKinds)
  <2>1. EventKinds = (((({} \cup {"plain"}) \cup {"organic"}) \cup {"category"})
                        \cup {"receipt"}) \cup {"promo"}
    BY DEF EventKinds, LabelKinds
  <2> QED BY <2>1, FS_EmptySet, FS_AddElement, Zenon
<1>2. IsFiniteSet(Scans \X EventKinds)
  BY <1>1, Constants, FS_Product
<1>3. Events \subseteq Scans \X EventKinds
  BY EventParts
<1> QED BY <1>2, <1>3, Constants, FS_Subset DEF Scans

\* What an event is worth, and what a scan event is not.
LEMMA QuantityIsNat ==
  ASSUME NEW e
  PROVE  Quantity(e) \in Nat /\ Quantity(e) > 0 /\ (ScanClass(e) => Quantity(e) = 1)
BY Constants DEF Quantity, ScanClass, ActionOf

LEMMA AmountIsNat ==
  ASSUME NEW e
  PROVE  Amount(e) \in Nat
<1>1. Halved(Rate) \in Nat
  BY Constants DEF Halved
<1>2. Rate * Quantity(e) \in Nat
  <2>1. PICK q \in Nat : q = Quantity(e)
    BY QuantityIsNat
  <2>2. Rate * q \in Nat
    BY Constants
  <2> QED BY <2>1, <2>2
<1> QED BY <1>1, <1>2 DEF Amount

LEMMA NoProgress ==
  /\ NoRow \in UmRow /\ NoRow.portions = 0 /\ NoRow.count = 0
  /\ NoRow.seen = {} /\ NoRow.frozen = FALSE /\ NoRow.status = "none"
  /\ NewRow \in UmRow /\ NewRow.portions = 0 /\ NewRow.count = 0 /\ NewRow.seen = {}
  /\ NewRow.frozen = FALSE /\ NewRow.status = "pending"
<1>1. NoRow \in UmRow /\ NoRow.portions = 0 /\ NoRow.count = 0 /\ NoRow.seen = {}
      /\ NoRow.frozen = FALSE /\ NoRow.status = "none"
  BY DEF UmRow, NoRow
<1>2. NewRow \in UmRow /\ NewRow.portions = 0 /\ NewRow.count = 0 /\ NewRow.seen = {}
      /\ NewRow.frozen = FALSE /\ NewRow.status = "pending"
  BY <1>1, Constants DEF NewRow, UmRow, NoRow
<1> QED BY <1>1, <1>2

\* Extremes of sets of naturals.
LEMMA LeastIsElement ==
  ASSUME NEW S, S \subseteq Nat, S # {}
  PROVE  Min(S) \in S
<1>1. PICK x \in S : \A y \in S : <<y, x>> \notin OpToRel(<, Nat)
  BY NatLessThanWellFounded, WFMin
<1>2. \A y \in S : x <= y
  <2> SUFFICES ASSUME NEW y \in S, y < x PROVE FALSE
    OBVIOUS
  <2>1. <<y, x>> \in Nat \X Nat /\ <<y, x>>[1] < <<y, x>>[2]
    OBVIOUS
  <2>2. <<y, x>> \in OpToRel(<, Nat)
    BY <2>1, Zenon DEF OpToRel
  <2> QED BY <1>1, <2>2
<1> QED BY <1>2 DEF Min

LEMMA GreatestIsElement ==
  ASSUME NEW S, S \subseteq Nat, S # {}, NEW b \in Nat, \A x \in S : x <= b
  PROVE  Max(S) \in S
<1> DEFINE T == {b - x : x \in S}
<1>1. T \subseteq Nat /\ T # {}
  <2>1. PICK z \in S : TRUE
    OBVIOUS
  <2>2. b - z \in T
    OBVIOUS
  <2>3. \A x \in S : b - x \in Nat
    OBVIOUS
  <2> QED BY <2>2, <2>3
<1>2. PICK y \in T : \A z \in T : <<z, y>> \notin OpToRel(<, Nat)
  <2> HIDE DEF T
  <2> QED BY <1>1, NatLessThanWellFounded, WFMin
<1>3. PICK x \in S : y = b - x
  OBVIOUS
<1>4. ASSUME NEW w \in S PROVE x >= w
  <2> SUFFICES ASSUME b - w < y PROVE FALSE
    BY <1>3
  <2>1. b - w \in T /\ <<b - w, y>> \in Nat \X Nat /\ <<b - w, y>>[1] < <<b - w, y>>[2]
    BY <1>1
  <2>2. <<b - w, y>> \in OpToRel(<, Nat)
    BY <2>1, Zenon DEF OpToRel
  <2> QED BY <1>2, <2>1, <2>2
<1> QED BY <1>4 DEF Max

LEMMA NoJobIsJob == NoJob \in JobState
BY DEF NoJob, JobState
-----------------------------------------------------------------------------
(* Control, locks and locals of the threads in a step.                     *)

LEMMA GotoFacts ==
  ASSUME NEW p \in Threads, DOMAIN pc = Threads, NEW l, Goto(p, l)
  PROVE  DOMAIN pc' = Threads /\ pc'[p] = l /\ \A q \in Threads \ {p} : pc'[q] = pc[q]
BY DEF Goto

LEMMA TakeFacts ==
  ASSUME NEW p \in Threads, TypeOK, LockInv, NEW L, Take(p, L), \A l \in L : Free(p, l)
  PROVE  /\ DOMAIN held' = Threads /\ held'[p] = held[p] \cup L /\ LockInv'
         /\ \A q \in Threads \ {p} : held'[q] = held[q]
<1>1. /\ DOMAIN held' = Threads /\ held'[p] = held[p] \cup L
      /\ \A q \in Threads \ {p} : held'[q] = held[q]
  BY DEF Take, TypeOK
<1>2. \A q \in Threads \ {p} : held[q] \cap L = {}
  BY DEF Free
<1> QED BY <1>1, <1>2 DEF LockInv

LEMMA EndFacts ==
  ASSUME NEW p \in Threads, TypeOK, LockInv, End(p)
  PROVE  /\ DOMAIN pc' = Threads /\ pc'[p] = "idle"
         /\ \A q \in Threads \ {p} : pc'[q] = pc[q]
         /\ job' \in [Threads -> JobState] /\ \A q \in Threads \ {p} : job'[q] = job[q]
         /\ DOMAIN held' = Threads /\ held'[p] = {} /\ LockInv'
         /\ \A q \in Threads \ {p} : held'[q] = held[q]
<1>1. DOMAIN held' = Threads /\ held'[p] = {} /\ \A q \in Threads \ {p} : held'[q] = held[q]
  BY DEF End, TypeOK
<1>2. LockInv'
  BY <1>1 DEF LockInv
<1>3. job' \in [Threads -> JobState] /\ \A q \in Threads \ {p} : job'[q] = job[q]
  BY NoJobIsJob DEF End, TypeOK
<1> QED BY <1>1, <1>2, <1>3, GotoFacts DEF End, TypeOK

\* A thread at rest promises nothing.
LEMMA IdleAt ==
  ASSUME NEW j, NEW h
  PROVE  At("idle", j, h)
BY DEF At, EventAt, MissionAt, PrizeAt, BatchAt

\* What a thread has locked stays as it has found it.
Respects(h) ==
  /\ \A e \in Events : Key(e) \in h => event'[e] = event[e]
  /\ \A s \in Scans : Entry(s) \in h => credit'[s] = credit[s]
  /\ \A m \in Missions : Row(m) \in h /\ um[m].status # "none" => um'[m] = um[m]
  /\ Claimed \in h => prized' = prized
  /\ \A r \in Receipts : Retro(r) \in h /\ r \in retro' => r \in retro

LEMMA StillAt ==
  ASSUME NEW l, NEW j, NEW h, Respects(h), At(l, j, h)
  PROVE  At(l, j, h)'
<1>1. EventAt(l, j, h)'
  BY EventParts DEF At, EventAt, Respects, Uncredited
<1>2. MissionAt(l, j, h)'
  BY DEF At, MissionAt, Respects
<1>3. PrizeAt(l, h)'
  BY DEF At, PrizeAt, Respects
<1>4. BatchAt(l, j, h)'
  BY DEF At, BatchAt, Respects, Uncredited, Scans
<1> QED BY <1>1, <1>2, <1>3, <1>4 DEF At

\* A step of thread p that leaves the others' rows alone.
LEMMA OtherThreads ==
  ASSUME NEW p \in Threads, ThreadInv,
         \A q \in Threads \ {p} : /\ pc'[q] = pc[q] /\ job'[q] = job[q]
                                  /\ held'[q] = held[q] /\ Respects(held[q]),
         At(pc[p], job[p], held[p])'
  PROVE  ThreadInv'
<1> SUFFICES ASSUME NEW q \in Threads PROVE At(pc[q], job[q], held[q])'
  BY DEF ThreadInv
<1>1. CASE q = p
  BY <1>1
<1>2. CASE q # p
  <2>1. Respects(held[q]) /\ At(pc[q], job[q], held[q])
    BY <1>2 DEF ThreadInv
  <2>2. At(pc[q], job[q], held[q])'
    <3> DEFINE l == pc[q]
               j == job[q]
               h == held[q]
    <3>1. pc'[q] = l /\ job'[q] = j /\ held'[q] = h
      BY <1>2
    <3>2. PICK x, y, z : x = l /\ y = j /\ z = h
      OBVIOUS
    <3>3. At(x, y, z)'
      <4>1. Respects(z) /\ At(x, y, z)
        BY <2>1, <3>2
      <4> HIDE DEF l, j, h
      <4> QED BY <4>1, StillAt
    <3> HIDE DEF l, j, h
    <3> QED BY <3>1, <3>2, <3>3
  <2> QED BY <2>2
<1> QED BY <1>1, <1>2
-----------------------------------------------------------------------------
(* The ledger in a step.                                                   *)

Frozen == {m \in Missions : um[m].frozen}
Batched == Cardinality(retro) + Cardinality(CreditedBy("batch"))
Awarded == IF prized THEN Prize ELSE 0

LEMMA SameProgress ==
  ASSUME RowInv, SeenInv, MissionCounts, UNCHANGED <<event, um>>
  PROVE  RowInv' /\ SeenInv' /\ MissionCounts'
<1>1. \A m : Counted(m)' = Counted(m)
  BY DEF Counted
<1>2. \A m : Values(m)' = Values(m)
  BY <1>1 DEF Values
<1>3. \A m : Units(m)' = Units(m)
  BY <1>1 DEF Units
<1>4. \A m : Expected(m)' = Expected(m)
  BY <1>2, <1>3 DEF Expected
<1>5. RowInv'
  BY DEF RowInv
<1>6. SeenInv'
  BY <1>2 DEF SeenInv
<1>7. MissionCounts'
  BY <1>4 DEF MissionCounts
<1> QED BY <1>5, <1>6, <1>7

LEMMA SameMoney ==
  ASSUME EventOwnsCredit, CabIntegrity, UNCHANGED ledger
  PROVE  EventOwnsCredit' /\ CabIntegrity'
<1>1. EventOwnsCredit'
  BY DEF EventOwnsCredit, ledger
<1>2. /\ SumFunction(Awards)' = SumFunction(Awards)
      /\ SumFunction(Portions)' = SumFunction(Portions)
      /\ \A c : CreditedBy(c)' = CreditedBy(c)
  BY DEF Awards, Portions, CreditedBy, ledger
<1>3. CabIntegrity'
  BY <1>2 DEF CabIntegrity, ledger
<1> QED BY <1>1, <1>3

\* Thread p moves, takes locks that are free and writes no table.
LEMMA ThreadStep ==
  ASSUME IInv, NEW p \in Threads, UNCHANGED ledger, day' \in Nat, LockInv',
         DOMAIN pc' = Threads, DOMAIN held' = Threads, job' \in [Threads -> JobState],
         \A q \in Threads \ {p} : pc'[q] = pc[q] /\ job'[q] = job[q] /\ held'[q] = held[q],
         At(pc'[p], job'[p], held'[p])
  PROVE  IInv'
<1>1. \A h : Respects(h)
  BY DEF Respects, ledger
<1>2. At(pc[p], job[p], held[p])'
  <2>1. PICK l, j, h : l = pc'[p] /\ j = job'[p] /\ h = held'[p]
    OBVIOUS
  <2>2. At(l, j, h)'
    BY <1>1, <2>1, StillAt
  <2> QED BY <2>1, <2>2
<1>3. ThreadInv'
  BY <1>1, <1>2, OtherThreads DEF IInv
<1>4. TypeOK'
  BY DEF IInv, TypeOK, ledger
<1>5. RowInv' /\ SeenInv' /\ EventOwnsCredit' /\ CabIntegrity' /\ MissionCounts'
  BY SameProgress, SameMoney DEF IInv, ledger
<1> QED BY <1>3, <1>4, <1>5 DEF IInv

LEMMA RollbackStep ==
  ASSUME IInv, NEW p \in Threads, Rollback(p), day' = day
  PROVE  IInv'
<1>1. UNCHANGED ledger /\ End(p)
  BY DEF Rollback
<1>2. TypeOK /\ LockInv
  BY DEF IInv
<1>3. At(pc'[p], job'[p], held'[p])
  BY <1>1, <1>2, EndFacts, IdleAt
<1> QED BY <1>1, <1>2, <1>3, EndFacts, ThreadStep DEF TypeOK

\* A step of the world outside: no table of the ledger and no thread moves.
LEMMA WorldStep ==
  ASSUME IInv, UNCHANGED <<ledger, threads>>, day' \in Nat
  PROVE  IInv'
<1>1. TypeOK'
  BY DEF IInv, TypeOK, ledger, threads
<1>2. LockInv' /\ ThreadInv'
  BY DEF IInv, LockInv, ThreadInv, At, EventAt, MissionAt, PrizeAt, BatchAt, Uncredited,
         ledger, threads
<1>3. RowInv' /\ SeenInv' /\ EventOwnsCredit' /\ CabIntegrity' /\ MissionCounts'
  BY SameProgress, SameMoney DEF IInv, ledger
<1> QED BY <1>1, <1>2, <1>3 DEF IInv
-----------------------------------------------------------------------------
(* What the balance was paid for.                                          *)

LEMMA TagsFinite == IsFiniteSet(Tags)
<1> DEFINE f == [s \in Scans |-> Category[s]]
<1>1. f \in Surjection(Scans, Tags)
  BY DEF Surjection, Tags
<1> HIDE DEF f
<1> QED BY <1>1, Constants, FS_Surjection

LEMMA MoneyTypes ==
  ASSUME TypeOK
  PROVE  /\ Awards \in [Events -> Nat] /\ SumFunction(Awards) \in Nat
         /\ Portions \in [Missions -> Nat] /\ SumFunction(Portions) \in Nat
         /\ IsFiniteSet(retro) /\ Cardinality(retro) \in Nat
         /\ \A c : IsFiniteSet(CreditedBy(c)) /\ Cardinality(CreditedBy(c)) \in Nat
         /\ IsFiniteSet(Frozen) /\ Cardinality(Frozen) \in Nat
         /\ Batched \in Nat /\ Awarded \in Nat
<1>1. Awards \in [Events -> Nat]
  BY DEF TypeOK, Awards, EventRow
<1>2. Portions \in [Missions -> Nat]
  BY DEF TypeOK, Portions, UmRow
<1>3. IsFiniteSet(retro) /\ Cardinality(retro) \in Nat
  BY FiniteEvents, FS_Subset, FS_CardinalityType DEF TypeOK
<1>4. ASSUME NEW c PROVE IsFiniteSet(CreditedBy(c)) /\ Cardinality(CreditedBy(c)) \in Nat
  <2>1. CreditedBy(c) \in SUBSET Scans
    BY DEF CreditedBy
  <2> QED BY <2>1, Constants, FS_Subset, FS_CardinalityType
<1>5. IsFiniteSet(Frozen) /\ Cardinality(Frozen) \in Nat
  <2>1. Frozen \in SUBSET Missions
    BY DEF Frozen
  <2> QED BY <2>1, Constants, FS_Subset, FS_CardinalityType
<1>6. SumFunction(Awards) \in Nat
  BY <1>1, FiniteEvents, SumNat
<1>7. SumFunction(Portions) \in Nat
  BY <1>2, Constants, SumNat
<1>8. Batched \in Nat /\ Awarded \in Nat
  BY <1>3, <1>4, Constants DEF Batched, Awarded
<1> QED BY <1>1, <1>2, <1>3, <1>4, <1>5, <1>6, <1>7, <1>8

LEMMA AwardsChange ==
  ASSUME TypeOK, NEW e \in Events, event[e].cab = 0, NEW row \in EventRow,
         event' = [event EXCEPT ![e] = row]
  PROVE  SumFunction(Awards') = SumFunction(Awards) + row.cab
<1> DEFINE f == Awards
           g == Awards'
<1>1. f \in [Events -> Int] /\ g \in [Events -> Int]
  BY DEF TypeOK, Awards, EventRow
<1>2. f[e] = 0 /\ g[e] = row.cab /\ \A x \in Events : x # e => g[x] = f[x]
  BY DEF TypeOK, Awards
<1>3. row.cab \in Nat /\ SumFunction(f) \in Nat
  BY MoneyTypes DEF EventRow
<1> HIDE DEF f, g
<1>4. SumFunction(g) = SumFunction(f) - f[e] + g[e]
  BY <1>1, <1>2, FiniteEvents, SumChange
<1>5. SumFunction(g) = SumFunction(f) + row.cab
  BY <1>2, <1>3, <1>4
<1> QED BY <1>5 DEF f, g

LEMMA PortionsChange ==
  ASSUME TypeOK, NEW m \in Missions, um' \in [Missions -> UmRow],
         \A x \in Missions : x # m => um'[x].portions = um[x].portions
  PROVE  SumFunction(Portions') = SumFunction(Portions) + (um'[m].portions - um[m].portions)
<1> DEFINE f == Portions
           g == Portions'
<1>1. f \in [Missions -> Int] /\ g \in [Missions -> Int]
  BY DEF TypeOK, Portions, UmRow
<1>2. f[m] = um[m].portions /\ g[m] = um'[m].portions
      /\ \A x \in Missions : x # m => g[x] = f[x]
  BY DEF Portions
<1>3. SumFunction(f) \in Nat
  BY MoneyTypes
<1> HIDE DEF f, g
<1>4. SumFunction(g) = SumFunction(f) - f[m] + g[m]
  BY <1>1, <1>2, Constants, SumChange
<1>5. f[m] \in Int /\ g[m] \in Int
  BY <1>1
<1>6. SumFunction(g) = SumFunction(f) + (g[m] - f[m])
  BY <1>3, <1>4, <1>5
<1> QED BY <1>2, <1>6 DEF f, g

LEMMA PortionsSame ==
  ASSUME \A x \in Missions : um'[x].portions = um[x].portions
  PROVE  SumFunction(Portions') = SumFunction(Portions)
<1>1. Portions' = Portions
  BY DEF Portions
<1> QED BY <1>1

LEMMA FrozenSame ==
  ASSUME \A x \in Missions : um'[x].frozen = um[x].frozen
  PROVE  Cardinality(Frozen') = Cardinality(Frozen)
<1>1. Frozen' = Frozen
  BY DEF Frozen
<1> QED BY <1>1

LEMMA CreditedChange ==
  ASSUME TypeOK, NEW s \in Scans, Uncredited(s), NEW c, c # "none",
         credit' = [credit EXCEPT ![s] = c]
  PROVE  /\ Cardinality(CreditedBy(c)') = Cardinality(CreditedBy(c)) + 1
         /\ \A d : d # c /\ d # "none" => Cardinality(CreditedBy(d)') = Cardinality(CreditedBy(d))
<1>1. s \notin CreditedBy(c) /\ CreditedBy(c)' = CreditedBy(c) \cup {s}
  BY DEF TypeOK, CreditedBy, Uncredited
<1>2. IsFiniteSet(CreditedBy(c))
  BY MoneyTypes
<1>3. Cardinality(CreditedBy(c) \cup {s}) = Cardinality(CreditedBy(c)) + 1
  BY <1>1, <1>2, FS_AddElement
<1>4. \A d : d # c /\ d # "none" => CreditedBy(d)' = CreditedBy(d)
  BY DEF TypeOK, CreditedBy, Uncredited
<1> QED BY <1>1, <1>3, <1>4

LEMMA CreditedSame ==
  ASSUME UNCHANGED credit, NEW c
  PROVE  Cardinality(CreditedBy(c)') = Cardinality(CreditedBy(c))
<1>1. CreditedBy(c)' = CreditedBy(c)
  BY DEF CreditedBy
<1> QED BY <1>1

LEMMA Distribute ==
  ASSUME NEW a \in Int, NEW x \in Int, NEW y \in Int
  PROVE  a * x \in Int /\ a * y \in Int /\ a * (x + y) = a * x + a * y
OBVIOUS

\* A step that pays for da coins of events, db batch credits, dm mystery prizes, dp
\* portions, dz of the milestone and df freezes.
LEMMA MoneyMoves ==
  ASSUME TypeOK, CabIntegrity, NEW da \in Int, NEW db \in Int, NEW dm \in Int,
         NEW dp \in Int, NEW dz \in Int, NEW df \in Int,
         SumFunction(Awards') = SumFunction(Awards) + da,
         Batched' = Batched + db,
         Cardinality(CreditedBy("mystery")') = Cardinality(CreditedBy("mystery")) + dm,
         SumFunction(Portions') = SumFunction(Portions) + dp,
         Awarded' = Awarded + dz,
         Cardinality(Frozen') = Cardinality(Frozen) + df,
         bal' = bal + (da + BatchCab * db + MysteryPrize * dm + Reward * dp + dz
                         - FreezeCost * df),
         bal' >= 0
  PROVE  CabIntegrity'
<1> DEFINE a == SumFunction(Awards)
           b == Batched
           c == Cardinality(CreditedBy("mystery"))
           d == SumFunction(Portions)
           z == Awarded
           f == Cardinality(Frozen)
<1>1. /\ a \in Int /\ b \in Int /\ c \in Int /\ d \in Int /\ z \in Int /\ f \in Int
  BY MoneyTypes
<1>2. bal = a + BatchCab * b + MysteryPrize * c + Reward * d + z - FreezeCost * f
  BY DEF CabIntegrity, Batched, Awarded, Frozen
<1>3. /\ a' = a + da /\ b' = b + db /\ c' = c + dm /\ d' = d + dp /\ z' = z + dz
      /\ f' = f + df
  OBVIOUS
<1> HIDE DEF a, b, c, d, z, f
<1>4. /\ BatchCab * b \in Int /\ BatchCab * db \in Int
      /\ BatchCab * (b + db) = BatchCab * b + BatchCab * db
  BY <1>1, Constants, Distribute
<1>5. /\ MysteryPrize * c \in Int /\ MysteryPrize * dm \in Int
      /\ MysteryPrize * (c + dm) = MysteryPrize * c + MysteryPrize * dm
  BY <1>1, Constants, Distribute
<1>6. /\ Reward * d \in Int /\ Reward * dp \in Int
      /\ Reward * (d + dp) = Reward * d + Reward * dp
  BY <1>1, Constants, Distribute
<1>7. /\ FreezeCost * f \in Int /\ FreezeCost * df \in Int
      /\ FreezeCost * (f + df) = FreezeCost * f + FreezeCost * df
  BY <1>1, Constants, Distribute
<1>8. bal' = a' + BatchCab * b' + MysteryPrize * c' + Reward * d' + z' - FreezeCost * f'
  <2>1. PICK B, B1, M, M1, R, R1, F, F1 \in Int :
              /\ B = BatchCab * b /\ B1 = BatchCab * db
              /\ M = MysteryPrize * c /\ M1 = MysteryPrize * dm
              /\ R = Reward * d /\ R1 = Reward * dp
              /\ F = FreezeCost * f /\ F1 = FreezeCost * df
    BY <1>4, <1>5, <1>6, <1>7
  <2>2. bal = a + B + M + R + z - F
    BY <1>2, <2>1
  <2>3. bal' = bal + (da + B1 + M1 + R1 + dz - F1)
    BY <2>1
  <2>4. bal' = (a + da) + (B + B1) + (M + M1) + (R + R1) + (z + dz) - (F + F1)
    <3> HIDE DEF CabIntegrity
    <3> QED BY <1>1, <2>2, <2>3
  <2>5. /\ BatchCab * b' = B + B1 /\ MysteryPrize * c' = M + M1
        /\ Reward * d' = R + R1 /\ FreezeCost * f' = F + F1
    BY <1>3, <1>4, <1>5, <1>6, <1>7, <2>1
  <2> QED BY <1>3, <2>4, <2>5
<1> QED BY <1>8 DEF CabIntegrity, Batched, Awarded, Frozen, a, b, c, d, z, f
-----------------------------------------------------------------------------
(* The progress of the missions.                                           *)

LEMMA ValuesTypes ==
  ASSUME NEW m
  PROVE  /\ Values(m) \subseteq Tags /\ IsFiniteSet(Values(m))
         /\ Units(m) \in [Events -> Nat] /\ SumFunction(Units(m)) \in Nat
         /\ Expected(m) \in Nat
<1>1. Values(m) \in SUBSET Tags
  BY EventParts DEF Values, Counted, Tags
<1>2. IsFiniteSet(Values(m)) /\ Cardinality(Values(m)) \in Nat
  BY <1>1, TagsFinite, FS_Subset, FS_CardinalityType
<1>3. Units(m) \in [Events -> Nat]
  BY QuantityIsNat DEF Units
<1>4. SumFunction(Units(m)) \in Nat
  BY <1>3, FiniteEvents, SumNat
<1> QED BY <1>1, <1>2, <1>3, <1>4 DEF Expected

\* The rows keep what they stand at; a claim may freeze one.
LEMMA ProgressKept ==
  ASSUME TypeOK, SeenInv, MissionCounts, \A m : Counted(m)' = Counted(m),
         \A m \in Missions : /\ um'[m].count = um[m].count /\ um'[m].seen = um[m].seen
                             /\ um[m].status = "claimed" => um'[m].status = "claimed"
  PROVE  SeenInv' /\ MissionCounts'
<1>2. \A m : Values(m)' = Values(m)
  BY DEF Values
<1>3. \A m : Units(m)' = Units(m)
  BY DEF Units
<1>4. \A m : Expected(m)' = Expected(m)
  BY <1>2, <1>3 DEF Expected
<1>5. SeenInv'
  BY <1>2 DEF SeenInv
<1>6. ASSUME NEW m \in Missions
      PROVE  IF um[m].status = "claimed" THEN um[m].count <= Expected(m)
                                         ELSE um[m].count = Expected(m)
  BY DEF MissionCounts
<1>7. \A m \in Missions : Expected(m) \in Nat
  BY ValuesTypes
<1>8. MissionCounts'
  BY <1>4, <1>6, <1>7 DEF MissionCounts
<1> QED BY <1>5, <1>8

\* One event on one row.
LEMMA ProgressedFacts ==
  ASSUME NEW row \in UmRow, row.status = "none" => row = NoRow, NEW e \in Events
  PROVE  LET new == Progressed(row, e) IN
         /\ new \in UmRow /\ new.portions = row.portions /\ new.frozen = row.frozen
         /\ new.status # "none"
         /\ row.status = "claimed" => new = row
         /\ row.status # "claimed" =>
              /\ new.status # "claimed"
              /\ ActionOf(e) # "scan_distinct" =>
                   new.count = row.count + Quantity(e)
              /\ ActionOf(e) = "scan_distinct" /\ row.count = Cardinality(row.seen) =>
                   /\ new.seen = row.seen \cup {Category[e[1]]}
                   /\ new.count = Cardinality(new.seen)
<1> DEFINE old == IF row.status = "none" THEN NewRow ELSE row
           v == Category[e[1]]
           distinct == ActionOf(e) = "scan_distinct"
           c == IF distinct THEN Distinct(old, v) ELSE old.count + Quantity(e)
           full == c >= IF distinct THEN Target ELSE old.target
           new == [old EXCEPT !.count = c, !.status = IF full THEN "completed" ELSE @,
                              !.seen = IF distinct THEN @ \cup {v} ELSE @]
<1>1. /\ old \in UmRow /\ old.portions = row.portions /\ old.frozen = row.frozen
      /\ old.status # "none" /\ old.count = row.count /\ old.seen = row.seen
      /\ (row.status = "claimed" => old = row)
      /\ (old.status = "claimed" => row.status = "claimed")
  BY NoProgress
<1>2. v \in Tags
  BY EventParts DEF Tags
<1>3. IsFiniteSet(old.seen) /\ old.seen \cup {v} \in SUBSET Tags
  BY <1>1, <1>2, TagsFinite, FS_Subset DEF UmRow
<1>4. Distinct(old, v) = Cardinality(old.seen \cup {v}) /\ Distinct(old, v) \in Nat
  BY <1>3, TagsFinite, FS_Subset, FS_CardinalityType DEF Distinct
<1>5. c \in Nat
  <2>1. old.count + Quantity(e) \in Nat
    <3>1. PICK x, y \in Nat : x = old.count /\ y = Quantity(e)
      BY <1>1, QuantityIsNat DEF UmRow
    <3> QED BY <3>1
  <2> QED BY <1>4, <2>1
<1>6. Progressed(row, e) = IF old.status = "claimed" \/ (distinct /\ c = old.count)
                             THEN old ELSE new
  BY DEF Progressed
<1>7. /\ new.portions = old.portions /\ new.frozen = old.frozen /\ new.count = c
      /\ new.status \in {old.status, "completed"}
      /\ new.seen = IF distinct THEN old.seen \cup {v} ELSE old.seen
  <2> HIDE DEF c, full, distinct, old, v
  <2> QED BY <1>1 DEF UmRow
<1>8. new \in UmRow
  <2> HIDE DEF c, full, distinct, old, v
  <2> QED BY <1>1, <1>3, <1>5 DEF UmRow
<1>9. distinct /\ c = old.count /\ old.count = Cardinality(old.seen) =>
        old.seen \cup {v} = old.seen
  <2> SUFFICES ASSUME distinct, c = old.count, old.count = Cardinality(old.seen),
                      v \notin old.seen
               PROVE  FALSE
    <3> HIDE DEF old, v, c
    <3> QED OBVIOUS
  <2>1. Cardinality(old.seen \cup {v}) = Cardinality(old.seen) + 1
    <3> HIDE DEF old, v
    <3> QED BY <1>3, FS_AddElement
  <2>2. Cardinality(old.seen) + 1 = Cardinality(old.seen)
    BY <1>4, <2>1
  <2>3. Cardinality(old.seen) \in Nat
    BY <1>3, FS_CardinalityType
  <2> HIDE DEF old, v
  <2> QED BY <2>2, <2>3
<1> HIDE DEF old, v, new
<1>10. CASE old.status = "claimed"
  BY <1>1, <1>6, <1>10
<1>11. CASE old.status # "claimed" /\ distinct /\ c = old.count
  BY <1>1, <1>4, <1>6, <1>9, <1>11 DEF v
<1>12. CASE old.status # "claimed" /\ ~(distinct /\ c = old.count)
  BY <1>1, <1>4, <1>6, <1>7, <1>8, <1>12 DEF v
<1> QED BY <1>10, <1>11, <1>12
LEMMA UnitsChange ==
  ASSUME NEW m, NEW e \in Events, e \notin Counted(m), Counted(m)' = Counted(m) \cup {e}
  PROVE  SumFunction(Units(m)') = SumFunction(Units(m)) + Quantity(e)
<1> DEFINE f == Units(m)
           g == Units(m)'
<1>1. f \in [Events -> Int] /\ g \in [Events -> Int]
  BY QuantityIsNat DEF Units
<1>2. f[e] = 0 /\ g[e] = Quantity(e) /\ \A x \in Events : x # e => g[x] = f[x]
  BY DEF Units
<1>3. SumFunction(f) \in Nat
  BY ValuesTypes
<1> HIDE DEF f, g
<1>4. SumFunction(g) = SumFunction(f) - f[e] + g[e]
  BY <1>1, <1>2, FiniteEvents, SumChange
<1>5. SumFunction(g) = SumFunction(f) + Quantity(e)
  BY <1>2, <1>3, <1>4, QuantityIsNat
<1> QED BY <1>5 DEF f, g

\* What a mission should stand at when an event is counted for it.
LEMMA ExpectedChange ==
  ASSUME NEW m, NEW e \in Events, e \notin Counted(m), Counted(m)' = Counted(m) \cup {e}
  PROVE  /\ Values(m)' = Values(m) \cup {Category[e[1]]}
         /\ Template[m].action = "scan_distinct" =>
              /\ Expected(m)' = Cardinality(Values(m) \cup {Category[e[1]]})
              /\ Expected(m) = Cardinality(Values(m)) /\ Expected(m) <= Expected(m)'
         /\ Template[m].action # "scan_distinct" => Expected(m)' = Expected(m) + Quantity(e)
<1>1. Values(m)' = Values(m) \cup {Category[e[1]]}
  BY DEF Values
<1>2. CASE Template[m].action = "scan_distinct"
  <2>1. Expected(m) = Cardinality(Values(m)) /\ Expected(m)' = Cardinality(Values(m)')
    BY <1>2 DEF Expected
  <2>2. Cardinality(Values(m)) <= Cardinality(Values(m) \cup {Category[e[1]]})
    <3>1. PICK V, v : V = Values(m) /\ v = Category[e[1]]
      OBVIOUS
    <3>2. IsFiniteSet(V)
      BY <3>1, ValuesTypes
    <3>3. Cardinality(V) <= Cardinality(V \cup {v})
      <4>1. Cardinality(V) \in Nat
        BY <3>2, FS_CardinalityType
      <4>2. Cardinality(V \cup {v}) \in {Cardinality(V), Cardinality(V) + 1}
        BY <3>2, FS_AddElement
      <4> QED BY <4>1, <4>2
    <3> QED BY <3>1, <3>3
  <2> QED BY <1>1, <1>2, <2>1, <2>2
<1>3. CASE Template[m].action # "scan_distinct"
  <2>1. Expected(m) = SumFunction(Units(m)) /\ Expected(m)' = SumFunction(Units(m)')
    BY <1>3 DEF Expected
  <2> QED BY <1>1, <1>3, <2>1, UnitsChange
<1> QED BY <1>2, <1>3

LEMMA EventCounts ==
  ASSUME TypeOK, RowInv, SeenInv, MissionCounts, NEW e \in Events,
         event[e].status = "none", NEW d \in Nat, NEW cab \in Nat,
         event' = [event EXCEPT ![e] = [status |-> "processed", day |-> d, cab |-> cab]],
         um' = [m \in Missions |-> IF Matches(m, e) /\ d = 0 THEN Progressed(um[m], e)
                                                             ELSE um[m]]
  PROVE  /\ um' \in [Missions -> UmRow]
         /\ \A m \in Missions : /\ um'[m].portions = um[m].portions
                                /\ um'[m].frozen = um[m].frozen
         /\ RowInv' /\ SeenInv' /\ MissionCounts'
<1>1. \A m \in Missions : um[m] \in UmRow /\ (um[m].status = "none" => um[m] = NoRow)
  BY DEF TypeOK, RowInv
<1>2. ASSUME NEW m \in Missions, Matches(m, e), d = 0
      PROVE  /\ um'[m] \in UmRow /\ um'[m].portions = um[m].portions
             /\ um'[m].frozen = um[m].frozen /\ um'[m].status # "none"
             /\ um[m].status = "claimed" => um'[m] = um[m]
             /\ um[m].status # "claimed" =>
                  /\ um'[m].status # "claimed"
                  /\ ActionOf(e) # "scan_distinct" =>
                       um'[m].count = um[m].count + Quantity(e)
                  /\ ActionOf(e) = "scan_distinct" /\ um[m].count = Cardinality(um[m].seen) =>
                       /\ um'[m].seen = um[m].seen \cup {Category[e[1]]}
                       /\ um'[m].count = Cardinality(um'[m].seen)
  <2>1. um'[m] = Progressed(um[m], e)
    BY <1>2
  <2>2. PICK row : row = um[m]
    OBVIOUS
  <2>3. row \in UmRow /\ (row.status = "none" => row = NoRow)
    BY <1>1, <2>2
  <2> QED BY <2>1, <2>2, <2>3, ProgressedFacts
<1>3. \A m \in Missions : ~(Matches(m, e) /\ d = 0) => um'[m] = um[m]
  OBVIOUS
<1>4. um' \in [Missions -> UmRow]
  <2>1. \A m \in Missions : um'[m] \in UmRow
    BY <1>1, <1>2, <1>3
  <2>2. um' = [m \in Missions |-> um'[m]]
    OBVIOUS
  <2> HIDE DEF UmRow
  <2> QED BY <2>1, <2>2
<1>5. \A m \in Missions : um'[m].portions = um[m].portions /\ um'[m].frozen = um[m].frozen
  BY <1>2, <1>3
<1>6. event'[e] = [status |-> "processed", day |-> d, cab |-> cab]
      /\ \A x \in Events : x # e => event'[x] = event[x]
  BY DEF TypeOK
<1>7. RowInv'
  <2>1. \A x \in Events : event'[x].status # "processed" => event'[x].cab = 0
    BY <1>6 DEF RowInv
  <2>2. \A m \in Missions : um'[m].status = "none" => um'[m] = NoRow
    BY <1>1, <1>2, <1>3
  <2> QED BY <2>1, <2>2 DEF RowInv
<1>8. ASSUME NEW m \in Missions
      PROVE  IF Matches(m, e) /\ d = 0
               THEN e \notin Counted(m) /\ Counted(m)' = Counted(m) \cup {e}
               ELSE Counted(m)' = Counted(m)
  BY <1>6 DEF Counted
<1>9. ASSUME NEW m \in Missions, Matches(m, e), d = 0
      PROVE  /\ Template[m].action = "scan_distinct" /\ um'[m].status # "claimed" =>
                   um'[m].seen = Values(m)'
             /\ IF um'[m].status = "claimed" THEN um'[m].count <= Expected(m)'
                                             ELSE um'[m].count = Expected(m)'
  <2>1. e \notin Counted(m) /\ Counted(m)' = Counted(m) \cup {e}
    BY <1>8, <1>9
  <2>2. Template[m].action = ActionOf(e)
    BY <1>9 DEF Matches
  <2>3. IF um[m].status = "claimed" THEN um[m].count <= Expected(m)
                                    ELSE um[m].count = Expected(m)
    BY DEF MissionCounts
  <2>4. Expected(m) \in Nat /\ um[m].count \in Nat
    BY <1>1, ValuesTypes DEF UmRow
  <2>5. Quantity(e) \in Nat
    BY QuantityIsNat
  <2>6. CASE um[m].status = "claimed"
    <3>1. um'[m] = um[m]
      BY <1>2, <1>9, <2>6
    <3>2. Expected(m) <= Expected(m)' /\ Expected(m)' \in Int
      <4>1. CASE Template[m].action = "scan_distinct"
        <5>1. IsFiniteSet(Values(m) \cup {Category[e[1]]})
          BY ValuesTypes, FS_AddElement
        <5> QED BY <2>1, <4>1, <5>1, ExpectedChange, FS_CardinalityType
      <4>2. CASE Template[m].action # "scan_distinct"
        <5>1. Expected(m)' = Expected(m) + Quantity(e)
          BY <2>1, <4>2, ExpectedChange
        <5> QED BY <2>4, <2>5, <5>1
      <4> QED BY <4>1, <4>2
    <3> QED BY <2>3, <2>4, <2>6, <3>1, <3>2
  <2>7. CASE um[m].status # "claimed" /\ Template[m].action = "scan_distinct"
    <3>1. um[m].seen = Values(m)
      BY <2>7 DEF SeenInv
    <3>2. um[m].count = Cardinality(um[m].seen)
      BY <2>1, <2>3, <2>7, <3>1, ExpectedChange
    <3>3. /\ um'[m].seen = um[m].seen \cup {Category[e[1]]}
          /\ um'[m].count = Cardinality(um'[m].seen) /\ um'[m].status # "claimed"
      BY <1>2, <1>9, <2>2, <2>7, <3>2
    <3>4. Values(m)' = Values(m) \cup {Category[e[1]]}
      BY <2>1, ExpectedChange
    <3>5. Expected(m)' = Cardinality(Values(m) \cup {Category[e[1]]})
      BY <2>1, <2>7, ExpectedChange
    <3> QED BY <3>1, <3>3, <3>4, <3>5
  <2>8. CASE um[m].status # "claimed" /\ Template[m].action # "scan_distinct"
    <3>1. um'[m].status # "claimed" /\ um'[m].count = um[m].count + Quantity(e)
      BY <1>2, <1>9, <2>2, <2>8
    <3>2. Expected(m)' = Expected(m) + Quantity(e)
      BY <2>1, <2>8, ExpectedChange
    <3> QED BY <2>3, <2>8, <3>1, <3>2
  <2> QED BY <2>6, <2>7, <2>8
<1>10. ASSUME NEW m \in Missions, ~(Matches(m, e) /\ d = 0)
       PROVE  Values(m)' = Values(m) /\ Expected(m)' = Expected(m) /\ um'[m] = um[m]
  <2>1. Counted(m)' = Counted(m)
    BY <1>8, <1>10
  <2>2. Values(m)' = Values(m) /\ Units(m)' = Units(m)
    BY <2>1 DEF Values, Units
  <2> QED BY <1>3, <1>10, <2>2 DEF Expected
<1>11. SeenInv'
  BY <1>9, <1>10 DEF SeenInv
<1>12. MissionCounts'
  BY <1>9, <1>10 DEF MissionCounts
<1> QED BY <1>4, <1>5, <1>7, <1>11, <1>12
-----------------------------------------------------------------------------
(* The steps of an event.                                                  *)

LEMMA Exclusive ==
  ASSUME LockInv, NEW p \in Threads, NEW q \in Threads \ {p}, NEW l, l \in held[p]
  PROVE  l \notin held[q]
BY DEF LockInv

LEMMA IdleNext ==
  ASSUME NEW p \in Threads, pc'[p] = "idle"
  PROVE  At(pc[p], job[p], held[p])'
BY DEF At, EventAt, MissionAt, PrizeAt, BatchAt

\* The commit of thread p: it has written nothing that another one has locked.
LEMMA EndStep ==
  ASSUME IInv, NEW p \in Threads, End(p), TypeOK',
         \A q \in Threads \ {p} : Respects(held[q]),
         RowInv', SeenInv', EventOwnsCredit', CabIntegrity', MissionCounts'
  PROVE  IInv'
<1>1. TypeOK /\ LockInv /\ ThreadInv
  BY DEF IInv
<1>2. ThreadInv'
  BY <1>1, EndFacts, IdleNext, OtherThreads
<1>3. LockInv'
  BY <1>1, EndFacts
<1> QED BY <1>2, <1>3 DEF IInv

LEMMA EventInsertStep ==
  ASSUME IInv, NEW p \in Servers, NEW e \in Events, EventInsert(p, e)
  PROVE  IInv'
<1> p \in Threads
  BY DEF Threads
<1>0. /\ pc[p] = "idle" /\ Free(p, Key(e)) /\ day' = day /\ banned' = banned
      /\ UNCHANGED <<credit, retro, bal, um, challenge, prized, found>>
  BY DEF EventInsert
<1>1. /\ TypeOK /\ LockInv /\ ThreadInv /\ RowInv /\ SeenInv /\ EventOwnsCredit
      /\ CabIntegrity /\ MissionCounts
  BY DEF IInv
<1>2. CASE Seen(e)
  <2>1. UNCHANGED <<event, threads>>
    BY <1>2 DEF EventInsert
  <2> QED BY <1>0, <1>1, <2>1, WorldStep DEF ledger, TypeOK
<1>3. CASE ~Seen(e) /\ banned
  <2> DEFINE row == [status |-> "skipped", day |-> day, cab |-> 0]
  <2>1. event' = [event EXCEPT ![e] = row] /\ UNCHANGED threads
    BY <1>3 DEF EventInsert
  <2>2. event[e].status = "none" /\ event[e].cab = 0
    BY <1>1, <1>3 DEF Seen, RowInv
  <2>3. row \in EventRow /\ row.cab = 0 /\ row.status = "skipped"
    BY <1>1 DEF TypeOK, EventRow
  <2> HIDE DEF row
  <2>4. TypeOK'
    BY <1>0, <1>1, <2>1, <2>3 DEF TypeOK, threads
  <2>5. event'[e] = row /\ \A x \in Events : x # e => event'[x] = event[x]
    BY <1>1, <2>1 DEF TypeOK
  <2>6. ThreadInv'
    <3>1. \A q \in Threads \ {p} : Respects(held[q])
      BY <1>0, <2>5 DEF Respects, Free
    <3>2. At(pc[p], job[p], held[p])'
      BY <1>0, <2>1, IdleNext DEF threads
    <3> QED BY <1>1, <2>1, <3>1, <3>2, OtherThreads DEF threads
  <2>7. \A m : Counted(m)' = Counted(m)
    BY <2>2, <2>3, <2>5 DEF Counted
  <2>8. SeenInv' /\ MissionCounts'
    BY <1>0, <1>1, <2>7, ProgressKept
  <2>9. RowInv' /\ EventOwnsCredit'
    BY <1>0, <1>1, <2>3, <2>5 DEF RowInv, EventOwnsCredit
  <2>10. CabIntegrity'
    <3>1. SumFunction(Awards') = SumFunction(Awards) + 0
      BY <1>1, <2>1, <2>2, <2>3, AwardsChange
    <3>2. SumFunction(Portions)' = SumFunction(Portions)
          /\ \A c : CreditedBy(c)' = CreditedBy(c)
      BY <1>0 DEF Portions, CreditedBy
    <3>3. SumFunction(Awards') = SumFunction(Awards)
      BY <1>1, <3>1, MoneyTypes
    <3> QED BY <1>0, <1>1, <3>2, <3>3 DEF CabIntegrity
  <2>11. LockInv'
    BY <1>1, <2>1 DEF LockInv, threads
  <2> QED BY <2>4, <2>6, <2>8, <2>9, <2>10, <2>11 DEF IInv
<1>4. CASE ~Seen(e) /\ ~banned
  <2>1. /\ Goto(p, IF Amount(e) > 0 THEN "award" ELSE "missions")
        /\ job' = [job EXCEPT ![p].e = e, ![p].day = day, ![p].cab = Amount(e)]
        /\ Take(p, {Key(e)}) /\ event' = event
    BY <1>4 DEF EventInsert
  <2>2. job' \in [Threads -> JobState] /\ job'[p].e = e /\ job'[p].cab = Amount(e)
        /\ \A q \in Threads \ {p} : job'[q] = job[q]
    <3>1. PICK j : j = job'[p]
      OBVIOUS
    <3>2. PICK a \in Nat : a = Amount(e)
      BY AmountIsNat
    <3>3. job[p] \in JobState /\ DOMAIN job = Threads /\ day \in Nat
      BY <1>1 DEF TypeOK
    <3>4. j = [job[p] EXCEPT !.e = e, !.day = day, !.cab = a]
      BY <2>1, <3>1, <3>2, <3>3
    <3>5. j \in JobState /\ j.e = e /\ j.cab = a
      BY <3>3, <3>4 DEF JobState
    <3>6. /\ DOMAIN job' = Threads /\ job' = [q \in Threads |-> job'[q]]
          /\ \A q \in Threads \ {p} : job'[q] = job[q]
      BY <2>1, <3>3
    <3> QED BY <1>1, <3>1, <3>2, <3>5, <3>6 DEF TypeOK
  <2>3. /\ DOMAIN held' = Threads /\ held'[p] = held[p] \cup {Key(e)} /\ LockInv'
        /\ \A q \in Threads \ {p} : held'[q] = held[q]
    BY <1>0, <1>1, <2>1, TakeFacts
  <2>4. /\ DOMAIN pc' = Threads /\ \A q \in Threads \ {p} : pc'[q] = pc[q]
        /\ pc'[p] = IF Amount(e) > 0 THEN "award" ELSE "missions"
    BY <1>1, <2>1, GotoFacts DEF TypeOK
  <2>5. At(pc'[p], job'[p], held'[p])
    <3>1. EventAt(pc'[p], job'[p], held'[p])
      BY <1>4, <2>2, <2>3, <2>4, AmountIsNat DEF EventAt, Seen
    <3> QED BY <2>4, <3>1 DEF At, MissionAt, PrizeAt, BatchAt
  <2> QED BY <1>0, <1>1, <2>1, <2>2, <2>3, <2>4, <2>5, ThreadStep DEF ledger, TypeOK
<1> QED BY <1>2, <1>3, <1>4

LEMMA EventAwardStep ==
  ASSUME IInv, NEW p \in Servers, EventAward(p)
  PROVE  IInv'
<1> p \in Threads
  BY DEF Threads
<1>1. TypeOK /\ LockInv /\ At(pc[p], job[p], held[p])
  BY DEF IInv, ThreadInv
<1>2. /\ pc[p] = "award" /\ Free(p, Account) /\ Take(p, {Account}) /\ Goto(p, "ledger")
      /\ UNCHANGED ledger /\ job' = job /\ day' = day
  BY DEF EventAward, world
<1>3. /\ DOMAIN held' = Threads /\ held'[p] = held[p] \cup {Account} /\ LockInv'
      /\ \A q \in Threads \ {p} : held'[q] = held[q]
  BY <1>1, <1>2, TakeFacts
<1>4. /\ DOMAIN pc' = Threads /\ pc'[p] = "ledger" /\ \A q \in Threads \ {p} : pc'[q] = pc[q]
  BY <1>1, <1>2, GotoFacts DEF TypeOK
<1>5. At(pc'[p], job'[p], held'[p])
  BY <1>1, <1>2, <1>3, <1>4 DEF At, EventAt, MissionAt, PrizeAt, BatchAt
<1> QED BY <1>1, <1>2, <1>3, <1>4, <1>5, ThreadStep DEF TypeOK

LEMMA EventLedgerStep ==
  ASSUME IInv, NEW p \in Servers, EventLedger(p)
  PROVE  IInv'
<1> DEFINE e == job[p].e
<1> p \in Threads
  BY DEF Threads
<1>1. TypeOK /\ LockInv /\ At(pc[p], job[p], held[p])
  BY DEF IInv, ThreadInv
<1>2. pc[p] = "ledger" /\ (\A l \in References(e) : Free(p, l)) /\ day' = day
  BY DEF EventLedger, world
<1>3. CASE Refused(e)
  BY <1>2, <1>3, RollbackStep DEF EventLedger
<1>4. CASE ~Refused(e)
  <2>1. Take(p, References(e)) /\ Goto(p, "missions") /\ UNCHANGED <<ledger, job>>
    BY <1>4 DEF EventLedger
  <2>2. /\ DOMAIN held' = Threads /\ held'[p] = held[p] \cup References(e) /\ LockInv'
        /\ \A q \in Threads \ {p} : held'[q] = held[q]
    BY <1>1, <1>2, <2>1, TakeFacts
  <2>3. /\ DOMAIN pc' = Threads /\ pc'[p] = "missions"
        /\ \A q \in Threads \ {p} : pc'[q] = pc[q]
    BY <1>1, <2>1, GotoFacts DEF TypeOK
  <2>4. At(pc'[p], job'[p], held'[p])
    <3>1. ScanClass(e) => Entry(e[1]) \in held'[p] /\ Uncredited(e[1])
      BY <1>4, <2>2 DEF Refused, References
    <3> QED BY <1>1, <1>2, <2>1, <2>2, <2>3, <3>1
            DEF At, EventAt, MissionAt, PrizeAt, BatchAt
  <2> QED BY <1>1, <1>2, <2>1, <2>2, <2>3, <2>4, ThreadStep DEF TypeOK
<1> QED BY <1>3, <1>4
\* Who pays for the scan of a committed event: the award of the event itself, the
\* mystery prize, or neither.
LEMMA CreditCases ==
  ASSUME TypeOK, EventOwnsCredit, NEW p \in Threads, At(pc[p], job[p], held[p]),
         pc[p] = "missions", NEW e \in Events, e = job[p].e, NEW cab \in Nat,
         cab = job[p].cab, ~PrizeRefused(e, cab), \A l \in TailLocks(e, cab) : Free(p, l),
         credit' = [credit EXCEPT ![e[1]] = Creditor(e, cab)]
  PROVE  /\ credit' \in [Scans -> Creditors]
         /\ \A q \in Threads \ {p} : LockInv /\ Entry(e[1]) \in held[q] => credit' = credit
         /\ \A s \in Scans : s # e[1] => credit'[s] = credit[s]
         /\ ~Uncredited(e[1]) => credit' = credit
         /\ ScanClass(e) /\ cab > 0 => credit'[e[1]] = e[2]
         /\ PrizeOf(e) \in Nat
         /\ Cardinality(CreditedBy("batch")') = Cardinality(CreditedBy("batch"))
         /\ \E dm \in Int :
              /\ PrizeOf(e) = MysteryPrize * dm
              /\ Cardinality(CreditedBy("mystery")') = Cardinality(CreditedBy("mystery")) + dm
<1>0. e[1] \in Scans /\ e[2] \in EventKinds
  BY EventParts
<1>1. PrizeOf(e) \in {0, MysteryPrize} /\ PrizeOf(e) \in Nat
  BY Constants DEF PrizeOf
<1>2. CASE ScanClass(e) /\ cab > 0
  <2>1. Entry(e[1]) \in held[p] /\ Uncredited(e[1])
    BY <1>2 DEF At, EventAt
  <2>2. PrizeOf(e) = 0
    BY <1>1, <1>2, Constants DEF PrizeRefused
  <2>3. credit' = [credit EXCEPT ![e[1]] = e[2]]
    <3>1. ~(PrizeOf(e) > 0)
      BY <2>2
    <3> QED BY <1>2, <3>1 DEF Creditor
  <2>4. e[2] \notin {"none", "batch", "mystery"} /\ e[2] \in Creditors
    BY <1>0 DEF EventKinds, LabelKinds, Creditors
  <2>5. /\ Cardinality(CreditedBy("batch")') = Cardinality(CreditedBy("batch"))
        /\ Cardinality(CreditedBy("mystery")') = Cardinality(CreditedBy("mystery"))
    <3>1. PICK s \in Scans, c \in EventKinds : s = e[1] /\ c = e[2]
      BY <1>0
    <3>2. c \notin {"none", "batch", "mystery"} /\ Uncredited(s)
          /\ credit' = [credit EXCEPT ![s] = c]
      BY <2>1, <2>3, <2>4, <3>1
    <3>3. \A x : x # c /\ x # "none" =>
                 Cardinality(CreditedBy(x)') = Cardinality(CreditedBy(x))
      BY <3>2, CreditedChange
    <3> QED BY <3>2, <3>3
  <2>6. \A q \in Threads \ {p} : LockInv => Entry(e[1]) \notin held[q]
    BY <2>1, Exclusive
  <2>7. /\ PrizeOf(e) = MysteryPrize * 0
        /\ Cardinality(CreditedBy("mystery")') = Cardinality(CreditedBy("mystery")) + 0
    BY <2>2, <2>5, Constants, MoneyTypes
  <2> QED BY <1>0, <1>1, <2>1, <2>3, <2>4, <2>5, <2>6, <2>7 DEF TypeOK
<1>3. CASE PrizeOf(e) > 0
  <2>1. ScanClass(e) /\ cab = 0 /\ Uncredited(e[1]) /\ PrizeOf(e) = MysteryPrize
    BY <1>1, <1>3 DEF PrizeRefused, PrizeOf, Finds
  <2>2. credit' = [credit EXCEPT ![e[1]] = "mystery"]
    BY <1>3, <2>1 DEF Creditor
  <2>3. Free(p, Entry(e[1]))
    BY <1>3, <2>1 DEF TailLocks
  <2>4. /\ Cardinality(CreditedBy("batch")') = Cardinality(CreditedBy("batch"))
        /\ Cardinality(CreditedBy("mystery")') = Cardinality(CreditedBy("mystery")) + 1
    <3>1. PICK s \in Scans : s = e[1]
      BY <1>0
    <3>2. Uncredited(s) /\ credit' = [credit EXCEPT ![s] = "mystery"]
      BY <2>1, <2>2, <3>1
    <3>3. /\ Cardinality(CreditedBy("mystery")') = Cardinality(CreditedBy("mystery")) + 1
          /\ \A x : x # "mystery" /\ x # "none" =>
                 Cardinality(CreditedBy(x)') = Cardinality(CreditedBy(x))
      BY <3>2, CreditedChange
    <3> QED BY <3>3
  <2>5. PrizeOf(e) = MysteryPrize * 1
    BY <2>1, Constants
  <2>6. "mystery" \in Creditors
    BY DEF Creditors
  <2> QED BY <1>0, <1>1, <2>1, <2>2, <2>3, <2>4, <2>5, <2>6 DEF TypeOK, Free
<1>4. CASE ~(ScanClass(e) /\ cab > 0) /\ ~(PrizeOf(e) > 0)
  <2>1. Creditor(e, cab) = credit[e[1]]
    BY <1>4 DEF Creditor
  <2>2. credit' = credit
    BY <1>0, <2>1 DEF TypeOK
  <2>3. \A c : Cardinality(CreditedBy(c)') = Cardinality(CreditedBy(c))
    BY <2>2, CreditedSame
  <2>4. PrizeOf(e) = 0
    BY <1>1, <1>4, Constants
  <2>5. /\ PrizeOf(e) = MysteryPrize * 0
        /\ Cardinality(CreditedBy("mystery")') = Cardinality(CreditedBy("mystery")) + 0
    BY <2>3, <2>4, Constants, MoneyTypes
  <2> QED BY <1>0, <1>1, <1>4, <2>2, <2>3, <2>5 DEF TypeOK
<1> QED BY <1>2, <1>3, <1>4

LEMMA EventCommitStep ==
  ASSUME IInv, NEW p \in Servers, EventCommit(p)
  PROVE  IInv'
<1> DEFINE e == job[p].e
           cab == job[p].cab
           d == job[p].day
           row == [status |-> "processed", day |-> d, cab |-> cab]
<1> p \in Threads
  BY DEF Threads
<1>1. /\ TypeOK /\ LockInv /\ ThreadInv /\ RowInv /\ SeenInv /\ EventOwnsCredit
      /\ CabIntegrity /\ MissionCounts /\ At(pc[p], job[p], held[p])
  BY DEF IInv, ThreadInv
<1>2. /\ pc[p] = "missions" /\ (\A l \in TailLocks(e, cab) : Free(p, l)) /\ day' = day
  BY DEF EventCommit, world
<1>3. CASE PrizeRefused(e, cab)
  BY <1>2, <1>3, RollbackStep DEF EventCommit
<1>4. CASE ~PrizeRefused(e, cab)
  <2>1. /\ event' = [event EXCEPT ![e] = row]
        /\ credit' = [credit EXCEPT ![e[1]] = Creditor(e, cab)]
        /\ bal' = bal + cab + PrizeOf(e)
        /\ um' = [m \in Missions |-> IF Matches(m, e) /\ d = 0
                                       THEN Progressed(um[m], e) ELSE um[m]]
        /\ challenge' \in {challenge, challenge + 1}
        /\ End(p) /\ UNCHANGED <<retro, prized>>
    BY <1>4 DEF EventCommit, Period
  <2>2. e \in Events /\ Key(e) \in held[p] /\ event[e].status = "none"
    BY <1>1, <1>2 DEF At, EventAt
  <2>3. cab \in Nat /\ d \in Nat /\ event[e].cab = 0
    BY <1>1, <2>2 DEF TypeOK, JobState, RowInv
  <2>4. row \in EventRow /\ row.cab = cab
    BY <2>3 DEF EventRow
  <2>5. /\ um' \in [Missions -> UmRow]
        /\ \A m \in Missions : /\ um'[m].portions = um[m].portions
                               /\ um'[m].frozen = um[m].frozen
        /\ RowInv' /\ SeenInv' /\ MissionCounts'
    <3> HIDE DEF e, d, cab
    <3> QED BY <1>1, <2>1, <2>2, <2>3, EventCounts
  <2>6. /\ credit' \in [Scans -> Creditors]
        /\ \A q \in Threads \ {p} : Entry(e[1]) \in held[q] => credit' = credit
        /\ \A s \in Scans : s # e[1] => credit'[s] = credit[s]
        /\ ~Uncredited(e[1]) => credit' = credit
        /\ ScanClass(e) /\ cab > 0 => credit'[e[1]] = e[2]
        /\ PrizeOf(e) \in Nat
        /\ Cardinality(CreditedBy("batch")') = Cardinality(CreditedBy("batch"))
    BY <1>1, <1>2, <1>4, <2>1, <2>2, <2>3, CreditCases
  <2>7. PICK dm \in Int :
              /\ PrizeOf(e) = MysteryPrize * dm
              /\ Cardinality(CreditedBy("mystery")') = Cardinality(CreditedBy("mystery")) + dm
    BY <1>1, <1>2, <1>4, <2>1, <2>2, <2>3, CreditCases
  <2>8. event'[e] = row /\ \A x \in Events : x # e => event'[x] = event[x]
    BY <1>1, <2>1, <2>2 DEF TypeOK
  <2>9. TypeOK'
    <3>1. event' \in [Events -> EventRow]
      BY <1>1, <2>1, <2>2, <2>4 DEF TypeOK
    <3>2. bal' \in Int /\ challenge' \in Nat
      BY <1>1, <2>1, <2>3, <2>6 DEF TypeOK
    <3>3. DOMAIN pc' = Threads /\ DOMAIN held' = Threads /\ job' \in [Threads -> JobState]
      BY <1>1, <2>1, EndFacts
    <3> QED BY <1>1, <1>2, <2>1, <2>5, <2>6, <3>1, <3>2, <3>3 DEF TypeOK
  <2>10. ASSUME NEW q \in Threads \ {p} PROVE Respects(held[q])
    <3>1. \A x \in Events : Key(x) \in held[q] => event'[x] = event[x]
      <4>1. Key(e) \notin held[q]
        BY <1>1, <2>2, Exclusive
      <4> QED BY <2>8, <4>1
    <3>2. \A s \in Scans : Entry(s) \in held[q] => credit'[s] = credit[s]
      BY <2>6
    <3>3. \A m \in Missions : Row(m) \in held[q] => um'[m] = um[m]
      <4>1. \A m \in Missions : Matches(m, e) => Row(m) \notin held[q]
        BY <1>2 DEF TailLocks, Free
      <4> QED BY <2>1, <4>1
    <3> QED BY <2>1, <3>1, <3>2, <3>3 DEF Respects
  <2>11. EventOwnsCredit'
    <3> SUFFICES ASSUME NEW x \in Events, event'[x].cab > 0, ScanClass(x)
                 PROVE  credit'[x[1]] = x[2]
      BY DEF EventOwnsCredit, ScanClass, ActionOf
    <3>1. CASE x = e
      BY <2>4, <2>6, <2>8, <3>1
    <3>2. CASE x # e
      <4>1. credit[x[1]] = x[2] /\ x[1] \in Scans /\ x[2] # "none"
        BY <1>1, <2>8, <3>2, EventParts DEF EventOwnsCredit, EventKinds, LabelKinds
      <4> QED BY <2>6, <4>1 DEF Uncredited
    <3> QED BY <3>1, <3>2
  <2>12. CabIntegrity'
    <3>1. SumFunction(Awards') = SumFunction(Awards) + cab
      BY <1>1, <2>1, <2>2, <2>3, <2>4, AwardsChange
    <3>2. SumFunction(Portions') = SumFunction(Portions) + 0
          /\ Cardinality(Frozen') = Cardinality(Frozen) + 0
      BY <1>1, <2>5, PortionsSame, FrozenSame, MoneyTypes
    <3>3. Batched' = Batched + 0 /\ Awarded' = Awarded + 0
      BY <1>1, <2>1, <2>6, MoneyTypes DEF Batched, Awarded
    <3>4. bal \in Int /\ bal >= 0
      BY <1>1 DEF TypeOK, CabIntegrity
    <3>5. bal' >= 0
      BY <2>1, <2>3, <2>6, <3>4
    <3>6. bal' = bal + (cab + BatchCab * 0 + MysteryPrize * dm + Reward * 0 + 0
                          - FreezeCost * 0)
      <4>1. BatchCab * 0 = 0 /\ Reward * 0 = 0 /\ FreezeCost * 0 = 0
        BY Constants
      <4> QED BY <2>1, <2>3, <2>6, <2>7, <3>4, <4>1
    <3> HIDE DEF cab, e, row
    <3> QED BY <1>1, <2>3, <2>7, <3>1, <3>2, <3>3, <3>5, <3>6, MoneyMoves
  <2> QED BY <2>1, <2>5, <2>9, <2>10, <2>11, <2>12, EndStep
<1> QED BY <1>3, <1>4
-----------------------------------------------------------------------------
(* The steps of the missions.                                              *)

LEMMA GetMissionsStep ==
  ASSUME IInv, NEW p \in Servers, GetMissions(p)
  PROVE  IInv'
<1> p \in Threads
  BY DEF Threads
<1>1. TypeOK /\ LockInv
  BY DEF IInv
<1>2. /\ Goto(p, "generate") /\ UNCHANGED <<ledger, job, held>> /\ day' = day
  BY DEF GetMissions, world
<1>3. /\ DOMAIN pc' = Threads /\ pc'[p] = "generate"
      /\ \A q \in Threads \ {p} : pc'[q] = pc[q]
  BY <1>1, <1>2, GotoFacts DEF TypeOK
<1>4. At(pc'[p], job'[p], held'[p])
  BY <1>3 DEF At, EventAt, MissionAt, PrizeAt, BatchAt
<1>5. LockInv'
  BY <1>1, <1>2 DEF LockInv
<1> QED BY <1>1, <1>2, <1>3, <1>4, <1>5, ThreadStep DEF TypeOK

\* Neither the events nor the money move.
LEMMA StillMoney ==
  ASSUME TypeOK, CabIntegrity, UNCHANGED <<event, credit, retro, bal, prized>>,
         \A m \in Missions : um'[m].portions = um[m].portions /\ um'[m].frozen = um[m].frozen
  PROVE  CabIntegrity'
<1>1. SumFunction(Awards)' = SumFunction(Awards) /\ \A c : CreditedBy(c)' = CreditedBy(c)
  BY DEF Awards, CreditedBy
<1>2. SumFunction(Portions)' = SumFunction(Portions)
  BY PortionsSame
<1>3. Cardinality(Frozen)' = Cardinality(Frozen)
  BY FrozenSame
<1> QED BY <1>1, <1>2, <1>3 DEF CabIntegrity, Frozen

LEMMA GenerateMissionsStep ==
  ASSUME IInv, NEW p \in Servers, GenerateMissions(p)
  PROVE  IInv'
<1> p \in Threads
  BY DEF Threads
<1>1. /\ TypeOK /\ LockInv /\ RowInv /\ SeenInv /\ EventOwnsCredit /\ CabIntegrity
      /\ MissionCounts
  BY DEF IInv
<1>2. PICK G \in SUBSET Missions :
        um' = [m \in Missions |-> IF m \in G /\ um[m].status = "none" THEN NewRow ELSE um[m]]
  BY DEF GenerateMissions
<1>3. End(p) /\ UNCHANGED <<event, credit, retro, bal, challenge, prized>> /\ day' = day
  BY DEF GenerateMissions, world
<1>4. ASSUME NEW m \in Missions
      PROVE  /\ um'[m] \in UmRow /\ um'[m].portions = um[m].portions
             /\ um'[m].frozen = um[m].frozen /\ um'[m].count = um[m].count
             /\ um'[m].seen = um[m].seen
             /\ um[m].status # "none" => um'[m] = um[m]
             /\ um'[m].status = "none" => um'[m] = NoRow
  <2>1. um[m] \in UmRow /\ (um[m].status = "none" => um[m] = NoRow)
    BY <1>1 DEF TypeOK, RowInv
  <2>2. um'[m] = IF m \in G /\ um[m].status = "none" THEN NewRow ELSE um[m]
    BY <1>2
  <2> QED BY <2>1, <2>2, NoProgress
<1>5. TypeOK'
  <2>1. DOMAIN pc' = Threads /\ DOMAIN held' = Threads /\ job' \in [Threads -> JobState]
    BY <1>1, <1>3, EndFacts
  <2>2. um' = [m \in Missions |-> um'[m]]
    BY <1>2
  <2>3. um' \in [Missions -> UmRow]
    <3> HIDE DEF UmRow
    <3> QED BY <1>4, <2>2
  <2> QED BY <1>1, <1>3, <2>1, <2>3 DEF TypeOK
<1>6. \A q \in Threads \ {p} : Respects(held[q])
  BY <1>3, <1>4 DEF Respects
<1>7. RowInv' /\ EventOwnsCredit'
  BY <1>1, <1>3, <1>4 DEF RowInv, EventOwnsCredit
<1>8. SeenInv' /\ MissionCounts'
  <2>1. \A m : Counted(m)' = Counted(m)
    BY <1>3 DEF Counted
  <2> QED BY <1>1, <1>4, <2>1, ProgressKept
<1>9. CabIntegrity'
  BY <1>1, <1>3, <1>4, StillMoney
<1> QED BY <1>3, <1>5, <1>6, <1>7, <1>8, <1>9, EndStep

\* A change of the columns of a row that nobody has locked.
LEMMA RowStep ==
  ASSUME IInv, UNCHANGED <<threads, event, credit, retro, bal, challenge, prized, day>>,
         NEW m \in Missions, \A q \in Threads : Row(m) \notin held[q],
         um[m].status # "none", NEW row \in UmRow, um' = [um EXCEPT ![m] = row],
         row.status = um[m].status, row.count = um[m].count, row.seen = um[m].seen,
         row.portions = um[m].portions, row.frozen = um[m].frozen
  PROVE  IInv'
<1>1. /\ TypeOK /\ LockInv /\ ThreadInv /\ RowInv /\ SeenInv /\ EventOwnsCredit
      /\ CabIntegrity /\ MissionCounts
  BY DEF IInv
<1>2. um'[m] = row /\ \A x \in Missions : x # m => um'[x] = um[x]
  BY <1>1 DEF TypeOK
<1>3. \A q \in Threads : Respects(held[q])
  BY <1>2 DEF Respects
<1>4. ThreadInv'
  <2> SUFFICES ASSUME NEW q \in Threads PROVE At(pc[q], job[q], held[q])'
    BY DEF ThreadInv
  <2>1. PICK l, j, h : l = pc[q] /\ j = job[q] /\ h = held[q]
    OBVIOUS
  <2>2. pc'[q] = l /\ job'[q] = j /\ held'[q] = h
    BY <2>1 DEF threads
  <2>3. At(l, j, h)'
    BY <1>1, <1>3, <2>1, StillAt DEF ThreadInv
  <2> QED BY <2>2, <2>3
<1>5. TypeOK'
  BY <1>1 DEF TypeOK, threads
<1>6. LockInv'
  BY <1>1 DEF LockInv, threads
<1>7. RowInv' /\ EventOwnsCredit'
  BY <1>1, <1>2 DEF RowInv, EventOwnsCredit
<1>8. SeenInv' /\ MissionCounts'
  <2>1. \A x : Counted(x)' = Counted(x)
    BY DEF Counted
  <2>2. \A x \in Missions : /\ um'[x].count = um[x].count /\ um'[x].seen = um[x].seen
                            /\ um[x].status = "claimed" => um'[x].status = "claimed"
    BY <1>2
  <2> QED BY <1>1, <2>1, <2>2, ProgressKept
<1>9. CabIntegrity'
  <2>1. \A x \in Missions : um'[x].portions = um[x].portions /\ um'[x].frozen = um[x].frozen
    BY <1>2
  <2> QED BY <1>1, <2>1, StillMoney
<1> QED BY <1>4, <1>5, <1>6, <1>7, <1>8, <1>9 DEF IInv

LEMMA ApplyBufferStep ==
  ASSUME IInv, NEW m \in Missions, ApplyBuffer(m)
  PROVE  IInv'
<1> DEFINE row == [um[m] EXCEPT !.n = @ + 1, !.target = 2 * @]
<1>1. um[m] \in UmRow /\ DOMAIN um = Missions
  BY DEF IInv, TypeOK
<1>2. um' = [um EXCEPT ![m] = row]
  BY <1>1 DEF ApplyBuffer
<1>3. /\ row \in UmRow /\ row.status = um[m].status /\ row.count = um[m].count
      /\ row.seen = um[m].seen /\ row.portions = um[m].portions /\ row.frozen = um[m].frozen
  <2>1. PICK old \in UmRow : old = um[m]
    BY <1>1
  <2>2. PICK k, t \in Nat : k = old.n + 1 /\ t = 2 * old.target
    <3>1. old.n \in Nat /\ old.target \in Nat
      BY DEF UmRow
    <3> QED BY <3>1
  <2>3. row = [old EXCEPT !.n = k, !.target = t]
    BY <2>1, <2>2
  <2> HIDE DEF row
  <2>4. row \in UmRow
    BY <2>3 DEF UmRow
  <2>5. /\ row.status = old.status /\ row.count = old.count /\ row.seen = old.seen
        /\ row.portions = old.portions /\ row.frozen = old.frozen
    BY <2>3 DEF UmRow
  <2> QED BY <2>1, <2>4, <2>5
<1>4. /\ um[m].status # "none" /\ \A q \in Threads : Row(m) \notin held[q]
      /\ UNCHANGED <<threads, event, credit, retro, bal, challenge, prized, day>>
  BY DEF ApplyBuffer, world
<1> HIDE DEF row
<1> QED BY <1>2, <1>3, <1>4, RowStep

LEMMA PaliersIsNat ==
  ASSUME NEW row \in UmRow
  PROVE  Paliers(row) \in Nat
<1> DEFINE K == {k \in 0..row.count : row.target * 2^k <= row.count} \cup {row.burst}
<1>1. row.count \in Nat /\ row.burst \in Nat
  BY DEF UmRow
<1>2. K \subseteq Nat /\ K # {}
  BY <1>1
<1>3. PICK b \in Nat : \A k \in K : k <= b
  <2>1. \A k \in K : k \in 0..row.count \/ k = row.burst
    OBVIOUS
  <2>2. \A k \in K : k <= row.count + row.burst
    <3> HIDE DEF K
    <3> QED BY <1>1, <2>1
  <2> HIDE DEF K
  <2> QED BY <1>1, <2>2
<1>4. Paliers(row) = Max(K)
  BY DEF Paliers
<1> HIDE DEF K
<1> QED BY <1>2, <1>3, <1>4, GreatestIsElement

LEMMA ClaimBurstStep ==
  ASSUME IInv, NEW m \in Missions, ClaimBurst(m)
  PROVE  IInv'
<1> DEFINE row == [um[m] EXCEPT !.burst = Paliers(um[m]), !.locked = TRUE]
<1>1. um[m] \in UmRow /\ DOMAIN um = Missions
  BY DEF IInv, TypeOK
<1>2. um' = [um EXCEPT ![m] = row]
  BY <1>1 DEF ClaimBurst
<1>3. PICK k \in Nat : k = Paliers(um[m])
  BY <1>1, PaliersIsNat
<1>4. /\ row \in UmRow /\ row.status = um[m].status /\ row.count = um[m].count
      /\ row.seen = um[m].seen /\ row.portions = um[m].portions /\ row.frozen = um[m].frozen
  BY <1>1, <1>3 DEF UmRow
<1>5. /\ um[m].status # "none" /\ \A q \in Threads : Row(m) \notin held[q]
      /\ UNCHANGED <<threads, event, credit, retro, bal, challenge, prized, day>>
  BY DEF ClaimBurst, world
<1> HIDE DEF row
<1> QED BY <1>2, <1>4, <1>5, RowStep
LEMMA AvailableIsNat ==
  ASSUME NEW row \in UmRow, day \in Nat
  PROVE  Available(row) \in Nat
<1> DEFINE size == row.target \div (row.n + 1)
           paliers == IF size = 0 THEN 0 ELSE row.count \div size
           S == {paliers, day + 1, row.n + 1}
<1>1. row.target \in Nat /\ row.n \in Nat /\ row.count \in Nat
  BY DEF UmRow
<1>2. size \in Nat
  BY <1>1
<1>3. paliers \in Nat
  <2> HIDE DEF size
  <2> QED BY <1>1, <1>2
<1>4. S \subseteq Nat /\ S # {}
  <2> HIDE DEF paliers
  <2> QED BY <1>1, <1>3
<1>5. Available(row) = Min(S)
  BY DEF Available
<1> HIDE DEF S
<1> QED BY <1>4, <1>5, LeastIsElement

LEMMA ClaimStep ==
  ASSUME IInv, NEW p \in Servers, NEW m \in Missions, Claim(p, m)
  PROVE  IInv'
<1> DEFINE row == um[m]
           open == Available(row)
           cab == (open - row.portions) * Reward
<1> p \in Threads
  BY DEF Threads
<1>1. TypeOK /\ LockInv
  BY DEF IInv
<1>2. /\ row.status # "none" /\ open > row.portions /\ \A l \in {Row(m)} : Free(p, l)
      /\ job' = [job EXCEPT ![p].m = m, ![p].cab = cab, ![p].portions = open,
                            ![p].full = (open = row.n + 1)]
      /\ Take(p, {Row(m)}) /\ Goto(p, "claim") /\ UNCHANGED ledger /\ day' = day
  BY DEF Claim, world, ForUpdate
<1>3. open \in Nat /\ row.portions \in Nat
  <2>1. row \in UmRow /\ day \in Nat
    BY <1>1 DEF TypeOK
  <2> QED BY <2>1, AvailableIsNat DEF UmRow
<1>4. cab \in Nat
  <2>1. PICK x, y \in Nat : x = open - row.portions /\ y = Reward
    <3> HIDE DEF open, row
    <3> QED BY <1>2, <1>3, Constants
  <2>2. x * y \in Nat
    OBVIOUS
  <2> QED BY <2>1, <2>2
<1>5. PICK j : j = job'[p]
  OBVIOUS
<1>6. /\ job' \in [Threads -> JobState] /\ \A q \in Threads \ {p} : job'[q] = job[q]
      /\ j.m = m /\ j.cab = cab /\ j.portions = open
  <2>1. job[p] \in JobState /\ DOMAIN job = Threads
    BY <1>1 DEF TypeOK
  <2>2. PICK f \in BOOLEAN : f = (open = row.n + 1)
    OBVIOUS
  <2> HIDE DEF cab, open, row
  <2>3. j = [job[p] EXCEPT !.m = m, !.cab = cab, !.portions = open, !.full = f]
    BY <1>2, <1>5, <2>1, <2>2
  <2>4. j \in JobState /\ j.m = m /\ j.cab = cab /\ j.portions = open
    BY <1>3, <1>4, <2>1, <2>3 DEF JobState
  <2>5. /\ DOMAIN job' = Threads /\ job' = [q \in Threads |-> job'[q]]
        /\ \A q \in Threads \ {p} : job'[q] = job[q]
    BY <1>2, <2>1
  <2> QED BY <1>1, <1>5, <2>4, <2>5 DEF TypeOK
<1>7. /\ DOMAIN held' = Threads /\ held'[p] = held[p] \cup {Row(m)} /\ LockInv'
      /\ \A q \in Threads \ {p} : held'[q] = held[q]
  BY <1>1, <1>2, TakeFacts
<1>8. /\ DOMAIN pc' = Threads /\ pc'[p] = "claim" /\ \A q \in Threads \ {p} : pc'[q] = pc[q]
  BY <1>1, <1>2, GotoFacts DEF TypeOK
<1>9. At(pc'[p], job'[p], held'[p])
  BY <1>2, <1>5, <1>6, <1>7, <1>8 DEF At, EventAt, MissionAt, PrizeAt, BatchAt
<1>10. UNCHANGED ledger /\ day' \in Nat
  BY <1>1, <1>2 DEF TypeOK
<1> HIDE DEF row, open, cab
<1> QED BY <1>1, <1>6, <1>7, <1>8, <1>9, <1>10, ThreadStep

LEMMA FreezeStep ==
  ASSUME IInv, NEW p \in Servers, NEW m \in Missions, Freeze(p, m)
  PROVE  IInv'
<1> p \in Threads
  BY DEF Threads
<1>1. TypeOK /\ LockInv
  BY DEF IInv
<1>2. /\ um[m].status # "none" /\ ~um[m].frozen /\ \A l \in {Row(m)} : Free(p, l)
      /\ job' = [job EXCEPT ![p].m = m]
      /\ Take(p, {Row(m)}) /\ Goto(p, "freeze") /\ UNCHANGED ledger /\ day' = day
  BY DEF Freeze, world
<1>3. PICK j : j = job'[p]
  OBVIOUS
<1>4. /\ job' \in [Threads -> JobState] /\ j.m = m
      /\ \A q \in Threads \ {p} : job'[q] = job[q]
  <2>1. job[p] \in JobState /\ DOMAIN job = Threads
    BY <1>1 DEF TypeOK
  <2>2. j = [job[p] EXCEPT !.m = m]
    BY <1>2, <1>3, <2>1
  <2>3. j \in JobState /\ j.m = m
    BY <2>1, <2>2 DEF JobState
  <2>4. /\ DOMAIN job' = Threads /\ job' = [q \in Threads |-> job'[q]]
        /\ \A q \in Threads \ {p} : job'[q] = job[q]
    BY <1>2, <2>1
  <2> QED BY <1>1, <1>3, <2>3, <2>4 DEF TypeOK
<1>5. /\ DOMAIN held' = Threads /\ held'[p] = held[p] \cup {Row(m)} /\ LockInv'
      /\ \A q \in Threads \ {p} : held'[q] = held[q]
  BY <1>1, <1>2, TakeFacts
<1>6. /\ DOMAIN pc' = Threads /\ pc'[p] = "freeze"
      /\ \A q \in Threads \ {p} : pc'[q] = pc[q]
  BY <1>1, <1>2, GotoFacts DEF TypeOK
<1>7. At(pc'[p], job'[p], held'[p])
  BY <1>2, <1>3, <1>4, <1>5, <1>6 DEF At, EventAt, MissionAt, PrizeAt, BatchAt
<1> QED BY <1>1, <1>2, <1>4, <1>5, <1>6, <1>7, ThreadStep DEF TypeOK

\* A transaction that has locked a mission row writes it and commits.
LEMMA RowEndStep ==
  ASSUME IInv, NEW p \in Threads, End(p), bal' \in Int, CabIntegrity',
         UNCHANGED <<event, credit, retro, challenge, prized, day>>,
         NEW m \in Missions, Row(m) \in held[p], um[m].status # "none",
         NEW row \in UmRow, um' = [um EXCEPT ![m] = row],
         row.status \in {um[m].status, "claimed"}, row.count = um[m].count,
         row.seen = um[m].seen
  PROVE  IInv'
<1>1. /\ TypeOK /\ LockInv /\ ThreadInv /\ RowInv /\ SeenInv /\ EventOwnsCredit
      /\ CabIntegrity /\ MissionCounts
  BY DEF IInv
<1>2. um'[m] = row /\ \A x \in Missions : x # m => um'[x] = um[x]
  BY <1>1 DEF TypeOK
<1>3. ASSUME NEW q \in Threads \ {p} PROVE Respects(held[q])
  <2>1. Row(m) \notin held[q]
    BY <1>1, Exclusive
  <2> QED BY <1>2, <2>1 DEF Respects
<1>4. TypeOK'
  <2>1. DOMAIN pc' = Threads /\ DOMAIN held' = Threads /\ job' \in [Threads -> JobState]
    BY <1>1, EndFacts
  <2> QED BY <1>1, <2>1 DEF TypeOK
<1>5. RowInv' /\ EventOwnsCredit'
  BY <1>1, <1>2 DEF RowInv, EventOwnsCredit
<1>6. SeenInv' /\ MissionCounts'
  <2>1. \A x : Counted(x)' = Counted(x)
    BY DEF Counted
  <2>2. \A x \in Missions : /\ um'[x].count = um[x].count /\ um'[x].seen = um[x].seen
                            /\ um[x].status = "claimed" => um'[x].status = "claimed"
    BY <1>2
  <2> QED BY <1>1, <2>1, <2>2, ProgressKept
<1> QED BY <1>3, <1>4, <1>5, <1>6, EndStep

LEMMA ClaimPayStep ==
  ASSUME IInv, NEW p \in Servers, ClaimPay(p)
  PROVE  IInv'
<1> DEFINE m == job[p].m
           k == job[p].portions
           cab == job[p].cab
           row == [um[m] EXCEPT !.portions = k,
                                !.status = IF job[p].full THEN "claimed" ELSE @]
<1> p \in Threads
  BY DEF Threads
<1>1. TypeOK /\ LockInv /\ CabIntegrity /\ At(pc[p], job[p], held[p])
  BY DEF IInv, ThreadInv
<1>2. /\ pc[p] = "claim" /\ bal' = bal + cab /\ End(p)
      /\ um' = [um EXCEPT ![m].portions = k, ![m].status = IF job[p].full THEN "claimed" ELSE @]
      /\ UNCHANGED <<event, credit, retro, challenge, prized, day>>
  BY DEF ClaimPay, world
<1>3. /\ m \in Missions /\ Row(m) \in held[p] /\ um[m].status # "none"
      /\ k > um[m].portions /\ cab = (k - um[m].portions) * Reward
  BY <1>1, <1>2 DEF At, MissionAt
<1>4. job[p] \in JobState /\ um[m] \in UmRow /\ DOMAIN um = Missions
  BY <1>1, <1>3 DEF TypeOK
<1>5. k \in Nat /\ cab \in Nat /\ um[m].portions \in Nat /\ bal \in Int /\ bal >= 0
  BY <1>1, <1>4 DEF JobState, UmRow, TypeOK, CabIntegrity
<1>6. um' = [um EXCEPT ![m] = row]
  BY <1>2, <1>4
<1>7. /\ row \in UmRow /\ row.status \in {um[m].status, "claimed"} /\ row.portions = k
      /\ row.count = um[m].count /\ row.seen = um[m].seen /\ row.frozen = um[m].frozen
  <2>1. PICK old \in UmRow : old = um[m]
    BY <1>4
  <2>2. PICK s \in {old.status, "claimed"} : s = IF job[p].full THEN "claimed" ELSE old.status
    OBVIOUS
  <2>3. row = [old EXCEPT !.portions = k, !.status = s]
    BY <2>1, <2>2
  <2> HIDE DEF row, k
  <2>4. row \in UmRow
    BY <1>5, <2>2, <2>3 DEF UmRow
  <2>5. /\ row.status = s /\ row.portions = k /\ row.count = old.count
        /\ row.seen = old.seen /\ row.frozen = old.frozen
    BY <2>3 DEF UmRow
  <2> QED BY <2>1, <2>2, <2>4, <2>5
<1> HIDE DEF row, cab, k, m
<1>8. um' \in [Missions -> UmRow] /\ um'[m] = row
      /\ \A x \in Missions : x # m => um'[x] = um[x]
  BY <1>1, <1>3, <1>6, <1>7 DEF TypeOK
<1>9. CabIntegrity'
  <2> DEFINE dp == k - um[m].portions
  <2>1. dp \in Int
    BY <1>5
  <2>2. SumFunction(Portions') = SumFunction(Portions) + dp
    BY <1>1, <1>3, <1>7, <1>8, PortionsChange
  <2>3. Cardinality(Frozen') = Cardinality(Frozen) + 0
    BY <1>1, <1>7, <1>8, FrozenSame, MoneyTypes
  <2>4. SumFunction(Awards') = SumFunction(Awards) + 0
    BY <1>1, <1>2, MoneyTypes DEF Awards
  <2>5. Batched' = Batched + 0 /\ Awarded' = Awarded + 0
    BY <1>1, <1>2, MoneyTypes DEF Batched, Awarded, CreditedBy
  <2>6. Cardinality(CreditedBy("mystery")') = Cardinality(CreditedBy("mystery")) + 0
    BY <1>1, <1>2, CreditedSame, MoneyTypes
  <2> HIDE DEF dp
  <2>7. cab = Reward * dp
    <3>1. cab = dp * Reward
      BY <1>3 DEF dp
    <3> QED BY <2>1, <3>1, Constants
  <2>8. bal' = bal + (0 + BatchCab * 0 + MysteryPrize * 0 + Reward * dp + 0 - FreezeCost * 0)
    <3>1. BatchCab * 0 = 0 /\ MysteryPrize * 0 = 0 /\ FreezeCost * 0 = 0
      BY Constants
    <3> QED BY <1>2, <1>5, <2>7, <3>1
  <2>9. bal' >= 0
    BY <1>2, <1>5
  <2> QED BY <1>1, <2>1, <2>2, <2>3, <2>4, <2>5, <2>6, <2>8, <2>9, MoneyMoves
<1>10. bal' \in Int
  BY <1>2, <1>5
<1> QED BY <1>2, <1>3, <1>6, <1>7, <1>9, <1>10, RowEndStep
LEMMA FreezePayStep ==
  ASSUME IInv, NEW p \in Servers, FreezePay(p)
  PROVE  IInv'
<1> DEFINE m == job[p].m
           row == [um[m] EXCEPT !.frozen = TRUE]
<1> p \in Threads
  BY DEF Threads
<1>1. TypeOK /\ LockInv /\ CabIntegrity /\ At(pc[p], job[p], held[p])
  BY DEF IInv, ThreadInv
<1>2. pc[p] = "freeze" /\ day' = day
  BY DEF FreezePay, world
<1>3. CASE ~Covers(FreezeCost)
  BY <1>2, <1>3, RollbackStep DEF FreezePay
<1>4. CASE Covers(FreezeCost)
  <2>1. /\ bal' = bal - FreezeCost /\ um' = [um EXCEPT ![m].frozen = TRUE] /\ End(p)
        /\ UNCHANGED <<event, credit, retro, challenge, prized, day>>
    BY <1>2, <1>4 DEF FreezePay
  <2>2. m \in Missions /\ Row(m) \in held[p] /\ um[m].status # "none" /\ ~um[m].frozen
    BY <1>1, <1>2 DEF At, MissionAt
  <2>3. um[m] \in UmRow /\ DOMAIN um = Missions
    BY <1>1, <2>2 DEF TypeOK
  <2>4. bal \in Int /\ bal' \in Int /\ bal' >= 0
    BY <1>1, <1>4, <2>1, Constants DEF TypeOK, Covers
  <2>5. um' = [um EXCEPT ![m] = row]
    BY <2>1, <2>3
  <2>6. /\ row \in UmRow /\ row.status = um[m].status /\ row.count = um[m].count
        /\ row.seen = um[m].seen /\ row.portions = um[m].portions /\ row.frozen = TRUE
    BY <2>3 DEF UmRow
  <2> HIDE DEF row, m
  <2>7. um' \in [Missions -> UmRow] /\ um'[m] = row
        /\ \A x \in Missions : x # m => um'[x] = um[x]
    BY <1>1, <2>2, <2>5, <2>6 DEF TypeOK
  <2>8. CabIntegrity'
    <3>1. Cardinality(Frozen') = Cardinality(Frozen) + 1
      <4>1. m \notin Frozen /\ Frozen' = Frozen \cup {m}
        BY <2>2, <2>6, <2>7 DEF Frozen
      <4>2. IsFiniteSet(Frozen)
        BY <1>1, MoneyTypes
      <4>3. Cardinality(Frozen \cup {m}) = Cardinality(Frozen) + 1
        BY <4>1, <4>2, FS_AddElement
      <4> QED BY <4>1, <4>3
    <3>2. SumFunction(Portions') = SumFunction(Portions) + 0
      BY <1>1, <2>6, <2>7, PortionsSame, MoneyTypes
    <3>3. SumFunction(Awards') = SumFunction(Awards) + 0
      BY <1>1, <2>1, MoneyTypes DEF Awards
    <3>4. Batched' = Batched + 0 /\ Awarded' = Awarded + 0
      BY <1>1, <2>1, MoneyTypes DEF Batched, Awarded, CreditedBy
    <3>5. Cardinality(CreditedBy("mystery")') = Cardinality(CreditedBy("mystery")) + 0
      BY <1>1, <2>1, CreditedSame, MoneyTypes
    <3>6. bal' = bal + (0 + BatchCab * 0 + MysteryPrize * 0 + Reward * 0 + 0
                          - FreezeCost * 1)
      BY <2>1, <2>4, Constants
    <3> QED BY <1>1, <2>4, <3>1, <3>2, <3>3, <3>4, <3>5, <3>6, MoneyMoves
  <2> QED BY <2>1, <2>2, <2>4, <2>5, <2>6, <2>8, RowEndStep
<1> QED BY <1>3, <1>4

LEMMA ClaimMilestoneStep ==
  ASSUME IInv, NEW p \in Servers, ClaimMilestone(p)
  PROVE  IInv'
<1> p \in Threads
  BY DEF Threads
<1>1. TypeOK /\ LockInv
  BY DEF IInv
<1>2. /\ ~prized /\ (\A l \in {Claimed} : Free(p, l)) /\ Take(p, {Claimed})
      /\ Goto(p, "prize") /\ UNCHANGED <<ledger, job>> /\ day' = day
  BY DEF ClaimMilestone, world
<1>3. /\ DOMAIN held' = Threads /\ held'[p] = held[p] \cup {Claimed} /\ LockInv'
      /\ \A q \in Threads \ {p} : held'[q] = held[q]
  BY <1>1, <1>2, TakeFacts
<1>4. /\ DOMAIN pc' = Threads /\ pc'[p] = "prize"
      /\ \A q \in Threads \ {p} : pc'[q] = pc[q]
  BY <1>1, <1>2, GotoFacts DEF TypeOK
<1>5. At(pc'[p], job'[p], held'[p])
  BY <1>2, <1>3, <1>4 DEF At, EventAt, MissionAt, PrizeAt, BatchAt
<1> QED BY <1>1, <1>2, <1>3, <1>4, <1>5, ThreadStep DEF TypeOK

LEMMA MilestonePayStep ==
  ASSUME IInv, NEW p \in Servers, MilestonePay(p)
  PROVE  IInv'
<1> p \in Threads
  BY DEF Threads
<1>1. /\ TypeOK /\ LockInv /\ ThreadInv /\ RowInv /\ SeenInv /\ EventOwnsCredit
      /\ CabIntegrity /\ MissionCounts /\ At(pc[p], job[p], held[p])
  BY DEF IInv, ThreadInv
<1>2. /\ pc[p] = "prize" /\ bal' = bal + Prize /\ prized' = TRUE /\ End(p)
      /\ UNCHANGED <<event, credit, retro, um, challenge, day>>
  BY DEF MilestonePay, world
<1>3. Claimed \in held[p] /\ ~prized
  BY <1>1, <1>2 DEF At, PrizeAt
<1>4. bal \in Int /\ bal >= 0 /\ bal' \in Int /\ bal' >= 0
  BY <1>1, <1>2, Constants DEF TypeOK, CabIntegrity
<1>5. ASSUME NEW q \in Threads \ {p} PROVE Respects(held[q])
  <2>1. Claimed \notin held[q]
    BY <1>1, <1>3, Exclusive
  <2> QED BY <1>2, <2>1 DEF Respects
<1>6. TypeOK'
  <2>1. DOMAIN pc' = Threads /\ DOMAIN held' = Threads /\ job' \in [Threads -> JobState]
    BY <1>1, <1>2, EndFacts
  <2> QED BY <1>1, <1>2, <1>4, <2>1 DEF TypeOK
<1>7. RowInv' /\ SeenInv' /\ MissionCounts'
  BY <1>1, <1>2, SameProgress
<1>8. EventOwnsCredit'
  BY <1>1, <1>2 DEF EventOwnsCredit
<1>9. CabIntegrity'
  <2>1. SumFunction(Awards') = SumFunction(Awards) + 0
        /\ SumFunction(Portions') = SumFunction(Portions) + 0
    BY <1>1, <1>2, MoneyTypes DEF Awards, Portions
  <2>2. Batched' = Batched + 0 /\ Cardinality(Frozen') = Cardinality(Frozen) + 0
    BY <1>1, <1>2, MoneyTypes DEF Batched, CreditedBy, Frozen
  <2>3. Cardinality(CreditedBy("mystery")') = Cardinality(CreditedBy("mystery")) + 0
    BY <1>1, <1>2, CreditedSame, MoneyTypes
  <2>4. Awarded' = Awarded + Prize /\ Prize \in Int
    BY <1>2, <1>3, Constants DEF Awarded
  <2>5. bal' = bal + (0 + BatchCab * 0 + MysteryPrize * 0 + Reward * 0 + Prize
                        - FreezeCost * 0)
    BY <1>2, <1>4, Constants
  <2> QED BY <1>1, <1>4, <2>1, <2>2, <2>3, <2>4, <2>5, MoneyMoves
<1> QED BY <1>2, <1>5, <1>6, <1>7, <1>8, <1>9, EndStep
-----------------------------------------------------------------------------
(* The steps of the batches.                                               *)

\* A batch puts the rows it has read aside.
LEMMA ReadStep ==
  ASSUME IInv, NEW b \in Threads, UNCHANGED <<ledger, held, day>>, NEW rows \in SUBSET Scans,
         job' = [job EXCEPT ![b].todo = rows], NEW l, Goto(b, l),
         l = "batch" \/ (l = "retro" /\ rows \subseteq Receipts)
  PROVE  IInv'
<1>1. TypeOK /\ LockInv
  BY DEF IInv
<1>2. PICK j : j = job'[b]
  OBVIOUS
<1>3. /\ job' \in [Threads -> JobState] /\ j.todo = rows
      /\ \A q \in Threads \ {b} : job'[q] = job[q]
  <2>1. job[b] \in JobState /\ DOMAIN job = Threads
    BY <1>1 DEF TypeOK
  <2>2. j = [job[b] EXCEPT !.todo = rows]
    BY <1>2, <2>1
  <2>3. j \in JobState /\ j.todo = rows
    BY <2>1, <2>2 DEF JobState
  <2>4. /\ DOMAIN job' = Threads /\ job' = [q \in Threads |-> job'[q]]
        /\ \A q \in Threads \ {b} : job'[q] = job[q]
    BY <2>1
  <2> QED BY <1>1, <1>2, <2>3, <2>4 DEF TypeOK
<1>4. /\ DOMAIN pc' = Threads /\ pc'[b] = l /\ \A q \in Threads \ {b} : pc'[q] = pc[q]
  BY <1>1, GotoFacts DEF TypeOK
<1>5. At(pc'[b], job'[b], held'[b])
  BY <1>2, <1>3, <1>4 DEF At, EventAt, MissionAt, PrizeAt, BatchAt
<1>6. LockInv'
  BY <1>1 DEF LockInv
<1> QED BY <1>1, <1>3, <1>4, <1>5, <1>6, ThreadStep DEF TypeOK

LEMMA ReconcileMissingStep ==
  ASSUME IInv, NEW b \in Batches, ReconcileMissing(b)
  PROVE  IInv'
<1> DEFINE rows == {s \in Labels : scan[s] = "old" /\ Missing(s)}
<1>1. b \in Threads /\ rows \in SUBSET Scans
  BY DEF Threads, Scans
<1>2. /\ job' = [job EXCEPT ![b].todo = rows] /\ Goto(b, "batch")
      /\ UNCHANGED <<ledger, held, day>>
  BY DEF ReconcileMissing, world
<1> HIDE DEF rows
<1> QED BY <1>1, <1>2, ReadStep

LEMMA RetroReadStep ==
  ASSUME IInv, NEW b \in Batches, RetroRead(b)
  PROVE  IInv'
<1>1. PICK rows \in SUBSET {r \in Receipts : scan[r] = "matched" /\ r \notin retro} :
         /\ job' = [job EXCEPT ![b].todo = rows] /\ Goto(b, "retro")
         /\ UNCHANGED <<ledger, held, day>>
  BY DEF RetroRead, world
<1>2. b \in Threads /\ rows \in SUBSET Scans /\ rows \subseteq Receipts
  BY DEF Threads, Scans
<1> QED BY <1>1, <1>2, ReadStep

LEMMA CreditInsertStep ==
  ASSUME IInv, NEW b \in Batches, NEW s \in Labels, CreditInsert(b, s)
  PROVE  IInv'
<1> b \in Threads /\ s \in Scans
  BY DEF Threads, Scans
<1>1. TypeOK /\ LockInv /\ At(pc[b], job[b], held[b])
  BY DEF IInv, ThreadInv
<1>2. /\ pc[b] = "batch" /\ \A l \in {Entry(s)} : Free(b, l)
      /\ job' = [job EXCEPT ![b].s = s, ![b].todo = @ \ {s}]
      /\ UNCHANGED ledger /\ day' = day
  BY DEF CreditInsert, world
<1>3. PICK j : j = job'[b]
  OBVIOUS
<1>4. /\ job' \in [Threads -> JobState] /\ j.s = s
      /\ \A q \in Threads \ {b} : job'[q] = job[q]
  <2>1. job[b] \in JobState /\ DOMAIN job = Threads
    BY <1>1 DEF TypeOK
  <2>2. PICK rows \in SUBSET Scans : rows = job[b].todo \ {s}
    BY <2>1 DEF JobState
  <2>3. j = [job[b] EXCEPT !.s = s, !.todo = rows]
    BY <1>2, <1>3, <2>1, <2>2
  <2>4. j \in JobState /\ j.s = s
    BY <2>1, <2>3 DEF JobState
  <2>5. /\ DOMAIN job' = Threads /\ job' = [q \in Threads |-> job'[q]]
        /\ \A q \in Threads \ {b} : job'[q] = job[q]
    BY <1>2, <2>1
  <2> QED BY <1>1, <1>3, <2>4, <2>5 DEF TypeOK
<1>5. CASE Inserted(s)
  <2>1. Take(b, {Entry(s)}) /\ Goto(b, "pay")
    BY <1>5 DEF CreditInsert
  <2>2. /\ DOMAIN held' = Threads /\ held'[b] = held[b] \cup {Entry(s)} /\ LockInv'
        /\ \A q \in Threads \ {b} : held'[q] = held[q]
    BY <1>1, <1>2, <2>1, TakeFacts
  <2>3. /\ DOMAIN pc' = Threads /\ pc'[b] = "pay"
        /\ \A q \in Threads \ {b} : pc'[q] = pc[q]
    BY <1>1, <2>1, GotoFacts DEF TypeOK
  <2>4. At(pc'[b], job'[b], held'[b])
    BY <1>3, <1>4, <1>5, <2>2, <2>3
       DEF At, EventAt, MissionAt, PrizeAt, BatchAt, Inserted
  <2> QED BY <1>1, <1>2, <1>4, <2>2, <2>3, <2>4, ThreadStep DEF TypeOK
<1>6. CASE ~Inserted(s)
  <2>1. UNCHANGED <<pc, held>>
    BY <1>6 DEF CreditInsert
  <2>2. At(pc'[b], job'[b], held'[b])
    BY <1>2, <2>1 DEF At, EventAt, MissionAt, PrizeAt, BatchAt
  <2>3. LockInv'
    BY <1>1, <2>1 DEF LockInv
  <2> QED BY <1>1, <1>2, <1>4, <2>1, <2>2, <2>3, ThreadStep DEF TypeOK
<1> QED BY <1>5, <1>6

LEMMA CreditPayStep ==
  ASSUME IInv, NEW b \in Batches, CreditPay(b)
  PROVE  IInv'
<1> DEFINE s == job[b].s
<1> b \in Threads
  BY DEF Threads
<1>1. /\ TypeOK /\ LockInv /\ ThreadInv /\ RowInv /\ SeenInv /\ EventOwnsCredit
      /\ CabIntegrity /\ MissionCounts /\ At(pc[b], job[b], held[b])
  BY DEF IInv, ThreadInv
<1>2. /\ pc[b] = "pay" /\ bal' = bal + BatchCab /\ Goto(b, "batch")
      /\ credit' = [credit EXCEPT ![s] = IF Uncredited(s) THEN "batch" ELSE @]
      /\ held' = [held EXCEPT ![b] = {}]
      /\ UNCHANGED <<job, event, retro, um, challenge, prized, day>>
  BY DEF CreditPay, world
<1>3. s \in Labels /\ s \in Scans /\ Entry(s) \in held[b] /\ Uncredited(s)
  BY <1>1, <1>2 DEF At, BatchAt, Scans
<1>4. credit' = [credit EXCEPT ![s] = "batch"]
  BY <1>2, <1>3
<1> HIDE DEF s
<1>5. bal \in Int /\ bal >= 0 /\ bal' \in Int /\ bal' >= 0
  BY <1>1, <1>2, Constants DEF TypeOK, CabIntegrity
<1>6. /\ credit' \in [Scans -> Creditors] /\ credit'[s] = "batch"
      /\ \A x \in Scans : x # s => credit'[x] = credit[x]
  BY <1>1, <1>3, <1>4 DEF TypeOK, Creditors
<1>7. /\ DOMAIN pc' = Threads /\ pc'[b] = "batch"
      /\ \A q \in Threads \ {b} : pc'[q] = pc[q]
  BY <1>1, <1>2, GotoFacts DEF TypeOK
<1>8. /\ DOMAIN held' = Threads /\ held'[b] = {}
      /\ \A q \in Threads \ {b} : held'[q] = held[q]
  BY <1>1, <1>2 DEF TypeOK
<1>9. LockInv'
  BY <1>1, <1>8 DEF LockInv
<1>10. TypeOK'
  BY <1>1, <1>2, <1>5, <1>6, <1>7, <1>8 DEF TypeOK
<1>11. ThreadInv'
  <2>1. ASSUME NEW q \in Threads \ {b} PROVE Respects(held[q])
    <3>1. Entry(s) \notin held[q]
      BY <1>1, <1>3, Exclusive
    <3> QED BY <1>2, <1>6, <3>1 DEF Respects
  <2>2. At(pc[b], job[b], held[b])'
    BY <1>7 DEF At, EventAt, MissionAt, PrizeAt, BatchAt
  <2> QED BY <1>1, <1>2, <1>7, <1>8, <2>1, <2>2, OtherThreads
<1>12. RowInv' /\ SeenInv' /\ MissionCounts'
  BY <1>1, <1>2, SameProgress
<1>13. EventOwnsCredit'
  <2> SUFFICES ASSUME NEW x \in Events, event'[x].cab > 0, ScanClass(x)
               PROVE  credit'[x[1]] = x[2]
    BY DEF EventOwnsCredit, ScanClass, ActionOf
  <2>1. credit[x[1]] = x[2] /\ x[1] \in Scans /\ x[2] # "none"
    BY <1>1, <1>2, EventParts DEF EventOwnsCredit, EventKinds, LabelKinds
  <2> QED BY <1>3, <1>6, <2>1 DEF Uncredited
<1>14. CabIntegrity'
  <2>1. SumFunction(Awards') = SumFunction(Awards) + 0
        /\ SumFunction(Portions') = SumFunction(Portions) + 0
    BY <1>1, <1>2, MoneyTypes DEF Awards, Portions
  <2>2. /\ Cardinality(CreditedBy("batch")') = Cardinality(CreditedBy("batch")) + 1
        /\ Cardinality(CreditedBy("mystery")') = Cardinality(CreditedBy("mystery"))
    BY <1>1, <1>3, <1>4, CreditedChange
  <2>3. Batched' = Batched + 1
    <3>1. Cardinality(retro) \in Nat /\ Cardinality(CreditedBy("batch")) \in Nat
      BY <1>1, MoneyTypes
    <3> QED BY <1>2, <2>2, <3>1 DEF Batched
  <2>4. Cardinality(CreditedBy("mystery")') = Cardinality(CreditedBy("mystery")) + 0
    BY <1>1, <2>2, MoneyTypes
  <2>5. Awarded' = Awarded + 0 /\ Cardinality(Frozen') = Cardinality(Frozen) + 0
    BY <1>1, <1>2, MoneyTypes DEF Awarded, Frozen
  <2>6. bal' = bal + (0 + BatchCab * 1 + MysteryPrize * 0 + Reward * 0 + 0
                        - FreezeCost * 0)
    BY <1>2, <1>5, Constants
  <2> QED BY <1>1, <1>5, <2>1, <2>3, <2>4, <2>5, <2>6, MoneyMoves
<1> QED BY <1>9, <1>10, <1>11, <1>12, <1>13, <1>14 DEF IInv

LEMMA StopStep ==
  ASSUME IInv, NEW p \in Threads, End(p), UNCHANGED ledger, day' = day
  PROVE  IInv'
BY RollbackStep DEF Rollback

LEMMA RetroInsertStep ==
  ASSUME IInv, NEW b \in Batches, RetroInsert(b)
  PROVE  IInv'
<1> DEFINE rows == job[b].todo \ retro
<1> b \in Threads
  BY DEF Threads
<1>1. TypeOK /\ LockInv /\ At(pc[b], job[b], held[b])
  BY DEF IInv, ThreadInv
<1>2. /\ pc[b] = "retro" /\ (\A r \in job[b].todo : Free(b, Retro(r)))
      /\ UNCHANGED ledger /\ day' = day
  BY DEF RetroInsert, world
<1>3. CASE rows = {}
  BY <1>2, <1>3, StopStep DEF RetroInsert
<1>4. CASE rows # {}
  <2>1. /\ job' = [job EXCEPT ![b].todo = rows] /\ Goto(b, "retropay")
        /\ Take(b, {Retro(r) : r \in rows})
    BY <1>4 DEF RetroInsert
  <2>2. job[b] \in JobState /\ DOMAIN job = Threads /\ job[b].todo \subseteq Receipts
    BY <1>1, <1>2 DEF TypeOK, At, BatchAt
  <2>3. rows \in SUBSET Scans /\ rows \subseteq Receipts /\ rows \cap retro = {}
    BY <2>2 DEF Scans
  <2>4. \A l \in {Retro(r) : r \in rows} : Free(b, l)
    BY <1>2
  <2> HIDE DEF rows
  <2>5. PICK j : j = job'[b]
    OBVIOUS
  <2>6. /\ job' \in [Threads -> JobState] /\ j.todo = rows
        /\ \A q \in Threads \ {b} : job'[q] = job[q]
    <3>1. j = [job[b] EXCEPT !.todo = rows]
      BY <2>1, <2>2, <2>5
    <3>2. j \in JobState /\ j.todo = rows
      BY <2>2, <2>3, <3>1 DEF JobState
    <3>3. /\ DOMAIN job' = Threads /\ job' = [q \in Threads |-> job'[q]]
          /\ \A q \in Threads \ {b} : job'[q] = job[q]
      BY <2>1, <2>2
    <3> QED BY <1>1, <2>5, <3>2, <3>3 DEF TypeOK
  <2>7. /\ DOMAIN held' = Threads /\ LockInv'
        /\ held'[b] = held[b] \cup {Retro(r) : r \in rows}
        /\ \A q \in Threads \ {b} : held'[q] = held[q]
    BY <1>1, <2>1, <2>4, TakeFacts
  <2>8. /\ DOMAIN pc' = Threads /\ pc'[b] = "retropay"
        /\ \A q \in Threads \ {b} : pc'[q] = pc[q]
    BY <1>1, <2>1, GotoFacts DEF TypeOK
  <2>9. At(pc'[b], job'[b], held'[b])
    <3>1. \A r \in rows : Retro(r) \in held'[b]
      BY <2>7
    <3> QED BY <2>3, <2>5, <2>6, <2>8, <3>1 DEF At, EventAt, MissionAt, PrizeAt, BatchAt
  <2> QED BY <1>1, <1>2, <2>6, <2>7, <2>8, <2>9, ThreadStep DEF TypeOK
<1> QED BY <1>3, <1>4

LEMMA RetroPayStep ==
  ASSUME IInv, NEW b \in Batches, RetroPay(b)
  PROVE  IInv'
<1> DEFINE todo == job[b].todo
           k == Cardinality(todo)
<1> b \in Threads
  BY DEF Threads
<1>1. /\ TypeOK /\ LockInv /\ ThreadInv /\ RowInv /\ SeenInv /\ EventOwnsCredit
      /\ CabIntegrity /\ MissionCounts /\ At(pc[b], job[b], held[b])
  BY DEF IInv, ThreadInv
<1>2. /\ pc[b] = "retropay" /\ retro' = retro \cup todo /\ bal' = bal + BatchCab * k /\ End(b)
      /\ UNCHANGED <<event, credit, um, challenge, prized, day>>
  BY DEF RetroPay, world
<1>3. todo \subseteq Receipts /\ todo \cap retro = {} /\ \A r \in todo : Retro(r) \in held[b]
  BY <1>1, <1>2 DEF At, BatchAt
<1>4. IsFiniteSet(todo) /\ k \in Nat
  BY <1>3, FiniteEvents, FS_Subset, FS_CardinalityType
<1> HIDE DEF todo
<1>5. bal \in Int /\ bal >= 0 /\ bal' \in Int /\ bal' >= 0
  <2>1. PICK x \in Nat : x = BatchCab * k
    BY <1>4, Constants
  <2> QED BY <1>1, <1>2, <2>1 DEF TypeOK, CabIntegrity
<1>6. ASSUME NEW q \in Threads \ {b} PROVE Respects(held[q])
  <2>1. \A r \in todo : Retro(r) \notin held[q]
    BY <1>1, <1>3, Exclusive
  <2> QED BY <1>2, <2>1 DEF Respects
<1>7. TypeOK'
  <2>1. DOMAIN pc' = Threads /\ DOMAIN held' = Threads /\ job' \in [Threads -> JobState]
    BY <1>1, <1>2, EndFacts
  <2> QED BY <1>1, <1>2, <1>3, <1>5, <2>1 DEF TypeOK
<1>8. RowInv' /\ SeenInv' /\ MissionCounts'
  BY <1>1, <1>2, SameProgress
<1>9. EventOwnsCredit'
  BY <1>1, <1>2 DEF EventOwnsCredit
<1>10. CabIntegrity'
  <2>1. SumFunction(Awards') = SumFunction(Awards) + 0
        /\ SumFunction(Portions') = SumFunction(Portions) + 0
    BY <1>1, <1>2, MoneyTypes DEF Awards, Portions
  <2>2. Cardinality(retro') = Cardinality(retro) + k
    <3>1. IsFiniteSet(retro) /\ Cardinality(retro) \in Nat
      BY <1>1, MoneyTypes
    <3>2. Cardinality(retro \cup todo)
            = Cardinality(retro) + Cardinality(todo) - Cardinality(retro \cap todo)
      BY <1>4, <3>1, FS_Union
    <3>3. retro \cap todo = {}
      BY <1>3
    <3>4. Cardinality(retro \cap todo) = 0
      BY <3>3, FS_EmptySet
    <3> QED BY <1>2, <1>4, <3>1, <3>2, <3>4
  <2>3. Batched' = Batched + k
    <3>1. Cardinality(retro) \in Nat /\ Cardinality(CreditedBy("batch")) \in Nat
      BY <1>1, MoneyTypes
    <3>2. Cardinality(CreditedBy("batch")') = Cardinality(CreditedBy("batch"))
      BY <1>2, CreditedSame
    <3> HIDE DEF k
    <3> QED BY <1>4, <2>2, <3>1, <3>2 DEF Batched
  <2>4. Cardinality(CreditedBy("mystery")') = Cardinality(CreditedBy("mystery")) + 0
    BY <1>1, <1>2, CreditedSame, MoneyTypes
  <2>5. Awarded' = Awarded + 0 /\ Cardinality(Frozen') = Cardinality(Frozen) + 0
    BY <1>1, <1>2, MoneyTypes DEF Awarded, Frozen
  <2>6. bal' = bal + (0 + BatchCab * k + MysteryPrize * 0 + Reward * 0 + 0
                        - FreezeCost * 0)
    <3>1. PICK x \in Nat : x = BatchCab * k
      BY <1>4, Constants
    <3> QED BY <1>2, <1>5, <3>1, Constants
  <2> HIDE DEF k
  <2> QED BY <1>1, <1>4, <1>5, <2>1, <2>3, <2>4, <2>5, <2>6, MoneyMoves
<1> QED BY <1>2, <1>6, <1>7, <1>8, <1>9, <1>10, EndStep
-----------------------------------------------------------------------------
(* The theorems.                                                           *)

LEMMA InitHolds ==
  ASSUME Init
  PROVE  IInv
<1>1. /\ \A e \in Events : event[e] = [status |-> "none", day |-> 0, cab |-> 0]
      /\ \A s \in Scans : credit[s] = "none"
      /\ \A m \in Missions : um[m] = NoRow
      /\ retro = {} /\ bal = 0 /\ prized = FALSE
      /\ \A p \in Threads : pc[p] = "idle" /\ held[p] = {}
  BY DEF Init
<1>2. TypeOK
  <2>1. event \in [Events -> EventRow] /\ credit \in [Scans -> Creditors]
    BY DEF Init, EventRow, Creditors
  <2>2. um \in [Missions -> UmRow] /\ job \in [Threads -> JobState]
    BY NoProgress, NoJobIsJob DEF Init
  <2>3. /\ retro \subseteq Receipts /\ bal \in Int /\ challenge \in Nat
        /\ prized \in BOOLEAN /\ day \in Nat
    <3>1. retro = {} /\ bal = 0 /\ challenge = 0 /\ prized = FALSE /\ day = 0
      BY Zenon DEF Init
    <3>2. prized \in BOOLEAN
      BY <3>1, Zenon
    <3>3. retro \subseteq Receipts /\ bal \in Int /\ challenge \in Nat /\ day \in Nat
      BY <3>1
    <3> QED BY <3>2, <3>3
  <2>4. DOMAIN pc = Threads /\ DOMAIN held = Threads
    BY DEF Init
  <2> QED BY <2>1, <2>2, <2>3, <2>4 DEF TypeOK
<1>3. LockInv /\ RowInv
  BY <1>1 DEF LockInv, RowInv
<1>4. ThreadInv
  BY <1>1, IdleAt DEF ThreadInv
<1>5. EventOwnsCredit
  BY <1>1 DEF EventOwnsCredit
<1>6. ASSUME NEW m \in Missions
      PROVE  Values(m) = {} /\ Expected(m) = 0
  <2>1. Counted(m) = {}
    BY <1>1 DEF Counted
  <2>2. Values(m) = {} /\ Cardinality(Values(m)) = 0
    BY <2>1, FS_EmptySet DEF Values
  <2>3. SumFunction(Units(m)) = 0
    <3> DEFINE f == Units(m)
    <3>1. f \in [Events -> Int] /\ \A e \in Events : f[e] = 0
      BY <2>1 DEF Units
    <3> HIDE DEF f
    <3>2. SumFunction(f) = 0
      BY <3>1, FiniteEvents, SumZero
    <3> QED BY <3>2 DEF f
  <2> QED BY <2>2, <2>3 DEF Expected
<1>7. SeenInv /\ MissionCounts
  BY <1>1, <1>6, NoProgress DEF SeenInv, MissionCounts
<1>8. CabIntegrity
  <2>1. SumFunction(Awards) = 0
    <3> DEFINE f == Awards
    <3>1. f \in [Events -> Int] /\ \A e \in Events : f[e] = 0
      BY <1>1 DEF Awards
    <3> HIDE DEF f
    <3>2. SumFunction(f) = 0
      BY <3>1, FiniteEvents, SumZero
    <3> QED BY <3>2 DEF f
  <2>2. SumFunction(Portions) = 0
    <3> DEFINE f == Portions
    <3>1. f \in [Missions -> Int] /\ \A m \in Missions : f[m] = 0
      BY <1>1, NoProgress DEF Portions
    <3> HIDE DEF f
    <3>2. SumFunction(f) = 0
      BY <3>1, Constants, SumZero
    <3> QED BY <3>2 DEF f
  <2>3. retro = {} /\ CreditedBy("batch") = {} /\ CreditedBy("mystery") = {} /\ Frozen = {}
    BY <1>1, NoProgress DEF CreditedBy, Frozen
  <2>4. /\ Cardinality(retro) = 0 /\ Cardinality(CreditedBy("batch")) = 0
        /\ Cardinality(CreditedBy("mystery")) = 0 /\ Cardinality(Frozen) = 0
    BY <2>3, FS_EmptySet
  <2>5. BatchCab * 0 = 0 /\ MysteryPrize * 0 = 0 /\ Reward * 0 = 0 /\ FreezeCost * 0 = 0
    BY Constants
  <2> QED BY <1>1, <2>1, <2>2, <2>4, <2>5 DEF CabIntegrity, Frozen
<1> QED BY <1>2, <1>3, <1>4, <1>5, <1>7, <1>8 DEF IInv

LEMMA NextPreserves ==
  ASSUME IInv, [Next]_vars
  PROVE  IInv'
<1>0. day \in Nat /\ TypeOK
  BY DEF IInv, TypeOK
<1>1. CASE UNCHANGED vars
  BY <1>0, <1>1, WorldStep DEF vars, ledger, threads
<1>2. ASSUME NEW s \in Labels, AcceptLabel(s) \/ Age(s) \/ ReconcileLabel(s)
      PROVE  IInv'
  BY <1>0, <1>2, WorldStep DEF AcceptLabel, Age, ReconcileLabel
<1>3. ASSUME NEW r \in Receipts, UploadReceipt(r) \/ RetryReceipt(r) \/ RecoverEan(r)
      PROVE  IInv'
  BY <1>0, <1>3, WorldStep DEF UploadReceipt, RetryReceipt, RecoverEan
<1>4. ASSUME NEW e \in Events, Lose(e)
      PROVE  IInv'
  BY <1>0, <1>4, WorldStep DEF Lose
<1>5. ASSUME NEW e \in Events, NEW p \in Servers, EventInsert(p, e)
      PROVE  IInv'
  BY <1>5, EventInsertStep
<1>6. ASSUME NEW p \in Servers, Work(p) \/ GetMissions(p) \/ ClaimMilestone(p)
      PROVE  IInv'
  BY <1>6, EventAwardStep, EventLedgerStep, EventCommitStep, GenerateMissionsStep,
     ClaimPayStep, FreezePayStep, MilestonePayStep, GetMissionsStep, ClaimMilestoneStep
     DEF Work
<1>7. ASSUME NEW m \in Missions, ApplyBuffer(m) \/ ClaimBurst(m)
      PROVE  IInv'
  BY <1>7, ApplyBufferStep, ClaimBurstStep
<1>8. ASSUME NEW m \in Missions, NEW p \in Servers, Claim(p, m) \/ Freeze(p, m)
      PROVE  IInv'
  BY <1>8, ClaimStep, FreezeStep
<1>9. ASSUME NEW b \in Batches, BatchWork(b)
      PROVE  IInv'
  <2>1. CASE BatchEnd(b)
    BY <2>1, StopStep DEF BatchEnd, Threads, world
  <2> QED BY <1>9, <2>1, ReconcileMissingStep, CreditPayStep, RetroReadStep, RetroInsertStep,
             RetroPayStep, CreditInsertStep DEF BatchWork
<1>10. ASSUME NEW p \in Threads, DeadlockVictim(p) \/ Crash(p)
       PROVE  IInv'
  BY <1>10, RollbackStep DEF DeadlockVictim, Crash, world
<1>11. CASE ShadowBan \/ NextDay
  BY <1>0, <1>11, WorldStep DEF ShadowBan, NextDay
<1> QED BY <1>1, <1>2, <1>3, <1>4, <1>5, <1>6, <1>7, <1>8, <1>9, <1>10, <1>11 DEF Next

\* The locks and what the threads have found under them, with the properties below,
\* are inductive.
THEOREM Inductive == Spec => []IInv
<1>1. Init => IInv
  BY InitHolds
<1>2. IInv /\ [Next]_vars => IInv'
  BY NextPreserves
<1> QED BY <1>1, <1>2, PTL DEF Spec

\* Every coin of the balance was paid for exactly one thing, and every payment is in
\* it, whatever events, claims, freezes, batches, rollbacks and crashes interleave.
THEOREM CabIntegrityHolds == Spec => []CabIntegrity
<1>1. IInv => CabIntegrity
  BY DEF IInv
<1> QED BY <1>1, Inductive, PTL

\* A mission that is not claimed stands exactly at the processed events of its period.
THEOREM MissionCountsHolds == Spec => []MissionCounts
<1>1. IInv => MissionCounts
  BY DEF IInv
<1> QED BY <1>1, Inductive, PTL

\* An awarded scan event owns the one ledger row of its scan.
THEOREM EventOwnsCreditHolds == Spec => []EventOwnsCredit
<1>1. IInv => EventOwnsCredit
  BY DEF IInv
<1> QED BY <1>1, Inductive, PTL
-----------------------------------------------------------------------------
(***************************************************************************)
(* Notifications.                                                          *)
(***************************************************************************)
\* The day of a minute starts no later than the minute.
LEMMA Midnight ==
  ASSUME NEW m \in Nat
  PROVE  Day(m) * MinutesPerDay <= m /\ Day(m) \in Nat
BY NotificationsAssumption DEF Day

TaskRow ==
  [msg : Message \cup {None}, now : Nat,
   pc : {"none", "new", "send", "skipped", "logged", "deduped", "lost"},
   left : SUBSET Tokens, sent : BOOLEAN, ok : SUBSET Tokens, dead : SUBSET Tokens]

\* A token with a ticket is a push that Expo took.
TaskState == {row \in TaskRow : row.ok # {} => row.sent}

\* Every variable the properties speak of keeps its type.
PushTypeOK ==
  /\ outbox \in [Rows -> {"none", "unsent", "sent"}] /\ posts \in [Rows -> Nat]
  /\ batch \in [Replicas -> SUBSET Rows] /\ done \in [Replicas -> SUBSET Rows]
  /\ task \in [Tasks -> TaskState]
  /\ IsFiniteSet(logs) /\ tokens \subseteq Tokens
  /\ minute \in Nat /\ losses \in Nat

\* A row is with one replica at most, and unsent while it is there.
OutboxInv ==
  /\ \A v, w \in Replicas :
       v # w => (batch[v] \cup done[v]) \cap (batch[w] \cup done[w]) = {}
  /\ \A w \in Replicas :
       /\ batch[w] \cap done[w] = {}
       /\ \A r \in batch[w] \cup done[w] : outbox[r] = "unsent"

\* Rows that no open transaction has marked owe all their calls to lost batches.
PostsInv ==
  /\ \A r \in Rows : outbox[r] # "sent" /\ (\A w \in Replicas : r \notin done[w])
                       => posts[r] <= losses
  /\ NoDoubleDispatch

\* The task that sends holds the lock, and the day's log had room when it got it.
SendInv ==
  \A t \in Tasks :
    task[t].pc = "send" => lock = t /\ CountSentToday(t) < MaxPerDay

\* Each recorded task has a log row of its own.
LogInv ==
  /\ \A t \in Tasks : task[t].pc = "logged" /\ task[t].sent
                        => <<task[t].msg.type, task[t].now>> \in logs
  /\ \A s, t \in Tasks :
       /\ s # t /\ task[s].pc = "logged" /\ task[t].pc = "logged"
       /\ task[s].sent /\ task[t].sent
       => <<task[s].msg.type, task[s].now>> # <<task[t].msg.type, task[t].now>>

\* A ticket is a recorded task's, for a token that got one; all of them are kept.
TicketInv ==
  /\ \A p \in tickets \cup checked :
       \E t \in Tasks : task[t].pc = "logged" /\ \E k \in task[t].ok : p = <<t, k>>
  /\ \A t \in Tasks : task[t].pc = "logged"
       => \A k \in task[t].ok : <<t, k>> \in tickets \cup checked
  /\ polling # None => polling \subseteq tickets \cup checked

PushIInv == PushTypeOK /\ OutboxInv /\ PostsInv /\ SendInv /\ LogInv /\ TicketInv /\ PushCap

LEMMA PushInitIInv == PushInit => PushIInv
<1> SUFFICES ASSUME PushInit PROVE PushIInv
  OBVIOUS
<1>1. PushTypeOK
  BY NotificationsAssumption, FS_EmptySet DEF PushInit, PushTypeOK, TaskState, TaskRow, NoTask
<1>2. OutboxInv /\ PostsInv
  BY DEF PushInit, OutboxInv, PostsInv, NoDoubleDispatch
<1>3. SendInv /\ LogInv /\ TicketInv
  BY DEF PushInit, SendInv, LogInv, TicketInv, NoTask
<1>4. ASSUME NEW d \in 0..Day(MaxMinute)
      PROVE  Cardinality({t \in Tasks : /\ task[t].sent /\ Day(task[t].now) = d
                                        /\ task[t].pc \in {"send", "logged"}}) <= MaxPerDay
  <2>1. {t \in Tasks : /\ task[t].sent /\ Day(task[t].now) = d
                       /\ task[t].pc \in {"send", "logged"}} = {}
    BY DEF PushInit, NoTask
  <2>2. 0 <= MaxPerDay
    BY NotificationsAssumption
  <2>3. Cardinality({}) = 0
    BY FS_EmptySet
  <2> QED BY <2>1, <2>2, <2>3, Zenon
<1> QED BY <1>1, <1>2, <1>3, <1>4 DEF PushIInv, PushCap, AnySent
-----------------------------------------------------------------------------
(***************************************************************************)
(* The outbox.                                                             *)
(***************************************************************************)
OutboxOK == PushTypeOK /\ OutboxInv /\ PostsInv

\* A step that leaves the outbox alone, losses aside.
LEMMA OutboxStays ==
  ASSUME OutboxOK, UNCHANGED outboxVars, losses' \in {losses, losses + 1}
  PROVE  OutboxInv' /\ PostsInv'
<1>1. losses <= losses' /\ losses \in Nat /\ losses' \in Nat
  BY DEF OutboxOK, PushTypeOK
<1>2. OutboxInv'
  BY DEF OutboxOK, OutboxInv, outboxVars
<1>3. PostsInv'
  BY <1>1 DEF OutboxOK, PushTypeOK, PostsInv, NoDoubleDispatch, outboxVars
<1> QED BY <1>2, <1>3

LEMMA OutboxStep ==
  ASSUME OutboxOK, [PushNext]_pushVars
  PROVE  OutboxInv' /\ PostsInv'
<1>0. PushTypeOK /\ OutboxInv /\ PostsInv
  BY DEF OutboxOK
<1>1. ASSUME NEW r \in Rows, Enqueue(r)
      PROVE  OutboxInv' /\ PostsInv'
  <2>1. outbox[r] = "none" /\ outbox' = [outbox EXCEPT ![r] = "unsent"]
        /\ UNCHANGED <<posts, batch, done, losses>>
    BY <1>1 DEF Enqueue
  <2>2. OutboxInv'
    BY <1>0, <2>1 DEF PushTypeOK, OutboxInv
  <2>3. PostsInv'
    BY <1>0, <2>1 DEF PushTypeOK, PostsInv, NoDoubleDispatch
  <2> QED BY <2>2, <2>3
<1>2. ASSUME NEW w \in Replicas, Select(w)
      PROVE  OutboxInv' /\ PostsInv'
  <2>1. /\ batch[w] = {} /\ done[w] = {} /\ UNCHANGED <<outbox, posts, done, losses>>
        /\ batch' = [batch EXCEPT ![w] = Oldest(Selectable(w))]
    BY <1>2 DEF Select
  <2>2. Oldest(Selectable(w)) \subseteq Selectable(w)
    BY DEF Oldest
  <2> DEFINE S == Oldest(Selectable(w))
  <2>3. \A r \in S : outbox[r] = "unsent" /\ \A v \in Replicas : r \notin batch[v] \cup done[v]
    BY <2>2 DEF Selectable
  <2>4. batch'[w] = S /\ \A v \in Replicas : v # w => batch'[v] = batch[v]
    BY <1>0, <2>1 DEF PushTypeOK
  <2> HIDE DEF S
  <2>5. OutboxInv'
    BY <1>0, <2>1, <2>3, <2>4 DEF OutboxInv
  <2>6. PostsInv'
    BY <1>0, <2>1 DEF PostsInv, NoDoubleDispatch
  <2> QED BY <2>5, <2>6
<1>3. ASSUME NEW w \in Replicas, NEW accepted \in BOOLEAN, Dispatch(w, accepted)
      PROVE  OutboxInv' /\ PostsInv'
  <2>1. Min(batch[w]) \in batch[w]
    BY <1>0, <1>3, LeastIsElement, NotificationsAssumption DEF Dispatch, PushTypeOK
  <2>2. PICK r \in Rows : r = Min(batch[w]) /\ r \in batch[w]
    BY <1>0, <2>1 DEF PushTypeOK
  <2>3. /\ posts' = [posts EXCEPT ![r] = IF accepted THEN @ + 1 ELSE @]
        /\ batch' = [batch EXCEPT ![w] = @ \ {r}]
        /\ done' = [done EXCEPT ![w] = @ \cup {r}]
        /\ UNCHANGED <<outbox, losses>>
    BY <1>3, <2>2 DEF Dispatch
  <2>4. /\ batch'[w] = batch[w] \ {r} /\ done'[w] = done[w] \cup {r}
        /\ \A v \in Replicas : v # w => batch'[v] = batch[v] /\ done'[v] = done[v]
    BY <1>0, <2>3 DEF PushTypeOK
  <2>5. OutboxInv'
    BY <1>0, <2>2, <2>3, <2>4 DEF OutboxInv
  <2>6. outbox[r] = "unsent" /\ \A v \in Replicas : r \notin done[v]
    BY <1>0, <2>2 DEF OutboxInv
  <2>7. posts[r] <= losses /\ posts[r] \in Nat /\ losses \in Nat
    BY <1>0, <2>6 DEF PostsInv, PushTypeOK
  <2>8. posts'[r] <= 1 + losses
    BY <1>0, <2>3, <2>7 DEF PushTypeOK
  <2>9. \A s \in Rows : s # r => posts'[s] = posts[s]
    BY <1>0, <2>3 DEF PushTypeOK
  <2>10. PostsInv'
    BY <1>0, <2>3, <2>4, <2>8, <2>9 DEF PostsInv, NoDoubleDispatch
  <2> QED BY <2>5, <2>10
<1>4. ASSUME NEW w \in Replicas, CommitBatch(w)
      PROVE  OutboxInv' /\ PostsInv'
  <2>1. /\ batch[w] = {} /\ UNCHANGED <<posts, batch, losses>>
        /\ outbox' = [r \in Rows |-> IF r \in done[w] THEN "sent" ELSE outbox[r]]
        /\ done' = [done EXCEPT ![w] = {}]
    BY <1>4 DEF CommitBatch
  <2>2. done'[w] = {} /\ \A v \in Replicas : v # w => done'[v] = done[v]
    BY <1>0, <2>1 DEF PushTypeOK
  <2>3. \A v \in Replicas : v # w => \A r \in batch[v] \cup done[v] : outbox'[r] = "unsent"
    BY <1>0, <2>1 DEF PushTypeOK, OutboxInv
  <2>4. OutboxInv'
    BY <1>0, <2>1, <2>2, <2>3 DEF OutboxInv
  <2>5. PostsInv'
    BY <1>0, <2>1, <2>2 DEF PostsInv, NoDoubleDispatch
  <2> QED BY <2>4, <2>5
<1>5. ASSUME NEW w \in Replicas, BatchLost(w)
      PROVE  OutboxInv' /\ PostsInv'
  <2>1. /\ UNCHANGED <<posts, outbox>> /\ losses' = losses + 1
        /\ batch' = [batch EXCEPT ![w] = {}] /\ done' = [done EXCEPT ![w] = {}]
    BY <1>5 DEF BatchLost, Fault
  <2>2. /\ done'[w] = {} /\ batch'[w] = {}
        /\ \A v \in Replicas : v # w => done'[v] = done[v] /\ batch'[v] = batch[v]
    BY <1>0, <2>1 DEF PushTypeOK
  <2>3. OutboxInv'
    BY <1>0, <2>1, <2>2 DEF OutboxInv
  <2>4. PostsInv'
    BY <1>0, <2>1 DEF PushTypeOK, PostsInv, NoDoubleDispatch
  <2> QED BY <2>3, <2>4
<1>6. ASSUME NEW t \in Tasks, TaskStep(t) \/ TaskLost(t)
      PROVE  OutboxInv' /\ PostsInv'
  BY <1>6, OutboxStays
     DEF TaskStep, QuietSkip, GateSkip, RateLimitSkip, BeginSend, Send, Log, Dedup, TaskLost,
         Fault
<1>7. CASE \/ \E msg \in DirectCalls : DirectCall(msg)
           \/ PollReceipts \/ ReceiptsBatch \/ ReceiptsUnavailable
           \/ \E tok \in Tokens : Unregister(tok)
           \/ Tick \/ UNCHANGED pushVars
  BY <1>7, OutboxStays
     DEF DirectCall, PollReceipts, ReceiptsBatch, ApplyReceipts, ReceiptsUnavailable, Unregister,
         Tick, Fault, pushVars, outboxVars
<1> QED BY <1>1, <1>2, <1>3, <1>4, <1>5, <1>6, <1>7 DEF PushNext, Worker
-----------------------------------------------------------------------------
(***************************************************************************)
(* The notifier's tasks.                                                   *)
(***************************************************************************)
TasksOK == PushTypeOK /\ SendInv /\ LogInv /\ TicketInv

\* What any step does to a task, seen from the log: it goes on short of it, sends
\* with the lock held, or ends; a recorded task stays as it is.
Moves(t, r) ==
  /\ r \in TaskState
  /\ task[t].pc # "logged" /\ r.pc # "logged"
  /\ task' = [task EXCEPT ![t] = r]

\* A step that records no task and changes neither log nor tickets.
LEMMA TaskMoves ==
  ASSUME TasksOK, NEW t \in Tasks, NEW r, Moves(t, r),
         UNCHANGED <<logs, tickets, checked, polling>>,
         \A s \in Tasks : s # t /\ task[s].pc = "send" => lock' = lock,
         r.pc = "send" => /\ lock' = t /\ r.now = task[t].now
                          /\ lock \in {None, t} /\ CountSentToday(t) < MaxPerDay,
         PushTypeOK'
  PROVE  SendInv' /\ LogInv' /\ TicketInv'
<1>0. PushTypeOK /\ SendInv /\ LogInv /\ TicketInv
  BY DEF TasksOK
<1>1. task'[t] = r /\ \A s \in Tasks : s # t => task'[s] = task[s]
  BY <1>0 DEF PushTypeOK, Moves
<1>2. SendInv'
  <2> SUFFICES ASSUME NEW s \in Tasks, task'[s].pc = "send"
               PROVE  lock' = s /\ CountSentToday(s)' < MaxPerDay
    BY DEF SendInv
  <2>1. task'[s].now = task[s].now => CountSentToday(s)' = CountSentToday(s)
    BY DEF CountSentToday
  <2>2. CASE s = t
    BY <1>1, <2>1, <2>2
  <2>3. CASE s # t
    BY <1>0, <1>1, <2>1, <2>3 DEF SendInv
  <2> QED BY <2>2, <2>3
<1>3. \A s \in Tasks : /\ task'[s].pc = "logged" <=> task[s].pc = "logged"
                       /\ task[s].pc = "logged" => task'[s] = task[s]
  BY <1>1 DEF Moves
<1>4. LogInv'
  BY <1>0, <1>3 DEF LogInv
<1>5. TicketInv'
  BY <1>0, <1>3 DEF TicketInv
<1> QED BY <1>2, <1>4, <1>5

\* A step that leaves the tasks alone.
LEMMA TasksStay ==
  ASSUME TasksOK, UNCHANGED <<task, lock, logs>>,
         tickets' \cup checked' = tickets \cup checked,
         polling' # None => polling' \subseteq tickets \cup checked
  PROVE  SendInv' /\ LogInv' /\ TicketInv'
<1>1. SendInv'
  BY DEF TasksOK, SendInv, CountSentToday
<1>2. LogInv' /\ TicketInv'
  BY DEF TasksOK, LogInv, TicketInv
<1> QED BY <1>1, <1>2

\* The answer to a push leaves the task sending.
LEMMA Answered ==
  ASSUME PushTypeOK, NEW t \in Tasks, NEW tok \in Tokens,
         NEW a \in {"ticket", "no_ticket", "error", "dead"}, Send(t, tok, a)
  PROVE  \E r \in TaskState : /\ task' = [task EXCEPT ![t] = r]
                             /\ r.pc = "send" /\ r.now = task[t].now
<1>1. task[t].pc = "send" /\ task[t] \in TaskState
  BY DEF Send, PushTypeOK
<1>2. /\ [task[t] EXCEPT !.left = @ \ {tok}, !.sent = TRUE, !.ok = @ \cup {tok}]
           \in TaskState
      /\ [task[t] EXCEPT !.left = @ \ {tok}, !.sent = TRUE] \in TaskState
      /\ [task[t] EXCEPT !.left = @ \ {tok}] \in TaskState
      /\ [task[t] EXCEPT !.left = @ \ {tok}, !.dead = @ \cup {tok}] \in TaskState
  BY <1>1 DEF TaskState, TaskRow
<1>3. /\ [task[t] EXCEPT !.left = @ \ {tok}, !.sent = TRUE, !.ok = @ \cup {tok}].pc
           = "send"
      /\ [task[t] EXCEPT !.left = @ \ {tok}, !.sent = TRUE].pc = "send"
      /\ [task[t] EXCEPT !.left = @ \ {tok}].pc = "send"
      /\ [task[t] EXCEPT !.left = @ \ {tok}, !.dead = @ \cup {tok}].pc = "send"
      /\ [task[t] EXCEPT !.left = @ \ {tok}, !.sent = TRUE, !.ok = @ \cup {tok}].now
           = task[t].now
      /\ [task[t] EXCEPT !.left = @ \ {tok}, !.sent = TRUE].now = task[t].now
      /\ [task[t] EXCEPT !.left = @ \ {tok}].now = task[t].now
      /\ [task[t] EXCEPT !.left = @ \ {tok}, !.dead = @ \cup {tok}].now = task[t].now
  BY <1>1 DEF TaskState, TaskRow
<1> QED BY <1>2, <1>3 DEF Send

LEMMA PushTypeStep ==
  ASSUME PushTypeOK, [PushNext]_pushVars
  PROVE  PushTypeOK'
<1>0. ASSUME NEW t \in Tasks, NEW tok \in Tokens,
             NEW a \in {"ticket", "no_ticket", "error", "dead"}, Send(t, tok, a)
      PROVE  task' \in [Tasks -> TaskState]
  <2>1. PICK r \in TaskState : task' = [task EXCEPT ![t] = r]
    BY <1>0, Answered
  <2> QED BY <2>1 DEF PushTypeOK
<1> USE NotificationsAssumption DEF PushTypeOK
<1>1. ASSUME NEW r \in Rows, Enqueue(r)
      PROVE  PushTypeOK'
  BY <1>1 DEF Enqueue, storeVars
<1>2. ASSUME NEW t \in Tasks, NEW msg \in Message, Accept(t, msg)
      PROVE  task' \in [Tasks -> TaskState]
  <2>1. [NoTask EXCEPT !.msg = msg, !.now = minute, !.pc = "new"] \in TaskState
    BY DEF NoTask, TaskState, TaskRow
  <2> QED BY <1>2, <2>1 DEF Accept
<1>3. ASSUME NEW msg \in DirectCalls, DirectCall(msg)
      PROVE  PushTypeOK'
  BY <1>2, <1>3 DEF DirectCall, outboxVars, storeVars
<1>4. ASSUME NEW w \in Replicas, Select(w) \/ CommitBatch(w) \/ BatchLost(w)
      PROVE  PushTypeOK'
  <2>1. Oldest(Selectable(w)) \subseteq Rows
    BY DEF Oldest, Selectable
  <2> QED BY <1>4, <2>1 DEF Select, CommitBatch, BatchLost, Fault, storeVars
<1>5. ASSUME NEW w \in Replicas, NEW accepted \in BOOLEAN, Dispatch(w, accepted)
      PROVE  PushTypeOK'
  <2>1. PICK r \in Rows : r = Min(batch[w])
    BY <1>5, LeastIsElement DEF Dispatch
  <2>2. [type |-> RowType[r], visible |-> TRUE, limit |-> 0] \in Message
    BY DEF Message
  <2>3. task' \in [Tasks -> TaskState]
    BY <1>2, <1>5, <2>1, <2>2 DEF Dispatch, NotifierCall
  <2>4. /\ posts' = [posts EXCEPT ![r] = IF accepted THEN @ + 1 ELSE @]
        /\ batch' = [batch EXCEPT ![w] = @ \ {r}]
        /\ done' = [done EXCEPT ![w] = @ \cup {r}]
        /\ UNCHANGED <<outbox, logs, tokens, minute, losses>>
    BY <1>5, <2>1 DEF Dispatch, storeVars
  <2> QED BY <2>3, <2>4
<1>6. ASSUME NEW t \in Tasks, NEW how \in {"skipped", "deduped", "lost"}, EndTask(t, how)
      PROVE  task' \in [Tasks -> TaskState]
  <2>1. [NoTask EXCEPT !.pc = how] \in TaskState
    BY DEF NoTask, TaskState, TaskRow
  <2> QED BY <1>6, <2>1 DEF EndTask
<1>7. ASSUME NEW t \in Tasks, QuietSkip(t) \/ GateSkip(t) \/ RateLimitSkip(t) \/ Dedup(t)
                              \/ TaskLost(t)
      PROVE  PushTypeOK'
  BY <1>6, <1>7 DEF QuietSkip, GateSkip, RateLimitSkip, Dedup, TaskLost, Fault, outboxVars, storeVars
<1>8. ASSUME NEW t \in Tasks, NEW up \in BOOLEAN, BeginSend(t, up)
      PROVE  PushTypeOK'
  <2>1. [task[t] EXCEPT !.pc = "send", !.left = tokens] \in TaskState
    BY DEF TaskState, TaskRow
  <2>2. task' \in [Tasks -> TaskState]
    BY <1>6, <1>8, <2>1 DEF BeginSend
  <2> QED BY <1>8, <2>2 DEF BeginSend, outboxVars, storeVars
<1>9. ASSUME NEW t \in Tasks, NEW tok \in Tokens,
             NEW a \in {"ticket", "no_ticket", "error", "dead"}, Send(t, tok, a)
      PROVE  PushTypeOK'
  <2>1. task' \in [Tasks -> TaskState]
    BY <1>0, <1>9
  <2> QED BY <1>9, <2>1 DEF Send, outboxVars, storeVars
<1>10. ASSUME NEW t \in Tasks, Log(t)
       PROVE  PushTypeOK'
  <2>0. [task[t] EXCEPT !.pc = "logged", !.dead = {}] \in TaskState
    BY DEF TaskState, TaskRow
  <2>1. task' \in [Tasks -> TaskState]
    BY <1>10, <2>0 DEF Log
  <2>2. IsFiniteSet(logs')
    BY <1>10, FS_AddElement DEF Log
  <2> QED BY <1>10, <2>1, <2>2 DEF Log, outboxVars
<1>11. CASE \/ PollReceipts \/ ReceiptsBatch \/ ReceiptsUnavailable
            \/ \E tok \in Tokens : Unregister(tok)
            \/ Tick \/ UNCHANGED pushVars
  BY <1>11
     DEF PollReceipts, ReceiptsBatch, ApplyReceipts, ReceiptsUnavailable, Unregister, Tick, Fault,
         pushVars, outboxVars, storeVars
<1> QED
  BY <1>1, <1>3, <1>4, <1>5, <1>7, <1>8, <1>9, <1>10, <1>11 DEF PushNext, Worker, TaskStep

LEMMA CountType == PushTypeOK => \A t \in Tasks : CountSentToday(t) \in Nat
<1> SUFFICES ASSUME PushTypeOK, NEW t \in Tasks PROVE CountSentToday(t) \in Nat
  OBVIOUS
<1> DEFINE L == {l \in logs : l[2] >= Day(task[t].now) * MinutesPerDay}
<1>1. IsFiniteSet(L)
  BY FS_Subset DEF PushTypeOK
<1> QED BY <1>1, FS_CardinalityType DEF CountSentToday

\* The commit that records a task: its log row is new, its tickets are all there.
LEMMA LogStep ==
  ASSUME TasksOK, PushTypeOK', NEW t \in Tasks, Log(t)
  PROVE  SendInv' /\ LogInv' /\ TicketInv'
<1>0. PushTypeOK /\ SendInv /\ LogInv /\ TicketInv
  BY DEF TasksOK
<1>1. /\ task[t].pc = "send" /\ lock = t
      /\ ~(AnySent(t) /\ Duplicate(t))
      /\ logs' = IF AnySent(t) THEN logs \cup {<<task[t].msg.type, task[t].now>>} ELSE logs
      /\ tickets' = tickets \cup {<<t, tok>> : tok \in task[t].ok}
      /\ UNCHANGED <<checked, polling>>
  BY <1>0 DEF Log, SendInv, receiptVars
<1>2. /\ task'[t].pc = "logged" /\ task'[t].ok = task[t].ok
      /\ task'[t].sent = task[t].sent
      /\ task'[t].msg = task[t].msg /\ task'[t].now = task[t].now
      /\ \A s \in Tasks : s # t => task'[s] = task[s]
  BY <1>0 DEF Log, PushTypeOK, TaskState, TaskRow
<1>3. \A s \in Tasks : s # t => task[s].pc # "send"
  BY <1>0, <1>1 DEF SendInv
<1>4. SendInv'
  BY <1>2, <1>3 DEF SendInv
<1>5. LogInv'
  <2>1. \A s \in Tasks : task'[s].pc = "logged" /\ task'[s].sent
           => <<task'[s].msg.type, task'[s].now>> \in logs'
    BY <1>0, <1>1, <1>2 DEF LogInv, AnySent
  <2>2. \A s \in Tasks : /\ s # t /\ task[s].pc = "logged" /\ task[s].sent
                         /\ task[t].sent
           => <<task[s].msg.type, task[s].now>> # <<task[t].msg.type, task[t].now>>
    BY <1>0, <1>1 DEF LogInv, AnySent, Duplicate
  <2> QED BY <1>0, <1>2, <2>1, <2>2 DEF LogInv
<1>6. TicketInv'
  BY <1>0, <1>1, <1>2 DEF TicketInv
<1> QED BY <1>4, <1>5, <1>6

LEMMA TasksStep ==
  ASSUME TasksOK, PushTypeOK', [PushNext]_pushVars
  PROVE  SendInv' /\ LogInv' /\ TicketInv'
<1> USE NotificationsAssumption
<1>0. PushTypeOK /\ SendInv /\ LogInv /\ TicketInv
  BY DEF TasksOK
<1>1. ASSUME NEW t \in Tasks, NEW msg \in Message, Accept(t, msg),
             UNCHANGED <<logs, tickets, checked, polling, lock>>
      PROVE  SendInv' /\ LogInv' /\ TicketInv'
  <2> DEFINE r == [NoTask EXCEPT !.msg = msg, !.now = minute, !.pc = "new"]
  <2>1. r \in TaskState /\ r.pc = "new"
    BY <1>0 DEF NoTask, TaskState, TaskRow, PushTypeOK
  <2>2. task[t].pc = "none" /\ task' = [task EXCEPT ![t] = r]
    BY <1>1 DEF Accept
  <2> HIDE DEF r
  <2>3. Moves(t, r)
    BY <2>1, <2>2 DEF Moves
  <2> QED BY <1>1, <2>1, <2>3, TaskMoves
<1>2. ASSUME NEW t \in Tasks, NEW how \in {"skipped", "deduped", "lost"}, EndTask(t, how),
             task[t].pc \in {"new", "send"}, lock' \in {lock, Released(t)},
             UNCHANGED <<logs, tickets, checked, polling>>
      PROVE  SendInv' /\ LogInv' /\ TicketInv'
  <2> DEFINE r == [NoTask EXCEPT !.pc = how]
  <2>1. r \in TaskState /\ r.pc = how
    BY DEF NoTask, TaskState, TaskRow
  <2>2. task' = [task EXCEPT ![t] = r]
    BY <1>2 DEF EndTask
  <2> HIDE DEF r
  <2>3. Moves(t, r)
    BY <1>2, <2>1, <2>2 DEF Moves
  <2>4. \A s \in Tasks : s # t /\ task[s].pc = "send" => lock' = lock
    BY <1>0, <1>2 DEF SendInv, Released
  <2> QED BY <1>2, <2>1, <2>3, <2>4, TaskMoves
<1>3. ASSUME NEW msg \in DirectCalls, DirectCall(msg)
      PROVE  SendInv' /\ LogInv' /\ TicketInv'
  BY <1>1, <1>3 DEF DirectCall, storeVars, receiptVars
<1>4. ASSUME NEW w \in Replicas, NEW accepted \in BOOLEAN, Dispatch(w, accepted)
      PROVE  SendInv' /\ LogInv' /\ TicketInv'
  <2>1. PICK r \in Rows : r = Min(batch[w])
    BY <1>0, <1>4, LeastIsElement DEF Dispatch, PushTypeOK
  <2>2. [type |-> RowType[r], visible |-> TRUE, limit |-> 0] \in Message
    BY DEF Message
  <2>3. UNCHANGED <<logs, tickets, checked, polling, lock>>
    BY <1>4 DEF Dispatch, storeVars, receiptVars
  <2>4. CASE accepted
    BY <1>1, <1>4, <2>1, <2>2, <2>3, <2>4 DEF Dispatch, NotifierCall
  <2>5. CASE ~accepted
    BY <1>0, <1>4, <2>3, <2>5, TasksStay DEF Dispatch, NotifierCall, TicketInv
  <2> QED BY <2>4, <2>5
<1>5. ASSUME NEW t \in Tasks, QuietSkip(t) \/ GateSkip(t) \/ RateLimitSkip(t)
      PROVE  SendInv' /\ LogInv' /\ TicketInv'
  BY <1>2, <1>5 DEF QuietSkip, GateSkip, RateLimitSkip, Ready, storeVars, receiptVars
<1>6. ASSUME NEW t \in Tasks, Dedup(t) \/ TaskLost(t)
      PROVE  SendInv' /\ LogInv' /\ TicketInv'
  <2>1. /\ \E how \in {"skipped", "deduped", "lost"} : EndTask(t, how)
        /\ task[t].pc \in {"new", "send"} /\ lock' = Released(t)
        /\ UNCHANGED <<logs, tickets, checked, polling>>
    BY <1>6 DEF Dedup, TaskLost, Active, Kept, receiptVars
  <2> QED BY <1>2, <2>1
<1>7. ASSUME NEW t \in Tasks, NEW up \in BOOLEAN, BeginSend(t, up)
      PROVE  SendInv' /\ LogInv' /\ TicketInv'
  <2>1. /\ task[t].pc = "new" /\ lock = None /\ ~(CountSentToday(t) >= MaxPerDay)
        /\ UNCHANGED <<logs, tickets, checked, polling>>
    BY <1>7 DEF BeginSend, Ready, LockFree, CapReached, storeVars, receiptVars
  <2>2. CASE EndTask(t, "skipped") /\ UNCHANGED lock
    BY <1>2, <2>1, <2>2
  <2>3. CASE /\ task' = [task EXCEPT ![t].pc = "send", ![t].left = tokens]
             /\ lock' = t
    <3> DEFINE r == [task[t] EXCEPT !.pc = "send", !.left = tokens]
    <3>0. task[t] \in TaskState /\ tokens \subseteq Tokens
      BY <1>0 DEF PushTypeOK
    <3>1. r \in TaskState /\ r.pc = "send" /\ r.now = task[t].now
      <4>1. r \in TaskState
        BY <3>0 DEF TaskState, TaskRow
      <4>2. r.pc = "send" /\ r.now = task[t].now
        BY <3>0 DEF TaskState, TaskRow
      <4> QED BY <4>1, <4>2
    <3>2. task' = [task EXCEPT ![t] = r]
      BY <2>3
    <3> HIDE DEF r
    <3>3. Moves(t, r)
      BY <2>1, <3>1, <3>2 DEF Moves
    <3>4. CountSentToday(t) < MaxPerDay
      <4>1. CountSentToday(t) \in Nat /\ MaxPerDay \in Nat
        BY <1>0, CountType, NotificationsAssumption
      <4> QED BY <2>1, <4>1
    <3>5. \A s \in Tasks : task[s].pc # "send"
      BY <1>0, <2>1 DEF SendInv
    <3> QED BY <2>1, <2>3, <3>1, <3>3, <3>4, <3>5, TaskMoves
  <2> QED BY <1>7, <2>2, <2>3 DEF BeginSend
<1>8. ASSUME NEW t \in Tasks, NEW tok \in Tokens,
             NEW a \in {"ticket", "no_ticket", "error", "dead"}, Send(t, tok, a)
      PROVE  SendInv' /\ LogInv' /\ TicketInv'
  <2>1. \E r \in TaskState : /\ task' = [task EXCEPT ![t] = r]
                             /\ r.pc = "send" /\ r.now = task[t].now
    BY <1>0, <1>8, Answered
  <2>2. task[t].pc = "send" /\ UNCHANGED <<lock, logs, tickets, checked, polling>>
    BY <1>8 DEF Send, storeVars, receiptVars
  <2>3. lock = t /\ CountSentToday(t) < MaxPerDay
    BY <1>0, <2>2 DEF SendInv
  <2> QED BY <2>1, <2>2, <2>3, TaskMoves DEF Moves
<1>9. ASSUME NEW t \in Tasks, Log(t)
      PROVE  SendInv' /\ LogInv' /\ TicketInv'
  BY <1>9, LogStep
<1>10. CASE \/ \E r \in Rows : Enqueue(r)
            \/ \E w \in Replicas : Select(w) \/ CommitBatch(w) \/ BatchLost(w)
            \/ PollReceipts \/ ReceiptsBatch \/ ReceiptsUnavailable
            \/ \E tok \in Tokens : Unregister(tok)
            \/ Tick \/ UNCHANGED pushVars
  <2>1. UNCHANGED <<task, lock, logs>>
    BY <1>10
       DEF Enqueue, Select, CommitBatch, BatchLost, PollReceipts, ReceiptsBatch, ApplyReceipts,
           ReceiptsUnavailable, Unregister, Tick, pushVars, storeVars, receiptVars
  <2>2. /\ tickets' \cup checked' = tickets \cup checked
        /\ polling' # None => polling' \subseteq tickets \cup checked
    <3>1. CASE UNCHANGED <<tickets, checked, polling>>
      BY <1>0, <3>1 DEF TicketInv
    <3>2. CASE \/ PollReceipts \/ ReceiptsUnavailable \/ ReceiptsBatch
      BY <1>0, <3>2
         DEF PollReceipts, ReceiptsUnavailable, ReceiptsBatch, ApplyReceipts, TicketInv, storeVars
    <3> QED BY <1>10, <3>1, <3>2
            DEF Enqueue, Select, CommitBatch, BatchLost, Unregister, Tick, pushVars, storeVars,
                receiptVars
  <2> QED BY <2>1, <2>2, TasksStay
<1> QED
  BY <1>3, <1>4, <1>5, <1>6, <1>7, <1>8, <1>9, <1>10 DEF PushNext, Worker, TaskStep
-----------------------------------------------------------------------------
(***************************************************************************)
(* The daily cap.                                                          *)
(***************************************************************************)
Logged(d) ==
  {t \in Tasks : task[t].pc = "logged" /\ task[t].sent /\ Day(task[t].now) = d}
Pushed(d) ==
  {t \in Tasks : /\ task[t].sent /\ Day(task[t].now) = d
                 /\ task[t].pc \in {"send", "logged"}}

\* The recorded tasks of a day have different log rows, all stamped since midnight.
LEMMA LoggedBound ==
  PushTypeOK /\ LogInv =>
    \A d \in Nat :
      /\ IsFiniteSet(Logged(d))
      /\ \A h \in Tasks : Day(task[h].now) = d => Cardinality(Logged(d)) <= CountSentToday(h)
<1> SUFFICES ASSUME PushTypeOK, LogInv, NEW d \in Nat
             PROVE  /\ IsFiniteSet(Logged(d))
                    /\ \A h \in Tasks :
                         Day(task[h].now) = d => Cardinality(Logged(d)) <= CountSentToday(h)
  OBVIOUS
<1> DEFINE K == {l \in logs : l[2] >= d * MinutesPerDay}
           LogRow == [t \in Logged(d) |-> <<task[t].msg.type, task[t].now>>]
<1>1. IsFiniteSet(K)
  BY FS_Subset DEF PushTypeOK
<1>2. \A t \in Logged(d) : LogRow[t] \in K
  <2> SUFFICES ASSUME NEW t \in Logged(d) PROVE LogRow[t] \in K
    OBVIOUS
  <2>1. <<task[t].msg.type, task[t].now>> \in logs
    BY DEF LogInv, Logged
  <2>2. task[t].now \in Nat /\ Day(task[t].now) = d
    BY DEF PushTypeOK, TaskState, TaskRow, Logged
  <2>3. d * MinutesPerDay <= task[t].now
    BY <2>2, Midnight
  <2>4. d * MinutesPerDay \in Nat
    BY NotificationsAssumption
  <2> QED BY <2>1, <2>2, <2>3, <2>4
<1>3. \A s, t \in Logged(d) : s # t => LogRow[s] # LogRow[t]
  BY DEF LogInv, Logged
<1>4. LogRow \in Injection(Logged(d), K)
  <2>1. LogRow \in [Logged(d) -> K]
    BY <1>2
  <2> QED BY <1>3, <2>1 DEF Injection, IsInjective
<1> HIDE DEF K, LogRow
<1>5. IsFiniteSet(Logged(d)) /\ Cardinality(Logged(d)) <= Cardinality(K)
  BY <1>1, <1>4, FS_Injection
<1>6. \A h \in Tasks : Day(task[h].now) = d => CountSentToday(h) = Cardinality(K)
  BY DEF K, CountSentToday
<1> QED BY <1>5, <1>6

\* While a task of the day sends, the day's pushes are the recorded ones and its own.
SenderBound ==
  \A d \in Nat : \A h \in Tasks :
    task[h].pc = "send" /\ Day(task[h].now) = d
    => IsFiniteSet(Pushed(d)) /\ Cardinality(Pushed(d)) <= MaxPerDay

LEMMA PushedBound == PushTypeOK /\ SendInv /\ LogInv => SenderBound
<1> SUFFICES ASSUME PushTypeOK, SendInv, LogInv, NEW d \in Nat, NEW h \in Tasks,
                    task[h].pc = "send", Day(task[h].now) = d
             PROVE  IsFiniteSet(Pushed(d)) /\ Cardinality(Pushed(d)) <= MaxPerDay
  BY DEF SenderBound
<1>1. IsFiniteSet(Logged(d)) /\ Cardinality(Logged(d)) <= CountSentToday(h)
  BY LoggedBound
<1>2. CountSentToday(h) < MaxPerDay /\ CountSentToday(h) \in Nat
  BY CountType DEF SendInv
<1>3. Pushed(d) \subseteq Logged(d) \cup {h}
  BY DEF SendInv, Pushed, Logged
<1>4. /\ IsFiniteSet(Logged(d) \cup {h}) /\ Cardinality(Logged(d)) \in Nat
      /\ Cardinality(Logged(d) \cup {h}) <= Cardinality(Logged(d)) + 1
  <2>1. Cardinality(Logged(d)) \in Nat
    BY <1>1, FS_CardinalityType
  <2>2. IsFiniteSet(Logged(d) \cup {h})
        /\ Cardinality(Logged(d) \cup {h}) \in {Cardinality(Logged(d)),
                                                Cardinality(Logged(d)) + 1}
    BY <1>1, FS_AddElement
  <2> QED BY <2>1, <2>2
<1>5. /\ IsFiniteSet(Pushed(d)) /\ Cardinality(Pushed(d)) \in Nat
      /\ Cardinality(Pushed(d)) <= Cardinality(Logged(d) \cup {h})
      /\ Cardinality(Logged(d) \cup {h}) \in Nat
  BY <1>3, <1>4, FS_Subset, FS_CardinalityType
<1> QED BY <1>1, <1>2, <1>4, <1>5, NotificationsAssumption

\* A task is recorded as it was when it sent.
LEMMA RecordedAsSent ==
  ASSUME PushTypeOK, [PushNext]_pushVars, NEW t \in Tasks, task'[t].pc = "logged"
  PROVE  /\ task[t].pc \in {"send", "logged"}
         /\ task'[t].ok = task[t].ok /\ task'[t].sent = task[t].sent /\ task'[t].now = task[t].now
<1>1. ASSUME NEW s \in Tasks, NEW r, task' = [task EXCEPT ![s] = r], r.pc # "logged"
      PROVE  task'[t] = task[t]
  BY <1>1 DEF PushTypeOK
<1>2. ASSUME NEW s \in Tasks, NEW msg, Accept(s, msg)
      PROVE  task'[t] = task[t]
  BY <1>1, <1>2 DEF Accept, NoTask
<1>3. ASSUME NEW s \in Tasks, NEW how \in {"skipped", "deduped", "lost"}, EndTask(s, how)
      PROVE  task'[t] = task[t]
  BY <1>1, <1>3 DEF EndTask, NoTask
<1>4. ASSUME NEW s \in Tasks, NEW up \in BOOLEAN, BeginSend(s, up)
      PROVE  task'[t] = task[t]
  <2>1. \A r : task' = [task EXCEPT ![s] = r] /\ r.pc = "send" => task'[t] = task[t]
    BY <1>1
  <2>2. task' = [task EXCEPT ![s].pc = "send", ![s].left = tokens]
        => task'[t] = task[t]
    <3>1. [task[s] EXCEPT !.pc = "send", !.left = tokens].pc = "send"
      BY DEF PushTypeOK, TaskState, TaskRow
    <3> QED BY <2>1, <3>1
  <2> QED BY <1>3, <1>4, <2>2 DEF BeginSend
<1>5. ASSUME NEW s \in Tasks, NEW tok \in Tokens,
             NEW a \in {"ticket", "no_ticket", "error", "dead"}, Send(s, tok, a)
      PROVE  task'[t] = task[t]
  BY <1>1, <1>5, Answered
<1>6. ASSUME NEW s \in Tasks, Log(s)
      PROVE  /\ task[t].pc \in {"send", "logged"}
             /\ task'[t].ok = task[t].ok /\ task'[t].sent = task[t].sent /\ task'[t].now = task[t].now
  BY <1>6 DEF Log, PushTypeOK, TaskState, TaskRow
<1>7. ASSUME NEW s \in Tasks, QuietSkip(s) \/ GateSkip(s) \/ RateLimitSkip(s) \/ Dedup(s)
                              \/ TaskLost(s)
      PROVE  task'[t] = task[t]
  BY <1>3, <1>7 DEF QuietSkip, GateSkip, RateLimitSkip, Dedup, TaskLost
<1>8. ASSUME NEW w \in Replicas, NEW accepted \in BOOLEAN, Dispatch(w, accepted)
      PROVE  task'[t] = task[t]
  BY <1>2, <1>8 DEF Dispatch, NotifierCall
<1>9. ASSUME NEW msg \in DirectCalls, DirectCall(msg)
      PROVE  task'[t] = task[t]
  BY <1>2, <1>9 DEF DirectCall
<1>10. CASE UNCHANGED task
  BY <1>10
<1> QED
  BY <1>4, <1>5, <1>6, <1>7, <1>8, <1>9, <1>10
     DEF PushNext, Worker, TaskStep, Enqueue, Select, CommitBatch, BatchLost, PollReceipts,
         ReceiptsBatch, ApplyReceipts, ReceiptsUnavailable, Unregister, Tick, pushVars

LEMMA PushCapStep ==
  ASSUME PushTypeOK, SendInv, LogInv, PushCap, [PushNext]_pushVars, PushTypeOK', SendInv', LogInv'
  PROVE  PushCap'
<1> SUFFICES ASSUME NEW d \in 0..Day(MaxMinute)
             PROVE  Cardinality(Pushed(d)') <= MaxPerDay
  BY DEF PushCap, Pushed, AnySent
<1>0. d \in Nat
  BY Midnight, NotificationsAssumption
<1>1. CASE \E h \in Tasks : task'[h].pc = "send" /\ Day(task'[h].now) = d
  <2>1. SenderBound'
    BY PushedBound, PTL
  <2> QED BY <1>0, <1>1, <2>1 DEF SenderBound
<1>2. CASE ~ \E h \in Tasks : task'[h].pc = "send" /\ Day(task'[h].now) = d
  <2>1. Pushed(d)' \subseteq Pushed(d)
    BY <1>2, RecordedAsSent DEF Pushed
  <2>2. Cardinality(Pushed(d)) <= MaxPerDay
    BY DEF PushCap, Pushed, AnySent
  <2>3. IsFiniteSet(Pushed(d))
    <3>1. CASE \E h \in Tasks : task[h].pc = "send" /\ Day(task[h].now) = d
      BY <1>0, <3>1, PushedBound DEF SenderBound
    <3>2. CASE ~ \E h \in Tasks : task[h].pc = "send" /\ Day(task[h].now) = d
      <4>1. Pushed(d) \subseteq Logged(d)
        BY <3>2 DEF Pushed, Logged
      <4> QED BY <1>0, <4>1, LoggedBound, FS_Subset
    <3> QED BY <3>1, <3>2
  <2>4. /\ Cardinality(Pushed(d)') \in Nat /\ Cardinality(Pushed(d)) \in Nat
        /\ Cardinality(Pushed(d)') <= Cardinality(Pushed(d))
    BY <2>1, <2>3, FS_Subset, FS_CardinalityType
  <2> QED BY <2>2, <2>4, NotificationsAssumption
<1> QED BY <1>1, <1>2

\* The invariant all three theorems come from.
THEOREM PushInductive == PushSpec => []PushIInv
<1>1. PushIInv /\ [PushNext]_pushVars => PushIInv'
  BY PushTypeStep, OutboxStep, TasksStep, PushCapStep DEF PushIInv, OutboxOK, TasksOK
<1> QED BY <1>1, PushInitIInv, PTL DEF PushSpec

\* However many background tasks run at once, and whatever is lost, the pushes of
\* a day stay within the cap: count and log of _run_pipeline under one lock.
THEOREM PushCapHolds == PushSpec => []PushCap
<1>1. PushIInv => PushCap
  BY DEF PushIInv
<1> QED BY <1>1, PushInductive, PTL

\* For any number of replicas and any batch size, a row is dispatched again only
\* after a batch was lost (SKIP LOCKED in process_outbox_batch).
THEOREM NoDoubleDispatchHolds == PushSpec => []NoDoubleDispatch
<1>1. PushIInv => NoDoubleDispatch
  BY DEF PushIInv, PostsInv
<1> QED BY <1>1, PushInductive, PTL

\* A recorded task's log, tickets and pushes agree for ever, the receipts batch
\* running beside it (_run_pipeline, poll_receipts).
THEOREM TicketPerPushHolds == PushSpec => []TicketPerPush
<1>1. PushIInv => TicketPerPush
  <2> SUFFICES ASSUME PushIInv PROVE TicketPerPush
    OBVIOUS
  <2>0. TicketInv /\ LogInv /\ PushTypeOK
    BY DEF PushIInv
  <2>1. ASSUME NEW t \in Tasks, task[t].pc = "logged"
        PROVE  {p[2] : p \in {q \in tickets \cup checked : q[1] = t}} = task[t].ok
    <3>1. \A p \in tickets \cup checked : p[1] = t => p[2] \in task[t].ok
      BY <2>0 DEF TicketInv
    <3>2. \A k \in task[t].ok : <<t, k>> \in tickets \cup checked
      BY <2>0, <2>1 DEF TicketInv
    <3> DEFINE Mine == {q \in tickets \cup checked : q[1] = t}
    <3>3. \A k \in task[t].ok : <<t, k>> \in Mine /\ <<t, k>>[2] = k
      BY <3>2
    <3>4. \A q \in Mine : q[2] \in task[t].ok
      BY <3>1
    <3> HIDE DEF Mine
    <3>5. {p[2] : p \in Mine} = task[t].ok
      BY <3>3, <3>4
    <3> QED BY <3>5 DEF Mine
  <2>2. ASSUME NEW p \in tickets \cup checked
        PROVE  task[p[1]].pc = "logged" /\ <<task[p[1]].msg.type, task[p[1]].now>> \in logs
    BY <2>0 DEF TicketInv, LogInv, PushTypeOK, TaskState
  <2> QED BY <2>1, <2>2 DEF TicketPerPush
<1> QED BY <1>1, PushInductive, PTL
=============================================================================
