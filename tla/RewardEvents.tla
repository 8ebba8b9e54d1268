---------------------------- MODULE RewardEvents ----------------------------
(***************************************************************************)
(* Gamification events of one user: the analyser emits them fire-and-      *)
(* forget, ratis_rewards turns each into one transaction (CAB credit,      *)
(* mission progress, community challenge, mystery product), the user       *)
(* claims, buffers, bursts and freezes missions, and two nightly batches   *)
(* credit the scans whose event never arrived.                             *)
(*                                                                         *)
(* Transactions run at READ COMMITTED.  A thread takes row and unique-key  *)
(* locks one at a time, in the order of its statements, keeps them in      *)
(* `held', and all its writes appear when it commits.  An event locks its  *)
(* idempotency key, the balance row, the ledger entry of its scan, then    *)
(* the mission rows; a claim locks the mission row, then the balance; the  *)
(* batch locks the ledger entry, then the balance.  PostgreSQL breaks the  *)
(* resulting deadlocks by aborting one of the transactions.                *)
(***************************************************************************)
EXTENDS Integers, FiniteSets, FiniteSetsExt, Functions

CONSTANTS
  Labels,       \* label scans: their events refer to the scan
  Receipts,     \* receipts of one line: their event refers to the receipt
  Emits,        \* scan -> kinds of the events the analyser emits for it
  Promos,       \* promotions detected on a receipt: quantity of its promo event
  Category,     \* label -> category tag of its product
  Mystery,      \* labels of the product of the active mystery challenge
  Missions,     \* daily missions of the catalogue
  Template,     \* mission -> its action type and qualifier
  Target, Reward,         \* missions.target_count, missions.cab_reward
  MaxBuffers,             \* gamification.buffer.n_max_daily
  Rate, Threshold,        \* cab_per_<action>, threshold_per_day (halved above it)
  BatchCab, FreezeCost,   \* CAB of the batches, gamification.freeze_cost_cab
  MysteryPrize,           \* resolve_cab_tier of the user's rank
  Milestone, Prize,       \* threshold and reward of the challenge milestone
  Servers, Batches,       \* database sessions that serve requests, that run batches
  MaxDay, MaxFaults,      \* bounds
  NULL

Scans == Labels \cup Receipts
LabelKinds == {"plain", "organic", "category"}
Events == {e \in Scans \X (LabelKinds \cup {"receipt", "promo"}) : e[2] \in Emits[e[1]]}
Threads == Servers \cup Batches

ASSUME RewardEventsAssumption ==
  /\ IsFiniteSet(Scans) /\ IsFiniteSet(Missions)
  /\ Labels \cap Receipts = {} /\ NULL \notin Scans
  /\ Mystery \subseteq Labels
  /\ \A s \in Labels : {"plain"} \subseteq Emits[s] /\ Emits[s] \subseteq LabelKinds
  /\ \A r \in Receipts : {"receipt"} \subseteq Emits[r] /\ Emits[r] \subseteq {"receipt", "promo"}
  /\ {Promos, Target, Reward, Rate, BatchCab, Milestone, Prize} \subseteq Nat \ {0}
  /\ {MaxBuffers, Threshold, FreezeCost, MysteryPrize, MaxDay, MaxFaults} \subseteq Nat

VARIABLES
  scan,       \* scans.status, with the ten minutes of the batch's WHERE clause
  attached,   \* labels attached to a store (store_status = 'confirmed')
  msgs,       \* events emitted and not yet received
  event,      \* reward_events: status, day of the period, CAB it was awarded
  credit,     \* ledger row with reference_type = 'scan': who wrote it
  retro,      \* receipts with a ledger row of reference_type = 'retro_scan'
  bal,        \* user_cab_balance
  um,         \* user_missions of the period that starts on day 0
  challenge, prized,   \* community_challenge_progress, the user's claim row
  found,      \* mystery_challenge_finds has the user's row
  banned,     \* users.is_shadow_banned
  day, faults,
  pc, job, held        \* per thread: control, local variables, locks

vars == <<scan, attached, msgs, event, credit, retro, bal, um, challenge, prized,
          found, banned, day, faults, pc, job, held>>
threads == <<pc, job, held>>
ledger == <<event, credit, retro, bal, um, challenge, prized, found>>
world == <<scan, attached, msgs, banned, day, faults>>

\* The columns of a user_missions row that are ever read.
NoRow == [status |-> "none", count |-> 0, target |-> 0, seen |-> {}, n |-> 0,
          portions |-> 0, burst |-> 0, locked |-> FALSE, frozen |-> FALSE]
NewRow == [NoRow EXCEPT !.status = "pending", !.target = Target]
NoJob == [e |-> NULL, s |-> NULL, m |-> NULL, cab |-> 0, day |-> 0, todo |-> {},
          portions |-> 0, full |-> FALSE]

Account  == <<"user_cab_balance">>
Claimed  == <<"community_challenge_claims">>
Key(e)   == <<"reward_events", e>>
Entry(s) == <<"uq_cabtx_scan_credit", s>>
Retro(r) == <<"uq_cabtx_retro_scan_credit", r>>
Row(m)   == <<"user_missions", m>>

Free(p, l) == \A q \in Threads \ {p} : l \notin held[q]
Goto(p, l) == pc' = [pc EXCEPT ![p] = l]
Take(p, L) == held' = [held EXCEPT ![p] = @ \cup L]
\* The end of a transaction, committed or rolled back.
End(p) ==
  /\ Goto(p, "idle")
  /\ job' = [job EXCEPT ![p] = NoJob]
  /\ held' = [held EXCEPT ![p] = {}]
Rollback(p) == End(p) /\ UNCHANGED ledger
-----------------------------------------------------------------------------
(***************************************************************************)
(* The analyser: scans, and the events it emits for them.                  *)
(***************************************************************************)
ActionOf(e) == CASE e[2] = "receipt"  -> "receipt_scan"
                 [] e[2] = "promo"    -> "promo_found"
                 [] e[2] = "category" -> "scan_distinct"
                 [] OTHER             -> "label_scan"
ScanClass(e) == ActionOf(e) \in {"receipt_scan", "label_scan"}
Quantity(e) == IF e[2] = "promo" THEN Promos ELSE 1
QualifierOf(e) == IF e[2] \in {"organic", "category"} THEN e[2] ELSE "none"

\* label_task: a label is accepted, at a known store or at none.  "none" is a label
\* that is not accepted, or not yet.
AcceptLabel(s) ==
  /\ scan[s] = "none"
  /\ scan' = [scan EXCEPT ![s] = "accepted"]
  /\ attached' \in {attached, attached \cup {s}}
  /\ UNCHANGED <<msgs, banned, day, faults, ledger, threads>>

\* status_updated_at passes ten minutes.
Age(s) ==
  /\ s \in Labels /\ scan[s] = "accepted"
  /\ scan' = [scan EXCEPT ![s] = "old"]
  /\ UNCHANGED <<attached, msgs, banned, day, faults, ledger, threads>>

\* reconcile_unknown_scans_for_receipt, of a label accepted or not: the events leave
\* before the caller commits; when its commit fails the label is still unattached,
\* and the task is retried.
ReconcileLabel(s) ==
  /\ s \notin attached
  /\ msgs' = msgs \cup {e \in Events : e[1] = s}
  /\ \/ attached' = attached \cup {s} /\ UNCHANGED faults
     \/ faults < MaxFaults /\ faults' = faults + 1 /\ UNCHANGED attached
  /\ UNCHANGED <<scan, banned, day, ledger, threads>>

\* The receipt task: a matched line is rewarded at once, an unresolved one waits.
UploadReceipt(r) ==
  /\ scan[r] = "none"
  /\ \/ /\ scan' = [scan EXCEPT ![r] = "matched"]
        /\ msgs' = msgs \cup {e \in Events : e[1] = r}
     \/ /\ scan' = [scan EXCEPT ![r] = "unresolved"]
        /\ UNCHANGED msgs
  /\ UNCHANGED <<attached, banned, day, faults, ledger, threads>>

\* A retry of the task that reaches its tail a second time.
RetryReceipt(r) ==
  /\ scan[r] = "matched" /\ faults < MaxFaults
  /\ msgs' = msgs \cup {e \in Events : e[1] = r}
  /\ faults' = faults + 1
  /\ UNCHANGED <<scan, attached, banned, day, ledger, threads>>

\* ean_recovery, Job 1 of the data reconciliation batch.
RecoverEan(r) ==
  /\ scan[r] = "unresolved"
  /\ scan' = [scan EXCEPT ![r] = "matched"]
  /\ UNCHANGED <<attached, msgs, banned, day, faults, ledger, threads>>

\* trigger_action never raises: an event that does not get through is dropped.
Lose(e) ==
  /\ e \in msgs /\ faults < MaxFaults
  /\ msgs' = msgs \ {e}
  /\ faults' = faults + 1
  /\ UNCHANGED <<scan, attached, banned, day, ledger, threads>>
-----------------------------------------------------------------------------
(***************************************************************************)
(* handle_action.                                                          *)
(***************************************************************************)
\* _count_today_actions; _apply_diminishing_returns, which of the actions here
\* concerns the label scans, of quantity 1.
DoneToday(e) == Cardinality({f \in Events \ {e} : /\ ActionOf(f) = ActionOf(e)
                                                  /\ event[f].status # "none"
                                                  /\ event[f].day = day})
\* round(rate * 0.5), half to even: nothing is left of a rate of one.
Halved(rate) == rate \div 2 + (IF rate % 4 = 3 THEN 1 ELSE 0)
Amount(e) == CASE ActionOf(e) = "scan_distinct" -> 0
               [] ActionOf(e) = "label_scan" /\ DoneToday(e) >= Threshold -> Halved(Rate)
               [] OTHER -> Rate * Quantity(e)

\* The idempotency key is already in reward_events.
Seen(e) == event[e].status # "none"

\* _insert_event_row waits for a concurrent insert of the key.  A duplicate and
\* the event of a banned user end here.
EventInsert(p, e) ==
  /\ pc[p] = "idle" /\ e \in msgs /\ Free(p, Key(e))
  /\ msgs' = msgs \ {e}
  /\ CASE Seen(e) -> UNCHANGED <<event, threads>>
       [] ~Seen(e) /\ banned ->
            /\ event' = [event EXCEPT ![e] = [status |-> "skipped", day |-> day, cab |-> 0]]
            /\ UNCHANGED threads
       [] OTHER ->
            /\ Goto(p, IF Amount(e) > 0 THEN "award" ELSE "missions")
            /\ job' = [job EXCEPT ![p].e = e, ![p].day = day, ![p].cab = Amount(e)]
            /\ Take(p, {Key(e)})
            /\ UNCHANGED event
  /\ UNCHANGED <<scan, attached, banned, day, faults, credit, retro, bal, um,
                 challenge, prized, found>>

\* uq_cabtx_scan_credit has no entry for the scan.
Uncredited(s) == credit[s] = "none"

\* award_cab: UPDATE user_cab_balance.
EventAward(p) ==
  /\ pc[p] = "award" /\ Free(p, Account)
  /\ Take(p, {Account})
  /\ Goto(p, "ledger")
  /\ UNCHANGED <<world, ledger, job>>

\* award_cab: INSERT INTO cabecoin_transactions.  The unique index lets one
\* credit per scan through; the second fails and takes the event with it.  Only
\* the scan-class actions refer to the scan.
References(e) == IF ScanClass(e) THEN {Entry(e[1])} ELSE {}

\* Mutant: a migration lost the unique index.
NoIndex(e) == FALSE
Refused(e) == ScanClass(e) /\ ~Uncredited(e[1])

EventLedger(p) ==
  LET e == job[p].e IN
  /\ pc[p] = "ledger" /\ \A l \in References(e) : Free(p, l)
  /\ IF Refused(e)
       THEN Rollback(p)
       ELSE /\ Take(p, References(e))
            /\ Goto(p, "missions")
            /\ UNCHANGED <<ledger, job>>
  /\ UNCHANGED world

Matches(m, e) == /\ Template[m].action = ActionOf(e)
                 /\ Template[m].qualifier \in {"none", QualifierOf(e)}

\* tracked_values of a distinct mission.
Distinct(row, v) == Cardinality(row.seen \cup {v})

\* check_missions_progress on one row: a distinct mission is compared with the
\* target of the catalogue, the others with the target of the row.
Progressed(row, e) ==
  LET old == IF row.status = "none" THEN NewRow ELSE row
      distinct == ActionOf(e) = "scan_distinct"
      c == IF distinct THEN Distinct(old, Category[e[1]]) ELSE old.count + Quantity(e)
      full == c >= IF distinct THEN Target ELSE old.target IN
  IF old.status = "claimed" \/ (distinct /\ c = old.count) THEN old
  ELSE [old EXCEPT !.count = c, !.status = IF full THEN "completed" ELSE @,
                   !.seen = IF distinct THEN @ \cup {Category[e[1]]} ELSE @]

\* The period an event counts for: the day it was received.  Mutant: the clock is
\* read again when the missions are updated.
ReadAgain(p) == day
Period(p) == job[p].day

\* process_mystery_find.  The prize is a credit with the reference of the same
\* scan: the unique index refuses it after the award of the event, and after
\* anybody else's credit.
Finds(e) == ScanClass(e) /\ e[1] \in Mystery /\ ~found
PrizeOf(e) == IF Finds(e) THEN MysteryPrize ELSE 0
PrizeRefused(e, cab) == PrizeOf(e) > 0 /\ (cab > 0 \/ ~Uncredited(e[1]))

\* The locks that the rest of handle_action takes: mission rows, and for a prize
\* that the event's own award does not exclude the balance and the ledger entry.
TailLocks(e, cab) ==
  {Row(m) : m \in {x \in Missions : Matches(x, e)}}
    \cup (IF PrizeOf(e) > 0 /\ cab = 0 THEN {Account, Entry(e[1])} ELSE {})

\* Who has credited the event's scan once the event is over.
Creditor(e, cab) == CASE ScanClass(e) /\ cab > 0 -> e[2]
                      [] PrizeOf(e) > 0           -> "mystery"
                      [] OTHER                    -> credit[e[1]]

\* The rest of handle_action and its COMMIT.
EventCommit(p) ==
  LET e == job[p].e  s == e[1]  cab == job[p].cab IN
  /\ pc[p] = "missions"
  /\ \A l \in TailLocks(e, cab) : Free(p, l)
  /\ IF PrizeRefused(e, cab)
       THEN Rollback(p)
       ELSE /\ event' = [event EXCEPT ![e] = [status |-> "processed", day |-> job[p].day,
                                               cab |-> cab]]
            /\ credit' = [credit EXCEPT ![s] = Creditor(e, cab)]
            /\ bal' = bal + cab + PrizeOf(e)
            /\ um' = [m \in Missions |-> IF Matches(m, e) /\ Period(p) = 0
                                           THEN Progressed(um[m], e) ELSE um[m]]
            /\ challenge' = IF ActionOf(e) = "label_scan" THEN challenge + 1 ELSE challenge
            /\ found' = (found \/ Finds(e))
            /\ End(p)
            /\ UNCHANGED <<retro, prized>>
  /\ UNCHANGED world
-----------------------------------------------------------------------------
(***************************************************************************)
(* Missions and the community challenge, on the user's request.            *)
(***************************************************************************)
\* get_missions: the rows of the period are generated when it has none yet.
GetMissions(p) ==
  /\ pc[p] = "idle" /\ day = 0
  /\ \A m \in Missions : um[m].status = "none"
  /\ Goto(p, "generate")
  /\ UNCHANGED <<world, ledger, job, held>>

\* _generate_missions_for_user: a random choice, ON CONFLICT DO NOTHING.
GenerateMissions(p) ==
  /\ pc[p] = "generate"
  /\ \E G \in SUBSET Missions \ {{}} :
       um' = [m \in Missions |-> IF m \in G /\ um[m].status = "none" THEN NewRow ELSE um[m]]
  /\ End(p)
  /\ UNCHANGED <<world, event, credit, retro, bal, challenge, prized, found>>

ApplyBuffer(m) ==
  /\ um[m].status = "pending" /\ um[m].n < MaxBuffers /\ ~um[m].locked
  /\ \A q \in Threads : Row(m) \notin held[q]
  /\ um' = [um EXCEPT ![m].n = @ + 1, ![m].target = 2 * @]
  /\ UNCHANGED <<world, threads, event, credit, retro, bal, challenge, prized, found>>

\* claim_burst: XP only, and every user_missions row is inserted with none.
Paliers(row) == Max({k \in 0..row.count : row.target * 2^k <= row.count} \cup {row.burst})

ClaimBurst(m) ==
  /\ um[m].status # "none" /\ Paliers(um[m]) > um[m].burst
  /\ \A q \in Threads : Row(m) \notin held[q]
  /\ um' = [um EXCEPT ![m].burst = Paliers(um[m]), ![m].locked = TRUE]
  /\ UNCHANGED <<world, threads, event, credit, retro, bal, challenge, prized, found>>

\* claim_mission: portions open with progress and with the days elapsed.
Available(row) ==
  LET size == row.target \div (row.n + 1)
      paliers == IF size = 0 THEN 0 ELSE row.count \div size IN
  Min({paliers, day + 1, row.n + 1})

\* FOR UPDATE on the mission row.  Mutant: the row is read without it.
NoLock(m) == {}
ForUpdate(m) == {Row(m)}

Claim(p, m) ==
  LET row == um[m]  open == Available(row) IN
  /\ pc[p] = "idle" /\ row.status \notin {"none", "claimed"}
  /\ \A l \in ForUpdate(m) : Free(p, l)
  /\ day <= row.n /\ open > row.portions
  /\ job' = [job EXCEPT ![p].m = m, ![p].cab = (open - row.portions) * Reward,
                        ![p].portions = open, ![p].full = (open = row.n + 1)]
  /\ Take(p, ForUpdate(m))
  /\ Goto(p, "claim")
  /\ UNCHANGED <<world, ledger>>

ClaimPay(p) ==
  LET m == job[p].m IN
  /\ pc[p] = "claim" /\ Free(p, Account)
  /\ bal' = bal + job[p].cab
  /\ um' = [um EXCEPT ![m].portions = job[p].portions,
                      ![m].status = IF job[p].full THEN "claimed" ELSE @]
  /\ End(p)
  /\ UNCHANGED <<world, event, credit, retro, challenge, prized, found>>

Freeze(p, m) ==
  /\ pc[p] = "idle" /\ um[m].status # "none" /\ ~um[m].frozen /\ Free(p, Row(m))
  /\ job' = [job EXCEPT ![p].m = m]
  /\ Take(p, {Row(m)})
  /\ Goto(p, "freeze")
  /\ UNCHANGED <<world, ledger>>

\* debit_cab raises on a balance that does not cover the cost.
Covers(cost) == bal >= cost

FreezePay(p) ==
  /\ pc[p] = "freeze" /\ Free(p, Account)
  /\ IF ~Covers(FreezeCost)
       THEN Rollback(p)
       ELSE /\ bal' = bal - FreezeCost
            /\ um' = [um EXCEPT ![job[p].m].frozen = TRUE]
            /\ End(p)
            /\ UNCHANGED <<event, credit, retro, challenge, prized, found>>
  /\ UNCHANGED world

\* claim_milestone of the community challenge: the claim row, then its prize.
ClaimMilestone(p) ==
  /\ pc[p] = "idle" /\ challenge >= Milestone /\ ~prized /\ Free(p, Claimed)
  /\ Take(p, {Claimed})
  /\ Goto(p, "prize")
  /\ UNCHANGED <<world, ledger, job>>

MilestonePay(p) ==
  /\ pc[p] = "prize" /\ Free(p, Account)
  /\ bal' = bal + Prize
  /\ prized' = TRUE
  /\ End(p)
  /\ UNCHANGED <<world, event, credit, retro, um, challenge, found>>
-----------------------------------------------------------------------------
(***************************************************************************)
(* The reconciliation batches.                                             *)
(***************************************************************************)
\* The SELECT of reconcile_missing_scan_rewards.  Mutant: it asks whether the
\* event was received, not whether the scan was credited.
EventMissing(s) == \A e \in Events : e[1] = s => event[e].status = "none"
Missing(s) == Uncredited(s)

ReconcileMissing(b) ==
  /\ pc[b] = "idle"
  /\ LET rows == {s \in Labels : scan[s] = "old" /\ Missing(s)} IN
     /\ rows # {}
     /\ job' = [job EXCEPT ![b].todo = rows]
  /\ Goto(b, "batch")
  /\ UNCHANGED <<world, ledger, held>>

\* _credit_scan: INSERT ... ON CONFLICT DO NOTHING waits for a concurrent credit
\* of the scan.
Inserted(s) == Uncredited(s)

CreditInsert(b, s) ==
  /\ pc[b] = "batch" /\ s \in job[b].todo /\ Free(b, Entry(s))
  /\ job' = [job EXCEPT ![b].s = s, ![b].todo = @ \ {s}]
  /\ IF Inserted(s) THEN Take(b, {Entry(s)}) /\ Goto(b, "pay")
                    ELSE UNCHANGED <<pc, held>>
  /\ UNCHANGED <<world, ledger>>

CreditPay(b) ==
  LET s == job[b].s IN
  /\ pc[b] = "pay" /\ Free(b, Account)
  /\ credit' = [credit EXCEPT ![s] = IF Uncredited(s) THEN "batch" ELSE @]
  /\ bal' = bal + BatchCab
  /\ Goto(b, "batch")
  /\ held' = [held EXCEPT ![b] = {}]
  /\ UNCHANGED <<world, job, event, retro, um, challenge, prized, found>>

BatchEnd(b) ==
  /\ pc[b] = "batch" /\ job[b].todo = {}
  /\ End(b)
  /\ UNCHANGED <<world, ledger>>

\* reconcile_retro_cab, Job 4 of the data reconciliation batch: the scans in status
\* 'matched' without a retroactive credit, those of the last max_lookback_hours.
RetroRead(b) ==
  /\ pc[b] = "idle"
  /\ \E rows \in SUBSET {r \in Receipts : scan[r] = "matched" /\ r \notin retro} :
     /\ rows # {}
     /\ job' = [job EXCEPT ![b].todo = rows]
  /\ Goto(b, "retro")
  /\ UNCHANGED <<world, ledger, held>>

\* _credit_user_scans: the rows of the user, ON CONFLICT DO NOTHING.
RetroInsert(b) ==
  LET rows == job[b].todo \ retro IN
  /\ pc[b] = "retro" /\ \A r \in job[b].todo : Free(b, Retro(r))
  /\ IF rows = {}
       THEN End(b)
       ELSE /\ job' = [job EXCEPT ![b].todo = rows]
            /\ Take(b, {Retro(r) : r \in rows})
            /\ Goto(b, "retropay")
  /\ UNCHANGED <<world, ledger>>

RetroPay(b) ==
  /\ pc[b] = "retropay" /\ Free(b, Account)
  /\ retro' = retro \cup job[b].todo
  /\ bal' = bal + BatchCab * Cardinality(job[b].todo)
  /\ End(b)
  /\ UNCHANGED <<world, event, credit, um, challenge, prized, found>>
-----------------------------------------------------------------------------
(***************************************************************************)
(* The world.                                                              *)
(***************************************************************************)
\* The lock a thread waits for next.
Wanted(p) ==
  CASE pc[p] \in {"award", "claim", "freeze", "prize", "pay", "retropay"} -> {Account}
    [] pc[p] = "ledger"   -> References(job[p].e)
    [] pc[p] = "missions" -> TailLocks(job[p].e, job[p].cab)
    [] pc[p] = "batch"    -> {Entry(s) : s \in job[p].todo}
    [] OTHER              -> {}
Waits(p, q) == Wanted(p) \cap held[q] # {}

\* PostgreSQL aborts one of two transactions that wait for each other.
DeadlockVictim(p) ==
  /\ \E q \in Threads \ {p} : Waits(p, q) /\ Waits(q, p)
  /\ Rollback(p)
  /\ UNCHANGED world

\* A process dies: its transaction is rolled back.
Crash(p) ==
  /\ pc[p] # "idle" /\ faults < MaxFaults
  /\ faults' = faults + 1
  /\ Rollback(p)
  /\ UNCHANGED <<scan, attached, msgs, banned, day>>

\* An administrator shadow-bans the user.
ShadowBan ==
  /\ ~banned /\ faults < MaxFaults
  /\ banned' = TRUE
  /\ faults' = faults + 1
  /\ UNCHANGED <<scan, attached, msgs, day, ledger, threads>>

NextDay ==
  /\ day < MaxDay
  /\ day' = day + 1
  /\ UNCHANGED <<scan, attached, msgs, banned, faults, ledger, threads>>
-----------------------------------------------------------------------------
Init ==
  /\ scan = [s \in Scans |-> "none"]
  /\ attached = {} /\ msgs = {}
  /\ event = [e \in Events |-> [status |-> "none", day |-> 0, cab |-> 0]]
  /\ credit = [s \in Scans |-> "none"]
  /\ retro = {} /\ bal = 0
  /\ um = [m \in Missions |-> NoRow]
  /\ challenge = 0 /\ prized = FALSE /\ found = FALSE
  /\ banned = FALSE /\ day = 0 /\ faults = 0
  /\ pc = [p \in Threads |-> "idle"]
  /\ job = [p \in Threads |-> NoJob]
  /\ held = [p \in Threads |-> {}]

\* The steps of a transaction that is under way.
Work(p) == \/ EventAward(p) \/ EventLedger(p) \/ EventCommit(p)
           \/ GenerateMissions(p) \/ ClaimPay(p) \/ FreezePay(p) \/ MilestonePay(p)
BatchWork(b) == \/ ReconcileMissing(b) \/ CreditPay(b) \/ BatchEnd(b)
                \/ RetroRead(b) \/ RetroInsert(b) \/ RetroPay(b)
                \/ \E s \in Labels : CreditInsert(b, s)

Next ==
  \/ \E s \in Labels : AcceptLabel(s) \/ Age(s) \/ ReconcileLabel(s)
  \/ \E r \in Receipts : UploadReceipt(r) \/ RetryReceipt(r) \/ RecoverEan(r)
  \/ \E e \in Events : Lose(e) \/ \E p \in Servers : EventInsert(p, e)
  \/ \E p \in Servers : Work(p) \/ GetMissions(p) \/ ClaimMilestone(p)
  \/ \E m \in Missions : \/ ApplyBuffer(m) \/ ClaimBurst(m)
                         \/ \E p \in Servers : Claim(p, m) \/ Freeze(p, m)
  \/ \E b \in Batches : BatchWork(b)
  \/ \E p \in Threads : DeadlockVictim(p) \/ Crash(p)
  \/ ShadowBan \/ NextDay

Spec == Init /\ [][Next]_vars

\* Time passes, a running transaction goes on, PostgreSQL resolves deadlocks,
\* and the cron job gets a session again and again (a batch process has its own
\* connection; requests that keep a shared session busy must not hide it).
Fairness == /\ \A s \in Labels : WF_vars(Age(s))
            /\ \A p \in Servers : WF_vars(Work(p) \/ DeadlockVictim(p))
            /\ \A b \in Batches : /\ WF_vars(BatchWork(b) \/ DeadlockVictim(b))
                                 /\ SF_vars(ReconcileMissing(b))
FairSpec == Spec /\ Fairness
-----------------------------------------------------------------------------
(***************************************************************************)
(* Properties.                                                             *)
(***************************************************************************)
\* check_cab_balance_integrity, down to what each coin was paid for: the balance
\* is the awards of the events, the credits of the batches, the mystery prizes, the
\* mission portions marked as claimed and the milestone, less the freezes, whoever
\* raced whom for them, and no freeze overdraws it.
Awards == [e \in Events |-> event[e].cab]
Portions == [m \in Missions |-> um[m].portions]
CreditedBy(c) == {s \in Scans : credit[s] = c}

CabIntegrity ==
  /\ bal >= 0
  /\ bal = SumFunction(Awards)
          + BatchCab * (Cardinality(retro) + Cardinality(CreditedBy("batch")))
          + MysteryPrize * Cardinality(CreditedBy("mystery"))
          + Reward * SumFunction(Portions)
          + (IF prized THEN Prize ELSE 0)
          - FreezeCost * Cardinality({m \in Missions : um[m].frozen})

\* A mission stands exactly at the processed events of its period (the distinct
\* values of a scan_distinct mission): duplicates, retries, rolled back events
\* and concurrent handlers neither add nor lose progress.  A claimed row is
\* frozen at what it had.
Counted(m) == {e \in Events : /\ Matches(m, e) /\ event[e].status = "processed"
                              /\ event[e].day = 0}
Units(m) == [e \in Events |-> IF e \in Counted(m) THEN Quantity(e) ELSE 0]
Values(m) == {Category[e[1]] : e \in Counted(m)}
Expected(m) == IF Template[m].action = "scan_distinct" THEN Cardinality(Values(m))
                                                      ELSE SumFunction(Units(m))
MissionCounts ==
  \A m \in Missions :
    IF um[m].status = "claimed" THEN um[m].count <= Expected(m)
                                ELSE um[m].count = Expected(m)

\* A scan event that was awarded anything owns the ledger row of its scan: at most
\* one of the events and batches that want to pay for a scan does, and an event
\* whose credit was refused left no other effect.
EventOwnsCredit ==
  \A e \in Events :
    event[e].cab > 0 /\ ScanClass(e) => credit[e[1]] = e[2]

\* An accepted label scan is credited in the end, although its event may be
\* lost, refused, rolled back or never sent: the batch finds it.
ScanIsCredited ==
  \A s \in Labels : (scan[s] # "none") ~> ~Uncredited(s)
=============================================================================
