--------------------------- MODULE Notifications ---------------------------
(***************************************************************************)
(* Push notifications of one user, from the event that asks for one to the *)
(* devices: the outbox of ratis_rewards and the replicas that empty it,    *)
(* notifier_client, the background tasks of ratis_notifier, Expo, and the  *)
(* batch that polls Expo's receipts.                                       *)
(*                                                                         *)
(* The user's advisory lock makes what a task does between taking it and   *)
(* its next HTTP call one step; every call to Expo is a step of its own.   *)
(* Log rows other than the "sent" ones are left out: nothing reads them.   *)
(***************************************************************************)
EXTENDS Integers, FiniteSets, FiniteSetsExt

CONSTANTS
  Rows,           \* outbox rows, numbered in the order of created_at
  Types,          \* notification types
  RowType,        \* the type of each outbox row
  DirectCalls,    \* what other services send without the outbox
  Replicas,       \* replicas of ratis_rewards, each with an outbox worker
  BatchSize,      \* batch_size of process_outbox_batch
  Tasks,          \* accepted POST /notify requests, numbered as they arrive (a bound)
  Tokens,         \* the user's push tokens
  MaxPerDay,      \* notifier.max_notifications_per_day
  MinutesPerDay,
  QuietMinutes,   \* minutes of the day that are quiet hours
  MaxMinute,      \* bounds the clock
  MaxLosses,      \* bounds crashes and aborted transactions
  None

Message == [type : Types, visible : BOOLEAN, limit : Nat]

ASSUME NotificationsAssumption ==
  /\ Rows \subseteq Nat /\ IsFiniteSet(Rows) /\ RowType \in [Rows -> Types]
  /\ DirectCalls \subseteq Message /\ Tasks \subseteq Nat
  /\ BatchSize \in Nat \ {0} /\ MaxPerDay \in Nat /\ MinutesPerDay \in Nat \ {0}
  /\ QuietMinutes \subseteq 0..MinutesPerDay - 1
  /\ MaxMinute \in Nat /\ MaxLosses \in Nat /\ None \notin Tasks \cup Replicas

VARIABLES
  outbox,    \* notification_outbox: row -> "none", "unsent" or "sent"
  posts,     \* history: how many POSTs of a row the notifier accepted
  batch,     \* replica -> rows it selected and has still to dispatch
  done,      \* replica -> rows it marked in its open transaction
  task,      \* background tasks of ratis_notifier
  lock,      \* who holds pg_advisory_xact_lock('notif_cap:<user>')
  logs,      \* notification_logs with status "sent": <<type, minute>>
  tokens,    \* user_push_tokens, committed
  tickets,   \* push_receipt_tickets with checked_at NULL: <<task, token>>
  checked,   \* ... with checked_at set
  polling,   \* tickets the receipts batch has selected, None outside a run
  alive,     \* Expo: tokens whose device is registered
  cooldown,  \* Redis: type -> minute at which its rate-limit key expires
  minute, losses

pushVars == <<outbox, posts, batch, done, task, lock, logs, tokens, tickets,
              checked, polling, alive, cooldown, minute, losses>>
outboxVars == <<outbox, posts, batch, done>>
storeVars == <<logs, tokens, tickets>>
receiptVars == <<checked, polling>>

NoTask == [msg |-> None, now |-> 0, pc |-> "none", left |-> {}, sent |-> FALSE,
           ok |-> {}, dead |-> {}]

Day(m) == m \div MinutesPerDay
Active(t) == task[t].pc \in {"new", "send"}

Fault == losses < MaxLosses /\ losses' = losses + 1
-----------------------------------------------------------------------------
(* ratis_core.notifier_client and POST /notify *)

\* notify(): the request is accepted and becomes a background task, which keeps
\* the time of the request.
Accept(t, msg) ==
  /\ task[t].pc = "none" /\ \A s \in Tasks : s < t => task[s].pc # "none"
  /\ task' = [task EXCEPT ![t] = [NoTask EXCEPT !.msg = msg, !.now = minute, !.pc = "new"]]

\* notify_user and send: an unreachable or failing notifier is logged and
\* swallowed, so the caller cannot tell whether the request was accepted.
NotifierCall(msg, accepted) ==
  IF accepted THEN \E t \in Tasks : Accept(t, msg) ELSE UNCHANGED task

\* A service or batch that calls the notifier directly.
DirectCall(msg) ==
  /\ \E t \in Tasks : Accept(t, msg)
  /\ UNCHANGED <<outboxVars, storeVars, receiptVars, lock, alive, cooldown,
                 minute, losses>>
-----------------------------------------------------------------------------
(* The outbox of ratis_rewards *)

\* enqueue_notification, committed with the event it announces.
Enqueue(r) ==
  /\ outbox[r] = "none" /\ \A s \in Rows : s < r => outbox[s] # "none"
  /\ outbox' = [outbox EXCEPT ![r] = "unsent"]
  /\ UNCHANGED <<posts, batch, done, task, storeVars, receiptVars, lock, alive,
                 cooldown, minute, losses>>

\* Rows another replica has not locked (FOR UPDATE SKIP LOCKED).  Mutant: a
\* plain SELECT, which sees the rows another replica is dispatching.
AllUnsent(w) == {r \in Rows : outbox[r] = "unsent"}
Selectable(w) ==
  {r \in Rows : /\ outbox[r] = "unsent"
                /\ \A v \in Replicas : r \notin batch[v] \cup done[v]}

\* The oldest ones, at most BatchSize.
Oldest(S) == {r \in S : Cardinality({s \in S : s < r}) < BatchSize}

\* process_outbox_batch: the SELECT ...
Select(w) ==
  /\ batch[w] = {} /\ done[w] = {}
  /\ Selectable(w) # {}
  /\ batch' = [batch EXCEPT ![w] = Oldest(Selectable(w))]
  /\ UNCHANGED <<outbox, posts, done, task, storeVars, receiptVars, lock, alive,
                 cooldown, minute, losses>>

\* ... for each row the call and the UPDATE, which follows whatever became of
\* the call ...
Dispatch(w, accepted) ==
  /\ batch[w] # {}
  /\ LET r == Min(batch[w]) IN
       /\ NotifierCall([type |-> RowType[r], visible |-> TRUE, limit |-> 0], accepted)
       /\ posts' = [posts EXCEPT ![r] = IF accepted THEN @ + 1 ELSE @]
       /\ batch' = [batch EXCEPT ![w] = @ \ {r}]
       /\ done' = [done EXCEPT ![w] = @ \cup {r}]
  /\ UNCHANGED <<outbox, storeVars, receiptVars, lock, alive, cooldown, minute, losses>>

\* ... and one commit for the batch.
CommitBatch(w) ==
  /\ batch[w] = {} /\ done[w] # {}
  /\ outbox' = [r \in Rows |-> IF r \in done[w] THEN "sent" ELSE outbox[r]]
  /\ done' = [done EXCEPT ![w] = {}]
  /\ UNCHANGED <<posts, batch, task, storeVars, receiptVars, lock, alive, cooldown,
                 minute, losses>>

\* The replica stops, or _process_outbox_sync rolls back: every row of the batch
\* is unsent again, those already posted too.
BatchLost(w) ==
  /\ batch[w] \cup done[w] # {}
  /\ Fault
  /\ batch' = [batch EXCEPT ![w] = {}] /\ done' = [done EXCEPT ![w] = {}]
  /\ UNCHANGED <<outbox, posts, task, storeVars, receiptVars, lock, alive, cooldown,
                 minute>>
-----------------------------------------------------------------------------
(* The pipeline of ratis_notifier: _run_pipeline in a background task *)

\* The task is over; only a logged one is remembered, for the properties.
EndTask(t, how) == task' = [task EXCEPT ![t] = [NoTask EXCEPT !.pc = how]]

\* _is_quiet_hours, at the time of the request.
IsQuietHours(t) == task[t].now % MinutesPerDay \in QuietMinutes

\* count_sent_today: rows stamped since the midnight before the request.
CountSentToday(t) ==
  Cardinality({l \in logs : l[2] >= Day(task[t].now) * MinutesPerDay})

\* Quiet hours are looked at before the lock.
QuietSkip(t) ==
  /\ task[t].pc = "new" /\ IsQuietHours(t)
  /\ EndTask(t, "skipped")
  /\ UNCHANGED <<outboxVars, storeVars, receiptVars, lock, alive, cooldown, minute, losses>>

\* acquire_user_cap_lock succeeds.  Mutant: no lock.
Unlocked(t) == TRUE
LockFree(t) == lock = None

Ready(t) == task[t].pc = "new" /\ ~IsQuietHours(t) /\ LockFree(t)

\* The daily cap is used up.
CapReached(t) == CountSentToday(t) >= MaxPerDay

\* Daily cap or data-only: a skip, whose commit releases the lock at once.
GateSkip(t) ==
  /\ Ready(t) /\ (CapReached(t) \/ ~task[t].msg.visible)
  /\ EndTask(t, "skipped")
  /\ UNCHANGED <<outboxVars, storeVars, receiptVars, lock, alive, cooldown, minute, losses>>

\* RedisPushRateLimiter.allow_push: SET NX EX.  When Redis fails the push goes
\* out and no key is written.
AllowPush(t, redisUp) ==
  LET msg == task[t].msg IN
  \/ (msg.limit = 0 \/ ~redisUp) /\ UNCHANGED cooldown
  \/ /\ msg.limit > 0 /\ redisUp /\ cooldown[msg.type] <= minute
     /\ cooldown' = [cooldown EXCEPT ![msg.type] = minute + msg.limit]

RateLimitSkip(t) ==
  /\ Ready(t) /\ ~CapReached(t) /\ task[t].msg.visible
  /\ task[t].msg.limit > 0 /\ cooldown[task[t].msg.type] > minute
  /\ EndTask(t, "skipped")
  /\ UNCHANGED <<outboxVars, storeVars, receiptVars, lock, alive, cooldown, minute, losses>>

\* All gates passed: the tokens are read, and the task goes on with the lock
\* held.  With no token it commits and ends, the cooldown consumed all the same.
BeginSend(t, redisUp) ==
  /\ Ready(t) /\ ~CapReached(t) /\ task[t].msg.visible
  /\ AllowPush(t, redisUp)
  /\ IF tokens = {}
       THEN EndTask(t, "skipped") /\ UNCHANGED lock
       ELSE /\ task' = [task EXCEPT ![t].pc = "send", ![t].left = tokens]
            /\ lock' = t
  /\ UNCHANGED <<outboxVars, storeVars, receiptVars, alive, minute, losses>>

\* _send_expo, retries included: accepted, with a ticket or without its id; no
\* answer that can be used, whether or not the push went out; DeviceNotRegistered.
Send(t, tok, answer) ==
  /\ task[t].pc = "send" /\ tok \in task[t].left
  /\ \/ /\ answer = "ticket"
        /\ task' = [task EXCEPT ![t].left = @ \ {tok}, ![t].sent = TRUE,
                                ![t].ok = @ \cup {tok}]
     \/ /\ answer = "no_ticket"
        /\ task' = [task EXCEPT ![t].left = @ \ {tok}, ![t].sent = TRUE]
     \/ /\ answer = "error"
        /\ task' = [task EXCEPT ![t].left = @ \ {tok}]
     \/ /\ answer = "dead" /\ tok \notin alive
        /\ task' = [task EXCEPT ![t].left = @ \ {tok}, ![t].dead = @ \cup {tok}]
  /\ UNCHANGED <<outboxVars, storeVars, receiptVars, lock, alive, cooldown, minute, losses>>

\* The advisory lock belongs to the transaction and ends with it, however it
\* ends.  Mutant: a session-level lock, which a rollback does not release.
SessionLock(t) == IF lock = t /\ task[t].left = {} THEN None ELSE lock
Released(t) == IF lock = t THEN None ELSE lock

\* What a rollback leaves of the task's tickets: none.  Mutant: each ticket is
\* committed as soon as Expo has answered.
EachTicket(t) == {<<t, tok>> : tok \in task[t].ok}
Kept(t) == {}

\* "sent" if Expo took the push for any token.
AnySent(t) == task[t].sent

\* ix_notification_logs_dedup_sent refuses a second "sent" row of the minute.
Duplicate(t) == <<task[t].msg.type, task[t].now>> \in logs

\* The commit that ends a task: the log, the tickets and the deletions together.
Log(t) ==
  /\ task[t].pc = "send" /\ task[t].left = {} /\ ~(AnySent(t) /\ Duplicate(t))
  /\ logs' = IF AnySent(t) THEN logs \cup {<<task[t].msg.type, task[t].now>>} ELSE logs
  /\ tickets' = tickets \cup {<<t, tok>> : tok \in task[t].ok}
  /\ tokens' = tokens \ task[t].dead
  /\ task' = [task EXCEPT ![t].pc = "logged", ![t].dead = {}] /\ lock' = Released(t)
  /\ UNCHANGED <<outboxVars, receiptVars, alive, cooldown, minute, losses>>

\* IntegrityError: the rollback takes the tickets and the deletions with it; the
\* pushes are out.
Dedup(t) ==
  /\ task[t].pc = "send" /\ task[t].left = {} /\ AnySent(t) /\ Duplicate(t)
  /\ EndTask(t, "deduped") /\ lock' = Released(t) /\ tickets' = tickets \cup Kept(t)
  /\ UNCHANGED <<outboxVars, logs, tokens, receiptVars, alive, cooldown, minute, losses>>

\* The process stops, or an unexpected exception rolls the task back: nothing
\* records it.
TaskLost(t) ==
  /\ Active(t) /\ Fault
  /\ EndTask(t, "lost")
  /\ lock' = Released(t) /\ tickets' = tickets \cup Kept(t)
  /\ UNCHANGED <<outboxVars, logs, tokens, receiptVars, alive, cooldown, minute>>
-----------------------------------------------------------------------------
(* ratis_batch_push_receipts *)

\* poll_receipts reads unchecked tickets, some of them when there are more than
\* push_receipt_batch_size ...
PollReceipts ==
  /\ polling = None
  /\ \E some \in (SUBSET tickets) \ {{}} : polling' = some
  /\ UNCHANGED <<outboxVars, storeVars, checked, task, lock, alive, cooldown, minute, losses>>

\* ... and, once Expo has answered, deletes the tokens it reports dead and marks
\* every ticket checked, reported on or not.  A token a task is deleting is
\* locked until that task ends.
ApplyReceipts(dead) ==
  /\ polling # None
  /\ dead \subseteq {p[2] : p \in polling} \ alive
  /\ \A t \in Tasks : Active(t) => task[t].dead \cap dead = {}
  /\ tokens' = tokens \ dead
  /\ tickets' = tickets \ polling
  /\ checked' = checked \cup polling
  /\ polling' = None
  /\ UNCHANGED <<outboxVars, logs, task, lock, alive, cooldown, minute, losses>>

\* Expo does not answer: the batch exits with nothing marked.
ReceiptsUnavailable ==
  /\ polling # None /\ Fault /\ polling' = None
  /\ UNCHANGED <<outboxVars, storeVars, checked, task, lock, alive, cooldown, minute>>

\* The application is removed from a device.
Unregister(tok) ==
  /\ tok \in alive /\ alive' = alive \ {tok}
  /\ UNCHANGED <<outboxVars, storeVars, receiptVars, task, lock, cooldown, minute, losses>>

Tick ==
  /\ minute < MaxMinute /\ minute' = minute + 1
  /\ UNCHANGED <<outboxVars, storeVars, receiptVars, task, lock, alive, cooldown, losses>>
-----------------------------------------------------------------------------
PushInit ==
  /\ outbox = [r \in Rows |-> "none"] /\ posts = [r \in Rows |-> 0]
  /\ batch = [w \in Replicas |-> {}] /\ done = [w \in Replicas |-> {}]
  /\ task = [t \in Tasks |-> NoTask] /\ lock = None
  /\ logs = {} /\ tokens = Tokens /\ tickets = {}
  /\ checked = {} /\ polling = None
  /\ alive = Tokens /\ cooldown = [y \in Types |-> 0]
  /\ minute = 0 /\ losses = 0

Worker(w) ==
  \/ Select(w) \/ CommitBatch(w)
  \/ \E accepted \in BOOLEAN : Dispatch(w, accepted)

TaskStep(t) ==
  \/ QuietSkip(t) \/ GateSkip(t) \/ RateLimitSkip(t)
  \/ \E up \in BOOLEAN : BeginSend(t, up)
  \/ \E tok \in Tokens, a \in {"ticket", "no_ticket", "error", "dead"} : Send(t, tok, a)
  \/ Log(t) \/ Dedup(t)

ReceiptsBatch == \E dead \in SUBSET Tokens : ApplyReceipts(dead)

PushNext ==
  \/ \E r \in Rows : Enqueue(r)
  \/ \E msg \in DirectCalls : DirectCall(msg)
  \/ \E w \in Replicas : Worker(w) \/ BatchLost(w)
  \/ \E t \in Tasks : TaskStep(t) \/ TaskLost(t)
  \/ PollReceipts \/ ReceiptsBatch \/ ReceiptsUnavailable
  \/ \E tok \in Tokens : Unregister(tok)
  \/ Tick

PushSpec == PushInit /\ [][PushNext]_pushVars

\* Each replica's worker wakes up every 30 seconds and goes through its batch; a
\* background task, once accepted, runs.  Nothing else is promised.
PushFairness ==
  /\ \A w \in Replicas : WF_pushVars(Worker(w))
  /\ \A t \in Tasks : WF_pushVars(TaskStep(t))

PushFairSpec == PushSpec /\ PushFairness
-----------------------------------------------------------------------------
(***************************************************************************)
(* Properties.                                                             *)
(***************************************************************************)
\* The requests of one day that have reached a device and are recorded, or still
\* in flight, never exceed the daily cap, however many tasks run at once (the
\* advisory lock of _run_pipeline around count and log).
PushCap ==
  \A d \in 0..Day(MaxMinute) :
    Cardinality({t \in Tasks : /\ AnySent(t) /\ Day(task[t].now) = d
                               /\ task[t].pc \in {"send", "logged"}}) <= MaxPerDay

\* Replicas never dispatch a row twice, unless a batch was lost after its calls
\* went out (FOR UPDATE SKIP LOCKED in process_outbox_batch).
NoDoubleDispatch == \A r \in Rows : posts[r] <= 1 + losses

\* Every push Expo gave a ticket for in a task that was recorded keeps a ticket for the
\* receipts batch, and a ticket always belongs to such a push: log, tickets and
\* deletions stand or fall together (_run_pipeline, poll_receipts).
TicketPerPush ==
  /\ \A t \in Tasks : task[t].pc = "logged"
        => {p[2] : p \in {q \in tickets \cup checked : q[1] = t}} = task[t].ok
  /\ \A p \in tickets \cup checked :
        task[p[1]].pc = "logged" /\ <<task[p[1]].msg.type, task[p[1]].now>> \in logs

\* Every row that was enqueued is dispatched and marked, and every accepted
\* request is decided: no replica and no task waits for ever, whatever was lost
\* (the worker's loop and the transaction-scoped lock of _run_pipeline).  An
\* instance takes a bounded number of requests, so it comes to rest.
NotificationSettles ==
  []<>(/\ \A r \in Rows : outbox[r] # "unsent"
       /\ \A t \in Tasks : ~Active(t))
=============================================================================
