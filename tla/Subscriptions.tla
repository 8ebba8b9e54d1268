--------------------------- MODULE Subscriptions ---------------------------
(***************************************************************************)
(* Premium subscriptions of ratis_auth: checkout, Stripe and its webhooks, *)
(* the rewards a payment triggers, cancellation and the operations of an   *)
(* administrator.                                                          *)
(*                                                                         *)
(* A step ends where the code commits, calls Stripe, or reads what it uses *)
(* in a later statement; s names a subscription row and the Stripe session *)
(* created with it.  Prices, currencies and dates are left out; of the     *)
(* latter only "expires_at has passed" is read by the code.                *)
(***************************************************************************)
EXTENDS Integers, Sequences, FiniteSets, SequencesExt

CONSTANTS
  Users, Subs,
  Referred,     \* users with a referral_uses row
  Processes,    \* ratis_auth processes that receive webhooks
  MaxUses,      \* max_uses of the discount campaign
  MaxOps,       \* bounds cancellations and administrator operations
  MaxFaults,    \* bounds crashes
  NULL

Plans == {"monthly", "annual"}

ASSUME SubscriptionsAssumption ==
  /\ Referred \subseteq Users /\ MaxUses \in Nat /\ MaxOps \in Nat
  /\ MaxFaults \in Nat /\ NULL \notin Users \cup Subs \cup Plans

VARIABLES
  sub,       \* subscriptions rows
  order,     \* rows by started_at, the latest last
  lapsed,    \* active rows whose expires_at has passed
  uses,      \* discount_campaigns.uses_count
  checkout,  \* create_checkout of s: "none", "checked", "session", "over"
  stripe,    \* Stripe: the session of s
  claimed,   \* stripe_webhook_events
  acked,     \* Stripe: events answered with 200
  hook,      \* what each process does with a webhook
  ref,       \* referral_uses of a referred user
  cancel,    \* cancel_active of a user: the row it read, or NULL
  admin,     \* the administrator's request on a user: the row it read, and its status
  outcome,   \* history: what became of the event of s
  posts,     \* history: triggers sent to ratis_rewards
  ops, faults

vars == <<sub, order, lapsed, uses, checkout, stripe, claimed, acked, hook, ref,
          cancel, admin, outcome, posts, ops, faults>>
rowVars == <<sub, order, lapsed, uses>>
hookVars == <<claimed, acked, hook, ref, outcome, posts>>
requests == <<cancel, admin>>

NoSub == [status |-> "none", user |-> NULL, plan |-> NULL, code |-> FALSE, paid_with |-> NULL]
Idle == [pc |-> "idle", s |-> NULL, todo |-> {}]
NoRequest == [op |-> "none", s |-> NULL, was |-> "none"]

With(u, status) == {s \in Subs : sub[s].user = u /\ sub[s].status = status}
RowsOf(u) == SelectSeq(order, LAMBDA s : sub[s].user = u)
Latest(u) == Last(RowsOf(u))
Restarted(s) == Append(SelectSeq(order, LAMBDA r : r # s), s)
-----------------------------------------------------------------------------
(* POST /account/subscription *)

\* create_checkout up to the call to Stripe: no active row, and a usable code.
CheckoutBegin(s, u, plan, code) ==
  /\ checkout[s] = "none"
  /\ With(u, "active") = {}
  /\ code => uses < MaxUses
  /\ checkout' = [checkout EXCEPT ![s] = "checked"]
  /\ stripe' = [stripe EXCEPT ![s] = "created"]
  /\ sub' = [sub EXCEPT ![s] = [NoSub EXCEPT !.user = u, !.plan = plan, !.code = code]]
  /\ UNCHANGED <<order, lapsed, uses, hookVars, requests, ops, faults>>

\* The customer learns the session's URL, so can pay, once the row is committed.
\* Mutant: the URL is handed out before.
AsCreated(s) == stripe[s] = "created"
Payable(s) == stripe[s] = "created" /\ checkout[s] = "session"

\* create_pending and the commit; idx_one_pending_subscription refuses a second
\* pending row of the user.
CheckoutInsert(s) ==
  /\ checkout[s] = "checked"
  /\ IF With(sub[s].user, "pending") = {}
       THEN /\ checkout' = [checkout EXCEPT ![s] = "session"]
            /\ sub' = [sub EXCEPT ![s].status = "pending", ![s].paid_with = "stripe"]
            /\ order' = Append(order, s)
       ELSE /\ checkout' = [checkout EXCEPT ![s] = "over"]
            /\ UNCHANGED <<sub, order>>
  /\ UNCHANGED <<lapsed, uses, stripe, hookVars, requests, ops, faults>>

CheckoutCrash(s) ==
  /\ checkout[s] = "checked" /\ faults < MaxFaults
  /\ checkout' = [checkout EXCEPT ![s] = "over"] /\ faults' = faults + 1
  /\ UNCHANGED <<rowVars, stripe, hookVars, requests, ops>>

\* Stripe: a session is paid or, after a day, expires.
Pay(s) ==
  /\ Payable(s) /\ stripe' = [stripe EXCEPT ![s] = "paid"]
  /\ UNCHANGED <<rowVars, checkout, hookVars, requests, ops, faults>>

Expire(s) ==
  /\ stripe[s] = "created" /\ checkout[s] # "checked"
  /\ stripe' = [stripe EXCEPT ![s] = "expired"]
  /\ UNCHANGED <<rowVars, checkout, hookVars, requests, ops, faults>>
-----------------------------------------------------------------------------
(* POST /webhooks/stripe *)

\* claim_stripe_event: only the first receipt goes on.  Mutant: a plain insert.
FirstReceipt(s) == TRUE
Unclaimed(s) == s \notin claimed

Settle(s, what) == outcome' = [outcome EXCEPT ![s] = what]

\* Stripe delivers the session's event until it is answered; the claim is
\* committed before the event is handled.
Deliver(w, s) ==
  /\ hook[w] = Idle
  /\ stripe[s] \in {"paid", "expired"} /\ s \notin acked
  /\ IF Unclaimed(s)
       THEN /\ claimed' = claimed \cup {s}
            /\ hook' = [hook EXCEPT ![w] =
                 [Idle EXCEPT !.pc = IF stripe[s] = "paid" THEN "read" ELSE "expired", !.s = s]]
            /\ UNCHANGED acked
       ELSE acked' = acked \cup {s} /\ UNCHANGED <<claimed, hook>>
  /\ UNCHANGED <<rowVars, checkout, stripe, ref, outcome, posts, requests, ops, faults>>

Goto(w, pc) == hook' = [hook EXCEPT ![w].pc = pc]

\* handle_checkout_completed reads the row: only a pending one is activated.
CompletedRead(w) ==
  /\ hook[w].pc = "read"
  /\ IF sub[hook[w].s].status = "pending"
       THEN Goto(w, "write") /\ UNCHANGED outcome
       ELSE Goto(w, "referral") /\ Settle(hook[w].s, "ignored")
  /\ UNCHANGED <<rowVars, checkout, stripe, claimed, acked, ref, posts, requests, ops, faults>>

\* fn_increment_discount_uses counts a row that becomes active.  Mutant: the
\* trigger fires on INSERT only.
OnInsert(s) == FALSE
Counts(s) == sub[s].code /\ sub[s].status # "active"

\* A row becomes active: refused by the trigger when the code is used up, by
\* idx_one_active_subscription when the user has another active row.
CanActivate(s) ==
  /\ With(sub[s].user, "active") \subseteq {s}
  /\ Counts(s) => uses < MaxUses

Activate(s, provider) ==
  /\ sub' = [sub EXCEPT ![s].status = "active", ![s].paid_with = provider]
  /\ order' = Restarted(s)
  /\ lapsed' = lapsed \ {s}
  /\ uses' = IF Counts(s) THEN uses + 1 ELSE uses

\* The handler raises: the event stays claimed and is not answered.
Raise(w) == hook' = [hook EXCEPT ![w] = Idle] /\ Settle(hook[w].s, "lost")

\* ... and writes it, with referral_uses.plan, in one commit.  cancelled_check
\* refuses to activate a row that was cancelled since it was read.
CompletedWrite(w) ==
  LET s == hook[w].s  u == sub[s].user IN
  /\ hook[w].pc = "write"
  /\ IF sub[s].status # "cancelled" /\ CanActivate(s)
       THEN /\ Activate(s, sub[s].paid_with)
            /\ ref' = [r \in Referred |-> IF r = u /\ ref[r].plan = NULL
                                            THEN [ref[r] EXCEPT !.plan = sub[s].plan] ELSE ref[r]]
            /\ Goto(w, "referral") /\ Settle(s, "active")
       ELSE Raise(w) /\ UNCHANGED <<rowVars, ref>>
  /\ UNCHANGED <<checkout, stripe, claimed, acked, posts, requests, ops, faults>>

\* _maybe_trigger_referral reads the referral ...
ReferralRead(w) ==
  LET s == hook[w].s  u == sub[s].user IN
  /\ hook[w].pc = "referral"
  /\ Goto(w, IF u \in Referred /\ ref[u].plan = sub[s].plan /\ ~ref[u].rewarded
               THEN "mark" ELSE "annual")
  /\ UNCHANGED <<rowVars, checkout, stripe, claimed, acked, ref, outcome, posts, requests, ops, faults>>

\* ... commits rewarded_at, then adds the background task.
ReferralMark(w) ==
  /\ hook[w].pc = "mark"
  /\ ref' = [ref EXCEPT ![sub[hook[w].s].user].rewarded = TRUE]
  /\ hook' = [hook EXCEPT ![w].pc = "annual", ![w].todo = @ \cup {"referral"}]
  /\ UNCHANGED <<rowVars, checkout, stripe, claimed, acked, outcome, posts, requests, ops, faults>>

\* _maybe_trigger_annual_gift_card, and the answer to Stripe.
Annual(w) ==
  LET s == hook[w].s IN
  /\ hook[w].pc = "annual"
  /\ hook' = [hook EXCEPT ![w].pc = "tasks",
                          ![w].todo = IF sub[s].plan = "annual" THEN @ \cup {"annual"} ELSE @]
  /\ acked' = acked \cup {s}
  /\ UNCHANGED <<rowVars, checkout, stripe, claimed, ref, outcome, posts, requests, ops, faults>>

\* handle_checkout_expired finds the row by the session's id.  Mutant: by the id
\* of a payment intent, which no row carries.
ByIntent(s) == FALSE
BySession(s) == sub[s].status = "pending"

Expired(w) ==
  LET s == hook[w].s IN
  /\ hook[w].pc = "expired"
  /\ sub' = IF BySession(s) THEN [sub EXCEPT ![s].status = "cancelled"] ELSE sub
  /\ hook' = [hook EXCEPT ![w] = Idle] /\ acked' = acked \cup {s}
  /\ Settle(s, "expired")
  /\ UNCHANGED <<order, lapsed, uses, checkout, stripe, claimed, ref, posts, requests, ops, faults>>

\* The background tasks: trigger_referral_reward and trigger_annual_gift_card
\* post once and swallow every failure.
Post(w, delivered) ==
  LET s == hook[w].s IN
  /\ hook[w].pc = "tasks"
  /\ hook' = [hook EXCEPT ![w] = Idle]
  /\ posts' = IF delivered
                THEN [a \in DOMAIN posts |->
                        IF a \in {<<k, IF k = "annual" THEN s ELSE sub[s].user>> : k \in hook[w].todo}
                          THEN posts[a] + 1 ELSE posts[a]]
                ELSE posts
  /\ UNCHANGED <<rowVars, checkout, stripe, claimed, acked, ref, outcome, requests, ops, faults>>

\* The process stops: what it has not committed, and its tasks, are lost.
Crash(w) ==
  /\ hook[w] # Idle /\ faults < MaxFaults /\ faults' = faults + 1
  /\ hook' = [hook EXCEPT ![w] = Idle]
  /\ outcome' = IF outcome[hook[w].s] = "none"
                  THEN [outcome EXCEPT ![hook[w].s] = "lost"] ELSE outcome
  /\ UNCHANGED <<rowVars, checkout, stripe, claimed, acked, ref, posts, requests, ops>>
-----------------------------------------------------------------------------
(* DELETE /account/subscription, and the administrator *)

\* cancel_active reads the active row and calls Stripe ...
CancelRead(u) ==
  /\ cancel[u] = NULL /\ ops < MaxOps /\ ops' = ops + 1
  /\ \E s \in With(u, "active") : cancel' = [cancel EXCEPT ![u] = s]
  /\ UNCHANGED <<rowVars, checkout, stripe, hookVars, admin, faults>>

\* ... then writes the row, unless Stripe could not be reached.
CancelWrite(u, reached) ==
  /\ cancel[u] # NULL /\ cancel' = [cancel EXCEPT ![u] = NULL]
  /\ sub' = IF reached THEN [sub EXCEPT ![cancel[u]].status = "cancelled"] ELSE sub
  /\ UNCHANGED <<order, lapsed, uses, checkout, stripe, hookVars, admin, ops, faults>>

\* activate_subscription and deactivate_subscription (immediate; at the end of the
\* period it changes nothing) read the latest row of the user ...
AdminRead(u, op) ==
  /\ admin[u] = NoRequest /\ ops < MaxOps /\ ops' = ops + 1
  /\ IF RowsOf(u) = <<>>
       THEN op = "activate" /\ admin' = [admin EXCEPT ![u] = [NoRequest EXCEPT !.op = op]]
       ELSE LET s == Latest(u) IN
              /\ op = "activate" => sub[s].status # "active" \/ s \in lapsed
              /\ admin' = [admin EXCEPT ![u] = [op |-> op, s |-> s, was |-> sub[s].status]]
  /\ UNCHANGED <<rowVars, checkout, stripe, hookVars, cancel, faults>>

AdminOver(u) == admin' = [admin EXCEPT ![u] = NoRequest]

\* Mutant: the administrator's activation leaves paid_with as it is.
AsPaid(s) == sub[s].paid_with
Manual(s) == "manual_admin"

\* ... then write it with no condition on what it has become.  The UPDATE holds the
\* columns that differ from what was read: a row read as active keeps the status it
\* has now, and cancelled_check refuses one cancelled since it was read as pending.
AdminActivate(u) ==
  LET s == admin[u].s IN
  /\ admin[u].op = "activate" /\ s # NULL /\ AdminOver(u)
  /\ \/ /\ admin[u].was # "active" /\ CanActivate(s)
        /\ ~(admin[u].was = "pending" /\ sub[s].status = "cancelled")
        /\ Activate(s, Manual(s))
     \/ /\ admin[u].was = "active"
        /\ sub' = [sub EXCEPT ![s].paid_with = Manual(s)]
        /\ order' = Restarted(s) /\ lapsed' = lapsed \ {s} /\ UNCHANGED uses
  /\ UNCHANGED <<checkout, stripe, hookVars, cancel, ops, faults>>

\* activate_subscription of a user who had no row inserts one.
AdminGrant(s, u) ==
  /\ admin[u].op = "activate" /\ admin[u].s = NULL /\ AdminOver(u)
  /\ checkout[s] = "none" /\ With(u, "active") = {}
  /\ checkout' = [checkout EXCEPT ![s] = "over"]
  /\ sub' = [sub EXCEPT ![s] = [NoSub EXCEPT !.status = "active", !.user = u, !.paid_with = "manual_admin"]]
  /\ order' = Append(order, s)
  /\ UNCHANGED <<lapsed, uses, stripe, hookVars, cancel, ops, faults>>

\* deactivate_subscription: cancelled_check refuses a row activated since it was
\* read as cancelled.
AdminDeactivate(u) ==
  LET s == admin[u].s IN
  /\ admin[u].op = "deactivate" /\ AdminOver(u)
  /\ admin[u].was = "cancelled" => sub[s].status = "cancelled"
  /\ sub' = [sub EXCEPT ![s].status = "cancelled"]
  /\ UNCHANGED <<order, lapsed, uses, checkout, stripe, hookVars, cancel, ops, faults>>

\* A constraint refuses the write, or the commit fails.
AdminRefused(u) ==
  /\ admin[u] # NoRequest /\ AdminOver(u)
  /\ UNCHANGED <<rowVars, checkout, stripe, hookVars, cancel, ops, faults>>

\* extend_subscription
AdminExtend(u) ==
  /\ ops < MaxOps /\ ops' = ops + 1
  /\ RowsOf(u) # <<>> /\ Latest(u) \in lapsed
  /\ lapsed' = lapsed \ {Latest(u)}
  /\ UNCHANGED <<sub, order, uses, checkout, stripe, hookVars, requests, faults>>

\* The paid period ends.  Nothing in the code reacts to it.
Lapse(s) ==
  /\ sub[s].status = "active" /\ lapsed' = lapsed \cup {s}
  /\ UNCHANGED <<sub, order, uses, checkout, stripe, hookVars, requests, ops, faults>>
-----------------------------------------------------------------------------
Init ==
  /\ sub = [s \in Subs |-> NoSub] /\ order = <<>> /\ lapsed = {} /\ uses = 0
  /\ checkout = [s \in Subs |-> "none"] /\ stripe = [s \in Subs |-> "none"]
  /\ claimed = {} /\ acked = {} /\ hook = [w \in Processes |-> Idle]
  /\ ref = [u \in Referred |-> [plan |-> NULL, rewarded |-> FALSE]]
  /\ cancel = [u \in Users |-> NULL] /\ admin = [u \in Users |-> NoRequest]
  /\ outcome = [s \in Subs |-> "none"]
  /\ posts = [a \in ({"annual"} \X Subs) \cup ({"referral"} \X Users) |-> 0]
  /\ ops = 0 /\ faults = 0

HookStep(w) ==
  \/ CompletedRead(w) \/ CompletedWrite(w) \/ ReferralRead(w) \/ ReferralMark(w)
  \/ Annual(w) \/ Expired(w) \/ \E d \in BOOLEAN : Post(w, d)

SessionEnds(s) == Pay(s) \/ Expire(s)

Next ==
  \/ \E s \in Subs, u \in Users, plan \in Plans, code \in BOOLEAN : CheckoutBegin(s, u, plan, code)
  \/ \E s \in Subs : CheckoutInsert(s) \/ CheckoutCrash(s) \/ SessionEnds(s) \/ Lapse(s)
  \/ \E w \in Processes : HookStep(w) \/ Crash(w) \/ \E s \in Subs : Deliver(w, s)
  \/ \E u \in Users :
       \/ CancelRead(u) \/ \E r \in BOOLEAN : CancelWrite(u, r)
       \/ \E op \in {"activate", "deactivate"} : AdminRead(u, op)
       \/ AdminActivate(u) \/ AdminDeactivate(u) \/ AdminRefused(u) \/ AdminExtend(u)
       \/ \E s \in Subs : AdminGrant(s, u)

Spec == Init /\ [][Next]_vars

\* Stripe closes every session and delivers its event until it is answered, and
\* a request that runs goes on.
Fairness ==
  /\ \A s \in Subs : /\ WF_vars(CheckoutInsert(s)) /\ WF_vars(SessionEnds(s))
                     /\ WF_vars(\E w \in Processes : Deliver(w, s))
  /\ \A w \in Processes : WF_vars(HookStep(w))

FairSpec == Spec /\ Fairness
-----------------------------------------------------------------------------
\* Whatever was paid has its row: no payment is without a subscription, wherever
\* create_checkout stops.
PaidHasRow == \A s \in Subs : stripe[s] = "paid" => sub[s].status # "none"

\* A row that grants premium on behalf of Stripe has been paid, whatever
\* webhooks and administrators did to it.
ActiveIsPaid ==
  \A s \in Subs : sub[s].status = "active" /\ sub[s].paid_with = "stripe" => stripe[s] = "paid"

\* The campaign's counter covers every discounted row that is or was active by a
\* payment, and stays within max_uses, although codes are validated long before
\* they are counted.
DiscountBudget ==
  /\ uses <= MaxUses
  /\ Cardinality({s \in Subs : sub[s].code /\ (sub[s].status = "active" \/ outcome[s] = "active")}) <= uses

\* A payment triggers each of its rewards at most once, and nothing else does,
\* however often Stripe delivers its event: an annual one its gift card, one of a
\* referred user the referral reward, which is marked as given before.
RewardPerPayment ==
  /\ \A s \in Subs : posts[<<"annual", s>>] <= (IF stripe[s] = "paid" /\ sub[s].plan = "annual" THEN 1 ELSE 0)
  /\ \A u \in Users :
       /\ posts[<<"referral", u>>] <= Cardinality({s \in Subs : sub[s].user = u /\ stripe[s] = "paid"})
       /\ posts[<<"referral", u>>] > 0 => u \in Referred /\ ref[u].rewarded

\* A pending row, which keeps its user from another checkout, is resolved, unless
\* the handler of its event failed after the claim.
PendingResolves ==
  \A s \in Subs : (sub[s].status = "pending") ~> (sub[s].status # "pending" \/ outcome[s] = "lost")
=============================================================================
