------------------------- MODULE SubscriptionsProofs -------------------------
(***************************************************************************)
(* Proofs about Subscriptions: a payment has its row, premium on behalf of *)
(* Stripe has been paid, the discount campaign keeps its budget, and a     *)
(* payment triggers each of its rewards at most once, for any number of    *)
(* users, checkouts, webhook processes, operations and crashes.            *)
(*                                                                         *)
(* No fact about the order of the rows is used: an administrator's         *)
(* operation may hit any row of the user, and keeps all of this.           *)
(***************************************************************************)
EXTENDS Subscriptions, FiniteSetTheorems, TLAPS

Rows == [status: {"none", "pending", "active", "cancelled"}, user: Users \cup {NULL},
         plan: Plans \cup {NULL}, code: BOOLEAN, paid_with: {"stripe", "manual_admin", NULL}]
Hooks == [pc: {"idle", "read", "write", "referral", "mark", "annual", "tasks", "expired"},
          s: Subs \cup {NULL}, todo: SUBSET {"referral", "annual"}]
Posts == ({"annual"} \X Subs) \cup ({"referral"} \X Users)

\* The shape of the rows, of Stripe's sessions and of the webhooks in hand.
TypeOK ==
  /\ sub \in [Subs -> Rows]
  /\ uses \in Nat
  /\ checkout \in [Subs -> {"none", "checked", "session", "over"}]
  /\ stripe \in [Subs -> {"none", "created", "paid", "expired"}]
  /\ claimed \subseteq Subs
  /\ hook \in [Processes -> Hooks]
  /\ ref \in [Referred -> [plan: Plans \cup {NULL}, rewarded: BOOLEAN]]
  /\ outcome \in [Subs -> {"none", "ignored", "active", "expired", "lost"}]
  /\ posts \in [Posts -> Nat]

Over(s) == stripe[s] \in {"paid", "expired"}

\* A row and its session: a checkout that did not begin has no session, one whose
\* URL was handed out has its row, and only a session that is over has an event.
Session(s) ==
  /\ checkout[s] = "none" => stripe[s] = "none"
  /\ checkout[s] = "checked" => stripe[s] = "created"
  /\ checkout[s] = "session" => sub[s].status # "none"
  /\ stripe[s] # "none" => sub[s].user \in Users
  /\ stripe[s] = "paid" => sub[s].status # "none"
  /\ outcome[s] # "none" => Over(s)
  /\ s \in claimed => Over(s)
  /\ sub[s].status = "active" /\ sub[s].paid_with = "stripe" => stripe[s] = "paid"

SessionInv == \A s \in Subs : Session(s)

\* What a process does with an event, and the rewards it still has to trigger.
Fits(x) ==
  /\ x.pc = "idle" => x.todo = {} /\ x.s = NULL
  /\ x.pc # "idle" => x.s \in claimed
  /\ x.pc \notin {"idle", "expired"} => stripe[x.s] = "paid"
  /\ x.pc = "mark" => sub[x.s].user \in Referred
  /\ "referral" \in x.todo => sub[x.s].user \in Referred /\ ref[sub[x.s].user].rewarded
  /\ "annual" \in x.todo => x.pc = "tasks" /\ sub[x.s].plan = "annual"
  /\ x.todo # {} => x.pc \in {"annual", "tasks"}

Handling(w) == Fits(hook[w])

HookInv ==
  /\ \A w \in Processes : Handling(w)
  /\ \A w, v \in Processes : hook[w].pc # "idle" /\ hook[v].pc # "idle" /\ hook[w].s = hook[v].s => w = v

\* The payments whose event no process handles any more.
InHand(s) == \E w \in Processes : hook[w].pc # "idle" /\ hook[w].s = s
Done(u) == {s \in Subs : sub[s].user = u /\ stripe[s] = "paid" /\ s \in claimed /\ ~InHand(s)}
PaidSubs == {s \in Subs : stripe[s] = "paid"}

\* The rewards triggered so far belong to payments that are done.
PostInv ==
  /\ \A s \in Subs :
       /\ posts[<<"annual", s>>] <= 1
       /\ posts[<<"annual", s>>] > 0 =>
            stripe[s] = "paid" /\ sub[s].plan = "annual" /\ s \in claimed /\ ~InHand(s)
  /\ \A u \in Users :
       /\ posts[<<"referral", u>>] <= Cardinality(Done(u))
       /\ posts[<<"referral", u>>] > 0 => u \in Referred /\ ref[u].rewarded

\* The rows the campaign has counted.
Counted == {s \in Subs : sub[s].code /\ (sub[s].status = "active" \/ outcome[s] = "active")}

Budget == /\ uses <= MaxUses /\ IsFiniteSet(Counted) /\ Cardinality(Counted) <= uses
          /\ IsFiniteSet(PaidSubs)

IInv == TypeOK /\ SessionInv /\ HookInv /\ PostInv /\ Budget
-----------------------------------------------------------------------------
(* The parts of a step.                                                    *)

Statuses == {"none", "pending", "active", "cancelled"}
Payers == {"stripe", "manual_admin", NULL}

\* A step that writes the status of a row, and perhaps who pays for it.
Written(s, a, b) ==
  /\ sub' \in [Subs -> Rows]
  /\ \A r \in Subs : /\ sub'[r].user = sub[r].user /\ sub'[r].plan = sub[r].plan
                     /\ sub'[r].code = sub[r].code
                     /\ r # s => sub'[r] = sub[r]
                     /\ r = s => sub'[r].status = a /\ sub'[r].paid_with = b

LEMMA RowFields ==
  ASSUME NEW y \in Rows, NEW a \in Statuses, NEW b \in Payers
  PROVE  /\ [y EXCEPT !.status = a, !.paid_with = b] \in Rows
         /\ [y EXCEPT !.status = a, !.paid_with = b].user = y.user
         /\ [y EXCEPT !.status = a, !.paid_with = b].plan = y.plan
         /\ [y EXCEPT !.status = a, !.paid_with = b].code = y.code
         /\ [y EXCEPT !.status = a, !.paid_with = b].status = a
         /\ [y EXCEPT !.status = a, !.paid_with = b].paid_with = b
  BY DEF Rows, Statuses, Payers

LEMMA StatusField ==
  ASSUME NEW y \in Rows, NEW a \in Statuses
  PROVE  [y EXCEPT !.status = a] = [y EXCEPT !.status = a, !.paid_with = y.paid_with]
  BY DEF Rows

LEMMA WriteRow ==
  ASSUME TypeOK, NEW s, NEW a \in Statuses, NEW b \in Payers,
         sub' = [sub EXCEPT ![s] = [sub[s] EXCEPT !.status = a, !.paid_with = b]]
  PROVE  Written(s, a, b)
  <1>1. sub \in [Subs -> Rows]
      BY DEF TypeOK
  <1>2. CASE s \in Subs
    <2>1. PICK y \in Rows : y = sub[s]
        BY <1>1, <1>2
    <2>2. PICK z \in Rows : z = [y EXCEPT !.status = a, !.paid_with = b]
        BY RowFields
    <2>3. z.user = y.user /\ z.plan = y.plan /\ z.code = y.code /\ z.status = a /\ z.paid_with = b
        BY <2>2 DEF Rows, Statuses, Payers
    <2>4. sub' = [sub EXCEPT ![s] = z]
        BY <2>1, <2>2
    <2>5. sub' \in [Subs -> Rows] /\ sub'[s] = z /\ \A r \in Subs : r # s => sub'[r] = sub[r]
        BY <1>1, <1>2, <2>4
    <2> QED
        BY <2>1, <2>3, <2>5 DEF Written
  <1>3. CASE s \notin Subs
    <2>1. sub' = sub
        BY <1>1, <1>3
    <2> QED
        BY <1>1, <1>3, <2>1 DEF Written
  <1> QED
      BY <1>2, <1>3

\* What nothing changes once Stripe has a session: whose row it is, for which plan,
\* with which code, and how the session ended.
Kept == /\ \A s \in Subs : stripe[s] # "none" =>
             sub'[s].user = sub[s].user /\ sub'[s].plan = sub[s].plan
        /\ \A s \in Subs : Over(s) => stripe'[s] = stripe[s]

LEMMA WrittenIsKept ==
  ASSUME NEW s, NEW a, NEW b, Written(s, a, b), stripe' = stripe
  PROVE  Kept
  BY DEF Written, Kept

\* The webhooks and their rewards, in a step that is not theirs.
LEMMA HooksStay ==
  ASSUME TypeOK, SessionInv, HookInv, PostInv, Kept,
         hook' = hook, claimed' = claimed, ref' = ref, posts' = posts
  PROVE  HookInv' /\ PostInv'
  <1>1. ASSUME NEW s \in claimed
        PROVE  s \in Subs /\ stripe'[s] = stripe[s] /\ Over(s)
               /\ sub'[s].user = sub[s].user /\ sub'[s].plan = sub[s].plan
      BY DEF TypeOK, SessionInv, Session, Over, Kept
  <1>2. ASSUME NEW w \in Processes PROVE Handling(w)'
    <2>1. Fits(hook[w])
        BY DEF HookInv, Handling
    <2>2. CASE hook[w].pc = "idle"
        BY <2>1, <2>2 DEF Handling, Fits
    <2>3. CASE hook[w].pc # "idle"
      <3>1. hook[w].s \in claimed
          BY <2>1, <2>3 DEF Fits
      <3> QED
          BY <1>1, <2>1, <2>3, <3>1 DEF Handling, Fits
    <2> QED
        BY <2>2, <2>3
  <1>3. HookInv'
      BY <1>2 DEF HookInv
  <1>4. \A s \in Subs : InHand(s)' <=> InHand(s)
      BY DEF InHand
  <1>5. \A u : Done(u)' = Done(u)
      BY <1>1, <1>4 DEF Done
  <1>6. PostInv'
      BY <1>1, <1>4, <1>5 DEF PostInv
  <1> QED
      BY <1>3, <1>6

\* The campaign's counter: either nothing more is counted ...
LEMMA BudgetStays ==
  ASSUME Budget, uses \in Nat, uses' = uses, Counted' \subseteq Counted
  PROVE  uses' <= MaxUses /\ IsFiniteSet(Counted') /\ Cardinality(Counted') <= uses'
  <1>1. IsFiniteSet(Counted') /\ Cardinality(Counted') <= Cardinality(Counted)
      BY FS_Subset DEF Budget
  <1>2. Cardinality(Counted) \in Nat /\ Cardinality(Counted') \in Nat
      BY <1>1, FS_CardinalityType DEF Budget
  <1> QED
      BY <1>1, <1>2 DEF Budget

\* ... or one row more, and the use with it.
LEMMA BudgetCounts ==
  ASSUME Budget, uses \in Nat, uses < MaxUses, uses' = uses + 1,
         NEW s, Counted' \subseteq Counted \cup {s}
  PROVE  uses' <= MaxUses /\ IsFiniteSet(Counted') /\ Cardinality(Counted') <= uses'
  <1>1. IsFiniteSet(Counted \cup {s}) /\ Cardinality(Counted \cup {s}) <= Cardinality(Counted) + 1
    <2>1. IsFiniteSet(Counted) /\ Cardinality(Counted) \in Nat
        BY FS_CardinalityType DEF Budget
    <2> QED
        BY <2>1, FS_AddElement
  <1>2. IsFiniteSet(Counted') /\ Cardinality(Counted') <= Cardinality(Counted \cup {s})
      BY <1>1, FS_Subset
  <1>3. /\ Cardinality(Counted) \in Nat /\ Cardinality(Counted') \in Nat
        /\ Cardinality(Counted \cup {s}) \in Nat
      BY <1>1, <1>2, FS_CardinalityType DEF Budget
  <1>4. MaxUses \in Nat
      BY SubscriptionsAssumption
  <1> QED
      BY <1>1, <1>2, <1>3, <1>4 DEF Budget

LEMMA PaidStayFinite ==
  ASSUME IsFiniteSet(PaidSubs), NEW s, PaidSubs' \subseteq PaidSubs \cup {s}
  PROVE  IsFiniteSet(PaidSubs')
  BY FS_AddElement, FS_Subset

CampaignGood == uses' <= MaxUses /\ IsFiniteSet(Counted') /\ Cardinality(Counted') <= uses'

\* An activation counts the row when nothing counted it before.
LEMMA ActivationCounts ==
  ASSUME TypeOK, Budget, NEW s, NEW b, Written(s, "active", b), Counts(s) => uses < MaxUses,
         uses' = IF Counts(s) THEN uses + 1 ELSE uses,
         \A r \in Subs : r # s => outcome'[r] = outcome[r]
  PROVE  CampaignGood /\ uses' \in Nat
  <1>1. uses \in Nat
      BY DEF TypeOK
  <1>2. Counted' \subseteq Counted \cup {s}
      BY DEF Counted, Written
  <1>3. CASE Counts(s)
      BY <1>1, <1>2, <1>3, BudgetCounts DEF CampaignGood
  <1>4. CASE ~Counts(s)
    <2>1. Counted' \subseteq Counted
        BY <1>2, <1>4 DEF Counted, Written, Counts
    <2> QED
        BY <1>1, <1>4, <2>1, BudgetStays DEF CampaignGood
  <1> QED
      BY <1>3, <1>4

\* A step that activates nothing.
LEMMA NothingCounted ==
  ASSUME TypeOK, Budget, uses' = uses,
         \A r \in Subs : \/ ~sub'[r].code
                         \/ sub'[r].status # "active" /\ outcome'[r] # "active"
                         \/ r \in Counted
  PROVE  CampaignGood /\ uses' \in Nat
  <1>1. uses \in Nat
      BY DEF TypeOK
  <1>2. Counted' \subseteq Counted
      BY DEF Counted
  <1> QED
      BY <1>1, <1>2, BudgetStays DEF CampaignGood

\* A step outside the webhooks, put together.
LEMMA Outside ==
  ASSUME IInv, Kept, hook' = hook, claimed' = claimed, ref' = ref, posts' = posts,
         outcome' = outcome, (sub \in [Subs -> Rows])', uses' \in Nat,
         (checkout \in [Subs -> {"none", "checked", "session", "over"}])',
         (stripe \in [Subs -> {"none", "created", "paid", "expired"}])',
         SessionInv', CampaignGood, IsFiniteSet(PaidSubs)'
  PROVE  IInv'
  <1>1. HookInv' /\ PostInv'
      BY HooksStay DEF IInv
  <1> QED
      BY <1>1 DEF IInv, TypeOK, Budget, CampaignGood

\* An administrator, or a cancellation, writes some row of the user.
LEMMA RowOperation ==
  ASSUME IInv, NEW s, NEW a \in Statuses, NEW b \in Payers, Written(s, a, b),
         a = "active" => b # "stripe", a = "none" => sub[s].status = "none",
         UNCHANGED <<checkout, stripe, hookVars>>, CampaignGood, uses' \in Nat
  PROVE  IInv'
  <1>1. Kept
      BY WrittenIsKept
  <1>2. ASSUME NEW r \in Subs PROVE Session(r)'
    <2>1. Session(r)
        BY DEF IInv, SessionInv
    <2>2. CASE r = s
        BY <2>1, <2>2 DEF Session, Written, Over, hookVars
    <2>3. CASE r # s
        BY <2>1, <2>3 DEF Session, Written, Over, hookVars
    <2> QED
        BY <2>2, <2>3
  <1>3. SessionInv'
      BY <1>2 DEF SessionInv
  <1>4. IsFiniteSet(PaidSubs)'
      BY DEF IInv, Budget, PaidSubs
  <1> QED
      BY <1>1, <1>3, <1>4, Outside DEF IInv, TypeOK, Written, hookVars

\* A step that touches none of this.
LEMMA RowsStay ==
  ASSUME IInv, sub' = sub, uses' = uses, UNCHANGED <<checkout, stripe, hookVars>>
  PROVE  IInv'
  <1>1. Kept
      BY DEF Kept
  <1>2. ASSUME NEW r \in Subs PROVE Session(r)'
    <2>1. Session(r)
        BY DEF IInv, SessionInv
    <2> QED
        BY <2>1 DEF Session, Over, hookVars
  <1>3. SessionInv'
      BY <1>2 DEF SessionInv
  <1>4. CampaignGood /\ uses' \in Nat
    <2>1. \A r \in Subs : \/ ~sub'[r].code
                          \/ sub'[r].status # "active" /\ outcome'[r] # "active"
                          \/ r \in Counted
        BY DEF Counted, hookVars
    <2> QED
        BY <2>1, NothingCounted DEF IInv
  <1>5. IsFiniteSet(PaidSubs)'
      BY DEF IInv, Budget, PaidSubs
  <1> QED
      BY <1>1, <1>3, <1>4, <1>5, Outside DEF IInv, TypeOK, hookVars

\* The administrator pays for a row, whatever its status.
LEMMA PayerChanged ==
  ASSUME IInv, NEW s \in Subs, sub' = [sub EXCEPT ![s].paid_with = "manual_admin"], uses' = uses,
         UNCHANGED <<checkout, stripe, hookVars>>
  PROVE  IInv'
  <1>1. PICK y \in Rows : y = sub[s]
      BY DEF IInv, TypeOK
  <1>2. PICK a \in Statuses : a = y.status
      BY DEF Rows, Statuses
  <1>3. [y EXCEPT !.paid_with = "manual_admin"]
          = [y EXCEPT !.status = a, !.paid_with = "manual_admin"]
      BY <1>2 DEF Rows
  <1>4. sub' = [sub EXCEPT ![s] = [sub[s] EXCEPT !.status = a, !.paid_with = "manual_admin"]]
      BY <1>1, <1>3
  <1>5. Written(s, a, "manual_admin")
      BY <1>4, WriteRow DEF IInv, Payers
  <1>6. CampaignGood /\ uses' \in Nat
    <2>1. \A r \in Subs : \/ ~sub'[r].code
                          \/ sub'[r].status # "active" /\ outcome'[r] # "active"
                          \/ r \in Counted
        BY <1>1, <1>2, <1>5 DEF Written, Counted, hookVars
    <2> QED
        BY <2>1, NothingCounted DEF IInv
  <1> QED
      BY <1>1, <1>2, <1>5, <1>6, RowOperation DEF Payers

LEMMA AdminActivateStep == ASSUME IInv, NEW u \in Users, AdminActivate(u) PROVE IInv'
  <1>1. PICK s : s = admin[u].s
      OBVIOUS
  <1>2. UNCHANGED <<checkout, stripe, hookVars>>
      BY DEF AdminActivate
  <1>3. CASE CanActivate(s) /\ Activate(s, Manual(s))
    <2>1. /\ sub' = [sub EXCEPT ![s] = [sub[s] EXCEPT !.status = "active", !.paid_with = "manual_admin"]]
          /\ uses' = IF Counts(s) THEN uses + 1 ELSE uses
        BY <1>3 DEF Activate, Manual
    <2>2. Written(s, "active", "manual_admin")
        BY <2>1, WriteRow DEF IInv, Statuses, Payers
    <2>3. CampaignGood /\ uses' \in Nat
        BY <1>2, <1>3, <2>1, <2>2, ActivationCounts DEF IInv, CanActivate, hookVars
    <2> QED
        BY <1>2, <2>2, <2>3, RowOperation DEF Statuses, Payers
  <1>4. CASE sub' = [sub EXCEPT ![s].paid_with = "manual_admin"] /\ uses' = uses
    <2>1. CASE s \in Subs
        BY <1>2, <1>4, <2>1, PayerChanged
    <2>2. CASE s \notin Subs
      <3>1. sub' = sub
          BY <1>4, <2>2 DEF IInv, TypeOK
      <3> QED
          BY <1>2, <1>4, <3>1, RowsStay
    <2> QED
        BY <2>1, <2>2
  <1> QED
      BY <1>1, <1>3, <1>4 DEF AdminActivate, Manual

\* A row that is cancelled.
LEMMA CancelledRow ==
  ASSUME IInv, NEW s, sub' = [sub EXCEPT ![s].status = "cancelled"], uses' = uses,
         UNCHANGED <<checkout, stripe, hookVars>>
  PROVE  IInv'
  <1>1. CASE s \notin Subs
    <2>1. sub' = sub
        BY <1>1 DEF IInv, TypeOK
    <2> QED
        BY <2>1, RowsStay
  <1>2. CASE s \in Subs
    <2>1. PICK y \in Rows : y = sub[s]
        BY <1>2 DEF IInv, TypeOK
    <2>2. PICK b \in Payers : b = y.paid_with
        BY DEF Rows, Payers
    <2>3. [y EXCEPT !.status = "cancelled"] = [y EXCEPT !.status = "cancelled", !.paid_with = b]
        BY <2>2, StatusField DEF Statuses
    <2>4. sub' = [sub EXCEPT ![s] = [sub[s] EXCEPT !.status = "cancelled", !.paid_with = b]]
        BY <2>1, <2>3
    <2>5. Written(s, "cancelled", b)
        BY <2>4, WriteRow DEF IInv, Statuses
    <2>6. CampaignGood /\ uses' \in Nat
      <3>1. \A r \in Subs : \/ ~sub'[r].code
                            \/ sub'[r].status # "active" /\ outcome'[r] # "active"
                            \/ r \in Counted
          BY <2>5 DEF Written, Counted, hookVars
      <3> QED
          BY <3>1, NothingCounted DEF IInv
    <2> QED
        BY <2>5, <2>6, RowOperation DEF Statuses
  <1> QED
      BY <1>1, <1>2

LEMMA CancelSteps ==
  ASSUME IInv, NEW u \in Users, AdminDeactivate(u) \/ \E r \in BOOLEAN : CancelWrite(u, r)
  PROVE  IInv'
  <1>1. /\ UNCHANGED <<checkout, stripe, hookVars>> /\ uses' = uses
        /\ sub' = sub \/ \E s : sub' = [sub EXCEPT ![s].status = "cancelled"]
      BY DEF AdminDeactivate, CancelWrite
  <1> QED
      BY <1>1, RowsStay, CancelledRow

LEMMA QuietSteps ==
  ASSUME IInv, \/ \E s \in Subs : Lapse(s)
               \/ \E u \in Users : \/ CancelRead(u) \/ AdminExtend(u) \/ AdminRefused(u)
                                  \/ \E op \in {"activate", "deactivate"} : AdminRead(u, op)
               \/ UNCHANGED vars
  PROVE  IInv'
  <1>1. sub' = sub /\ uses' = uses /\ UNCHANGED <<checkout, stripe, hookVars>>
      BY DEF Lapse, CancelRead, AdminExtend, AdminRefused, AdminRead, vars, rowVars, hookVars
  <1> QED
      BY <1>1, RowsStay
-----------------------------------------------------------------------------
(* The checkout, and Stripe.                                               *)

\* A step on one checkout s: its row, its session, or both.
LEMMA CheckoutStep ==
  ASSUME IInv, NEW s \in Subs, NEW y \in Rows,
         NEW c \in {"none", "checked", "session", "over"},
         NEW p \in {"none", "created", "paid", "expired"},
         sub' = [sub EXCEPT ![s] = y], checkout' = [checkout EXCEPT ![s] = c],
         stripe' = [stripe EXCEPT ![s] = p], uses' = uses, UNCHANGED hookVars,
         c = "none" => p = "none", c = "checked" => p = "created", c = "session" => y.status # "none",
         p # "none" => y.user \in Users, p = "paid" => y.status # "none",
         y.status = "active" => y.paid_with # "stripe" \/ p = "paid",
         Over(s) => p = stripe[s],
         stripe[s] # "none" => y.user = sub[s].user /\ y.plan = sub[s].plan,
         stripe[s] = "none" => ~y.code \/ y.status # "active",
         stripe[s] # "none" =>
           (y.code => sub[s].code) /\ (y.status = "active" => sub[s].status = "active")
  PROVE  IInv'
  <1>1. /\ sub' \in [Subs -> Rows] /\ sub'[s] = y /\ \A r \in Subs : r # s => sub'[r] = sub[r]
        /\ checkout' \in [Subs -> {"none", "checked", "session", "over"}]
        /\ checkout'[s] = c /\ \A r \in Subs : r # s => checkout'[r] = checkout[r]
        /\ stripe' \in [Subs -> {"none", "created", "paid", "expired"}]
        /\ stripe'[s] = p /\ \A r \in Subs : r # s => stripe'[r] = stripe[r]
      BY DEF IInv, TypeOK
  <1>2. Kept
      BY <1>1 DEF Kept
  <1>3. ASSUME NEW r \in Subs PROVE Session(r)'
    <2>1. Session(r)
        BY DEF IInv, SessionInv
    <2>2. CASE r = s
      <3>1. outcome'[s] = outcome[s] /\ claimed' = claimed
          BY DEF hookVars
      <3> QED
          BY <1>1, <2>1, <2>2, <3>1 DEF Session, Over
    <2>3. CASE r # s
        BY <1>1, <2>1, <2>3 DEF Session, Over, hookVars
    <2> QED
        BY <2>2, <2>3
  <1>4. SessionInv'
      BY <1>3 DEF SessionInv
  <1>5. CampaignGood /\ uses' \in Nat
    <2>1. ASSUME NEW r \in Subs
          PROVE  \/ ~sub'[r].code
                 \/ sub'[r].status # "active" /\ outcome'[r] # "active"
                 \/ r \in Counted
      <3>1. Session(r)
          BY DEF IInv, SessionInv
      <3>2. CASE r # s
          BY <1>1, <3>2 DEF Counted, hookVars
      <3>3. CASE r = s /\ stripe[s] = "none"
          BY <1>1, <3>1, <3>3 DEF Session, Over, hookVars
      <3>4. CASE r = s /\ stripe[s] # "none"
          BY <1>1, <3>1, <3>4 DEF Counted, Session, Over, hookVars
      <3> QED
          BY <3>2, <3>3, <3>4
    <2> QED
        BY <2>1, NothingCounted DEF IInv
  <1>6. IsFiniteSet(PaidSubs)'
    <2>1. PaidSubs' \subseteq PaidSubs \cup {s}
        BY <1>1 DEF PaidSubs
    <2> QED
        BY <2>1, PaidStayFinite DEF IInv, Budget
  <1> QED
      BY <1>1, <1>2, <1>4, <1>5, <1>6, Outside DEF hookVars

LEMMA NoSubIsRow == NoSub \in Rows /\ NoSub.status = "none" /\ ~NoSub.code
  <1>1. NoSub.status = "none" /\ ~NoSub.code
      BY DEF NoSub
  <1>2. NoSub \in Rows
      BY DEF NoSub, Rows
  <1> QED
      BY <1>1, <1>2

LEMMA CheckoutBeginStep ==
  ASSUME IInv, NEW s \in Subs, NEW u \in Users, NEW plan \in Plans, NEW code \in BOOLEAN,
         CheckoutBegin(s, u, plan, code)
  PROVE  IInv'
  <1>a. PICK n \in Rows : n = NoSub /\ n.status = "none"
      BY NoSubIsRow
  <1>b. /\ [n EXCEPT !.user = u, !.plan = plan, !.code = code] \in Rows
        /\ [n EXCEPT !.user = u, !.plan = plan, !.code = code].user = u
        /\ [n EXCEPT !.user = u, !.plan = plan, !.code = code].status = n.status
      BY DEF Rows
  <1>1. PICK y \in Rows : /\ y = [NoSub EXCEPT !.user = u, !.plan = plan, !.code = code]
                         /\ y.user = u /\ y.status = "none"
      BY <1>a, <1>b
  <1>2. stripe[s] = "none"
      BY DEF CheckoutBegin, IInv, SessionInv, Session
  <1>3. /\ sub' = [sub EXCEPT ![s] = y] /\ checkout' = [checkout EXCEPT ![s] = "checked"]
        /\ stripe' = [stripe EXCEPT ![s] = "created"] /\ uses' = uses /\ UNCHANGED hookVars
      BY <1>1 DEF CheckoutBegin
  <1> QED
      BY <1>1, <1>2, <1>3, CheckoutStep DEF Over

\* Administrators grant premium without a session.
LEMMA AdminGrantStep ==
  ASSUME IInv, NEW s \in Subs, NEW u \in Users, AdminGrant(s, u)
  PROVE  IInv'
  <1>a. PICK n \in Rows : n = NoSub /\ ~n.code
      BY NoSubIsRow
  <1> DEFINE y0 == [n EXCEPT !.status = "active", !.user = u, !.paid_with = "manual_admin"]
  <1>b. /\ y0 \in Rows /\ y0.user = u /\ y0.status = "active" /\ y0.paid_with = "manual_admin"
        /\ y0.code = n.code
      BY DEF Rows
  <1>1. PICK y \in Rows :
          /\ y = [NoSub EXCEPT !.status = "active", !.user = u, !.paid_with = "manual_admin"]
          /\ y.user = u /\ y.status = "active" /\ y.paid_with = "manual_admin" /\ ~y.code
      BY <1>a, <1>b
  <1>2. stripe[s] = "none"
      BY DEF AdminGrant, IInv, SessionInv, Session
  <1>3. /\ sub' = [sub EXCEPT ![s] = y] /\ checkout' = [checkout EXCEPT ![s] = "over"]
        /\ stripe' = [stripe EXCEPT ![s] = "none"] /\ uses' = uses /\ UNCHANGED hookVars
      BY <1>1, <1>2 DEF AdminGrant, IInv, TypeOK
  <1> QED
      BY <1>1, <1>2, <1>3, CheckoutStep DEF Over

LEMMA CheckoutInsertStep ==
  ASSUME IInv, NEW s \in Subs, CheckoutInsert(s)
  PROVE  IInv'
  <1>1. PICK y \in Rows : y = sub[s]
      BY DEF IInv, TypeOK
  <1>2. PICK p \in {"none", "created", "paid", "expired"} : p = stripe[s]
      BY DEF IInv, TypeOK
  <1>3. Session(s)
      BY DEF IInv, SessionInv
  <1>4. stripe' = [stripe EXCEPT ![s] = p] /\ uses' = uses /\ UNCHANGED hookVars
      BY <1>2 DEF CheckoutInsert, IInv, TypeOK
  <1>5. CASE sub' = sub /\ checkout' = [checkout EXCEPT ![s] = "over"]
    <2>1. sub' = [sub EXCEPT ![s] = y]
        BY <1>1, <1>5 DEF IInv, TypeOK
    <2> QED
        BY <1>1, <1>2, <1>3, <1>4, <1>5, <2>1, CheckoutStep DEF Session, Over, CheckoutInsert
  <1>6. CASE /\ checkout' = [checkout EXCEPT ![s] = "session"]
             /\ sub' = [sub EXCEPT ![s].status = "pending", ![s].paid_with = "stripe"]
    <2>1. PICK z \in Rows : z = [y EXCEPT !.status = "pending", !.paid_with = "stripe"]
        BY RowFields DEF Statuses, Payers
    <2>2. z.user = y.user /\ z.plan = y.plan /\ z.code = y.code /\ z.status = "pending"
        BY <2>1 DEF Rows
    <2>3. sub' = [sub EXCEPT ![s] = z]
        BY <1>1, <1>6, <2>1 DEF IInv, TypeOK
    <2>4. p = "created" /\ y.user \in Users /\ ~Over(s)
        BY <1>1, <1>2, <1>3 DEF Session, Over, CheckoutInsert
    <2> QED
      <3>1. /\ z.user = sub[s].user /\ z.plan = sub[s].plan /\ (z.code => sub[s].code)
            /\ z.status = "pending" /\ z.user \in Users /\ stripe[s] = "created"
          BY <1>1, <1>2, <2>2, <2>4
      <3> QED
          BY <1>4, <1>6, <2>3, <2>4, <3>1, CheckoutStep
  <1> QED
      BY <1>5, <1>6 DEF CheckoutInsert

\* The end of a session, or of the request that made it: the row stays.
LEMMA SessionSteps ==
  ASSUME IInv, NEW s \in Subs, CheckoutCrash(s) \/ SessionEnds(s)
  PROVE  IInv'
  <1>1. PICK y \in Rows : y = sub[s]
      BY DEF IInv, TypeOK
  <1>2. Session(s)
      BY DEF IInv, SessionInv
  <1>3. sub' = [sub EXCEPT ![s] = y] /\ uses' = uses /\ UNCHANGED hookVars
      BY <1>1 DEF CheckoutCrash, SessionEnds, Pay, Expire, rowVars, IInv, TypeOK
  <1>4. CASE CheckoutCrash(s)
    <2>1. PICK p \in {"none", "created", "paid", "expired"} : p = stripe[s]
        BY DEF IInv, TypeOK
    <2>2. stripe' = [stripe EXCEPT ![s] = p] /\ checkout' = [checkout EXCEPT ![s] = "over"]
        BY <1>4, <2>1 DEF CheckoutCrash, IInv, TypeOK
    <2> QED
        BY <1>1, <1>2, <1>3, <1>4, <2>1, <2>2, CheckoutStep DEF Session, Over, CheckoutCrash
  <1>5. CASE SessionEnds(s)
    <2>1. PICK c \in {"none", "checked", "session", "over"} : c = checkout[s]
        BY DEF IInv, TypeOK
    <2>2. PICK p \in {"paid", "expired"} :
            stripe' = [stripe EXCEPT ![s] = p] /\ (p = "paid" => checkout[s] = "session")
        BY <1>5 DEF SessionEnds, Pay, Expire, Payable
    <2>3. checkout' = [checkout EXCEPT ![s] = c] /\ stripe[s] = "created"
        BY <1>5, <2>1 DEF SessionEnds, Pay, Expire, Payable, IInv, TypeOK
    <2>4. /\ y.user \in Users /\ ~Over(s) /\ (p = "paid" => y.status # "none")
          /\ c # "none" /\ c # "checked" /\ (c = "session" => y.status # "none")
          /\ y.status = "active" => y.paid_with # "stripe"
          /\ p \in {"none", "created", "paid", "expired"}
        BY <1>1, <1>2, <1>5, <2>1, <2>2, <2>3 DEF Session, Over, SessionEnds, Pay, Expire, Payable
    <2> QED
        BY <1>1, <1>2, <1>3, <2>1, <2>2, <2>3, <2>4, CheckoutStep
  <1> QED
      BY <1>4, <1>5
-----------------------------------------------------------------------------
(* The webhooks.                                                           *)

\* A referral reward that was marked stays marked.
RefGrows == \A u \in Referred : ref[u].rewarded => ref'[u].rewarded

\* A process goes on with its event, takes one that nobody took, or is done.
LEMMA HookMoves ==
  ASSUME TypeOK, SessionInv, HookInv, Kept, RefGrows, claimed \subseteq claimed',
         NEW w \in Processes, NEW x \in Hooks, hook' = [hook EXCEPT ![w] = x], Fits(x)',
         x.pc # "idle" => \/ hook[w].pc # "idle" /\ x.s = hook[w].s
                          \/ x.s \notin claimed
  PROVE  HookInv' /\ (hook \in [Processes -> Hooks])'
  <1>1. /\ hook' \in [Processes -> Hooks] /\ hook'[w] = x
        /\ \A v \in Processes : v # w => hook'[v] = hook[v]
      BY DEF TypeOK
  <1>2. ASSUME NEW v \in Processes, v # w PROVE Fits(hook[v])'
    <2>1. Fits(hook[v]) /\ hook'[v] = hook[v]
        BY <1>1, <1>2 DEF HookInv, Handling
    <2>2. CASE hook[v].pc = "idle"
        BY <2>1, <2>2 DEF Fits
    <2>3. CASE hook[v].pc # "idle"
      <3>1. PICK s \in claimed : s = hook[v].s
          BY <2>1, <2>3 DEF Fits
      <3>2. s \in Subs /\ Over(s)
          BY DEF TypeOK, SessionInv, Session
      <3>3. stripe'[s] = stripe[s] /\ sub'[s].user = sub[s].user /\ sub'[s].plan = sub[s].plan
          BY <3>2 DEF Kept, Over
      <3> QED
          BY <2>1, <2>3, <3>1, <3>3 DEF Fits, RefGrows
    <2> QED
        BY <2>2, <2>3
  <1>3. \A v \in Processes : Handling(v)'
      BY <1>1, <1>2 DEF Handling
  <1>4. ASSUME NEW v \in Processes, v # w, x.pc # "idle", hook[v].pc # "idle", x.s = hook[v].s
        PROVE  FALSE
    <2>1. hook[v].s \in claimed
        BY <1>4 DEF HookInv, Handling, Fits
    <2> QED
        BY <1>4, <2>1 DEF HookInv
  <1>5. \A v, z \in Processes :
          hook'[v].pc # "idle" /\ hook'[z].pc # "idle" /\ hook'[v].s = hook'[z].s => v = z
    <2> SUFFICES ASSUME NEW v \in Processes, NEW z \in Processes, hook'[v].pc # "idle",
                        hook'[z].pc # "idle", hook'[v].s = hook'[z].s, v # z
                 PROVE  FALSE
        OBVIOUS
    <2>1. CASE v = w
        BY <1>1, <1>4, <2>1
    <2>2. CASE z = w
        BY <1>1, <1>4, <2>2
    <2>3. CASE v # w /\ z # w
        BY <1>1, <2>3 DEF HookInv
    <2> QED
        BY <2>1, <2>2, <2>3
  <1> QED
      BY <1>1, <1>3, <1>5 DEF HookInv

\* The rewards triggered so far, in a step that triggers none.
LEMMA PostsStay ==
  ASSUME TypeOK, SessionInv, PostInv, Kept, RefGrows, posts' = posts, claimed \subseteq claimed',
         \A s \in claimed : InHand(s)' => InHand(s), IsFiniteSet(PaidSubs)'
  PROVE  PostInv'
  <1>1. ASSUME NEW s \in claimed
        PROVE  s \in Subs /\ stripe'[s] = stripe[s]
               /\ sub'[s].user = sub[s].user /\ sub'[s].plan = sub[s].plan
      BY DEF TypeOK, SessionInv, Session, Over, Kept
  <1>2. ASSUME NEW u PROVE Cardinality(Done(u)) <= Cardinality(Done(u)')
                           /\ Cardinality(Done(u)) \in Nat /\ Cardinality(Done(u)') \in Nat
    <2>1. Done(u)' \subseteq PaidSubs'
        BY DEF Done, PaidSubs
    <2>2. IsFiniteSet(Done(u)')
        BY <2>1, FS_Subset
    <2>3. Done(u) \subseteq Done(u)'
        BY <1>1 DEF Done
    <2> QED
        BY <2>2, <2>3, FS_Subset, FS_CardinalityType
  <1>3. ASSUME NEW s \in Subs
        PROVE  /\ posts'[<<"annual", s>>] <= 1
               /\ posts'[<<"annual", s>>] > 0 =>
                    stripe'[s] = "paid" /\ sub'[s].plan = "annual" /\ s \in claimed' /\ ~InHand(s)'
      BY <1>1 DEF PostInv
  <1>4. ASSUME NEW u \in Users
        PROVE  /\ posts'[<<"referral", u>>] <= Cardinality(Done(u)')
               /\ posts'[<<"referral", u>>] > 0 => u \in Referred /\ ref'[u].rewarded
    <2>1. posts[<<"referral", u>>] \in Nat /\ posts[<<"referral", u>>] <= Cardinality(Done(u))
        BY DEF PostInv, TypeOK, Posts
    <2>2. posts'[<<"referral", u>>] <= Cardinality(Done(u)')
        BY <1>2, <2>1
    <2> QED
        BY <2>2 DEF PostInv, RefGrows
  <1> QED
      BY <1>3, <1>4 DEF PostInv

RefType == ref \in [Referred -> [plan: Plans \cup {NULL}, rewarded: BOOLEAN]]
Outcomes == {"none", "ignored", "active", "expired", "lost"}

\* The rows do not change: the process only learns, marks or answers.
LEMMA HookOnly ==
  ASSUME IInv, sub' = sub, uses' = uses, checkout' = checkout, stripe' = stripe,
         RefType', RefGrows, claimed \subseteq claimed', claimed' \subseteq Subs,
         \A s \in claimed' : Over(s),
         outcome' \in [Subs -> Outcomes],
         \A s \in Subs : \/ outcome'[s] = outcome[s]
                         \/ Over(s) /\ outcome'[s] # "active"
  PROVE  /\ Kept /\ SessionInv' /\ Budget' /\ (hook \in [Processes -> Hooks])' /\ HookInv'
            /\ (posts \in [Posts -> Nat])' /\ PostInv' => IInv'
         /\ Kept /\ SessionInv' /\ Budget'
  <1>1. Kept
      BY DEF Kept
  <1>2. ASSUME NEW r \in Subs PROVE Session(r)'
    <2>1. Session(r) /\ (r \in claimed' => Over(r))
        BY DEF IInv, SessionInv
    <2>2. outcome'[r] = outcome[r] \/ Over(r)
        OBVIOUS
    <2> QED
        BY <2>1, <2>2 DEF Session, Over
  <1>3. SessionInv'
      BY <1>2 DEF SessionInv
  <1>4. CampaignGood
    <2>1. \A r \in Subs : \/ ~sub'[r].code
                          \/ sub'[r].status # "active" /\ outcome'[r] # "active"
                          \/ r \in Counted
        BY DEF Counted
    <2> QED
        BY <2>1, NothingCounted DEF IInv
  <1>5. Budget'
      BY <1>4 DEF IInv, Budget, CampaignGood, PaidSubs
  <1> QED
      BY <1>1, <1>3, <1>5 DEF IInv, TypeOK, RefType, Outcomes

\* A process that goes on, in such a step.
LEMMA HookStepOnly ==
  ASSUME IInv, sub' = sub, uses' = uses, checkout' = checkout, stripe' = stripe,
         RefType', RefGrows, claimed' = claimed, posts' = posts,
         outcome' \in [Subs -> Outcomes],
         \A s \in Subs : \/ outcome'[s] = outcome[s]
                         \/ Over(s) /\ outcome'[s] # "active",
         NEW w \in Processes, NEW x \in Hooks, hook' = [hook EXCEPT ![w] = x], Fits(x)',
         x.pc # "idle" => hook[w].pc # "idle" /\ x.s = hook[w].s
  PROVE  IInv'
  <1>1. claimed' \subseteq Subs /\ \A s \in claimed' : Over(s)
      BY DEF IInv, TypeOK, SessionInv, Session
  <1>2. Kept /\ SessionInv' /\ Budget'
      BY <1>1, HookOnly
  <1>3. HookInv' /\ (hook \in [Processes -> Hooks])'
      BY <1>2, HookMoves DEF IInv
  <1>4. /\ hook'[w] = x
        /\ \A v \in Processes : v # w => hook'[v] = hook[v]
      BY DEF IInv, TypeOK
  <1>5. \A s \in claimed : InHand(s)' => InHand(s)
      BY <1>4 DEF InHand
  <1>6. PostInv'
      BY <1>2, <1>5, PostsStay DEF IInv, Budget
  <1>7. (posts \in [Posts -> Nat])'
      BY DEF IInv, TypeOK
  <1> QED
      BY <1>1, <1>2, <1>3, <1>6, <1>7, HookOnly

\* What is known of the process that takes a step.
LEMMA AtWork ==
  ASSUME IInv, NEW w \in Processes, hook[w].pc # "idle"
  PROVE  \E s \in Subs : /\ s = hook[w].s /\ s \in claimed /\ Over(s) /\ Session(s)
                         /\ sub[s].user \in Users
                         /\ \E h \in Hooks : h = hook[w] /\ h.s = s /\ Fits(h)
  <1>1. PICK h \in Hooks : h = hook[w]
      BY DEF IInv, TypeOK
  <1>2. Fits(h)
      BY <1>1 DEF IInv, HookInv, Handling
  <1>3. h.s \in claimed
      BY <1>1, <1>2 DEF Fits
  <1>4. PICK s \in Subs : s = h.s
      BY <1>3 DEF IInv, TypeOK
  <1>5. Session(s) /\ Over(s) /\ sub[s].user \in Users
      BY <1>3, <1>4 DEF IInv, SessionInv, Session, Over
  <1> QED
      BY <1>1, <1>2, <1>3, <1>4, <1>5

\* Going on to another step with the same event, and the same or other rewards to
\* trigger.
LEMMA HookGoes ==
  ASSUME NEW h \in Hooks, NEW pc \in {"write", "referral", "mark", "annual", "tasks"}
  PROVE  /\ [h EXCEPT !.pc = pc] \in Hooks
         /\ [h EXCEPT !.pc = pc].pc = pc
         /\ [h EXCEPT !.pc = pc].s = h.s /\ [h EXCEPT !.pc = pc].todo = h.todo
  BY DEF Hooks

LEMMA HookTasks ==
  ASSUME NEW h \in Hooks, NEW pc \in {"annual", "tasks"},
         NEW todo \in SUBSET {"referral", "annual"}
  PROVE  /\ [h EXCEPT !.pc = pc, !.todo = todo] \in Hooks
         /\ [h EXCEPT !.pc = pc, !.todo = todo].pc = pc
         /\ [h EXCEPT !.pc = pc, !.todo = todo].s = h.s
         /\ [h EXCEPT !.pc = pc, !.todo = todo].todo = todo
  BY DEF Hooks

LEMMA IdleIs == Idle \in Hooks /\ Idle.pc = "idle" /\ Idle.todo = {} /\ Idle.s = NULL
  BY DEF Idle, Hooks

\* Steps that only go on: the row read by handle_checkout_completed, the referral
\* read by _maybe_trigger_referral.
LEMMA GoesOn ==
  ASSUME IInv, NEW w \in Processes, hook[w].pc \in {"read", "referral"},
         NEW pc \in {"write", "referral", "mark", "annual"}, Goto(w, pc),
         pc = "mark" => sub[hook[w].s].user \in Referred,
         UNCHANGED <<rowVars, checkout, stripe, claimed, ref, posts>>,
         \/ outcome' = outcome
         \/ outcome' = [outcome EXCEPT ![hook[w].s] = "ignored"]
  PROVE  IInv'
  <1>1. PICK s \in Subs : /\ s = hook[w].s /\ s \in claimed /\ Over(s) /\ Session(s)
                          /\ sub[s].user \in Users
                          /\ \E h \in Hooks : h = hook[w] /\ h.s = s /\ Fits(h)
      BY AtWork
  <1>2. PICK h \in Hooks : h = hook[w] /\ h.s = s /\ Fits(h)
      BY <1>1
  <1>a. [h EXCEPT !.pc = pc] \in Hooks
      BY HookGoes
  <1>b. PICK x \in Hooks : x = [h EXCEPT !.pc = pc]
      BY <1>a
  <1>3. x = [h EXCEPT !.pc = pc] /\ x.pc = pc /\ x.s = s /\ x.todo = h.todo
      BY <1>2, <1>b DEF Hooks
  <1>4. hook' = [hook EXCEPT ![w] = x]
      BY <1>2, <1>3 DEF Goto
  <1>5. Fits(x)'
    <2>1. h.todo = {} /\ stripe[s] = "paid"
        BY <1>2 DEF Fits
    <2> QED
        BY <1>1, <1>3, <2>1 DEF Fits, rowVars
  <1>6. outcome' \in [Subs -> Outcomes] /\ \A r \in Subs : \/ outcome'[r] = outcome[r]
                                                           \/ Over(r) /\ outcome'[r] # "active"
      BY <1>1 DEF IInv, TypeOK, Outcomes
  <1>7. RefType' /\ RefGrows
      BY DEF IInv, TypeOK, RefType, RefGrows
  <1> QED
      BY <1>1, <1>2, <1>3, <1>4, <1>5, <1>6, <1>7, HookStepOnly DEF rowVars

LEMMA ReadSteps ==
  ASSUME IInv, NEW w \in Processes, CompletedRead(w) \/ ReferralRead(w)
  PROVE  IInv'
  <1>1. CASE CompletedRead(w)
    <2>1. \/ Goto(w, "write") /\ outcome' = outcome
          \/ Goto(w, "referral") /\ outcome' = [outcome EXCEPT ![hook[w].s] = "ignored"]
        BY <1>1 DEF CompletedRead, Settle
    <2> QED
        BY <1>1, <2>1, GoesOn DEF CompletedRead
  <1>2. CASE ReferralRead(w)
    <2>1. \/ Goto(w, "mark") /\ sub[hook[w].s].user \in Referred
          \/ Goto(w, "annual")
        BY <1>2 DEF ReferralRead
    <2> QED
        BY <1>2, <2>1, GoesOn DEF ReferralRead
  <1> QED
      BY <1>1, <1>2

\* rewarded_at is committed before the reward is on the process's list.
LEMMA ReferralMarkStep == ASSUME IInv, NEW w \in Processes, ReferralMark(w) PROVE IInv'
  <1>1. hook[w].pc = "mark"
      BY DEF ReferralMark
  <1>2. PICK s \in Subs : /\ s = hook[w].s /\ s \in claimed /\ Over(s) /\ Session(s)
                          /\ sub[s].user \in Users
                          /\ \E h \in Hooks : h = hook[w] /\ h.s = s /\ Fits(h)
      BY <1>1, AtWork
  <1>3. PICK h \in Hooks : h = hook[w] /\ h.s = s /\ Fits(h)
      BY <1>2
  <1>4. h.todo = {} /\ stripe[s] = "paid" /\ sub[s].user \in Referred
      BY <1>1, <1>3 DEF Fits
  <1>5. PICK x \in Hooks : x = [h EXCEPT !.pc = "annual", !.todo = {"referral"}]
      BY HookTasks
  <1>6. x.pc = "annual" /\ x.s = s /\ x.todo = {"referral"}
      BY <1>3, <1>5 DEF Hooks
  <1>7. hook' = [hook EXCEPT ![w] = x]
      BY <1>3, <1>4, <1>5 DEF ReferralMark
  <1>8. PICK u \in Referred : u = sub[s].user
      BY <1>4
  <1>9. PICK y \in [plan: Plans \cup {NULL}, rewarded: BOOLEAN] : y = [ref[u] EXCEPT !.rewarded = TRUE]
      BY DEF IInv, TypeOK
  <1>10. ref' = [ref EXCEPT ![u] = y] /\ y.rewarded
      BY <1>2, <1>8, <1>9 DEF ReferralMark, IInv, TypeOK
  <1>11. RefType' /\ RefGrows /\ ref'[u].rewarded
      BY <1>10 DEF IInv, TypeOK, RefType, RefGrows
  <1>12. UNCHANGED <<rowVars, checkout, stripe, claimed, outcome, posts>>
      BY DEF ReferralMark
  <1>13. Fits(x)'
      BY <1>2, <1>4, <1>6, <1>8, <1>11, <1>12 DEF Fits, rowVars
  <1>14. outcome' \in [Subs -> Outcomes]
      BY <1>12 DEF IInv, TypeOK, Outcomes
  <1> QED
      BY <1>1, <1>2, <1>6, <1>7, <1>11, <1>12, <1>13, <1>14, HookStepOnly DEF rowVars

\* The gift card of an annual plan is put on the list.
LEMMA AnnualStep == ASSUME IInv, NEW w \in Processes, Annual(w) PROVE IInv'
  <1>1. hook[w].pc = "annual"
      BY DEF Annual
  <1>2. PICK s \in Subs : /\ s = hook[w].s /\ s \in claimed /\ Over(s) /\ Session(s)
                          /\ sub[s].user \in Users
                          /\ \E h \in Hooks : h = hook[w] /\ h.s = s /\ Fits(h)
      BY <1>1, AtWork
  <1>3. PICK h \in Hooks : h = hook[w] /\ h.s = s /\ Fits(h)
      BY <1>2
  <1>4. PICK todo \in SUBSET {"referral", "annual"} :
          todo = IF sub[s].plan = "annual" THEN h.todo \cup {"annual"} ELSE h.todo
      BY DEF Hooks
  <1>5. PICK x \in Hooks : x = [h EXCEPT !.pc = "tasks", !.todo = todo]
      BY HookTasks
  <1>6. x.pc = "tasks" /\ x.s = s /\ x.todo = todo
      BY <1>3, <1>5 DEF Hooks
  <1>7. hook' = [hook EXCEPT ![w] = x]
      BY <1>2, <1>3, <1>4, <1>5 DEF Annual
  <1>8. UNCHANGED <<rowVars, checkout, stripe, claimed, ref, outcome, posts>>
      BY DEF Annual
  <1>9. Fits(x)'
    <2>1. stripe[s] = "paid" /\ "annual" \notin h.todo
        BY <1>1, <1>3 DEF Fits
    <2>2. "annual" \in todo => sub[s].plan = "annual"
        BY <1>4, <2>1
    <2>3. "referral" \in todo => sub[s].user \in Referred /\ ref[sub[s].user].rewarded
        BY <1>3, <1>4 DEF Fits
    <2> QED
        BY <1>2, <1>6, <1>8, <2>1, <2>2, <2>3 DEF Fits, rowVars
  <1>10. /\ RefType' /\ RefGrows
         /\ outcome' \in [Subs -> Outcomes]
      BY <1>8 DEF IInv, TypeOK, RefType, RefGrows, Outcomes
  <1> QED
      BY <1>1, <1>2, <1>6, <1>7, <1>8, <1>9, <1>10, HookStepOnly DEF rowVars

\* A crash: the process forgets its event and its list.
LEMMA CrashStep == ASSUME IInv, NEW w \in Processes, Crash(w) PROVE IInv'
  <1>1. hook' = [hook EXCEPT ![w] = Idle] /\ UNCHANGED <<rowVars, checkout, stripe, claimed, ref, posts>>
      BY DEF Crash
  <1>2. Fits(Idle)'
      BY IdleIs DEF Fits
  <1>3. outcome' \in [Subs -> Outcomes] /\ \A r \in Subs : \/ outcome'[r] = outcome[r]
                                                           \/ Over(r) /\ outcome'[r] # "active"
    <2>1. CASE hook[w].pc = "idle"
      <3>1. PICK h \in Hooks : h = hook[w]
          BY DEF IInv, TypeOK
      <3>2. h.pc = "idle" /\ h.todo = {} /\ h.s = NULL
          BY <2>1, <3>1 DEF IInv, HookInv, Handling, Fits
      <3>3. h = Idle
          BY <3>2 DEF Hooks, Idle
      <3> QED
          BY <3>1, <3>3 DEF Crash
    <2>2. CASE hook[w].pc # "idle"
      <3>1. PICK s \in Subs : s = hook[w].s /\ Over(s)
          BY <2>2, AtWork
      <3> QED
          BY <3>1 DEF Crash, IInv, TypeOK, Outcomes
    <2> QED
        BY <2>1, <2>2
  <1>4. RefType' /\ RefGrows
      BY <1>1 DEF IInv, TypeOK, RefType, RefGrows
  <1> QED
      BY <1>1, <1>2, <1>3, <1>4, IdleIs, HookStepOnly DEF rowVars

\* Only the first delivery of an event is handled.
LEMMA DeliverStep ==
  ASSUME IInv, NEW w \in Processes, NEW s \in Subs, Deliver(w, s)
  PROVE  IInv'
  <1>1. CASE s \in claimed
    <2>1. hook' = hook /\ UNCHANGED <<rowVars, checkout, stripe, claimed, ref, outcome, posts>>
        BY <1>1 DEF Deliver, Unclaimed
    <2>2. PICK x \in Hooks : x = hook[w]
        BY DEF IInv, TypeOK
    <2>3. Fits(x) /\ hook' = [hook EXCEPT ![w] = x]
        BY <2>1, <2>2 DEF IInv, HookInv, Handling, TypeOK
    <2>4. Fits(x)'
        BY <2>1, <2>3 DEF Fits, rowVars
    <2>5. RefType' /\ RefGrows /\ outcome' \in [Subs -> Outcomes]
        BY <2>1 DEF IInv, TypeOK, RefType, RefGrows, Outcomes
    <2> QED
        BY <2>1, <2>2, <2>3, <2>4, <2>5, HookStepOnly DEF rowVars
  <1>2. CASE s \notin claimed
    <2>1. PICK pc \in {"read", "expired"} : pc = IF stripe[s] = "paid" THEN "read" ELSE "expired"
        OBVIOUS
    <2>2. PICK x \in Hooks : x = [Idle EXCEPT !.pc = pc, !.s = s]
        BY IdleIs DEF Hooks
    <2>3. x.pc = pc /\ x.s = s /\ x.todo = {}
        BY <2>2 DEF Idle
    <2>4. /\ claimed' = claimed \cup {s} /\ hook' = [hook EXCEPT ![w] = x] /\ Over(s)
          /\ UNCHANGED <<rowVars, checkout, stripe, ref, outcome, posts>>
        BY <1>2, <2>1, <2>2 DEF Deliver, Unclaimed, Over
    <2>5. Fits(x)'
        BY <2>1, <2>3, <2>4 DEF Fits, Over
    <2>6. /\ RefType' /\ RefGrows /\ outcome' \in [Subs -> Outcomes]
          /\ (posts \in [Posts -> Nat])'
        BY <2>4 DEF IInv, TypeOK, RefType, RefGrows, Outcomes
    <2>7. claimed \subseteq claimed' /\ claimed' \subseteq Subs /\ \A r \in claimed' : Over(r)
        BY <2>4 DEF IInv, TypeOK, SessionInv, Session
    <2>8. Kept /\ SessionInv' /\ Budget'
        BY <2>4, <2>6, <2>7, HookOnly DEF rowVars
    <2>9. HookInv' /\ (hook \in [Processes -> Hooks])'
        BY <1>2, <2>3, <2>4, <2>5, <2>6, <2>7, <2>8, HookMoves DEF IInv
    <2>10. \A r \in claimed : InHand(r)' => InHand(r)
      <3>1. /\ hook'[w] = x
            /\ \A v \in Processes : v # w => hook'[v] = hook[v]
          BY <2>4 DEF IInv, TypeOK
      <3> QED
          BY <1>2, <2>3, <3>1 DEF InHand
    <2>11. PostInv'
        BY <2>4, <2>6, <2>7, <2>8, <2>10, PostsStay DEF IInv, Budget
    <2> QED
        BY <2>4, <2>6, <2>7, <2>8, <2>9, <2>11, HookOnly DEF rowVars
  <1> QED
      BY <1>1, <1>2

\* The handler writes the row of its event.
LEMMA HookWrites ==
  ASSUME IInv, NEW w \in Processes, NEW s \in Subs, s = hook[w].s, Over(s),
         NEW a \in {"active", "cancelled"}, NEW b, Written(s, a, b),
         a = "active" => stripe[s] = "paid",
         UNCHANGED <<checkout, stripe, claimed, posts>>, RefType', RefGrows,
         outcome' \in [Subs -> Outcomes], \A r \in Subs : r # s => outcome'[r] = outcome[r],
         CampaignGood, uses' \in Nat,
         NEW x \in Hooks, hook' = [hook EXCEPT ![w] = x], Fits(x)',
         x.pc # "idle" => hook[w].pc # "idle" /\ x.s = hook[w].s
  PROVE  IInv'
  <1>1. Kept
      BY WrittenIsKept
  <1>2. ASSUME NEW r \in Subs PROVE Session(r)'
    <2>1. Session(r)
        BY DEF IInv, SessionInv
    <2>2. CASE r = s
        BY <2>1, <2>2 DEF Session, Written, Over
    <2>3. CASE r # s
        BY <2>1, <2>3 DEF Session, Written, Over
    <2> QED
        BY <2>2, <2>3
  <1>3. SessionInv'
      BY <1>2 DEF SessionInv
  <1>4. IsFiniteSet(PaidSubs)' /\ Budget'
      BY DEF IInv, Budget, PaidSubs, CampaignGood
  <1>5. claimed \subseteq claimed'
      OBVIOUS
  <1>6. HookInv' /\ (hook \in [Processes -> Hooks])'
      BY <1>1, <1>5, HookMoves DEF IInv
  <1>7. \A r \in claimed : InHand(r)' => InHand(r)
    <2>1. /\ hook'[w] = x
          /\ \A v \in Processes : v # w => hook'[v] = hook[v]
        BY DEF IInv, TypeOK
    <2> QED
        BY <2>1 DEF InHand
  <1>8. PostInv'
      BY <1>1, <1>4, <1>5, <1>7, PostsStay DEF IInv
  <1> QED
      BY <1>3, <1>4, <1>6, <1>8 DEF IInv, TypeOK, RefType, Outcomes, Written

\* handle_checkout_completed activates the row, or raises.
LEMMA CompletedWriteStep == ASSUME IInv, NEW w \in Processes, CompletedWrite(w) PROVE IInv'
  <1>1. hook[w].pc = "write"
      BY DEF CompletedWrite
  <1>2. PICK s \in Subs : /\ s = hook[w].s /\ s \in claimed /\ Over(s) /\ Session(s)
                          /\ sub[s].user \in Users
                          /\ \E h \in Hooks : h = hook[w] /\ h.s = s /\ Fits(h)
      BY <1>1, AtWork
  <1>3. PICK h \in Hooks : h = hook[w] /\ h.s = s /\ Fits(h)
      BY <1>2
  <1>4. h.todo = {} /\ stripe[s] = "paid"
      BY <1>1, <1>3 DEF Fits
  <1>5. UNCHANGED <<checkout, stripe, claimed, posts>>
      BY DEF CompletedWrite
  <1>6. CASE Raise(w) /\ UNCHANGED <<rowVars, ref>>
    <2>1. hook' = [hook EXCEPT ![w] = Idle] /\ outcome' = [outcome EXCEPT ![s] = "lost"]
        BY <1>2, <1>6 DEF Raise, Settle
    <2>2. Fits(Idle)'
        BY IdleIs DEF Fits
    <2>3. outcome' \in [Subs -> Outcomes] /\ \A r \in Subs : \/ outcome'[r] = outcome[r]
                                                             \/ Over(r) /\ outcome'[r] # "active"
        BY <1>2, <2>1 DEF IInv, TypeOK, Outcomes
    <2>4. RefType' /\ RefGrows
        BY <1>6 DEF IInv, TypeOK, RefType, RefGrows
    <2> QED
        BY <1>5, <1>6, <2>1, <2>2, <2>3, <2>4, IdleIs, HookStepOnly DEF rowVars
  <1>7. CASE /\ CanActivate(s) /\ Activate(s, sub[s].paid_with)
             /\ ref' = [r \in Referred |-> IF r = sub[s].user /\ ref[r].plan = NULL
                                             THEN [ref[r] EXCEPT !.plan = sub[s].plan] ELSE ref[r]]
             /\ Goto(w, "referral") /\ Settle(s, "active")
    <2>1. PICK b \in Payers : b = sub[s].paid_with
        BY DEF IInv, TypeOK, Rows, Payers
    <2>2. sub' = [sub EXCEPT ![s] = [sub[s] EXCEPT !.status = "active", !.paid_with = b]]
        BY <1>7, <2>1 DEF Activate
    <2>3. Written(s, "active", b)
        BY <2>2, WriteRow DEF IInv, Statuses
    <2>4. outcome' \in [Subs -> Outcomes] /\ \A r \in Subs : r # s => outcome'[r] = outcome[r]
        BY <1>7 DEF Settle, IInv, TypeOK, Outcomes
    <2>5. CampaignGood /\ uses' \in Nat
        BY <1>7, <2>3, <2>4, ActivationCounts DEF IInv, Activate, CanActivate
    <2>6. RefType' /\ RefGrows
      <3>1. PICK p \in Plans \cup {NULL} : p = sub[s].plan
          BY DEF IInv, TypeOK, Rows
      <3>2. ASSUME NEW y \in [plan: Plans \cup {NULL}, rewarded: BOOLEAN]
            PROVE  /\ [y EXCEPT !.plan = p] \in [plan: Plans \cup {NULL}, rewarded: BOOLEAN]
                   /\ y.rewarded => [y EXCEPT !.plan = p].rewarded
          OBVIOUS
      <3>3. ASSUME NEW r \in Referred
            PROVE  /\ ref'[r] \in [plan: Plans \cup {NULL}, rewarded: BOOLEAN]
                   /\ ref[r].rewarded => ref'[r].rewarded
        <4>1. PICK y \in [plan: Plans \cup {NULL}, rewarded: BOOLEAN] : y = ref[r]
            BY DEF IInv, TypeOK
        <4>2. ref'[r] = [y EXCEPT !.plan = p] \/ ref'[r] = y
            BY <1>7, <3>1, <4>1
        <4> QED
            BY <3>2, <4>1, <4>2
      <3>4. ref' = [r \in Referred |-> ref'[r]]
          BY <1>7
      <3> QED
          BY <3>3, <3>4 DEF RefType, RefGrows
    <2>a. [h EXCEPT !.pc = "referral"] \in Hooks
        BY HookGoes
    <2>7. PICK x \in Hooks : x = [h EXCEPT !.pc = "referral"]
        BY <2>a
    <2>8. x.pc = "referral" /\ x.s = s /\ x.todo = {}
        BY <1>3, <1>4, <2>7 DEF Hooks
    <2>9. hook' = [hook EXCEPT ![w] = x]
        BY <1>3, <1>7, <2>7 DEF Goto
    <2>10. Fits(x)'
        BY <1>2, <1>4, <1>5, <2>8 DEF Fits
    <2> QED
        BY <1>1, <1>2, <1>4, <1>5, <2>3, <2>4, <2>5, <2>6, <2>8, <2>9, <2>10, HookWrites
  <1> QED
      BY <1>2, <1>6, <1>7 DEF CompletedWrite

\* handle_checkout_expired cancels the row when it still waits.
LEMMA ExpiredStep == ASSUME IInv, NEW w \in Processes, Expired(w) PROVE IInv'
  <1>1. hook[w].pc = "expired"
      BY DEF Expired
  <1>2. PICK s \in Subs : s = hook[w].s /\ s \in claimed /\ Over(s)
      BY <1>1, AtWork
  <1>3. /\ hook' = [hook EXCEPT ![w] = Idle] /\ outcome' = [outcome EXCEPT ![s] = "expired"]
        /\ sub' = IF BySession(s) THEN [sub EXCEPT ![s].status = "cancelled"] ELSE sub
        /\ UNCHANGED <<checkout, stripe, claimed, posts, ref, uses>>
      BY <1>2 DEF Expired, Settle
  <1>4. Fits(Idle)'
      BY IdleIs DEF Fits
  <1>5. RefType' /\ RefGrows
      BY <1>3 DEF IInv, TypeOK, RefType, RefGrows
  <1>6. /\ outcome' \in [Subs -> Outcomes] /\ outcome'[s] = "expired"
        /\ \A r \in Subs : r # s => outcome'[r] = outcome[r]
      BY <1>3 DEF IInv, TypeOK, Outcomes
  <1>7. CASE sub' = sub
    <2>1. \A r \in Subs : outcome'[r] = outcome[r] \/ (Over(r) /\ outcome'[r] # "active")
        BY <1>2, <1>6
    <2> QED
        BY <1>3, <1>4, <1>5, <1>6, <1>7, <2>1, IdleIs, HookStepOnly
  <1>8. CASE sub' = [sub EXCEPT ![s].status = "cancelled"]
    <2>1. PICK y \in Rows : y = sub[s]
        BY DEF IInv, TypeOK
    <2>2. PICK b \in Payers : b = y.paid_with
        BY DEF Rows, Payers
    <2>3. [y EXCEPT !.status = "cancelled"] = [y EXCEPT !.status = "cancelled", !.paid_with = b]
        BY <2>2, StatusField DEF Statuses
    <2>4. sub' = [sub EXCEPT ![s] = [sub[s] EXCEPT !.status = "cancelled", !.paid_with = b]]
        BY <1>8, <2>1, <2>3
    <2>5. Written(s, "cancelled", b)
        BY <2>4, WriteRow DEF IInv, Statuses
    <2>6. CampaignGood /\ uses' \in Nat
      <3>1. \A r \in Subs : \/ ~sub'[r].code
                            \/ sub'[r].status # "active" /\ outcome'[r] # "active"
                            \/ r \in Counted
          BY <1>6, <2>5 DEF Written, Counted
      <3> QED
          BY <1>3, <3>1, NothingCounted DEF IInv
    <2> QED
        BY <1>2, <1>3, <1>4, <1>5, <1>6, <2>5, <2>6, IdleIs, HookWrites
  <1> QED
      BY <1>3, <1>7, <1>8

\* What a delivered list adds to the history.
LEMMA Triggered ==
  ASSUME NEW todo \in SUBSET {"referral", "annual"}, NEW s \in Subs, NEW u \in Users,
         posts \in [Posts -> Nat],
         posts' = [a \in DOMAIN posts |->
                     IF a \in {<<k, IF k = "annual" THEN s ELSE u>> : k \in todo}
                       THEN posts[a] + 1 ELSE posts[a]]
  PROVE  /\ posts' \in [Posts -> Nat]
         /\ \A r \in Subs : posts'[<<"annual", r>>] =
              IF "annual" \in todo /\ r = s THEN posts[<<"annual", r>>] + 1 ELSE posts[<<"annual", r>>]
         /\ \A v \in Users : posts'[<<"referral", v>>] =
              IF "referral" \in todo /\ v = u THEN posts[<<"referral", v>>] + 1
                                              ELSE posts[<<"referral", v>>]
  <1> DEFINE T == {<<k, IF k = "annual" THEN s ELSE u>> : k \in todo}
  <1>1. DOMAIN posts = Posts
      OBVIOUS
  <1>2. posts' \in [Posts -> Nat]
      BY <1>1
  <1>3. ASSUME NEW r \in Subs PROVE <<"annual", r>> \in T <=> "annual" \in todo /\ r = s
      OBVIOUS
  <1>4. ASSUME NEW v \in Users PROVE <<"referral", v>> \in T <=> "referral" \in todo /\ v = u
      OBVIOUS
  <1>5. \A a \in Posts : posts'[a] = IF a \in T THEN posts[a] + 1 ELSE posts[a]
      BY <1>1
  <1>6. (\A r \in Subs : <<"annual", r>> \in Posts) /\ (\A v \in Users : <<"referral", v>> \in Posts)
      BY DEF Posts
  <1> HIDE DEF T
  <1> QED
      BY <1>2, <1>3, <1>4, <1>5, <1>6

\* The background tasks run: the payment is done, and its rewards are triggered.
LEMMA PostStep == ASSUME IInv, NEW w \in Processes, NEW d \in BOOLEAN, Post(w, d) PROVE IInv'
  <1>1. hook[w].pc = "tasks"
      BY DEF Post
  <1>2. PICK s \in Subs : /\ s = hook[w].s /\ s \in claimed /\ Over(s) /\ Session(s)
                          /\ sub[s].user \in Users
                          /\ \E h \in Hooks : h = hook[w] /\ h.s = s /\ Fits(h)
      BY <1>1, AtWork
  <1>3. PICK h \in Hooks : h = hook[w] /\ h.s = s /\ Fits(h)
      BY <1>2
  <1>4. PICK u \in Users : u = sub[s].user
      BY <1>2
  <1>5. PICK todo \in SUBSET {"referral", "annual"} : todo = h.todo
      BY DEF Hooks
  <1>6. /\ stripe[s] = "paid"
        /\ "referral" \in todo => u \in Referred /\ ref[u].rewarded
        /\ "annual" \in todo => sub[s].plan = "annual"
      BY <1>1, <1>3, <1>4, <1>5 DEF Fits
  <1>7. /\ hook' = [hook EXCEPT ![w] = Idle]
        /\ UNCHANGED <<rowVars, checkout, stripe, claimed, ref, outcome>>
      BY DEF Post
  <1>8. Fits(Idle)'
      BY IdleIs DEF Fits
  <1>9. RefType' /\ RefGrows /\ outcome' \in [Subs -> Outcomes]
      BY <1>7 DEF IInv, TypeOK, RefType, RefGrows, Outcomes
  <1>10. CASE posts' = posts
      BY <1>7, <1>8, <1>9, <1>10, IdleIs, HookStepOnly DEF rowVars
  <1>11. CASE posts' = [a \in DOMAIN posts |->
                     IF a \in {<<k, IF k = "annual" THEN s ELSE u>> : k \in todo}
                       THEN posts[a] + 1 ELSE posts[a]]
    <2>0. posts \in [Posts -> Nat]
        BY DEF IInv, TypeOK
    <2>1. /\ posts' \in [Posts -> Nat]
          /\ \A r \in Subs : posts'[<<"annual", r>>] =
               IF "annual" \in todo /\ r = s THEN posts[<<"annual", r>>] + 1 ELSE posts[<<"annual", r>>]
          /\ \A v \in Users : posts'[<<"referral", v>>] =
               IF "referral" \in todo /\ v = u THEN posts[<<"referral", v>>] + 1
                                               ELSE posts[<<"referral", v>>]
        BY <1>11, <2>0, Triggered
    <2>2. claimed \subseteq claimed' /\ claimed' \subseteq Subs /\ \A r \in claimed' : Over(r)
        BY <1>7 DEF IInv, TypeOK, SessionInv, Session
    <2>3. Kept /\ SessionInv' /\ Budget'
        BY <1>7, <1>9, <2>2, HookOnly DEF rowVars
    <2>4. HookInv' /\ (hook \in [Processes -> Hooks])'
        BY <1>7, <1>8, <1>9, <2>2, <2>3, IdleIs, HookMoves DEF IInv
    <2>5. hook'[w] = Idle /\ \A v \in Processes : v # w => hook'[v] = hook[v]
        BY <1>7, IdleIs DEF IInv, TypeOK
    <2>6. InHand(s) /\ ~InHand(s)'
      <3>1. InHand(s)
          BY <1>1, <1>2 DEF InHand
      <3>2. ~InHand(s)'
          BY <1>1, <1>2, <2>5, IdleIs DEF InHand, IInv, HookInv
      <3> QED
          BY <3>1, <3>2
    <2>7. \A r \in Subs : InHand(r)' => InHand(r)
        BY <2>5, IdleIs DEF InHand
    <2>8. ASSUME NEW r \in Subs
          PROVE  /\ posts'[<<"annual", r>>] <= 1
                 /\ posts'[<<"annual", r>>] > 0 =>
                      stripe'[r] = "paid" /\ sub'[r].plan = "annual" /\ r \in claimed' /\ ~InHand(r)'
      <3>1. posts[<<"annual", r>>] \in Nat
          BY DEF IInv, TypeOK, Posts
      <3>2. CASE "annual" \in todo /\ r = s
        <4>1. posts[<<"annual", r>>] = 0
            BY <2>6, <3>1, <3>2 DEF IInv, PostInv
        <4> QED
            BY <1>2, <1>6, <1>7, <2>1, <2>6, <3>2, <4>1 DEF rowVars
      <3>3. CASE ~("annual" \in todo /\ r = s)
          BY <1>7, <2>1, <2>7, <3>3 DEF IInv, PostInv, rowVars
      <3> QED
          BY <3>2, <3>3
    <2>9. ASSUME NEW v \in Users
          PROVE  /\ posts'[<<"referral", v>>] <= Cardinality(Done(v)')
                 /\ posts'[<<"referral", v>>] > 0 => v \in Referred /\ ref'[v].rewarded
      <3>1. posts[<<"referral", v>>] \in Nat /\ posts[<<"referral", v>>] <= Cardinality(Done(v))
          BY DEF IInv, TypeOK, Posts, PostInv
      <3>2. Done(v) \subseteq Done(v)' /\ IsFiniteSet(Done(v)')
        <4>1. Done(v) \subseteq Done(v)'
            BY <1>7, <2>7 DEF Done, rowVars
        <4>2. Done(v)' \subseteq PaidSubs' /\ IsFiniteSet(PaidSubs')
            BY <2>3 DEF Done, PaidSubs, Budget
        <4> QED
            BY <4>1, <4>2, FS_Subset
      <3>3. /\ IsFiniteSet(Done(v)) /\ Cardinality(Done(v)) <= Cardinality(Done(v)')
            /\ Cardinality(Done(v)) \in Nat /\ Cardinality(Done(v)') \in Nat
          BY <3>2, FS_Subset, FS_CardinalityType
      <3>4. CASE "referral" \in todo /\ v = u
        <4>1. s \notin Done(v) /\ s \in Done(v)'
            BY <1>2, <1>4, <1>6, <1>7, <2>6, <3>4 DEF Done, rowVars
        <4>2. Cardinality(Done(v) \cup {s}) = Cardinality(Done(v)) + 1
            BY <3>3, <4>1, FS_AddElement
        <4>3. Done(v) \cup {s} \subseteq Done(v)'
            BY <3>2, <4>1
        <4>4. Cardinality(Done(v) \cup {s}) <= Cardinality(Done(v)')
            BY <3>2, <4>3, FS_Subset
        <4>5. posts'[<<"referral", v>>] <= Cardinality(Done(v)')
            BY <2>1, <3>1, <3>3, <3>4, <4>2, <4>4
        <4> QED
            BY <1>6, <1>7, <3>4, <4>5
      <3>5. CASE ~("referral" \in todo /\ v = u)
        <4>1. posts'[<<"referral", v>>] = posts[<<"referral", v>>]
            BY <2>1, <3>5
        <4>2. posts[<<"referral", v>>] <= Cardinality(Done(v)')
            BY <3>1, <3>3
        <4> QED
            BY <1>7, <4>1, <4>2 DEF IInv, PostInv
      <3> QED
          BY <3>4, <3>5
    <2>10. PostInv'
        BY <2>8, <2>9 DEF PostInv
    <2> QED
        BY <1>7, <1>9, <2>1, <2>2, <2>3, <2>4, <2>10, HookOnly DEF rowVars
  <1> QED
      BY <1>2, <1>3, <1>4, <1>5, <1>10, <1>11 DEF Post
-----------------------------------------------------------------------------
(* The theorems.                                                           *)

\* All of this holds when no checkout has begun.
LEMMA InitIInv == Init => IInv
  <1> SUFFICES ASSUME Init PROVE IInv
      OBVIOUS
  <1>1. TypeOK
    <2>1. sub \in [Subs -> Rows]
        BY NoSubIsRow DEF Init
    <2>2. hook \in [Processes -> Hooks]
        BY IdleIs DEF Init
    <2>3. posts \in [Posts -> Nat]
        BY DEF Init, Posts
    <2>4. ref \in [Referred -> [plan: Plans \cup {NULL}, rewarded: BOOLEAN]]
        BY DEF Init
    <2> QED
        BY <2>1, <2>2, <2>3, <2>4 DEF Init, TypeOK
  <1>2. SessionInv
      BY NoSubIsRow DEF Init, SessionInv, Session, Over
  <1>3. HookInv
      BY IdleIs DEF Init, HookInv, Handling, Fits
  <1>4. PostInv
    <2>1. \A a \in Posts : posts[a] = 0
        BY DEF Init, Posts
    <2>2. \A s \in Subs : posts[<<"annual", s>>] = 0
        BY <2>1 DEF Posts
    <2>3. \A u \in Users : posts[<<"referral", u>>] = 0
        BY <2>1 DEF Posts
    <2>4. \A u : Done(u) = {}
        BY DEF Init, Done
    <2>5. Cardinality({}) = 0
        BY FS_EmptySet
    <2> QED
        BY <2>2, <2>3, <2>4, <2>5 DEF PostInv
  <1>5. Budget
    <2>1. Counted = {} /\ PaidSubs = {}
        BY NoSubIsRow DEF Init, Counted, PaidSubs
    <2>2. IsFiniteSet({}) /\ Cardinality({}) = 0
        BY FS_EmptySet
    <2>3. uses = 0 /\ MaxUses \in Nat
        BY SubscriptionsAssumption DEF Init
    <2> QED
        BY <2>1, <2>2, <2>3 DEF Budget
  <1> QED
      BY <1>1, <1>2, <1>3, <1>4, <1>5 DEF IInv

\* Every step keeps it.
LEMMA NextIInv == IInv /\ [Next]_vars => IInv'
  <1> SUFFICES ASSUME IInv, [Next]_vars PROVE IInv'
      OBVIOUS
  <1>1. ASSUME NEW s \in Subs, NEW u \in Users, NEW plan \in Plans, NEW code \in BOOLEAN,
               CheckoutBegin(s, u, plan, code)
        PROVE  IInv'
      BY <1>1, CheckoutBeginStep
  <1>2. ASSUME NEW s \in Subs, CheckoutInsert(s) \/ CheckoutCrash(s) \/ SessionEnds(s) \/ Lapse(s)
        PROVE  IInv'
      BY <1>2, CheckoutInsertStep, SessionSteps, QuietSteps
  <1>3. ASSUME NEW w \in Processes, HookStep(w) \/ Crash(w) \/ \E s \in Subs : Deliver(w, s)
        PROVE  IInv'
      BY <1>3, ReadSteps, CompletedWriteStep, ReferralMarkStep, AnnualStep, ExpiredStep, PostStep,
         CrashStep, DeliverStep DEF HookStep
  <1>4. ASSUME NEW u \in Users,
               \/ CancelRead(u) \/ \E r \in BOOLEAN : CancelWrite(u, r)
               \/ \E op \in {"activate", "deactivate"} : AdminRead(u, op)
               \/ AdminActivate(u) \/ AdminDeactivate(u) \/ AdminRefused(u) \/ AdminExtend(u)
               \/ \E s \in Subs : AdminGrant(s, u)
        PROVE  IInv'
      BY <1>4, QuietSteps, CancelSteps, AdminActivateStep, AdminGrantStep
  <1>5. CASE UNCHANGED vars
      BY <1>5, QuietSteps
  <1> QED
      BY <1>1, <1>2, <1>3, <1>4, <1>5 DEF Next

\* The inductive invariant.
THEOREM Inductive == Spec => []IInv
  BY InitIInv, NextIInv, PTL DEF Spec

\* No payment is without a row, wherever create_checkout stops: the session's URL
\* leaves the program only after the row is committed.
THEOREM PaidHasRowHolds == Spec => []PaidHasRow
  <1>1. IInv => PaidHasRow
      BY DEF IInv, SessionInv, Session, PaidHasRow
  <1> QED
      BY Inductive, <1>1, PTL

\* A row that grants premium on behalf of Stripe has been paid, whatever webhooks,
\* cancellations and administrators do to it, in whatever order.
THEOREM ActiveIsPaidHolds == Spec => []ActiveIsPaid
  <1>1. IInv => ActiveIsPaid
      BY DEF IInv, SessionInv, Session, ActiveIsPaid
  <1> QED
      BY Inductive, <1>1, PTL

\* The campaign's counter covers every discounted row that is or was active by a
\* payment, and stays within max_uses.
THEOREM DiscountBudgetHolds == Spec => []DiscountBudget
  <1>1. IInv => DiscountBudget
      BY DEF IInv, Budget, Counted, DiscountBudget
  <1> QED
      BY Inductive, <1>1, PTL

\* A payment triggers each of its rewards at most once, and nothing else does.
THEOREM RewardPerPaymentHolds == Spec => []RewardPerPayment
  <1>1. ASSUME IInv PROVE RewardPerPayment
    <2>1. ASSUME NEW s \in Subs
          PROVE  posts[<<"annual", s>>] <= (IF stripe[s] = "paid" /\ sub[s].plan = "annual" THEN 1 ELSE 0)
      <3>1. posts[<<"annual", s>>] \in Nat
          BY <1>1 DEF IInv, TypeOK, Posts
      <3> QED
          BY <1>1, <3>1 DEF IInv, PostInv
    <2>2. ASSUME NEW u \in Users
          PROVE  /\ posts[<<"referral", u>>] <= Cardinality({s \in Subs : sub[s].user = u /\ stripe[s] = "paid"})
                 /\ posts[<<"referral", u>>] > 0 => u \in Referred /\ ref[u].rewarded
      <3> DEFINE P == {s \in Subs : sub[s].user = u /\ stripe[s] = "paid"}
      <3>1. Done(u) \subseteq P /\ P \subseteq PaidSubs
          BY DEF Done, PaidSubs
      <3>2. IsFiniteSet(P)
          BY <1>1, <3>1, FS_Subset DEF IInv, Budget
      <3>3. /\ Cardinality(Done(u)) <= Cardinality(P) /\ IsFiniteSet(Done(u))
            /\ Cardinality(Done(u)) \in Nat /\ Cardinality(P) \in Nat
          BY <3>1, <3>2, FS_Subset, FS_CardinalityType
      <3>4. posts[<<"referral", u>>] \in Nat /\ posts[<<"referral", u>>] <= Cardinality(Done(u))
          BY <1>1 DEF IInv, TypeOK, Posts, PostInv
      <3>5. posts[<<"referral", u>>] <= Cardinality(P)
          BY <3>3, <3>4
      <3> QED
          BY <1>1, <3>5 DEF IInv, PostInv
    <2> QED
        BY <2>1, <2>2 DEF RewardPerPayment
  <1> QED
      BY Inductive, <1>1, PTL
=============================================================================
