---------------------------- MODULE MCGiftCards ----------------------------
(***************************************************************************)
(* Instances of GiftCards for TLC: which earned-card events may happen.    *)
(***************************************************************************)
EXTENDS GiftCards, TLC

CONSTANT u1

AnnualOf(u, session) ==
  [user |-> u, source |-> "annual_subscription", ref |-> session]
MilestoneOf(u) ==
  [user |-> u, source |-> "battlepass_milestone", ref |-> "milestone"]
ReferralOf(u) ==
  [user |-> u, source |-> "referral_reward", ref |-> "use"]

\* Worker threads and order ids are interchangeable.
Symmetry == Permutations(Workers) \cup Permutations(OrderIds)

NoEvents == {}
Annual == {AnnualOf(u1, "session")}
MilestoneAndReferral == {MilestoneOf(u1), ReferralOf(u1)}
=============================================================================
