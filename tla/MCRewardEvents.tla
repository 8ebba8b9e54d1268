--------------------------- MODULE MCRewardEvents ---------------------------
(***************************************************************************)
(* Instances of RewardEvents for TLC: which events the scans emit and      *)
(* which missions the catalogue has.                                       *)
(***************************************************************************)
EXTENDS RewardEvents, TLC

CONSTANTS m1, m2, m3

\* Receipts with a promotion; labels with nothing special, or with an organic
\* product first and a category second.
Kinds(ofLabel) == [s \in Scans |-> IF s \in Receipts THEN {"receipt", "promo"} ELSE ofLabel]
OnlyPlain == Kinds({"plain"})
All == Kinds({"plain", "organic", "category"})
SameCategory == [s \in Labels |-> "dairy"]
Catalogue == [m \in Missions |->
  CASE m = m1 -> [action |-> "label_scan", qualifier |-> "none"]
    [] m = m2 -> [action |-> "scan_distinct", qualifier |-> "category"]
    [] m = m3 -> [action |-> "promo_found", qualifier |-> "none"]]

ServerSymmetry == Permutations(Servers)
=============================================================================
