----------------------------- MODULE MCCashback -----------------------------
(***************************************************************************)
(* The instances of Cashback for TLC: one user and one receipt of two      *)
(* lines, of which both pay, or only the first.                            *)
(***************************************************************************)
EXTENDS Cashback, TLC

CONSTANTS u1, r1, l1, l2

OneUser == [r \in Receipts |-> u1]
OneReceipt == [s \in Lines |-> r1]

\* 2.5 cents, where the two roundings differ; both lines, or one beside a line
\* whose reward rounds to nothing.
BothPay == [s \in Lines |-> 25]
OneWorthNothing == [s \in Lines |-> IF s = l1 THEN 25 ELSE 4]

\* Lines that pay the same on the same receipt are interchangeable, and so are
\* threads that may all resolve.
Symmetry == Permutations(Lines) \cup Permutations(Workers)
=============================================================================
