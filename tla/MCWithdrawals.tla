--------------------------- MODULE MCWithdrawals ---------------------------
(***************************************************************************)
(* Instances of Withdrawals for TLC.                                       *)
(***************************************************************************)
EXTENDS Withdrawals, TLC

\* Threads and withdrawal ids are interchangeable.
Symmetry == Permutations(Workers) \cup Permutations(WithdrawalIds)
=============================================================================
