-------------------------- MODULE MCNotifications --------------------------
(***************************************************************************)
(* The instance of Notifications for TLC: outbox rows of one type; a       *)
(* rate-limited and a data-only call beside them.                          *)
(***************************************************************************)
EXTENDS Notifications

SameType == [r \in Rows |-> "mystery"]
Calls == {[type |-> "achievement", visible |-> TRUE, limit |-> 1],
          [type |-> "achievement", visible |-> FALSE, limit |-> 0]}
=============================================================================
