--------------------------- MODULE MCReceiptScans ---------------------------
(* Two photos of one ticket by the same user. *)
EXTENDS ReceiptScans, TLC

SomeReadings == {<<"code", "unknown">>, <<"code", "keyed">>, <<"exact", "keyed">>, <<"drift", "unknown">>}
OneUser == 1 :> "u" @@ 2 :> "u"
=============================================================================
