---------------------------- MODULE MCScanQueue ----------------------------
(* Two receipts queued one after the other; the second is the same photo,  *)
(* picked again from the gallery.                                          *)
EXTENDS ScanQueue

TwoEntries == <<1, 2>>
SamePhoto == 1 :> 1 @@ 2 :> 1
=============================================================================
