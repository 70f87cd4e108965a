------------------------- MODULE MCStatePersistence -------------------------
(* One trade from opening to booking, one operator change, two crashes and *)
(* one failing write: enough for a crash in a restore after a crash.       *)
EXTENDS StatePersistence

OneTrade == {"t1"}
=============================================================================
