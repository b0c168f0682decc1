----------------------------- MODULE MCJournal -----------------------------
(***************************************************************************)
(* Instances of Journal for TLC: what clients request in each run.         *)
(***************************************************************************)
EXTENDS Journal

RequestsOrders == {"PLACE_ORDER", "ORDER_BOOK_REQUEST", "RESET",
                   "PERSIST_STATE", "SHUTDOWN_SIGNAL"}
=============================================================================
