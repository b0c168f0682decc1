-------------------------- MODULE MCNaiveOrderBook --------------------------
EXTENDS NaiveOrderBook, BookCommands

\* As in MCOrderBook: two states per book.
Books == <<buckets, idMap, cmd = NoCommand>>
=============================================================================
