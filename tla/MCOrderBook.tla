---------------------------- MODULE MCOrderBook ----------------------------
EXTENDS OrderBook, BookCommands

\* What a command does depends on the book and not on the last slot, so one
\* state per book would do.  The second one, with the slot of a market data
\* request, is there because a step that repeats the last slot counts as
\* stuttering and would not be checked.
Books == <<book, cmd = NoCommand>>
=============================================================================
