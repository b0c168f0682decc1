-------------------------- MODULE MCDirectOrderBook --------------------------
EXTENDS DirectOrderBook, BookCommands

\* One size less of each kind of taker, of reductions and of requests.
DirectCommands ==
  {c \in FewerCommands :
     /\ c \in Takers => c.size # 1
     /\ c.command = "REDUCE_ORDER" => c.size \in (IF c.orderId = 1 THEN {1} ELSE {0, 1})
     /\ c.command = "ORDER_BOOK_REQUEST" => c.size # 0}

\* What a command does depends neither on the last slot nor on the address an
\* object has, so states that differ in those alone are one: what is left is the
\* book, the counters of the buckets and the number of free objects.
Books ==
  <<Queues, {[buckets[b] EXCEPT !.lastOrder = orders[@].orderId] :
               b \in DOMAIN buckets},
    [kind \in DOMAIN pool |-> Len(pool[kind])]>>
=============================================================================
