--------------------------- MODULE NaiveOrderBook ---------------------------
(***************************************************************************)
(* OrderBookNaiveImpl: the orders of a side in buckets by price, each a    *)
(* list in order of arrival with the volume it holds (OrdersBucket), and   *)
(* idMap_ from order ids to orders.  An Order object is named by its id:   *)
(* the lists hold ids and idMap the objects, so a bucket that fills an     *)
(* order changes the object idMap finds.                                   *)
(***************************************************************************)
EXTENDS PriceTimeBook

CONSTANT Commands       \* the slots that may reach the book

VARIABLES
  buckets,              \* askBuckets_ and bidBuckets_: price -> OrdersBucket
  idMap,                \* order id -> Order
  cmd                   \* the slot processed last

vars == <<buckets, idMap, cmd>>

Init ==
  /\ buckets = [action \in OrderAction |-> <<>>]
  /\ idMap = <<>>
  /\ cmd = NoCommand

Erase(map, key) == Restrict(map, DOMAIN map \ {key})

-----------------------------------------------------------------------------
(***************************************************************************)
(* OrdersBucket.                                                           *)
(***************************************************************************)
Put(bucket, order) ==
  [orderList |-> Append(bucket.orderList, order.orderId),
   totalVolume |-> bucket.totalVolume + Remaining(order)]

TakeOut(bucket, order) ==
  [orderList |-> SelectSeq(bucket.orderList, LAMBDA id : id # order.orderId),
   totalVolume |-> bucket.totalVolume - Remaining(order)]

\* The orders of a bucket from the head of its list, while there is volume to
\* collect.
MatchBucket(bucket, orders, volumeToCollect, taker) ==
  LET fill(acc, id) ==
        LET order == acc.orders[id]
            v == Min({acc.left, Remaining(order)})
            full == v = Remaining(order)
        IN IF acc.left = 0 THEN acc
           ELSE [left   |-> acc.left - v,
                 orders |-> IF full THEN Erase(acc.orders, id)
                            ELSE [acc.orders EXCEPT ![id].filled = @ + v],
                 events |-> Append(acc.events,
                              TradeEvent(taker, order, v, full, acc.left = v)),
                 bucket |-> [orderList |-> IF full THEN Tail(acc.bucket.orderList)
                                           ELSE acc.bucket.orderList,
                             totalVolume |-> acc.bucket.totalVolume - v]]
  IN FoldLeft(fill, [left |-> volumeToCollect, orders |-> orders,
                     events |-> <<>>, bucket |-> bucket], bucket.orderList)

-----------------------------------------------------------------------------
(***************************************************************************)
(* The book: b is [buckets, idMap].                                        *)
(***************************************************************************)
ByPriority(action, prices) ==
  SetToSortSeq(prices, LAMBDA p, q : Better(action, p, q))

GetMatchingRange(b, action, price) ==
  ByPriority(Opposite(action),
    {p \in DOMAIN b.buckets[Opposite(action)] : Within(action, price, p)})

TryMatchInstantly(b, range, taker, size, filled) ==
  LET side == Opposite(taker.action)
      matchPrice(acc, p) ==
        LET m == MatchBucket(acc.b.buckets[side][p], acc.b.idMap,
                             size - acc.filled, taker)
        IN [b |-> [buckets |-> [acc.b.buckets EXCEPT ![side][p] = m.bucket],
                   idMap   |-> m.orders],
            filled |-> size - m.left,
            events |-> acc.events \o m.events]
      all == FoldLeft(matchPrice,
                      [b |-> b, filled |-> filled, events |-> <<>>], range)
      left == {p \in DOMAIN b.buckets[side] :
                 all.b.buckets[side][p].totalVolume # 0}
  IN [all EXCEPT !.b.buckets[side] = [p \in left |-> @[p]]]

\* At the tail of the bucket of the order's price, which is added if missing.
PlaceInBucket(b, order) ==
  LET side == b.buckets[order.action]
      bucket == IF order.price \in DOMAIN side THEN side[order.price]
                ELSE [orderList |-> <<>>, totalVolume |-> 0]
  IN [buckets |-> [b.buckets EXCEPT ![order.action] =
                     (order.price :> Put(bucket, order)) @@ @],
      idMap   |-> (order.orderId :> order) @@ b.idMap]

\* Out of its bucket, which goes when it is empty; the order stays in idMap.
TakeFromBucket(b, order) ==
  LET bucket == TakeOut(b.buckets[order.action][order.price], order)
  IN [b EXCEPT !.buckets[order.action] =
        IF bucket.totalVolume = 0 THEN Erase(@, order.price)
        ELSE [@ EXCEPT ![order.price] = bucket]]

Answer(b, c, code, events) ==
  [b |-> b, cmd |-> [c EXCEPT !.resultCode = code, !.matcherEvent = events]]

PlaceGtc(b, c) ==
  LET match == TryMatchInstantly(b, GetMatchingRange(b, c.action, c.price),
                                 c, c.size, 0)
      order == [orderId |-> c.orderId, uid |-> c.uid, action |-> c.action,
                price |-> c.price, size |-> c.size, filled |-> match.filled,
                reserveBidPrice |-> c.reserveBidPrice]
  IN IF match.filled = c.size
     THEN Answer(match.b, c, "SUCCESS", match.events)
     ELSE IF c.orderId \in DOMAIN match.b.idMap
     THEN Answer(match.b, c, "SUCCESS",
                 <<RejectEvent(c, c.size - match.filled)>> \o match.events)
     ELSE Answer(PlaceInBucket(match.b, order), c, "SUCCESS", match.events)

MatchIoc(b, c) ==
  LET match == TryMatchInstantly(b, GetMatchingRange(b, c.action, c.price),
                                 c, c.size, 0)
      rejected == c.size - match.filled
  IN Answer(match.b, c, "SUCCESS",
            IF rejected # 0 THEN <<RejectEvent(c, rejected)>> \o match.events
            ELSE match.events)

CheckBudgetToFill(b, side, range, size) ==
  LET step(acc, p) ==
        LET available == b.buckets[side][p].totalVolume
        IN IF acc.found THEN acc
           ELSE IF acc.left > available
           THEN [acc EXCEPT !.left = @ - available, !.budget = @ + available * p]
           ELSE [acc EXCEPT !.found = TRUE, !.budget = @ + acc.left * p]
  IN FoldLeft(step, [found |-> FALSE, left |-> size, budget |-> 0], range)

IsBudgetLimitExceeded(orderAction, calculated, limit) ==
  (orderAction = "BID") # (calculated > limit)

IsBudgetLimitSatisfied(orderAction, calculated, limit) ==
  calculated = limit \/ ((orderAction = "BID") # (calculated > limit))

MatchFokBudget(b, c) ==
  LET side == Opposite(c.action)
      range == ByPriority(side, DOMAIN b.buckets[side])
      check == CheckBudgetToFill(b, side, range, c.size)
      match == TryMatchInstantly(b, range, c, c.size, 0)
  IN IF check.found /\ IsBudgetLimitSatisfied(c.action, check.budget, c.price)
     THEN Answer(match.b, c, "SUCCESS", match.events)
     ELSE Answer(b, c, "SUCCESS", <<RejectEvent(c, c.size)>>)

New(b, c) ==
  CASE c.orderType = "GTC" -> PlaceGtc(b, c)
    [] c.orderType = "IOC" -> MatchIoc(b, c)
    [] c.orderType = "FOK_BUDGET" -> MatchFokBudget(b, c)
    [] OTHER -> Answer(b, c, "SUCCESS", <<RejectEvent(c, c.size)>>)

Known(b, c) == c.orderId \in DOMAIN b.idMap /\ b.idMap[c.orderId].uid = c.uid

Cancel(b, c) ==
  IF ~ Known(b, c) THEN Answer(b, c, "MATCHING_UNKNOWN_ORDER_ID", <<>>)
  ELSE LET order == b.idMap[c.orderId]
       IN Answer([TakeFromBucket(b, order) EXCEPT !.idMap = Erase(@, c.orderId)],
                 [c EXCEPT !.action = order.action], "SUCCESS",
                 <<ReduceEvent(order, Remaining(order), TRUE)>>)

Reduce(b, c) ==
  IF c.size <= 0 THEN Answer(b, c, "MATCHING_REDUCE_FAILED_WRONG_SIZE", <<>>)
  ELSE IF ~ Known(b, c) THEN Answer(b, c, "MATCHING_UNKNOWN_ORDER_ID", <<>>)
  ELSE LET order == b.idMap[c.orderId]
           reduceBy == Min({Remaining(order), c.size})
           canRemove == reduceBy = Remaining(order)
           removed == [TakeFromBucket(b, order) EXCEPT !.idMap = Erase(@, c.orderId)]
           reduced == [b EXCEPT !.idMap[c.orderId].size = @ - reduceBy,
                                !.buckets[order.action][order.price].totalVolume =
                                  @ - reduceBy]
       IN Answer(IF canRemove THEN removed ELSE reduced,
                 [c EXCEPT !.action = order.action], "SUCCESS",
                 <<ReduceEvent(order, reduceBy, canRemove)>>)

Move(b, c) ==
  IF ~ Known(b, c) THEN Answer(b, c, "MATCHING_UNKNOWN_ORDER_ID", <<>>)
  ELSE LET order == b.idMap[c.orderId]
           moved == [c EXCEPT !.action = order.action]
           match == TryMatchInstantly(TakeFromBucket(b, order),
                      GetMatchingRange(b, order.action, c.price),
                      order, order.size, order.filled)
       IN IF /\ ExchangePair /\ order.action = "BID"
             /\ c.price > order.reserveBidPrice
          THEN Answer(b, moved, "MATCHING_MOVE_FAILED_PRICE_OVER_RISK_LIMIT", <<>>)
          ELSE Answer(IF match.filled = order.size
                      THEN [match.b EXCEPT !.idMap = Erase(@, c.orderId)]
                      ELSE PlaceInBucket(match.b, [order EXCEPT
                             !.price = c.price, !.filled = match.filled]),
                      moved, "SUCCESS", match.events)

FillLevels(b, side, depth) ==
  LET prices == ByPriority(side, DOMAIN b.buckets[side])
      level(p) == [price |-> p, volume |-> b.buckets[side][p].totalVolume,
                   orders |-> Len(b.buckets[side][p].orderList)]
  IN [i \in 1 .. Min({depth, Len(prices)}) |-> level(prices[i])]

MarketDataSnapshot(b, size) ==
  [side \in OrderAction |->
     FillLevels(b, side, IF size >= 0 THEN size
                         ELSE Cardinality(DOMAIN b.buckets[side]))]

-----------------------------------------------------------------------------
Handle(result) ==
  /\ buckets' = result.b.buckets
  /\ idMap' = result.b.idMap
  /\ cmd' = result.cmd

This == [buckets |-> buckets, idMap |-> idMap]

ProcessPlace ==
  \E c \in Commands :
    /\ c.command = "PLACE_ORDER"
    /\ Handle(IF c.resultCode = "VALID_FOR_MATCHING_ENGINE" THEN New(This, c)
              ELSE [b |-> This, cmd |-> c])

ProcessCancel ==
  \E c \in Commands : c.command = "CANCEL_ORDER" /\ Handle(Cancel(This, c))

ProcessReduce ==
  \E c \in Commands : c.command = "REDUCE_ORDER" /\ Handle(Reduce(This, c))

ProcessMove ==
  \E c \in Commands : c.command = "MOVE_ORDER" /\ Handle(Move(This, c))

ProcessL2Request ==
  \E c \in Commands :
    /\ c.command = "ORDER_BOOK_REQUEST"
    /\ Handle(Answer(This, [c EXCEPT !.marketData =
                              MarketDataSnapshot(This, c.size)],
                     "SUCCESS", <<>>))

\* A snapshot written and read back: the buckets as they were, and idMap built
\* from the orders that they list.
Restore ==
  /\ idMap' = Restrict(idMap, UNION {UNION {ToSet(buckets[a][p].orderList) :
                                            p \in DOMAIN buckets[a]} :
                                     a \in OrderAction})
  /\ UNCHANGED <<buckets, cmd>>

Next ==
  \/ ProcessPlace \/ ProcessCancel \/ ProcessReduce \/ ProcessMove
  \/ ProcessL2Request \/ Restore

Spec == Init /\ [][Next]_vars

-----------------------------------------------------------------------------
\* The queues of the abstract book: the buckets one after the other.
Queues ==
  [a \in OrderAction |->
     FoldLeft(LAMBDA q, p : q \o
                [i \in DOMAIN buckets[a][p].orderList |->
                   idMap[buckets[a][p].orderList[i]]],
              <<>>, ByPriority(a, DOMAIN buckets[a]))]

Abstract == INSTANCE OrderBook WITH book <- Queues

\* OrderBookNaiveImpl is an order book: after every command its queues, the
\* result code and the chain of events are those of OrderBook, so its volumes,
\* its incremental loops and its lazy removal of buckets cannot be observed.
RefinesOrderBook == Abstract!Spec
=============================================================================
