--------------------------- MODULE DirectOrderBook ---------------------------
(***************************************************************************)
(* OrderBookDirectImpl: the resting orders of a side are one doubly linked *)
(* list from the best order to the worst; a tree finds the Bucket of a     *)
(* price, which knows the last order of that price; orderIdIndex_ finds an *)
(* order by its id.  DirectOrders and Buckets are objects at addresses,    *)
(* taken from an ObjectsPool and given back to it: the address 0 is        *)
(* nullptr, and an object that is in the pool has no content.              *)
(*                                                                         *)
(* An operator below takes and gives the memory m: what this book's fields *)
(* and objects hold.  The trees are maps here; RadixTree models them.      *)
(***************************************************************************)
EXTENDS PriceTimeBook

CONSTANTS
  Commands,             \* the slots that may reach the book
  PoolCapacity          \* how many free objects of a kind the pool keeps

ASSUME PoolCapacityAssumption == PoolCapacity \in Nat

VARIABLES
  orders,               \* address -> DirectOrder
  buckets,              \* address -> Bucket
  orderIdIndex,         \* order id -> address of the order
  priceBuckets,         \* side -> price -> address of the bucket
  bestOrder,            \* bestAskOrder_ and bestBidOrder_: addresses
  pool,                 \* kind -> stack of the addresses of free objects
  cmd                   \* the slot processed last

vars == <<orders, buckets, orderIdIndex, priceBuckets, bestOrder, pool, cmd>>

Null == 0

NewMemory ==
  [orders |-> <<>>, buckets |-> <<>>, index |-> <<>>,
   tree |-> [side \in OrderAction |-> <<>>],
   best |-> [side \in OrderAction |-> Null],
   pool |-> [kind \in {"DIRECT_ORDER", "DIRECT_BUCKET"} |-> <<>>]]

Memory ==
  [orders |-> orders, buckets |-> buckets, index |-> orderIdIndex,
   tree |-> priceBuckets, best |-> bestOrder, pool |-> pool]

Init ==
  /\ orders = <<>> /\ buckets = <<>> /\ orderIdIndex = <<>>
  /\ priceBuckets = NewMemory.tree
  /\ bestOrder = NewMemory.best
  /\ pool = NewMemory.pool
  /\ cmd = NoCommand

With(map, key, value) ==
  [k \in DOMAIN map \cup {key} |-> IF k = key THEN value ELSE map[k]]

Erase(map, key) == [k \in DOMAIN map \ {key} |-> map[k]]

-----------------------------------------------------------------------------
(***************************************************************************)
(* ObjectsPool: a stack of free objects of each kind.                      *)
(***************************************************************************)

\* The address that Get returns: the top of the stack, or of a new object.
Address(heap, stack) ==
  IF stack # <<>> THEN Last(stack)
  ELSE 1 + Max({Null} \cup DOMAIN heap)

Popped(stack) == IF stack = <<>> THEN stack ELSE Front(stack)

\* What does not fit is forgotten.
Add(stack, address) ==
  IF Len(stack) = PoolCapacity THEN stack ELSE Append(stack, address)

PutOrder(m, address) ==
  [m EXCEPT !.orders = Erase(@, address),
            !.pool["DIRECT_ORDER"] = Add(@, address)]

PutBucket(m, address) ==
  IF address = Null THEN m
  ELSE [m EXCEPT !.buckets = Erase(@, address),
                 !.pool["DIRECT_BUCKET"] = Add(@, address)]

-----------------------------------------------------------------------------
(***************************************************************************)
(* The list and the buckets.                                               *)
(***************************************************************************)

\* GetLowerValue of the asks, GetHigherValue of the bids: the bucket of the
\* nearest better price.
BetterBucket(m, order) ==
  LET prices == {p \in DOMAIN m.tree[order.action] :
                   Better(order.action, p, order.price)}
  IN IF prices = {} THEN Null
     ELSE m.tree[order.action][
            CHOOSE p \in prices : \A q \in prices :
              p = q \/ Better(order.action, q, p)]

\* Mutant: the order that was behind tail is not linked back.
LinkOneWay(m, address, tail) ==
  [m EXCEPT !.orders[tail].prev = address, !.orders[address].next = tail,
            !.orders[address].prev = m.orders[tail].prev]

\* The order at address behind the order at tail.
Link(m, address, tail) ==
  LET prev == m.orders[tail].prev
      linked == [m EXCEPT !.orders[tail].prev = address,
                          !.orders[address].next = tail,
                          !.orders[address].prev = prev]
  IN IF prev = Null THEN linked
     ELSE [linked EXCEPT !.orders[prev].next = address]

LinkAsBest(m, address) ==
  LET order == m.orders[address]
      old == m.best[order.action]
      linked == [m EXCEPT !.best[order.action] = address,
                          !.orders[address].next = Null,
                          !.orders[address].prev = old]
  IN IF old = Null THEN linked ELSE [linked EXCEPT !.orders[old].next = address]

InsertInBucket(m, address, bucket) ==
  LET order == m.orders[address]
  IN Link([m EXCEPT !.buckets[bucket] =
                      [@ EXCEPT !.totalVolume = @ + Remaining(order),
                                !.numOrders = @ + 1, !.lastOrder = address],
                    !.orders[address].bucket = bucket],
          address, m.buckets[bucket].lastOrder)

InsertWithBucket(m, address, bucket) ==
  LET order == m.orders[address]
      better == BetterBucket(m, order)
      placed == [m EXCEPT
        !.buckets = With(@, bucket,
                      [price |-> order.price, lastOrder |-> address,
                       totalVolume |-> Remaining(order), numOrders |-> 1]),
        !.orders[address].bucket = bucket,
        !.tree[order.action] = With(@, order.price, bucket)]
  IN IF better = Null THEN LinkAsBest(placed, address)
     ELSE Link(placed, address, m.buckets[better].lastOrder)

\* Mutant: the bucket that a moved order has left is not given back.
InsertOrderKeepingFreeBucket(m, address, freeBucket) ==
  LET order == m.orders[address]
      fresh == Address(m.buckets, m.pool["DIRECT_BUCKET"])
      popped == [m EXCEPT !.pool["DIRECT_BUCKET"] = Popped(@)]
  IN IF order.price \in DOMAIN m.tree[order.action]
     THEN InsertInBucket(m, address, m.tree[order.action][order.price])
     ELSE IF freeBucket # Null THEN InsertWithBucket(m, address, freeBucket)
     ELSE InsertWithBucket(popped, address, fresh)

\* freeBucket is a bucket that its last order has left, or nullptr.
InsertOrder(m, address, freeBucket) ==
  LET order == m.orders[address]
      fresh == Address(m.buckets, m.pool["DIRECT_BUCKET"])
      popped == [m EXCEPT !.pool["DIRECT_BUCKET"] = Popped(@)]
  IN IF order.price \in DOMAIN m.tree[order.action]
     THEN InsertInBucket(PutBucket(m, freeBucket), address,
                         m.tree[order.action][order.price])
     ELSE IF freeBucket # Null THEN InsertWithBucket(m, address, freeBucket)
     ELSE InsertWithBucket(popped, address, fresh)

\* Takes an order out of the list: [m, freeBucket].  The order and a bucket that
\* it leaves empty keep their content until they are given back.
RemoveOrder(m, address) ==
  LET order == m.orders[address]
      bucket == m.buckets[order.bucket]
      isLast == bucket.lastOrder = address
      alone == isLast /\ (\/ order.next = Null
                          \/ m.orders[order.next].bucket # order.bucket)
      nextOf(links) == IF order.next = Null THEN links
                       ELSE [links EXCEPT ![order.next].prev = order.prev]
      prevOf(links) == IF order.prev = Null THEN links
                       ELSE [links EXCEPT ![order.prev].next = order.next]
      atBest == m.best[order.action] = address
  IN [m |-> [m EXCEPT
        !.buckets[order.bucket] =
          [@ EXCEPT !.totalVolume = @ - Remaining(order), !.numOrders = @ - 1,
                    !.lastOrder = IF isLast /\ ~ alone THEN order.next ELSE @],
        !.tree[order.action] = IF alone THEN Erase(@, order.price) ELSE @,
        !.orders = prevOf(nextOf(@)),
        !.best[order.action] = IF atBest THEN order.prev ELSE @],
      freeBucket |-> IF alone THEN order.bucket ELSE Null]

-----------------------------------------------------------------------------
(***************************************************************************)
(* Matching: from the best order towards the worst.                        *)
(***************************************************************************)
LimitPrice(c, taker) ==
  IF /\ c.command = "PLACE_ORDER" /\ c.orderType = "FOK_BUDGET"
     /\ taker.action = "ASK"
  THEN 0 ELSE taker.price

\* One trade.  A maker that is filled leaves the index and goes back to the
\* pool, its bucket too when it was the last order of its price.
MatchOne(acc, taker, limit) ==
  LET maker == acc.m.orders[acc.maker]
      v == Min({acc.left, Remaining(maker)})
      full == v = Remaining(maker)
      event == TradeEvent(taker, maker, v, full, acc.left = v)
      traded == [acc.m EXCEPT !.orders[acc.maker].filled = @ + v,
                              !.buckets[maker.bucket].totalVolume = @ - v,
                              !.buckets[maker.bucket].numOrders =
                                IF full THEN @ - 1 ELSE @]
      done == [traded EXCEPT !.index = Erase(@, maker.orderId)]
      freed == IF acc.maker = acc.tail
               THEN PutBucket([done EXCEPT !.tree[maker.action] =
                                 Erase(@, maker.price)], maker.bucket)
               ELSE done
      tail == IF acc.maker = acc.tail /\ maker.prev # Null
              THEN acc.m.buckets[acc.m.orders[maker.prev].bucket].lastOrder
              ELSE acc.tail
      next == [acc EXCEPT !.left = @ - v, !.events = Append(@, event)]
  IN IF ~ full THEN [next EXCEPT !.m = traded, !.stop = TRUE]
     ELSE [next EXCEPT
             !.m = PutOrder(freed, acc.maker), !.maker = maker.prev,
             !.tail = tail,
             !.stop = \/ maker.prev = Null \/ acc.left = v
                      \/ ~ Within(taker.action, limit,
                                  acc.m.orders[maker.prev].price)]

\* [m, filled, events] of a taker that has filled so much before.
TryMatchInstantly(m, taker, filled, c) ==
  LET side == Opposite(taker.action)
      limit == LimitPrice(c, taker)
      first == m.best[side]
      step(acc, n) == IF acc.stop THEN acc ELSE MatchOne(acc, taker, limit)
      all == FoldLeft(step,
               [m |-> m, maker |-> first, left |-> taker.size - filled,
                tail |-> m.buckets[m.orders[first].bucket].lastOrder,
                events |-> <<>>, stop |-> FALSE],
               [n \in 1 .. Cardinality(DOMAIN m.orders) |-> n])
      rest == [all.m EXCEPT !.best[side] = all.maker]
  IN IF \/ first = Null
        \/ ~ Within(taker.action, limit, m.orders[first].price)
        \/ taker.size = filled
     THEN [m |-> m, filled |-> filled, events |-> <<>>]
     ELSE [m |-> IF all.maker = Null THEN rest
                 ELSE [rest EXCEPT !.orders[all.maker].next = Null],
           filled |-> taker.size - all.left, events |-> all.events]

\* The cost of the size at the best prices, bucket by bucket.
CheckBudgetToFill(m, action, size) ==
  LET step(acc, n) ==
        LET bucket == m.buckets[m.orders[acc.maker].bucket]
        IN IF acc.found \/ acc.maker = Null THEN acc
           ELSE IF acc.left > bucket.totalVolume
           THEN [acc EXCEPT
                   !.left = @ - bucket.totalVolume,
                   !.budget = @ + bucket.totalVolume * bucket.price,
                   !.maker = m.orders[bucket.lastOrder].prev]
           ELSE [acc EXCEPT !.found = TRUE,
                            !.budget = @ + acc.left * bucket.price]
  IN FoldLeft(step, [maker |-> m.best[Opposite(action)], left |-> size,
                     budget |-> 0, found |-> FALSE],
              [n \in 0 .. Cardinality(DOMAIN m.buckets) |-> n])

IsBudgetLimitSatisfied(action, check, limit) ==
  /\ check.found
  /\ check.budget = limit \/ ((action = "BID") # (check.budget > limit))

-----------------------------------------------------------------------------
(***************************************************************************)
(* Commands.  Each gives [m, cmd].                                         *)
(***************************************************************************)
Answer(m, c, code, events) ==
  [m |-> m, cmd |-> [c EXCEPT !.resultCode = code, !.matcherEvent = events]]

OrderRecord(c, filled) ==
  [orderId |-> c.orderId, uid |-> c.uid, action |-> c.action,
   price |-> c.price, size |-> c.size, filled |-> filled,
   reserveBidPrice |-> c.reserveBidPrice,
   next |-> Null, prev |-> Null, bucket |-> Null]

PlaceGtc(m, c) ==
  LET match == TryMatchInstantly(m, c, 0, c)
      left == c.size - match.filled
      address == Address(match.m.orders, match.m.pool["DIRECT_ORDER"])
      allocated == [match.m EXCEPT
        !.pool["DIRECT_ORDER"] = Popped(@),
        !.orders = With(@, address, OrderRecord(c, match.filled)),
        !.index = With(@, c.orderId, address)]
  IN CASE left = 0 -> Answer(match.m, c, "SUCCESS", match.events)
       [] left # 0 /\ c.orderId \in DOMAIN match.m.index ->
            Answer(match.m, c, "SUCCESS", <<RejectEvent(c, left)>> \o match.events)
       [] OTHER -> Answer(InsertOrder(allocated, address, Null), c, "SUCCESS",
                          match.events)

MatchIoc(m, c) ==
  LET match == TryMatchInstantly(m, c, 0, c)
      rejected == c.size - match.filled
  IN Answer(match.m, c, "SUCCESS",
            IF rejected = 0 THEN match.events
            ELSE <<RejectEvent(c, rejected)>> \o match.events)

MatchFokBudget(m, c) ==
  LET match == TryMatchInstantly(m, c, 0, c)
      check == CheckBudgetToFill(m, c.action, c.size)
  IN IF IsBudgetLimitSatisfied(c.action, check, c.price)
     THEN Answer(match.m, c, "SUCCESS", match.events)
     ELSE Answer(m, c, "SUCCESS", <<RejectEvent(c, c.size)>>)

New(m, c) ==
  CASE c.orderType = "GTC" -> PlaceGtc(m, c)
    [] c.orderType = "IOC" -> MatchIoc(m, c)
    [] c.orderType = "FOK_BUDGET" -> MatchFokBudget(m, c)
    [] OTHER -> Answer(m, c, "SUCCESS", <<RejectEvent(c, c.size)>>)

Known(m, c) ==
  c.orderId \in DOMAIN m.index /\ m.orders[m.index[c.orderId]].uid = c.uid

Unknown(m, c) == Answer(m, c, "MATCHING_UNKNOWN_ORDER_ID", <<>>)

\* An order out of the list, out of the index and back in the pool.
Release(m, address) ==
  LET removed == RemoveOrder([m EXCEPT !.index =
                                Erase(@, m.orders[address].orderId)], address)
  IN PutOrder(PutBucket(removed.m, removed.freeBucket), address)

Cancel(m, c) ==
  LET address == m.index[c.orderId]
      order == m.orders[address]
  IN IF ~ Known(m, c) THEN Unknown(m, c)
     ELSE Answer(Release(m, address), [c EXCEPT !.action = order.action],
                 "SUCCESS", <<ReduceEvent(order, Remaining(order), TRUE)>>)

Reduce(m, c) ==
  LET address == m.index[c.orderId]
      order == m.orders[address]
      reduceBy == Min({Remaining(order), c.size})
      canRemove == reduceBy = Remaining(order)
  IN IF c.size <= 0 THEN Answer(m, c, "MATCHING_REDUCE_FAILED_WRONG_SIZE", <<>>)
     ELSE IF ~ Known(m, c) THEN Unknown(m, c)
     ELSE Answer(IF canRemove THEN Release(m, address)
                 ELSE [m EXCEPT !.orders[address].size = @ - reduceBy,
                                !.buckets[order.bucket].totalVolume = @ - reduceBy],
                 [c EXCEPT !.action = order.action], "SUCCESS",
                 <<ReduceEvent(order, reduceBy, canRemove)>>)

\* The slot of a move that is over the risk limit keeps the action it came with.
Move(m, c) ==
  LET address == m.index[c.orderId]
      order == m.orders[address]
      removed == RemoveOrder(m, address)
      priced == [removed.m EXCEPT !.orders[address].price = c.price]
      match == TryMatchInstantly(priced, priced.orders[address], order.filled, c)
      moved == [c EXCEPT !.action = order.action]
  IN IF ~ Known(m, c) THEN Unknown(m, c)
     ELSE IF ExchangePair /\ order.action = "BID" /\ c.price > order.reserveBidPrice
     THEN Answer(m, c, "MATCHING_MOVE_FAILED_PRICE_OVER_RISK_LIMIT", <<>>)
     ELSE IF match.filled = order.size
     THEN Answer(PutBucket(PutOrder([match.m EXCEPT !.index =
                                       Erase(@, c.orderId)], address),
                           removed.freeBucket),
                 moved, "SUCCESS", match.events)
     ELSE Answer(InsertOrder([match.m EXCEPT !.orders[address].filled =
                                match.filled], address, removed.freeBucket),
                 moved, "SUCCESS", match.events)

FillLevels(m, side, depth) ==
  LET prices == SetToSortSeq(DOMAIN m.tree[side],
                             LAMBDA p, q : Better(side, p, q))
      level(bucket) == [price |-> bucket.price, volume |-> bucket.totalVolume,
                        orders |-> bucket.numOrders]
  IN [i \in 1 .. Min({depth, Len(prices)}) |->
        level(m.buckets[m.tree[side][prices[i]]])]

MarketDataSnapshot(m, size) ==
  [side \in OrderAction |->
     FillLevels(m, side, IF size >= 0 THEN size
                         ELSE Cardinality(DOMAIN m.tree[side]))]

-----------------------------------------------------------------------------
Keep(m) ==
  /\ orders' = m.orders
  /\ buckets' = m.buckets
  /\ orderIdIndex' = m.index
  /\ priceBuckets' = m.tree
  /\ bestOrder' = m.best
  /\ pool' = m.pool

Handle(result) == Keep(result.m) /\ cmd' = result.cmd

ProcessPlace ==
  \E c \in Commands :
    /\ c.command = "PLACE_ORDER"
    /\ Handle(IF c.resultCode = "VALID_FOR_MATCHING_ENGINE" THEN New(Memory, c)
              ELSE [m |-> Memory, cmd |-> c])

ProcessCancel ==
  \E c \in Commands : c.command = "CANCEL_ORDER" /\ Handle(Cancel(Memory, c))

ProcessReduce ==
  \E c \in Commands : c.command = "REDUCE_ORDER" /\ Handle(Reduce(Memory, c))

ProcessMove ==
  \E c \in Commands : c.command = "MOVE_ORDER" /\ Handle(Move(Memory, c))

ProcessL2Request ==
  \E c \in Commands :
    /\ c.command = "ORDER_BOOK_REQUEST"
    /\ Handle(Answer(Memory, [c EXCEPT !.marketData =
                                MarketDataSnapshot(Memory, c.size)],
                     "SUCCESS", <<>>))

\* The list from its best order on, by prev.
Chain(side) ==
  LET step(chain, n) ==
        LET at == IF chain = <<>> THEN bestOrder[side]
                  ELSE orders[Last(chain)].prev
        IN IF at = Null \/ n > Len(chain) + 1 THEN chain ELSE Append(chain, at)
  IN FoldLeft(step, <<>>, [n \in 1 .. Cardinality(DOMAIN orders) |-> n])

\* Mutant: written from the worst order on.
WrittenBestLast(side) == Reverse(Chain(side))

\* WriteMarshallable writes the orders of a side from the best on.
Written(side) == Chain(side)

\* A snapshot written and read back in a new process: the orders inserted one
\* after the other into an empty book with a new pool.
Restore ==
  LET written == Written("ASK") \o Written("BID")
      read(m, address) ==
        LET order == [orders[address] EXCEPT !.next = Null, !.prev = Null,
                                             !.bucket = Null]
            new == Address(m.orders, <<>>)
        IN [InsertOrder([m EXCEPT !.orders = With(@, new, order)], new, Null)
              EXCEPT !.index = With(@, order.orderId, new)]
  IN /\ Keep(FoldLeft(read, NewMemory, written))
     /\ UNCHANGED cmd

Next ==
  \/ ProcessPlace \/ ProcessCancel \/ ProcessReduce \/ ProcessMove
  \/ ProcessL2Request \/ Restore

Spec == Init /\ [][Next]_vars

-----------------------------------------------------------------------------
\* The three views of the resting orders agree: a chain is linked both ways and
\* has exactly the orders of the index, an order points to the bucket the tree has
\* for its price, and a bucket counts its orders and their volume and knows the
\* last of them in the chain.
ViewsAgree ==
  /\ \A side \in OrderAction :
       LET chain == Chain(side)
       IN /\ \A i \in DOMAIN chain :
               LET order == orders[chain[i]]
               IN /\ order.next = IF i = 1 THEN Null ELSE chain[i - 1]
                  /\ order.prev = IF i = Len(chain) THEN Null ELSE chain[i + 1]
                  /\ order.action = side
                  /\ order.price \in DOMAIN priceBuckets[side]
                  /\ order.bucket = priceBuckets[side][order.price]
                  /\ order.orderId \in DOMAIN orderIdIndex
                  /\ orderIdIndex[order.orderId] = chain[i]
          /\ \A p \in DOMAIN priceBuckets[side] :
               LET bucket == buckets[priceBuckets[side][p]]
                   at == SelectSeq(chain, LAMBDA a : orders[a].price = p)
               IN /\ bucket.price = p /\ at # <<>>
                  /\ bucket.lastOrder = Last(at) /\ bucket.numOrders = Len(at)
                  /\ bucket.totalVolume
                       = FoldLeft(LAMBDA v, a : v + Remaining(orders[a]), 0, at)
  /\ Cardinality(DOMAIN orderIdIndex) = Len(Chain("ASK")) + Len(Chain("BID"))

\* Between two commands an object is in use or free, never both and never free
\* twice: every order object is in the index, every bucket object in a tree, and
\* none of them is in the pool, from where the next order would overwrite it.
ObjectsOwnedOnce ==
  LET inTrees == UNION {Range(priceBuckets[side]) : side \in OrderAction}
  IN /\ DOMAIN orders = Range(orderIdIndex)
     /\ DOMAIN buckets = inTrees
     /\ Cardinality(inTrees) = Cardinality(DOMAIN priceBuckets["ASK"])
                                 + Cardinality(DOMAIN priceBuckets["BID"])
     /\ \A kind \in DOMAIN pool :
          /\ Len(pool[kind]) <= PoolCapacity
          /\ Cardinality(ToSet(pool[kind])) = Len(pool[kind])
     /\ ToSet(pool["DIRECT_ORDER"]) \cap DOMAIN orders = {}
     /\ ToSet(pool["DIRECT_BUCKET"]) \cap DOMAIN buckets = {}

\* The queues of the abstract book: the chains, without the links.
Queues ==
  LET content(o) ==
        [orderId |-> o.orderId, uid |-> o.uid, action |-> o.action,
         price |-> o.price, size |-> o.size, filled |-> o.filled,
         reserveBidPrice |-> o.reserveBidPrice]
      queue(chain) == [i \in DOMAIN chain |-> content(orders[chain[i]])]
  IN [side \in OrderAction |-> queue(Chain(side))]

\* The slot, with the action that the naive book writes to the slot of a move
\* over the risk limit and this one does not.
AnsweredSlot ==
  IF cmd.resultCode = "MATCHING_MOVE_FAILED_PRICE_OVER_RISK_LIMIT"
  THEN [cmd EXCEPT !.action = orders[orderIdIndex[cmd.orderId]].action]
  ELSE cmd

Abstract == INSTANCE OrderBook WITH book <- Queues, cmd <- AnsweredSlot

\* OrderBookDirectImpl is an order book: its links, its incremental buckets and
\* the reuse of its objects cannot be observed, nor can a restart from a snapshot.
RefinesOrderBook == Abstract!Spec
=============================================================================
