--------------------------- MODULE PriceTimeBook ---------------------------
(***************************************************************************)
(* What an order book does with a command (IOrderBook), stated once for    *)
(* all implementations: a book is the sequence of the resting orders of    *)
(* each side, best price first and oldest first at equal prices.  Nothing  *)
(* here says how an implementation finds or stores an order.               *)
(*                                                                         *)
(* A command is the OrderCommand slot it travels in.  Processing one gives *)
(* the new book and the slot with its resultCode, its action and the chain *)
(* of its matcher events filled in.                                        *)
(***************************************************************************)
EXTENDS Integers, Sequences, SequencesExt, FiniteSetsExt, Lists

CONSTANT ExchangePair   \* the symbol is a CURRENCY_EXCHANGE_PAIR

OrderAction == {"ASK", "BID"}

EmptyBook == [side \in OrderAction |-> <<>>]

NoMarketData == [side \in OrderAction |-> <<>>]

\* A request for no level of the market data: the book and the slot stay as
\* they are.
NoCommand ==
  [command |-> "ORDER_BOOK_REQUEST", orderId |-> 0, uid |-> 0,
   action |-> "ASK", orderType |-> "GTC", price |-> 0, size |-> 0,
   reserveBidPrice |-> 0, resultCode |-> "SUCCESS", matcherEvent |-> <<>>,
   marketData |-> NoMarketData]

Opposite(action) == IF action = "ASK" THEN "BID" ELSE "ASK"

Remaining(order) == order.size - order.filled

Volume(orders) == Total([i \in DOMAIN orders |-> Remaining(orders[i])])

\* Resting orders of this action at price p go before those at price q.
Better(action, p, q) == IF action = "ASK" THEN p < q ELSE p > q

\* A taker with this action and limit trades with a maker at price p.
Within(action, limit, p) == IF action = "ASK" THEN p >= limit ELSE p <= limit

Find(book, id) ==
  {o \in ToSet(book["ASK"] \o book["BID"]) : o.orderId = id}

-----------------------------------------------------------------------------
(***************************************************************************)
(* Events.                                                                 *)
(***************************************************************************)
TradeEventFlagsSwapped(taker, maker, size, makerCompleted, takerCompleted) ==
  [eventType |-> "TRADE", matchedOrderId |-> maker.orderId,
   matchedOrderUid |-> maker.uid, matchedOrderCompleted |-> takerCompleted,
   activeOrderCompleted |-> makerCompleted, price |-> maker.price,
   size |-> size, bidderHoldPrice |-> taker.reserveBidPrice]

TradeEvent(taker, maker, size, makerCompleted, takerCompleted) ==
  [eventType |-> "TRADE", matchedOrderId |-> maker.orderId,
   matchedOrderUid |-> maker.uid, matchedOrderCompleted |-> makerCompleted,
   activeOrderCompleted |-> takerCompleted, price |-> maker.price,
   size |-> size,
   bidderHoldPrice |-> IF maker.action = "ASK" THEN taker.reserveBidPrice
                       ELSE maker.reserveBidPrice]

SingleEvent(type, completed, price, size, hold) ==
  [eventType |-> type, matchedOrderId |-> 0, matchedOrderUid |-> 0,
   matchedOrderCompleted |-> FALSE, activeOrderCompleted |-> completed,
   price |-> price, size |-> size, bidderHoldPrice |-> hold]

ReduceEvent(order, size, completed) ==
  SingleEvent("REDUCE", completed, order.price, size, order.reserveBidPrice)

RejectEvent(cmd, size) ==
  SingleEvent("REJECT", TRUE, cmd.price, size, cmd.reserveBidPrice)

-----------------------------------------------------------------------------
(***************************************************************************)
(* Matching.  Each maker gets what its predecessors leave of the volume.   *)
(***************************************************************************)
FillWholeMaker(makers, i, volume) ==
  IF volume > Volume(SubSeq(makers, 1, i - 1)) THEN Remaining(makers[i]) ELSE 0

FillNewestFirst(makers, i, volume) ==
  Max({0, Min({Remaining(makers[i]),
               volume - Volume(SubSeq(makers, i + 1, Len(makers)))})})

Fill(makers, i, volume) ==
  Max({0, Min({Remaining(makers[i]),
               volume - Volume(SubSeq(makers, 1, i - 1))})})

Unfilled(side) == Kept(side, {o \in ToSet(side) : Remaining(o) > 0})

\* The makers a taker with this action and limit may trade with: the first of
\* the opposite side.
MakersWithin(book, action, limit) ==
  LET side == book[Opposite(action)]
  IN Kept(side, {o \in ToSet(side) : Within(action, limit, o.price)})

Match(book, taker, volume, makers) ==
  LET side   == book[Opposite(taker.action)]
      hit    == {i \in DOMAIN makers : Fill(makers, i, volume) > 0}
      event(i) ==
        LET size == Fill(makers, i, volume)
        IN TradeEvent(taker, makers[i], size, size = Remaining(makers[i]),
                      volume = Volume(SubSeq(makers, 1, i - 1)) + size)
      after == [i \in DOMAIN side |->
                  IF i \in hit
                  THEN [side[i] EXCEPT !.filled = @ + Fill(makers, i, volume)]
                  ELSE side[i]]
  IN [filled |-> Min({volume, Volume(makers)}),
      events |-> [i \in 1 .. Cardinality(hit) |-> event(i)],
      book   |-> [book EXCEPT ![Opposite(taker.action)] = Unfilled(after)]]

\* What the lots of events come to at their prices.
Cost(events) == Total([i \in DOMAIN events |-> events[i].size * events[i].price])

RestBehindAll(book, order) ==
  [book EXCEPT ![order.action] = Append(@, order)]

\* The book with an order at the end of the queue of its price.
Rest(book, order) ==
  LET side == book[order.action]
      behind == {o \in ToSet(side) : Better(order.action, order.price, o.price)}
  IN [book EXCEPT ![order.action] =
        Kept(side, ToSet(side) \ behind) \o <<order>> \o Kept(side, behind)]

Without(book, order) ==
  [book EXCEPT ![order.action] = Kept(@, ToSet(@) \ {order})]

ReplaceAtTheTail(book, order, new) == Rest(Without(book, order), new)

Replace(book, order, new) ==
  [book EXCEPT ![order.action] =
     [i \in DOMAIN @ |-> IF @[i] = order THEN new ELSE @[i]]]

-----------------------------------------------------------------------------
(***************************************************************************)
(* Commands.  Each gives [book, cmd].                                      *)
(***************************************************************************)
Done(book, cmd, code, events) ==
  [book |-> book, cmd |-> [cmd EXCEPT !.resultCode = code,
                                      !.matcherEvent = events]]

NewOrderPlaceGtc(book, cmd) ==
  LET match == Match(book, cmd, cmd.size,
                     MakersWithin(book, cmd.action, cmd.price))
      left == cmd.size - match.filled
      order == [orderId |-> cmd.orderId, uid |-> cmd.uid,
                action |-> cmd.action, price |-> cmd.price,
                size |-> cmd.size, filled |-> match.filled,
                reserveBidPrice |-> cmd.reserveBidPrice]
  IN CASE left = 0 -> Done(match.book, cmd, "SUCCESS", match.events)
       [] left # 0 /\ Find(match.book, cmd.orderId) # {} ->
            Done(match.book, cmd, "SUCCESS",
                 <<RejectEvent(cmd, left)>> \o match.events)
       [] OTHER -> Done(Rest(match.book, order), cmd, "SUCCESS", match.events)

NewOrderMatchIoc(book, cmd) ==
  LET match == Match(book, cmd, cmd.size,
                     MakersWithin(book, cmd.action, cmd.price))
      left == cmd.size - match.filled
  IN Done(match.book, cmd, "SUCCESS",
          (IF left = 0 THEN <<>> ELSE <<RejectEvent(cmd, left)>>)
            \o match.events)

BudgetLimitIgnoresSide(action, calculated, limit) == calculated <= limit

\* The price of a budget order is the total a buyer may pay, or the least a
\* seller accepts, for the whole size.
BudgetLimitSatisfied(action, calculated, limit) ==
  IF action = "BID" THEN calculated <= limit ELSE calculated >= limit

NewOrderMatchFokBudget(book, cmd) ==
  LET match == Match(book, cmd, cmd.size, book[Opposite(cmd.action)])
  IN IF /\ match.filled = cmd.size
        /\ BudgetLimitSatisfied(cmd.action, Cost(match.events), cmd.price)
     THEN Done(match.book, cmd, "SUCCESS", match.events)
     ELSE Done(book, cmd, "SUCCESS", <<RejectEvent(cmd, cmd.size)>>)

NewOrder(book, cmd) ==
  CASE cmd.orderType = "GTC" -> NewOrderPlaceGtc(book, cmd)
    [] cmd.orderType = "IOC" -> NewOrderMatchIoc(book, cmd)
    [] cmd.orderType = "FOK_BUDGET" -> NewOrderMatchFokBudget(book, cmd)
    [] OTHER -> Done(book, cmd, "SUCCESS", <<RejectEvent(cmd, cmd.size)>>)

\* The order a command names, if it is its sender's.
Own(book, cmd) == {o \in Find(book, cmd.orderId) : o.uid = cmd.uid}

CancelOrder(book, cmd) ==
  IF Own(book, cmd) = {}
  THEN Done(book, cmd, "MATCHING_UNKNOWN_ORDER_ID", <<>>)
  ELSE LET order == CHOOSE o \in Own(book, cmd) : TRUE
       IN Done(Without(book, order), [cmd EXCEPT !.action = order.action],
               "SUCCESS", <<ReduceEvent(order, Remaining(order), TRUE)>>)

ReduceOrder(book, cmd) ==
  CASE cmd.size <= 0 ->
         Done(book, cmd, "MATCHING_REDUCE_FAILED_WRONG_SIZE", <<>>)
    [] cmd.size > 0 /\ Own(book, cmd) = {} ->
         Done(book, cmd, "MATCHING_UNKNOWN_ORDER_ID", <<>>)
    [] OTHER ->
         LET order == CHOOSE o \in Own(book, cmd) : TRUE
             reduceBy == Min({Remaining(order), cmd.size})
             canRemove == reduceBy = Remaining(order)
         IN Done(IF canRemove THEN Without(book, order)
                 ELSE Replace(book, order, [order EXCEPT !.size = @ - reduceBy]),
                 [cmd EXCEPT !.action = order.action], "SUCCESS",
                 <<ReduceEvent(order, reduceBy, canRemove)>>)

MoveOrder(book, cmd) ==
  IF Own(book, cmd) = {}
  THEN Done(book, cmd, "MATCHING_UNKNOWN_ORDER_ID", <<>>)
  ELSE LET order == CHOOSE o \in Own(book, cmd) : TRUE
           moved == [cmd EXCEPT !.action = order.action]
           match == Match(Without(book, order), order, Remaining(order),
                          MakersWithin(book, order.action, cmd.price))
           rest  == [order EXCEPT !.price = cmd.price,
                                  !.filled = @ + match.filled]
       IN CASE /\ ExchangePair /\ order.action = "BID"
               /\ cmd.price > order.reserveBidPrice ->
                 Done(book, moved,
                      "MATCHING_MOVE_FAILED_PRICE_OVER_RISK_LIMIT", <<>>)
            [] OTHER ->
                 Done(IF Remaining(rest) = 0 THEN match.book
                      ELSE Rest(match.book, rest),
                      moved, "SUCCESS", match.events)

\* The first levels of a queue: what all orders at a price add up to.
Levels(orders, depth) ==
  LET prices == SetToSortSeq({o.price : o \in ToSet(orders)},
                  LAMBDA p, q : \E o \in ToSet(orders) :
                    o.price = p /\ Better(o.action, p, q))
      at(p) == SelectSeq(orders, LAMBDA o : o.price = p)
  IN [i \in 1 .. Min({depth, Len(prices)}) |->
        [price |-> prices[i], volume |-> Volume(at(prices[i])),
         orders |-> Len(at(prices[i]))]]

\* A negative size asks for every level.
GetL2MarketDataSnapshot(book, size) ==
  [side \in OrderAction |->
     Levels(book[side], IF size >= 0 THEN size ELSE Len(book[side]))]

\* IOrderBook::ProcessCommand.
ProcessCommand(book, cmd) ==
  CASE cmd.command = "MOVE_ORDER"   -> MoveOrder(book, cmd)
    [] cmd.command = "CANCEL_ORDER" -> CancelOrder(book, cmd)
    [] cmd.command = "REDUCE_ORDER" -> ReduceOrder(book, cmd)
    [] cmd.command = "PLACE_ORDER" ->
         IF cmd.resultCode = "VALID_FOR_MATCHING_ENGINE"
         THEN NewOrder(book, cmd)
         ELSE [book |-> book, cmd |-> cmd]
    [] cmd.command = "ORDER_BOOK_REQUEST" ->
         Done(book, [cmd EXCEPT !.marketData =
                       GetL2MarketDataSnapshot(book, cmd.size)],
              "SUCCESS", cmd.matcherEvent)
    [] OTHER -> Done(book, cmd, "MATCHING_UNSUPPORTED_COMMAND", cmd.matcherEvent)
=============================================================================
