----------------------------- MODULE OrderBook -----------------------------
(***************************************************************************)
(* The order book of one symbol as its matching engine sees it: a book and *)
(* the slot of the command it has processed last.  This is the abstract    *)
(* specification that the implementations of IOrderBook refine.            *)
(***************************************************************************)
EXTENDS PriceTimeBook, SimpleEvents

CONSTANT Commands       \* the slots that may reach the book

\* A slot comes without events, which G has taken off it, and a placement with
\* a size that is not negative and a result that R1 has not set to SUCCESS.
Slots ==
  [command : STRING, orderId : Nat, uid : Nat, action : OrderAction,
   orderType : STRING, price : Nat, size : Int, reserveBidPrice : Int,
   resultCode : STRING, matcherEvent : {<<>>}, marketData : {NoMarketData}]

ASSUME CommandsAssumption ==
  \A c \in Commands :
    /\ c \in Slots
    /\ c.command = "PLACE_ORDER" => c.size >= 0 /\ c.resultCode # "SUCCESS"

VARIABLES book, cmd

vars == <<book, cmd>>

Init ==
  /\ book = EmptyBook
  /\ cmd = NoCommand

Process(command) ==
  \E c \in Commands :
    LET result == ProcessCommand(book, c)
    IN /\ c.command = command
       /\ cmd' = result.cmd
       /\ book' = result.book

Next ==
  \/ Process("PLACE_ORDER")
  \/ Process("CANCEL_ORDER")
  \/ Process("REDUCE_ORDER")
  \/ Process("MOVE_ORDER")
  \/ Process("ORDER_BOOK_REQUEST")

Spec == Init /\ [][Next]_vars

-----------------------------------------------------------------------------
Orders(b) == ToSet(b["ASK"] \o b["BID"])

\* What the events of some types add up to.
SizeOf(events, types) ==
  Total([i \in DOMAIN events |->
           IF events[i].eventType \in types THEN events[i].size ELSE 0])

TradedSize(events) == SizeOf(events, {"TRADE"})

ReturnedSize(events) == SizeOf(events, {"REDUCE", "REJECT"})

\* The book and the slot are well formed, and a resting order has something left.
TypeOK ==
  /\ DOMAIN book = OrderAction
  /\ \A o \in Orders(book) :
       /\ o.orderId \in Nat /\ o.uid \in Nat /\ o.price \in Nat
       /\ o.filled \in Nat /\ o.size \in Nat /\ o.filled < o.size
  /\ cmd.matcherEvent \in Seq([eventType : {"TRADE", "REDUCE", "REJECT"},
       matchedOrderId : Nat, matchedOrderUid : Nat, price : Int, size : Nat,
       matchedOrderCompleted : BOOLEAN, activeOrderCompleted : BOOLEAN,
       bidderHoldPrice : Int])

\* Between two commands no bid meets an ask, each side is in price order and
\* every order rests once, with something left to fill: a command that crosses
\* trades first, also when it moves an order, and a duplicate id never rests.
BookConsistent ==
  /\ TypeOK
  /\ \A a \in ToSet(book["ASK"]), b \in ToSet(book["BID"]) : b.price < a.price
  /\ \A side \in OrderAction : \A i, j \in DOMAIN book[side] :
       i < j => ~ Better(side, book[side][j].price, book[side][i].price)
  /\ Cardinality({o.orderId : o \in Orders(book)})
       = Len(book["ASK"]) + Len(book["BID"])

\* No command creates or loses volume: what a placement brings is traded (once
\* for the taker and once for the maker), returned by a reject or rests, and a
\* cancel, a reduce or a move gives back exactly what leaves the book.
VolumeConserved ==
  [][LET placed == IF /\ cmd'.command = "PLACE_ORDER"
                      /\ cmd'.resultCode = "SUCCESS"
                   THEN cmd'.size ELSE 0
     IN Volume(book["ASK"]) + Volume(book["BID"]) + placed
          = Volume(book'["ASK"]) + Volume(book'["BID"])
            + 2 * TradedSize(cmd'.matcherEvent)
            + ReturnedSize(cmd'.matcherEvent)]_vars

\* No maker trades while an order ahead of it, by price and then by age, keeps
\* something unfilled.
MakersInPriority ==
  [][\A side \in OrderAction : \A i, j \in DOMAIN book[side] :
       LET traded(k) == \E n \in DOMAIN cmd'.matcherEvent :
             /\ cmd'.matcherEvent[n].eventType = "TRADE"
             /\ cmd'.matcherEvent[n].matchedOrderId = book[side][k].orderId
       IN (i < j /\ traded(j) /\ cmd'.orderId # book[side][i].orderId) =>
            \A o \in Orders(book') : o.orderId # book[side][i].orderId]_vars

\* Orders that keep their price keep their order, also when one of them is
\* reduced or partly filled: only a move sends an order to the end of a queue,
\* and it passes nobody there.
QueueKept ==
  [][\A side \in OrderAction : \A i, j \in DOMAIN book[side] :
       LET place(k) == {n \in DOMAIN book'[side] :
                          book'[side][n].orderId = book[side][k].orderId}
           stays(k) == \/ cmd'.command # "MOVE_ORDER"
                       \/ cmd'.orderId # book[side][k].orderId
       IN (i < j /\ stays(i) /\ (stays(j) \/ \A n \in place(j) :
              book'[side][n].price = book[side][i].price))
            => \A m \in place(i), n \in place(j) : m < n]_vars

\* A FOK_BUDGET order trades its whole size within its budget, or is returned
\* whole and leaves the book untouched.
FillOrKill ==
  [][(cmd'.command = "PLACE_ORDER" /\ cmd'.orderType = "FOK_BUDGET"
      /\ cmd'.resultCode = "SUCCESS") =>
       LET events == cmd'.matcherEvent
       IN \/ /\ TradedSize(events) = cmd'.size /\ ReturnedSize(events) = 0
             /\ IF cmd'.action = "BID" THEN Cost(events) <= cmd'.price
                ELSE Cost(events) >= cmd'.price
          \/ /\ ReturnedSize(events) = cmd'.size /\ TradedSize(events) = 0
             /\ book' = book]_vars

\* The lots of its command that a report accounts for.
LotsTold(report) ==
  CASE report.report = "tradeEvent" -> report.totalVolume
    [] report.report = "rejectEvent" -> report.rejectedVolume
    [] OTHER -> 0

\* What a client is told of a command is true of the book: each maker is
\* reported completed exactly when it has left, the order of the command exactly
\* when nothing of it rests, and that once, by its last trade, by a rejection or
\* by a reduction; the volumes add up, and no report is lost in an exception.
CompletionReported ==
  [][LET reports == Accept(cmd')
         told(type) == {r \in ToSet(reports) : r.report = type}
         trades == told("tradeEvent")
         rejects == told("rejectEvent")
         reduces == told("reduceEvent")
         own(b) == {o \in Orders(b) : o.orderId = cmd'.orderId}
         fresh == own(book) = {}
         completed == rejects
                        \cup {r \in trades : r.takeOrderCompleted}
                        \cup {r \in reduces : r.orderCompleted}
     IN /\ told("exception") = {}
        /\ \A r \in trades : \A i \in DOMAIN r.trades :
             r.trades[i].makerOrderCompleted <=>
               \A o \in Orders(book') : \/ o.orderId # r.trades[i].makerOrderId
                                        \/ o.action = cmd'.action
        /\ Cardinality(completed) <= 1
        /\ (trades \cup rejects \cup reduces # {}
            /\ (fresh \/ cmd'.command # "PLACE_ORDER")) =>
             ((own(book') = {}) <=> completed # {})
        /\ (fresh /\ cmd'.command = "PLACE_ORDER" /\ cmd'.resultCode = "SUCCESS") =>
             \A left \in IF own(book') = {} THEN {0}
                         ELSE {Remaining(o) : o \in own(book')} :
               cmd'.size = left + Total([i \in DOMAIN reports |-> LotsTold(reports[i])])]_vars
=============================================================================
