---------------------------- MODULE SimpleEvents ----------------------------
(***************************************************************************)
(* What SimpleEventsProcessor tells the IEventsHandler of a client about a *)
(* command that E hands it: the result, then the trades, the rejection or  *)
(* the reduction its events stand for, then the order book.                *)
(***************************************************************************)
EXTENDS Integers, Sequences, SequencesExt, Lists

CommandResult(cmd) ==
  [report |-> "commandResult", orderId |-> cmd.orderId,
   resultCode |-> cmd.resultCode]

\* Commands that concern no order book are answered in the same way, except
\* that a binary message is reported with its last frame only.
SendCommandResult(cmd) == <<CommandResult(cmd)>>

OfType(events, type) == Kept(events, {e \in ToSet(events) : e.eventType = type})

TradeReport(cmd, trades) ==
  [report |-> "tradeEvent", takerOrderId |-> cmd.orderId,
   totalVolume |-> Total([i \in DOMAIN trades |-> trades[i].size]),
   takeOrderCompleted |-> \E i \in DOMAIN trades : trades[i].activeOrderCompleted,
   trades |-> [i \in DOMAIN trades |->
     [makerOrderId |-> trades[i].matchedOrderId,
      makerUid |-> trades[i].matchedOrderUid,
      makerOrderCompleted |-> trades[i].matchedOrderCompleted,
      price |-> trades[i].price, volume |-> trades[i].size]]]

RejectReport(cmd, event) ==
  [report |-> "rejectEvent", rejectedVolume |-> event.size,
   price |-> event.price, orderId |-> cmd.orderId]

\* All trades make one report; the rejection follows although its event comes
\* first in the chain.
SendTradeEvent(cmd) ==
  LET trades == OfType(cmd.matcherEvent, "TRADE")
      rejects == OfType(cmd.matcherEvent, "REJECT")
  IN (IF trades = <<>> THEN <<>> ELSE <<TradeReport(cmd, trades)>>)
     \o (IF rejects = <<>> THEN <<>>
         ELSE <<RejectReport(cmd, rejects[Len(rejects)])>>)

ReduceReport(cmd, event) ==
  [report |-> "reduceEvent", reducedVolume |-> event.size,
   orderCompleted |-> event.activeOrderCompleted, price |-> event.price,
   orderId |-> cmd.orderId]

\* A REDUCE must be the only event: otherwise the processor throws, and Accept
\* drops what is left to report.
SendTradeEvents(cmd) ==
  LET events == cmd.matcherEvent
  IN IF events = <<>> THEN <<>>
     ELSE IF events[1].eventType # "REDUCE" THEN SendTradeEvent(cmd)
     ELSE <<ReduceReport(cmd, events[1])>>
            \o (IF Len(events) = 1 THEN <<>> ELSE <<[report |-> "exception"]>>)

\* The order book of a command that carries market data; in this model only
\* ORDER_BOOK_REQUEST brings one.
SendMarketData(cmd) ==
  IF cmd.command # "ORDER_BOOK_REQUEST" THEN <<>>
  ELSE <<[report |-> "orderBook", asks |-> cmd.marketData["ASK"],
          bids |-> cmd.marketData["BID"]]>>

Accept(cmd) ==
  SendCommandResult(cmd) \o SendTradeEvents(cmd) \o SendMarketData(cmd)
=============================================================================
