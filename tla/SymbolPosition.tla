--------------------------- MODULE SymbolPosition ---------------------------
(***************************************************************************)
(* SymbolPositionRecord: what a user holds of a futures contract and has   *)
(* pending in orders on it.  A position is a record:                       *)
(*   symbol, direction ("EMPTY", "LONG", "SHORT"), openVolume,             *)
(*   openPriceSum, profit (realised, not paid out yet), and                *)
(*   pending: what unmatched orders may still buy ("BID") and sell ("ASK") *)
(* A spec has the margins of a lot, marginBuy and marginSell; a price is a *)
(* LastPriceCacheRecord: the best ask and the best bid of the contract.    *)
(***************************************************************************)
EXTENDS Integers

\* INT64_MAX: there is no ask.  What it adds to the worth of the long positions
\* it takes from the short ones; in the code the sums wrap.
NoAsk == 1000000
NoPrice == [ask |-> NoAsk, bid |-> 0]

NewPosition(symbol) ==
  [symbol |-> symbol, direction |-> "EMPTY", openVolume |-> 0, openPriceSum |-> 0,
   profit |-> 0, pending |-> [action \in {"ASK", "BID"} |-> 0]]

Sign(direction) ==
  CASE direction = "LONG" -> 1 [] direction = "SHORT" -> -1 [] OTHER -> 0

DirectionOf(action) == IF action = "BID" THEN "LONG" ELSE "SHORT"

IsEmptyPosition(position) ==
  /\ position.direction = "EMPTY"
  /\ \A action \in {"ASK", "BID"} : position.pending[action] = 0

PendingHold(position, action, size) ==
  [position EXCEPT !.pending[action] = @ + size]

PendingRelease(position, action, size) ==
  [position EXCEPT !.pending[action] = @ - size]

\* Without a price to close at, a margin counts instead of the position.
EstimateProfit(position, spec, price) ==
  position.profit +
    CASE position.direction = "EMPTY" -> 0
      [] position.direction = "LONG" ->
           IF price.bid # 0
           THEN position.openVolume * price.bid - position.openPriceSum
           ELSE spec.marginBuy * position.openVolume
      [] position.direction = "SHORT" ->
           IF price.ask # NoAsk
           THEN position.openPriceSum - position.openVolume * price.ask
           ELSE spec.marginSell * position.openVolume

Greater(m, n) == IF m >= n THEN m ELSE n

SignedVolume(position) == position.openVolume * Sign(position.direction)

MarginBuy(position, spec) ==
  spec.marginBuy * (position.pending["BID"] + SignedVolume(position))

MarginSell(position, spec) ==
  spec.marginSell * (position.pending["ASK"] - SignedVolume(position))

CalculateRequiredMarginForFutures(position, spec) ==
  Greater(MarginBuy(position, spec), MarginSell(position, spec))

\* -1: the order does not need more than what is required now.
CalculateRequiredMarginForOrder(position, spec, action, size) ==
  LET new == IF action = "BID"
             THEN Greater(MarginBuy(position, spec) + spec.marginBuy * size,
                          MarginSell(position, spec))
             ELSE Greater(MarginBuy(position, spec),
                          MarginSell(position, spec) + spec.marginSell * size)
  IN IF new <= CalculateRequiredMarginForFutures(position, spec) THEN -1 ELSE new

\* A trade against the position first closes it; left is what remains to open.
CloseCurrentPositionFutures(position, action, size, price) ==
  CASE position.direction \in {"EMPTY", DirectionOf(action)} ->
         [position |-> position, left |-> size]
    [] OTHER ->
         IF position.openVolume > size
         THEN [position |-> [position EXCEPT !.openVolume = @ - size,
                                             !.openPriceSum = @ - size * price],
               left |-> 0]
         ELSE [position |-> [position EXCEPT
                 !.profit = @ + (position.openVolume * price - position.openPriceSum)
                                  * Sign(position.direction),
                 !.openPriceSum = 0, !.openVolume = 0, !.direction = "EMPTY"],
               left |-> size - position.openVolume]

OpenPositionMargin(position, action, size, price) ==
  [position EXCEPT !.openVolume = @ + size, !.openPriceSum = @ + price * size,
                   !.direction = DirectionOf(action)]

\* Mutant: what only closes the position stays pending.
UpdatePositionKeepingPending(position, action, size, price) ==
  LET closed == CloseCurrentPositionFutures(position, action, size, price)
      opened == PendingRelease(closed.position, action, closed.left)
  IN [position |-> IF closed.left = 0 THEN closed.position
                   ELSE OpenPositionMargin(opened, action, closed.left, price),
      opened |-> closed.left]

UpdatePositionForMarginTrade(position, action, size, price) ==
  LET closed == CloseCurrentPositionFutures(PendingRelease(position, action, size),
                                            action, size, price)
  IN [position |-> IF closed.left = 0 THEN closed.position
                   ELSE OpenPositionMargin(closed.position, action, closed.left, price),
      opened |-> closed.left]

AveragingRecord(price) ==
  LET average == (price.ask + price.bid) \div 2
  IN [ask |-> average, bid |-> average]

DummyRecord == [ask |-> 42, bid |-> 42]
=============================================================================
