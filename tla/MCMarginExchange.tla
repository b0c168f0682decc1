-------------------------- MODULE MCMarginExchange --------------------------
(***************************************************************************)
(* Two users, each at a risk engine of its own, and two contracts.         *)
(***************************************************************************)
EXTENDS MarginExchange

Funds == 14

MCSpecs == [gold |-> [marginBuy |-> 2, marginSell |-> 3],
            oil  |-> [marginBuy |-> 2, marginSell |-> 2]]

MCInitialEngines ==
  [s \in RiskShards |->
     LET users == {u \in 1 .. 2 : UidForThisHandler(s, u)}
     IN [profiles |-> [u \in users |->
            [NewProfile("ACTIVE") EXCEPT !.adjustmentsCounter = 2,
                                         !.accounts["quote"] = Funds]],
         fees |-> 0,
         external |-> [NewEngine.external EXCEPT !["ADJUSTMENT"]["quote"] =
                         - Funds * Cardinality(users)],
         symbols |-> DOMAIN MCSpecs, lastPriceCache |-> <<>>]]

Slot(command, id, uid, symbol) ==
  [NoCommand EXCEPT !.command = command, !.orderId = id, !.uid = uid,
                    !.resultCode = "NEW"]
    @@ [symbol |-> symbol, posted |-> FALSE]

Placement(type, id, uid, symbol, action, price, size) ==
  [Slot("PLACE_ORDER", id, uid, symbol) EXCEPT
     !.orderType = type, !.action = action, !.price = price, !.size = size,
     !.reserveBidPrice = price]

\* A seller and a buyer who rest, trade, go from long to short and back; an order
\* that is rejected in part, one the margin does not cover; a user who pays
\* everything out and is suspended, or tries to be.
MCCommands ==
  {Placement("GTC", 1, 1, "gold", "ASK", 2, 2), Placement("GTC", 2, 1, "gold", "BID", 3, 3),
   Placement("GTC", 3, 2, "gold", "BID", 3, 1), Placement("IOC", 4, 2, "gold", "BID", 3, 3),
   Placement("IOC", 4, 2, "gold", "ASK", 2, 2),
   Placement("GTC", 5, 1, "oil", "ASK", 2, 2), Placement("GTC", 6, 2, "oil", "BID", 2, 7)}
    \cup {[Slot("REDUCE_ORDER", 1, 1, "gold") EXCEPT !.size = 1],
          [Slot("MOVE_ORDER", 1, 1, "gold") EXCEPT !.price = 3],
          [Slot("ORDER_BOOK_REQUEST", 0, 0, "gold") EXCEPT !.size = 1]}
    \cup {[Slot("BALANCE_ADJUSTMENT", 3, 1, "quote") EXCEPT
             !.price = - Funds, !.orderType = "ADJUSTMENT"],
          Slot("SUSPEND_USER", 0, 1, "gold")}
=============================================================================
