----------------------------- MODULE MCExchange -----------------------------
(***************************************************************************)
(* Two users, each at a risk engine of its own, after ADD_USER and deposits *)
(* of both currencies; or a new exchange.                                  *)
(***************************************************************************)
EXTENDS Exchange

Funds == <<[base |-> 8, quote |-> 30], [base |-> 6, quote |-> 25]>>

FundedEngines ==
  [s \in RiskShards |->
     LET users == {u \in DOMAIN Funds : UidForThisHandler(s, u)}
     IN [NewEngine EXCEPT
          !.profiles = [u \in users |->
            [NewProfile("ACTIVE") EXCEPT !.adjustmentsCounter = 2,
                                         !.accounts = Funds[u]]],
          !.external["ADJUSTMENT"] = [currency \in Currency |->
            - SumBy(LAMBDA u : Funds[u][currency], SetToSeq(users))],
          !.symbols = {"pair"}]]

MCInitialStates ==
  {[engines |-> FundedEngines, listed |-> TRUE],
   [engines |-> [s \in RiskShards |-> NewEngine], listed |-> FALSE]}

NoMessage == [symbols |-> {}, users |-> <<>>]

Slot(command, id, uid) ==
  [NoCommand EXCEPT !.command = command, !.orderId = id, !.uid = uid,
                    !.resultCode = "NEW"]
    @@ [symbol |-> "pair", message |-> NoMessage, balance |-> ZeroBalance]

Placement(type, id, uid, action, price, size, reserve) ==
  [Slot("PLACE_ORDER", id, uid) EXCEPT
     !.orderType = type, !.action = action, !.price = price, !.size = size,
     !.reserveBidPrice = reserve]

Report == Slot("BINARY_DATA_QUERY", 0, 0)

Adjustment(uid, transactionId, currency, amount) ==
  [Slot("BALANCE_ADJUSTMENT", transactionId, uid) EXCEPT
     !.symbol = currency, !.price = amount, !.orderType = "ADJUSTMENT"]

Message(message) == [Slot("BINARY_DATA_COMMAND", 0, 0) EXCEPT !.message = message]

Account(currency, balance) == [currency |-> currency, balance |-> balance]

AddAllAccounts ==
  [NoMessage EXCEPT !.users =
     [u \in DOMAIN Funds |->
        [uid |-> u, accounts |-> <<Account("base", Funds[u].base),
                                   Account("quote", Funds[u].quote)>>]]]

\* Resting orders of user 1 and orders of user 2 that meet them or not; what is
\* done to an order; deposits and withdrawals, one of which leaves too little for
\* the bid, with transaction ids repeated and out of order;
\* symbols and accounts that are new or not; RESET; a report.
TradingCommands ==
  {Placement("GTC", 1, 1, "ASK", 1, 2, 0),
   Placement("GTC", 1, 1, "BID", 1, 2, 2),
   Placement("GTC", 2, 2, "BID", 2, 1, 3),
   Placement("GTC", 2, 2, "ASK", 1, 1, 0),
   Placement("IOC", 2, 2, "BID", 2, 3, 2),
   Placement("FOK_BUDGET", 2, 2, "BID", 3, 2, 3)}
    \cup {Slot("CANCEL_ORDER", 1, 1),
          [Slot("REDUCE_ORDER", 1, 1) EXCEPT !.size = 1],
          [Slot("MOVE_ORDER", 1, 1) EXCEPT !.price = 2]}
    \cup {Adjustment(1, 3, "quote", -10), Adjustment(1, 4, "base", -6)}
    \cup {Message([NoMessage EXCEPT !.symbols = {"pair"}]),
          Message(AddAllAccounts), Slot("RESET", 0, 0)}
    \cup {Report}

\* The commands and the initial states are such as MoneyIsKept is about.
ASSUME TradingClients == Clients("pair")
=============================================================================
