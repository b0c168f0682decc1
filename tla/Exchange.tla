------------------------------ MODULE Exchange ------------------------------
(***************************************************************************)
(* The exchange around its pipeline: risk engines by user and one order    *)
(* book, joined by the commands in flight.  Each command is checked and    *)
(* held for by the risk engines (R1), matched (ME), settled by the risk    *)
(* engines (R2) and released with its result (E).  Here a stage takes the  *)
(* commands in sequence, any time after the stage before has; module       *)
(* Pipeline has the processors that do it, and what is assumed of them     *)
(* here is checked there (StageOrder, ReportCut).  So a risk engine may    *)
(* check a command when it has settled only some of those before it.       *)
(***************************************************************************)
EXTENDS RiskEngine

CONSTANTS Commands,         \* the slots clients may publish
          InitialStates,    \* [engines, listed] to start from
          MaxCommands,      \* bound on the commands published
          MaxInFlight       \* bound on the commands between publishing and E

\* What the clients of ExchangeApi fill a slot with.
IsRequest(c) ==
  /\ c \in [command : STRING, orderId : Int, uid : Int, action : OrderAction,
            orderType : STRING, price : Int, size : Int, reserveBidPrice : Int,
            resultCode : {"NEW"}, matcherEvent : {<<>>},
            marketData : {NoMarketData}, symbol : STRING, message : Messages,
            balance : {ZeroBalance}]
  /\ c.command = "BALANCE_ADJUSTMENT" =>
       c.symbol \in Currency /\ c.orderType \in BalanceAdjustmentType

ASSUME ExchangeAssumption ==
  /\ ExchangePair = TRUE
  /\ MaxCommands \in Nat
  /\ \A c \in Commands : IsRequest(c)
  /\ \A start \in InitialStates :
       /\ DOMAIN start.engines = RiskShards
       /\ \A s \in RiskShards : IsEngine(start.engines[s], Nat)

VARIABLES
  slots,        \* the commands in flight, oldest first
  r1, me, r2,   \* how many of them each stage has handled
  engines,      \* the state of each risk engine
  book, listed, \* the order book of the matching engine, if it has one
  published,    \* the number of commands published
  due,          \* history: what each user has paid in and traded for
  settlements   \* history: the adjustments applied, as <<uid, transaction id>>

stages == <<r1, me, r2>>
history == <<due, settlements>>
router == <<book, listed>>
vars == <<slots, stages, engines, router, published, history>>

Users == {c.uid : c \in Commands}

Accounts(uid) ==
  LET s == CHOOSE s \in RiskShards : UidForThisHandler(s, uid)
  IN IF uid \in DOMAIN engines[s].profiles THEN engines[s].profiles[uid].accounts
     ELSE ZeroBalance

Init ==
  /\ slots = <<>>
  /\ r1 = [s \in RiskShards |-> 0]
  /\ me = 0
  /\ r2 = [s \in RiskShards |-> 0]
  /\ \E start \in InitialStates : engines = start.engines /\ listed = start.listed
  /\ book = EmptyBook
  /\ published = 0
  /\ due = [uid \in Users |-> Accounts(uid)]
  /\ settlements = <<>>

IsReport(cmd) == cmd.command = "BINARY_DATA_QUERY"

-----------------------------------------------------------------------------
Publish ==
  /\ published < MaxCommands
  /\ Len(slots) < MaxInFlight
  /\ \E c \in Commands : slots' = Append(slots, c)
  /\ published' = published + 1
  /\ UNCHANGED <<stages, engines, router, history>>

AnyProgress(s, n) == TRUE

ClosesGroup(cmd) == IsReport(cmd) \/ cmd.command \in {"BINARY_DATA_COMMAND", "RESET"}

\* A report, a message and RESET close the group of the commands before, so a risk
\* engine has settled them all when it handles one of these.
SettledBefore(s, n) == r2[s] = n - 1

SectionAdded(cmd, section) ==
  [cmd EXCEPT !.balance = [currency \in Currency |-> @[currency] + section[currency]]]

\* A money transfer into the exchange is due to its user.
Applied(s, cmd, res) ==
  /\ cmd.command = "BALANCE_ADJUSTMENT" /\ res.code = "SUCCESS"
  /\ UidForThisHandler(s, cmd.uid)

\* What the message brings to a user who has no profile yet.
Brought(s, message, uid, currency) ==
  IF ~ UidForThisHandler(s, uid) \/ uid \in DOMAIN engines[s].profiles THEN 0
  ELSE SumBy(LAMBDA user :
               IF user.uid # uid THEN 0
               ELSE SumBy(LAMBDA account :
                            IF account.currency = currency THEN account.balance ELSE 0,
                          user.accounts),
             message.users)

DueAfter(s, cmd, res) ==
  CASE cmd.command = "RESET" ->
         [uid \in Users |-> IF UidForThisHandler(s, uid) THEN ZeroBalance ELSE due[uid]]
    [] cmd.command = "BINARY_DATA_COMMAND" ->
         [uid \in Users |-> [currency \in Currency |->
            due[uid][currency] + Brought(s, cmd.message, uid, currency)]]
    [] OTHER -> IF Applied(s, cmd, res) THEN [due EXCEPT ![cmd.uid][cmd.symbol] = @ + cmd.price]
                ELSE due

SettlementsAfter(s, cmd, res) ==
  CASE cmd.command = "RESET" ->
         Kept(settlements, {x \in ToSet(settlements) : ~ UidForThisHandler(s, x[1])})
    [] OTHER -> IF Applied(s, cmd, res) THEN Append(settlements, <<cmd.uid, cmd.orderId>>)
                ELSE settlements

PreProcessSlot(s) ==
  LET n == r1[s] + 1
      cmd == slots[n]
      res == PreProcessCommand(engines[s], s, cmd)
  IN /\ n <= Len(slots)
     /\ ClosesGroup(cmd) => SettledBefore(s, n)
     /\ r1' = [r1 EXCEPT ![s] = n]
     /\ engines' = [engines EXCEPT ![s] = res.engine]
     /\ slots' = [slots EXCEPT ![n] =
          IF IsReport(cmd) THEN SectionAdded(cmd, ReportBalance(engines[s]))
          ELSE [cmd EXCEPT !.resultCode = res.code]]
     /\ due' = DueAfter(s, cmd, res)
     /\ settlements' = SettlementsAfter(s, cmd, res)
     /\ UNCHANGED <<me, r2, router, published>>

PreProcessedBySome(n) == \E s \in RiskShards : n <= r1[s]

PreProcessed(n) == \A s \in RiskShards : n <= r1[s]

\* What the resting orders of a book hold, by order.
OrderBalance(order) ==
  IF order.action = "ASK" THEN Amount("base", AmountAsk(Remaining(order)))
  ELSE Amount("quote", AmountBidTakerFee(Remaining(order), order.reserveBidPrice))

OrderBalances(orders) ==
  [currency \in Currency |->
     SumBy(LAMBDA o : OrderBalance(o)[currency], orders)]

IsMatchingCommand(cmd) ==
  cmd.command \in {"PLACE_ORDER", "CANCEL_ORDER", "REDUCE_ORDER", "MOVE_ORDER",
                   "ORDER_BOOK_REQUEST"}

\* What a user's trades as taker or maker of a command add up to: each lot
\* bought or sold at the price of its event, less the fee of the role.
TradedFor(cmd, uid, currency) ==
  LET trades == Trades(cmd.matcherEvent)
      lots(ev, action, fee) ==
        IF currency = "base" THEN (IF action = "BID" THEN 1 ELSE -1) * AmountAsk(ev.size)
        ELSE (IF action = "BID" THEN -1 ELSE 1) * AmountBid(ev.size, ev.price)
               - fee * ev.size
      taker(ev) == IF cmd.uid = uid THEN lots(ev, cmd.action, TakerFee) ELSE 0
      maker(ev) == IF ev.matchedOrderUid = uid
                   THEN lots(ev, Opposite(cmd.action), MakerFee) ELSE 0
  IN SumBy(LAMBDA ev : taker(ev) + maker(ev), trades)

\* MatchingEngineRouter::ProcessOrder: the book and the slot after a command.
ProcessOrder(cmd) ==
  LET answered(code) == [cmd EXCEPT !.resultCode = code]
  IN CASE IsMatchingCommand(cmd) /\ listed -> ProcessCommand(book, cmd)
       [] IsMatchingCommand(cmd) /\ ~ listed ->
            [book |-> book, cmd |-> answered("MATCHING_INVALID_ORDER_BOOK_ID")]
       [] cmd.command = "BINARY_DATA_COMMAND" ->
            [book |-> book, cmd |-> answered("SUCCESS")]
       [] cmd.command = "RESET" ->
            [book |-> EmptyBook, cmd |-> answered("SUCCESS")]
       [] OTHER -> [book |-> book, cmd |-> cmd]

\* AddSymbol and RESET; a symbol that has a book keeps it.
Listed(cmd) ==
  CASE cmd.command = "BINARY_DATA_COMMAND" -> listed \/ cmd.message.symbols # {}
    [] cmd.command = "RESET" -> FALSE
    [] OTHER -> listed

MatchSlot ==
  LET n == me + 1
      cmd == slots[n]
      res == ProcessOrder(cmd)
  IN /\ n <= Len(slots) /\ PreProcessed(n)
     /\ me' = n
     /\ book' = res.book
     /\ listed' = Listed(cmd)
     /\ slots' = [slots EXCEPT ![n] =
          IF IsReport(cmd)
          THEN SectionAdded(cmd, OrderBalances(book["ASK"] \o book["BID"]))
          ELSE res.cmd]
     /\ due' = [uid \in Users |-> [currency \in Currency |->
                  due[uid][currency] + TradedFor(res.cmd, uid, currency)]]
     /\ UNCHANGED <<r1, r2, engines, published, settlements>>

PostProcessSlot(s) ==
  LET n == r2[s] + 1
  IN /\ n <= me
     /\ r2' = [r2 EXCEPT ![s] = n]
     /\ engines' = [engines EXCEPT ![s] = PostProcessCommand(@, s, slots[n])]
     /\ UNCHANGED <<slots, r1, me, router, published, history>>

\* The results handler passes the oldest command on and its slot is free.
Release ==
  /\ slots # <<>> /\ \A s \in RiskShards : r2[s] >= 1
  /\ slots' = Tail(slots)
  /\ r1' = [s \in RiskShards |-> r1[s] - 1]
  /\ me' = me - 1
  /\ r2' = [s \in RiskShards |-> r2[s] - 1]
  /\ UNCHANGED <<engines, router, published, history>>

Next ==
  \/ Publish
  \/ \E s \in RiskShards : PreProcessSlot(s)
  \/ MatchSlot
  \/ \E s \in RiskShards : PostProcessSlot(s)
  \/ Release

Spec == Init /\ [][Next]_vars

-----------------------------------------------------------------------------
\* Progress is in stage order, and the profiles are well formed.
TypeOK ==
  /\ published \in 0 .. MaxCommands
  /\ me \in 0 .. Len(slots)
  /\ \A s \in RiskShards :
       /\ r1[s] \in me .. Len(slots) /\ r2[s] \in 0 .. me
       /\ IsEngine(engines[s], Int)

\* No account is ever overdrawn, although orders are checked and held for while
\* earlier commands are unsettled or unmatched: the hold of R1 covers whatever
\* its matching and its settlement may cost later.
NoOverdraft ==
  \A uid \in Users, currency \in Currency : Accounts(uid)[currency] >= 0

\* When nothing is in flight each user has, in accounts and in the holds of
\* resting orders, what was paid in plus what the trades came to, to the unit:
\* holds, refunds of the price improvement and of cut orders, corrections of the
\* fee of a maker, taken at four places by two engines, cancel out.
AccountsSettled ==
  slots = <<>> =>
    \A uid \in Users, currency \in Currency :
      LET orders == book["ASK"] \o book["BID"]
          held == OrderBalances(Kept(orders, {o \in ToSet(orders) : o.uid = uid}))
      IN Accounts(uid)[currency] + held[currency] = due[uid][currency]

\* tests/integration/ITExchangeCoreIntegration.cpp:242 asserts that all global
\* balances of a TotalCurrencyBalanceReport are zero.  Its sections are taken at
\* different times, with later commands under way on every stage: they must be
\* taken at one point of the sequence for the total to be zero.
ReportBalanced ==
  \A n \in 1 .. me : IsReport(slots[n]) => slots[n].balance = ZeroBalance

\* UserProfileService.cpp:67, "Double settlement protection": a transaction id is
\* applied once for each user, whatever is repeated.
NoDoubleSettlement == IsInjective(settlements)

-----------------------------------------------------------------------------
(***************************************************************************)
(* The clients whose money is accounted for to the unit.  What is asked of *)
(* them is what AccountsSettled needs; no more is needed for the rest.     *)
(***************************************************************************)

\* The accounts of a user of a message come in the order of their currencies, with
\* natural balances: a payment with a smaller transaction id than the one before
\* is not applied.
InOrder(accounts) ==
  /\ \A i \in 1 .. Len(accounts) : accounts[i].balance \in Nat
  /\ \A i \in 2 .. Len(accounts) :
       CurrencyId[accounts[i - 1].currency] < CurrencyId[accounts[i].currency]

\* The users of a message are different ones, each with its accounts in order.
Joinable(users) ==
  /\ \A i, j \in 1 .. Len(users) : users[i].uid = users[j].uid => i = j
  /\ \A i \in 1 .. Len(users) : InOrder(users[i].accounts)

\* Clients trade one pair, in natural numbers, without the bids that no book
\* executes; their messages bring that pair, and users with accounts in order.
Accountable(c, pair) ==
  /\ IsMatchingCommand(c) =>
       c.symbol = pair /\ c.orderId \in Nat /\ c.uid \in Nat /\ c.price \in Nat
  /\ c.command = "PLACE_ORDER" =>
       c.size > 0 /\ ~ (c.orderType = "IOC_BUDGET" /\ c.action = "BID")
  /\ c.command = "BINARY_DATA_COMMAND" =>
       c.message.symbols \subseteq {pair} /\ Joinable(c.message.users)

\* The exchange starts with the pair known to all of its engines or to none.
Agreeing(start, pair) ==
  \A s \in RiskShards : start.listed <=> pair \in start.engines[s].symbols

Clients(pair) ==
  /\ \A c \in Commands : Accountable(c, pair)
  /\ \A start \in InitialStates : Agreeing(start, pair)
=============================================================================
