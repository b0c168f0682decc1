----------------------------- MODULE RiskEngine -----------------------------
(***************************************************************************)
(* RiskEngine on a currency pair: the check of a command before matching   *)
(* (PreProcessCommand, stage R1) and the settlement of its matcher events  *)
(* (PostProcessCommand, stage R2).  An engine is the state of one shard:   *)
(*   profiles     of the users whose uid maps to the shard                 *)
(*   fees         collected in the quote currency                          *)
(*   external     adjustments_ and suspends_: minus what came in from      *)
(*                outside, by type of adjustment                           *)
(*   symbols      the symbols it has a specification of                    *)
(* Amounts are unbounded integers: the int64_t of the code does not        *)
(* overflow at the values checked.                                         *)
(***************************************************************************)
EXTENDS PriceTimeBook, UserProfileService

CONSTANTS RiskShards,               \* the shard ids, 0 to a power of two - 1
          BaseScale, QuoteScale,    \* units of a lot and of a price step
          TakerFee, MakerFee        \* in quote units for each lot

ASSUME FeeAssumption ==
  /\ Cardinality(RiskShards) \in Nat \ {0}
  /\ RiskShards = 0 .. Cardinality(RiskShards) - 1
  /\ BaseScale \in Nat /\ QuoteScale \in Nat
  /\ TakerFee \in Nat /\ MakerFee \in Nat

BalanceAdjustmentType == {"ADJUSTMENT", "SUSPEND"}

NewEngine ==
  [profiles |-> NoProfiles, fees |-> 0,
   external |-> [type \in BalanceAdjustmentType |-> ZeroBalance],
   symbols |-> {}]

\* An engine whose accounts have these amounts.
IsEngine(engine, amounts) ==
  /\ engine \in [profiles : {engine.profiles}, fees : Int,
                 external : [BalanceAdjustmentType -> [Currency -> Int]],
                 symbols : SUBSET STRING]
  /\ DOMAIN engine.profiles \subseteq Int
  /\ engine.profiles \in [DOMAIN engine.profiles -> Profile(amounts)]

UidForThisHandler(shard, uid) == uid % Cardinality(RiskShards) = shard

Amount(currency, amount) == [ZeroBalance EXCEPT ![currency] = amount]

SumBy(F(_), seq) == Total([i \in DOMAIN seq |-> F(seq[i])])

-----------------------------------------------------------------------------
(***************************************************************************)
(* CoreArithmeticUtils.                                                    *)
(***************************************************************************)
AmountAsk(size) == size * BaseScale

AmountBid(size, price) == size * (price * QuoteScale)

AmountBidTakerFee(size, price) == size * (price * QuoteScale + TakerFee)

AmountBidTakerFeeForBudget(size, budget) == budget * QuoteScale + size * TakerFee

ReleaseWithoutFee(size, priceDiff) == size * (priceDiff * QuoteScale)

AmountBidReleaseCorrMaker(size, priceDiff) ==
  size * (priceDiff * QuoteScale + (TakerFee - MakerFee))

-----------------------------------------------------------------------------
(***************************************************************************)
(* R1.  PlaceOrderRiskCheck holds what an order may cost before it is      *)
(* matched; a refusal of PlaceExchangeOrder ends as RISK_NSF.              *)
(***************************************************************************)
IsBudget(cmd) == cmd.orderType \in {"FOK_BUDGET", "IOC_BUDGET"}

AcceptablePrice(cmd) ==
  CASE cmd.action = "ASK" -> cmd.price * QuoteScale >= TakerFee
    [] cmd.action = "BID" /\ IsBudget(cmd) -> cmd.reserveBidPrice = cmd.price
    [] OTHER -> cmd.reserveBidPrice >= cmd.price

HoldCurrency(cmd) == IF cmd.action = "BID" THEN "quote" ELSE "base"

HoldWithoutFee(cmd) ==
  CASE cmd.action = "ASK" -> AmountAsk(cmd.size)
    [] cmd.action = "BID" /\ IsBudget(cmd) -> cmd.price * QuoteScale
    [] OTHER -> AmountBid(cmd.size, cmd.price)

OrderHoldAmount(cmd) ==
  CASE cmd.action = "ASK" -> AmountAsk(cmd.size)
    [] cmd.action = "BID" /\ IsBudget(cmd) ->
         AmountBidTakerFeeForBudget(cmd.size, cmd.price)
    [] OTHER -> AmountBidTakerFee(cmd.size, cmd.reserveBidPrice)

EnoughWithoutFee(accounts, cmd) == accounts[HoldCurrency(cmd)] >= HoldWithoutFee(cmd)

Enough(accounts, cmd) == accounts[HoldCurrency(cmd)] >= OrderHoldAmount(cmd)

PlaceOrderRiskCheck(engine, cmd) ==
  CASE cmd.uid \notin DOMAIN engine.profiles ->
         [engine |-> engine, code |-> "AUTH_INVALID_USER"]
    [] cmd.uid \in DOMAIN engine.profiles /\ cmd.symbol \notin engine.symbols ->
         [engine |-> engine, code |-> "INVALID_SYMBOL"]
    [] OTHER ->
         IF AcceptablePrice(cmd) /\ Enough(engine.profiles[cmd.uid].accounts, cmd)
         THEN [engine |-> [engine EXCEPT
                 !.profiles[cmd.uid].accounts[HoldCurrency(cmd)] =
                   @ - OrderHoldAmount(cmd)],
               code |-> "VALID_FOR_MATCHING_ENGINE"]
         ELSE [engine |-> engine, code |-> "RISK_NSF"]

\* The slot of a BALANCE_ADJUSTMENT has the currency in symbol, the amount in
\* price, the transaction id in orderId and its type in orderType.
AdjustBalance(engine, cmd) ==
  LET res == BalanceAdjustment(engine.profiles, cmd.uid, cmd.symbol, cmd.price,
                               cmd.orderId)
  IN [code   |-> res.code,
      engine |-> IF res.code # "SUCCESS" THEN engine
                 ELSE [engine EXCEPT
                   !.profiles = res.profiles,
                   !.external[cmd.orderType][cmd.symbol] = @ - cmd.price]]

UserCommand(engine, res) ==
  [engine |-> [engine EXCEPT !.profiles = res.profiles], code |-> res.code]

PreProcess(engine, cmd) ==
  CASE cmd.command = "PLACE_ORDER" -> PlaceOrderRiskCheck(engine, cmd)
    [] cmd.command = "BALANCE_ADJUSTMENT" -> AdjustBalance(engine, cmd)
    [] cmd.command = "ADD_USER" ->
         UserCommand(engine, AddUser(engine.profiles, cmd.uid))
    [] cmd.command = "SUSPEND_USER" ->
         UserCommand(engine, SuspendUser(engine.profiles, cmd.uid))
    [] cmd.command = "RESUME_USER" ->
         UserCommand(engine, ResumeUser(engine.profiles, cmd.uid))
    [] OTHER -> [engine |-> engine, code |-> cmd.resultCode]

\* A binary message: symbols to add, or users with what they pay in.
Messages ==
  [symbols : SUBSET STRING,
   users : Seq([uid : Int, accounts : Seq([currency : Currency, balance : Int])])]

AccountTransactionId(currency) == 1000000000 + CurrencyId[currency]

\* BatchAddAccounts: a user that is new gets a payment for each of the accounts,
\* in the order of the hash map, under a transaction id made of the currency.
AddAccounts(engine, user) ==
  LET added == AddUser(engine.profiles, user.uid)
      payment(account) ==
        [uid |-> user.uid, symbol |-> account.currency, price |-> account.balance,
         orderId |-> AccountTransactionId(account.currency),
         orderType |-> "ADJUSTMENT"]
      paid[n \in 0 .. Len(user.accounts)] ==
        IF n = 0 THEN [engine EXCEPT !.profiles = added.profiles]
        ELSE AdjustBalance(paid[n - 1], payment(user.accounts[n])).engine
  IN IF added.code # "SUCCESS" THEN engine ELSE paid[Len(user.accounts)]

\* A message has symbols, or users; every engine adds all of them.
HandleBinaryMessage(engine, message) ==
  LET added[n \in 0 .. Len(message.users)] ==
        IF n = 0 THEN [engine EXCEPT !.symbols = @ \cup message.symbols]
        ELSE AddAccounts(added[n - 1], message.users[n])
  IN added[Len(message.users)]

Reset(engine) ==
  [engine EXCEPT !.profiles = NoProfiles, !.fees = 0,
                 !.external = NewEngine.external, !.symbols = {}]

\* Every engine takes part in messages and RESET, and the first one answers; of
\* the others only the engine of the user acts and writes the result code.
PreProcessCommand(engine, shard, cmd) ==
  LET answer(code) == IF shard = 0 THEN code ELSE cmd.resultCode
  IN CASE cmd.command = "BINARY_DATA_COMMAND" ->
            [engine |-> HandleBinaryMessage(engine, cmd.message),
             code   |-> answer("VALID_FOR_MATCHING_ENGINE")]
       [] cmd.command = "RESET" ->
            [engine |-> Reset(engine), code |-> answer("SUCCESS")]
       [] OTHER ->
            IF UidForThisHandler(shard, cmd.uid) THEN PreProcess(engine, cmd)
            ELSE [engine |-> engine, code |-> cmd.resultCode]

\* The section of TotalCurrencyBalanceReportQuery of one engine.
ReportBalance(engine) ==
  [currency \in Currency |->
     SumBy(LAMBDA uid : engine.profiles[uid].accounts[currency],
           SetToSeq(DOMAIN engine.profiles))
       + engine.external["ADJUSTMENT"][currency]
       + engine.external["SUSPEND"][currency]
       + (IF currency = "quote" THEN engine.fees ELSE 0)]

-----------------------------------------------------------------------------
(***************************************************************************)
(* R2.  The matcher events of a command say what is returned to the taker  *)
(* (a first event REDUCE or REJECT) and what is traded (all others).       *)
(***************************************************************************)
Returned(events) == events # <<>> /\ Head(events).eventType # "TRADE"

Trades(events) == IF Returned(events) THEN Tail(events) ELSE events

IsFokBudget(cmd) ==
  cmd.command = "PLACE_ORDER" /\ cmd.orderType = "FOK_BUDGET"

Refund(cmd, ev) ==
  CASE cmd.action = "ASK" -> Amount("base", AmountAsk(ev.size))
    [] cmd.action = "BID" /\ IsFokBudget(cmd) ->
         Amount("quote", AmountBidTakerFeeForBudget(ev.size, ev.price))
    [] OTHER -> Amount("quote", AmountBidTakerFee(ev.size, ev.bidderHoldPrice))

TakerGain(cmd, trades) ==
  LET size == SumBy(LAMBDA ev : ev.size, trades)
      sum  == Cost(trades)
      held == IF IsFokBudget(cmd) THEN cmd.price
              ELSE SumBy(LAMBDA ev : ev.size * ev.bidderHoldPrice, trades)
  IN IF cmd.action = "ASK" THEN Amount("quote", sum * QuoteScale - TakerFee * size)
     ELSE [base |-> AmountAsk(size), quote |-> (held - sum) * QuoteScale]

MakerGain(cmd, ev) ==
  IF cmd.action = "ASK"
  THEN [base  |-> AmountAsk(ev.size),
        quote |-> AmountBidReleaseCorrMaker(ev.size, ev.bidderHoldPrice - ev.price)]
  ELSE Amount("quote", AmountBid(ev.size, ev.price) - MakerFee * ev.size)

\* What the events bring to whom.
Credits(cmd) ==
  LET events == cmd.matcherEvent
      trades == Trades(events)
      credit(uid, gain) == [uid |-> uid, gain |-> gain]
  IN (IF Returned(events) THEN <<credit(cmd.uid, Refund(cmd, Head(events)))>>
      ELSE <<>>)
     \o (IF trades # <<>> THEN <<credit(cmd.uid, TakerGain(cmd, trades))>>
         ELSE <<>>)
     \o [i \in DOMAIN trades |->
           credit(trades[i].matchedOrderUid, MakerGain(cmd, trades[i]))]

Credit(profiles, credit) ==
  [GetUserProfileOrAddSuspended(profiles, credit.uid) EXCEPT
     ![credit.uid].accounts =
       [currency \in Currency |-> @[currency] + credit.gain[currency]]]

CreditAll(profiles, credits) ==
  LET credited[n \in 0 .. Len(credits)] ==
        IF n = 0 THEN profiles ELSE Credit(credited[n - 1], credits[n])
  IN credited[Len(credits)]

\* A shard gets the taker fee of its own takers and the maker fee of its own
\* makers.
FeesOf(shard, cmd) ==
  LET trades == Trades(cmd.matcherEvent)
      taker(ev) == IF UidForThisHandler(shard, cmd.uid) THEN TakerFee ELSE 0
      maker(ev) == IF UidForThisHandler(shard, ev.matchedOrderUid) THEN MakerFee
                   ELSE 0
  IN SumBy(LAMBDA ev : ev.size * (taker(ev) + maker(ev)), trades)

\* Without a specification of the symbol it throws, and nothing is settled.
PostProcessCommand(engine, shard, cmd) ==
  IF cmd.matcherEvent # <<>> /\ cmd.symbol \notin engine.symbols THEN engine
  ELSE LET own == {c \in ToSet(Credits(cmd)) : UidForThisHandler(shard, c.uid)}
       IN [engine EXCEPT !.profiles = CreditAll(@, Kept(Credits(cmd), own)),
                         !.fees = @ + FeesOf(shard, cmd)]
=============================================================================
