---------------------------- MODULE MarginTrading ----------------------------
(***************************************************************************)
(* RiskEngine on futures contracts.  An order is not paid for: it is       *)
(* pending in the position of its user, and refused when the margin the    *)
(* position would need is more than the user has free.  An engine of       *)
(* RiskEngine has lastPriceCache as well, the last prices it has seen by   *)
(* contract.  All contracts are settled in the quote currency.             *)
(***************************************************************************)
EXTENDS RiskEngine

CONSTANT Specs          \* contract -> [marginBuy, marginSell]

Contracts == DOMAIN Specs

ASSUME SpecsAssumption ==
  \A c \in Contracts : Specs[c].marginBuy \in Nat /\ Specs[c].marginSell \in Nat

LastPrice(engine, symbol) ==
  IF symbol \in DOMAIN engine.lastPriceCache THEN engine.lastPriceCache[symbol]
  ELSE NoPrice

HasPosition(profile, symbol) ==
  \E i \in DOMAIN profile.positions : profile.positions[i].symbol = symbol

IndexOf(profile, symbol) ==
  CHOOSE i \in DOMAIN profile.positions : profile.positions[i].symbol = symbol

\* The last entry of the hash map moves into the place of the one that goes.
EraseEntry(positions, i) ==
  LET n == Len(positions)
  IN SubSeq([positions EXCEPT ![i] = positions[n]], 1, n - 1)

\* Mutant: the realised profit goes with the record.
RemovePositionRecordWithProfit(profile, symbol) ==
  [profile EXCEPT !.positions = EraseEntry(@, IndexOf(profile, symbol))]

\* The realised profit is paid out and the record goes back to its pool.
RemovePositionRecord(profile, symbol) ==
  LET i == IndexOf(profile, symbol)
  IN [profile EXCEPT !.accounts["quote"] = @ + profile.positions[i].profit,
                     !.positions = EraseEntry(@, i)]

\* Mutant: the record stays with its user.
KeepIfEmpty(profile, symbol) == profile

RemoveIfEmpty(profile, symbol) ==
  IF IsEmptyPosition(profile.positions[IndexOf(profile, symbol)])
  THEN RemovePositionRecord(profile, symbol) ELSE profile

-----------------------------------------------------------------------------
(***************************************************************************)
(* R1.                                                                     *)
(***************************************************************************)
\* What a position of another contract adds to what is free.
Spare(engine, position) ==
  EstimateProfit(position, Specs[position.symbol], LastPrice(engine, position.symbol))
    - CalculateRequiredMarginForFutures(position, Specs[position.symbol])

\* The position of the order's own contract sets the sum, where the others add.
FreeMargin(engine, profile, symbol) ==
  FoldLeft(LAMBDA free, position :
             IF position.symbol = symbol
             THEN EstimateProfit(position, Specs[symbol], LastPrice(engine, symbol))
             ELSE free + Spare(engine, position),
           0, profile.positions)

\* What is free when all positions of the currency count.
FreeMarginOfAll(engine, profile, symbol) ==
  SumBy(LAMBDA position :
          IF position.symbol = symbol
          THEN EstimateProfit(position, Specs[symbol], LastPrice(engine, symbol))
          ELSE Spare(engine, position),
        profile.positions)

CanPlaceMarginOrder(engine, profile, cmd) ==
  LET position == profile.positions[IndexOf(profile, cmd.symbol)]
      required == CalculateRequiredMarginForOrder(position, Specs[cmd.symbol],
                                                  cmd.action, cmd.size)
  IN \/ required = -1
     \/ required <= profile.accounts["quote"] + FreeMargin(engine, profile, cmd.symbol)

PlaceMarginOrder(engine, cmd) ==
  LET profile == engine.profiles[cmd.uid]
      opened == IF HasPosition(profile, cmd.symbol) THEN profile
                ELSE [profile EXCEPT !.positions = Append(@, NewPosition(cmd.symbol))]
      i == IndexOf(opened, cmd.symbol)
  IN IF CanPlaceMarginOrder(engine, opened, cmd)
     THEN [engine |-> [engine EXCEPT !.profiles[cmd.uid] =
             [opened EXCEPT !.positions[i] = PendingHold(@, cmd.action, cmd.size)]],
           code |-> "VALID_FOR_MATCHING_ENGINE"]
     ELSE [engine |-> [engine EXCEPT !.profiles[cmd.uid] =
             RemoveIfEmpty(opened, cmd.symbol)],
           code |-> "RISK_NSF"]

MarginRiskCheck(engine, cmd) ==
  CASE cmd.uid \notin DOMAIN engine.profiles ->
         [engine |-> engine, code |-> "AUTH_INVALID_USER"]
    [] /\ cmd.uid \in DOMAIN engine.profiles
       /\ cmd.symbol \notin engine.symbols ->
         [engine |-> engine, code |-> "INVALID_SYMBOL"]
    [] OTHER -> PlaceMarginOrder(engine, cmd)

PreProcessMargin(engine, shard, cmd) ==
  LET res == PreProcessCommand(engine, shard, cmd)
  IN CASE cmd.command = "PLACE_ORDER" /\ UidForThisHandler(shard, cmd.uid) ->
            MarginRiskCheck(engine, cmd)
       [] cmd.command = "RESET" -> [res EXCEPT !.engine.lastPriceCache = <<>>]
       [] OTHER -> res

-----------------------------------------------------------------------------
(***************************************************************************)
(* R2.  A settlement is the engine with lost: a position was needed that   *)
(* the user does not have (GetPositionRecordOrThrowEx throws), or a record *)
(* was used after it had gone back to the pool.                            *)
(***************************************************************************)
Settlement(engine, lost) == [engine |-> engine, lost |-> lost]

\* One party's part of an event: with the position after it and the size for
\* which a fee is due.
PositionUpdated(settlement, uid, symbol, updated, fee) ==
  LET profile == settlement.engine.profiles[uid]
      charged == [profile EXCEPT !.accounts["quote"] = @ - fee,
                                 !.positions[IndexOf(profile, symbol)] = updated]
  IN [settlement EXCEPT !.engine.profiles[uid] = RemoveIfEmpty(charged, symbol),
                        !.engine.fees = @ + fee]

TakerEvent(settlement, cmd, ev) ==
  LET profile == settlement.engine.profiles[cmd.uid]
      position == profile.positions[IndexOf(profile, cmd.symbol)]
      trade == UpdatePositionForMarginTrade(position, cmd.action, ev.size, ev.price)
  IN IF ev.eventType = "TRADE"
     THEN PositionUpdated(settlement, cmd.uid, cmd.symbol, trade.position,
                          TakerFee * trade.opened)
     ELSE PositionUpdated(settlement, cmd.uid, cmd.symbol,
                          PendingRelease(position, cmd.action, ev.size), 0)

MakerEvent(settlement, cmd, ev) ==
  LET profile == settlement.engine.profiles[ev.matchedOrderUid]
      position == profile.positions[IndexOf(profile, cmd.symbol)]
      trade == UpdatePositionForMarginTrade(position, Opposite(cmd.action),
                                            ev.size, ev.price)
  IN PositionUpdated(settlement, ev.matchedOrderUid, cmd.symbol, trade.position,
                     MakerFee * trade.opened)

\* The user has the position, or the settlement ends here.
WithPosition(settlement, uid, symbol, then) ==
  LET profiles == GetUserProfileOrAddSuspended(settlement.engine.profiles, uid)
  IN IF ~ settlement.lost /\ HasPosition(profiles[uid], symbol) THEN then
     ELSE Settlement([settlement.engine EXCEPT !.profiles = profiles], TRUE)

HandleMatcherEventMargin(settlement, shard, cmd, ev) ==
  LET taken == IF UidForThisHandler(shard, cmd.uid)
               THEN WithPosition(settlement, cmd.uid, cmd.symbol,
                                 TakerEvent(settlement, cmd, ev))
               ELSE settlement
  IN IF ev.eventType = "TRADE" /\ UidForThisHandler(shard, ev.matchedOrderUid)
     THEN WithPosition(taken, ev.matchedOrderUid, cmd.symbol,
                       MakerEvent(taken, cmd, ev))
     ELSE taken

BestPrices(marketData) ==
  [ask |-> IF marketData["ASK"] = <<>> THEN NoAsk ELSE marketData["ASK"][1].price,
   bid |-> IF marketData["BID"] = <<>> THEN 0 ELSE marketData["BID"][1].price]

\* posted: the matching engine has put the market data into the slot.  Without a
\* specification of the symbol it throws, and nothing is settled.
PostProcessMargin(engine, shard, cmd, posted) ==
  LET settled == FoldLeft(LAMBDA s, ev : HandleMatcherEventMargin(s, shard, cmd, ev),
                          Settlement(engine, FALSE), cmd.matcherEvent)
  IN IF (posted \/ cmd.matcherEvent # <<>>) /\ cmd.symbol \notin engine.symbols
     THEN Settlement(engine, TRUE)
     ELSE IF posted /\ ~ settled.lost
     THEN [settled EXCEPT !.engine.lastPriceCache =
             (cmd.symbol :> BestPrices(cmd.marketData)) @@ @]
     ELSE settled

\* The section of TotalCurrencyBalanceReportQuery of one engine: what it adds to
\* the sum, positions at the average of the last prices, and the open interest.
MarginReport(engine) ==
  LET price(symbol) == IF symbol \in DOMAIN engine.lastPriceCache
                       THEN AveragingRecord(engine.lastPriceCache[symbol])
                       ELSE DummyRecord
      positions == FlattenSeq([i \in DOMAIN SetToSeq(DOMAIN engine.profiles) |->
        engine.profiles[SetToSeq(DOMAIN engine.profiles)[i]].positions])
  IN [balance |-> ReportBalance(engine)["quote"]
        + SumBy(LAMBDA p : EstimateProfit(p, Specs[p.symbol], price(p.symbol)), positions),
      openInterest |-> [c \in Contracts |->
        SumBy(LAMBDA p : IF p.symbol = c THEN SignedVolume(p) ELSE 0, positions)]]
=============================================================================
