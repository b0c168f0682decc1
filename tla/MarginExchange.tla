--------------------------- MODULE MarginExchange ---------------------------
(***************************************************************************)
(* The exchange of module Exchange with futures contracts: risk engines    *)
(* with positions, an order book for each contract, and the commands in    *)
(* flight between them.                                                    *)
(***************************************************************************)
EXTENDS MarginTrading

CONSTANTS Commands,         \* the slots clients may publish
          InitialEngines,   \* [RiskShards -> engine] to start from
          SendL2ForEveryCmd,\* else the grouping processor asks for it at times
          MaxCommands,      \* bound on the commands published
          MaxInFlight       \* bound on the commands between publishing and E

VARIABLES
  slots,        \* the commands in flight, oldest first
  r1, me, r2,   \* how many of them each stage has handled
  engines,      \* the state of each risk engine
  books,        \* the order book of each contract
  published,    \* the number of commands published
  lost,         \* history: a settlement did not find a position it needed
  uncovered     \* history: an order was accepted without the margin for it

stages == <<r1, me, r2>>
history == <<lost, uncovered>>
vars == <<slots, stages, engines, books, published, history>>

Init ==
  /\ slots = <<>>
  /\ r1 = [s \in RiskShards |-> 0]
  /\ me = 0
  /\ r2 = [s \in RiskShards |-> 0]
  /\ engines = InitialEngines
  /\ books = [c \in Contracts |-> EmptyBook]
  /\ published = 0
  /\ lost = FALSE
  /\ uncovered = FALSE

Publish ==
  /\ published < MaxCommands
  /\ Len(slots) < MaxInFlight
  /\ \E c \in Commands : slots' = Append(slots, c)
  /\ published' = published + 1
  /\ UNCHANGED <<stages, engines, books, history>>

\* An order needs more margin than its user has, when every position counts.
Uncovered(engine, cmd) ==
  LET profile == engine.profiles[cmd.uid]
      position == IF HasPosition(profile, cmd.symbol)
                  THEN profile.positions[IndexOf(profile, cmd.symbol)]
                  ELSE NewPosition(cmd.symbol)
      required == CalculateRequiredMarginForOrder(position, Specs[cmd.symbol],
                                                  cmd.action, cmd.size)
  IN /\ required # -1
     /\ required > profile.accounts["quote"]
                    + FreeMarginOfAll(engine, profile, cmd.symbol)

PreProcessSlot(s) ==
  LET n == r1[s] + 1
      cmd == slots[n]
      res == PreProcessMargin(engines[s], s, cmd)
  IN /\ n <= Len(slots)
     /\ r1' = [r1 EXCEPT ![s] = n]
     /\ engines' = [engines EXCEPT ![s] = res.engine]
     /\ slots' = [slots EXCEPT ![n].resultCode = res.code]
     /\ uncovered' =
          (uncovered \/ /\ cmd.command = "PLACE_ORDER" /\ UidForThisHandler(s, cmd.uid)
                        /\ res.code = "VALID_FOR_MATCHING_ENGINE"
                        /\ Uncovered(engines[s], cmd))
     /\ UNCHANGED <<me, r2, books, published, lost>>

IsMatchingCommand(cmd) ==
  cmd.command \in {"PLACE_ORDER", "CANCEL_ORDER", "REDUCE_ORDER", "MOVE_ORDER",
                   "ORDER_BOOK_REQUEST"}

ProcessMatchingCommand(cmd) ==
  IF cmd.symbol \notin Contracts
  THEN [book |-> EmptyBook,
        cmd |-> [cmd EXCEPT !.resultCode = "MATCHING_INVALID_ORDER_BOOK_ID"]]
  ELSE ProcessCommand(books[cmd.symbol], cmd)

\* The market data of a request are what it asked for, those of another command
\* are taken when it was successful.
Posted(cmd, book, asked) ==
  IF /\ cmd.command # "ORDER_BOOK_REQUEST" /\ asked
     /\ IsMatchingCommand(cmd) /\ cmd.resultCode = "SUCCESS"
  THEN [cmd EXCEPT !.marketData = GetL2MarketDataSnapshot(book, -1), !.posted = TRUE]
  ELSE [cmd EXCEPT !.posted = cmd.command = "ORDER_BOOK_REQUEST"
                                /\ cmd.resultCode = "SUCCESS"]

MatchSlot ==
  LET n == me + 1
      cmd == slots[n]
      res == IF IsMatchingCommand(cmd) THEN ProcessMatchingCommand(cmd)
             ELSE [book |-> EmptyBook, cmd |-> cmd]
  IN /\ n <= Len(slots) /\ \A s \in RiskShards : n <= r1[s]
     /\ me' = n
     /\ books' = [c \in Contracts |->
          IF c = cmd.symbol /\ IsMatchingCommand(cmd) THEN res.book ELSE books[c]]
     /\ \E asked \in IF SendL2ForEveryCmd THEN {TRUE} ELSE BOOLEAN :
          slots' = [slots EXCEPT ![n] = Posted(res.cmd, res.book, asked)]
     /\ UNCHANGED <<r1, r2, engines, published, history>>

PostProcessSlot(s) ==
  LET n == r2[s] + 1
      res == PostProcessMargin(engines[s], s, slots[n], slots[n].posted)
  IN /\ n <= me
     /\ r2' = [r2 EXCEPT ![s] = n]
     /\ engines' = [engines EXCEPT ![s] = res.engine]
     /\ lost' = (lost \/ res.lost)
     /\ UNCHANGED <<slots, r1, me, books, published, uncovered>>

Release ==
  /\ slots # <<>> /\ \A s \in RiskShards : r2[s] >= 1
  /\ slots' = Tail(slots)
  /\ r1' = [s \in RiskShards |-> r1[s] - 1]
  /\ me' = me - 1
  /\ r2' = [s \in RiskShards |-> r2[s] - 1]
  /\ UNCHANGED <<engines, books, published, history>>

Next ==
  \/ Publish
  \/ \E s \in RiskShards : PreProcessSlot(s)
  \/ MatchSlot
  \/ \E s \in RiskShards : PostProcessSlot(s)
  \/ Release

Spec == Init /\ [][Next]_vars

-----------------------------------------------------------------------------
Profiles(s) == engines[s].profiles

\* A record is valid as ValidateInternalState has it, but for the sign of the sum
\* of its prices; no user keeps two records of a contract, or one that is empty,
\* whose profit would not be paid out.
PositionsValid ==
  \A s \in RiskShards : \A uid \in DOMAIN Profiles(s) :
    LET positions == Profiles(s)[uid].positions
    IN /\ \A i, j \in DOMAIN positions :
            positions[i].symbol = positions[j].symbol => i = j
       /\ \A i \in DOMAIN positions :
            /\ positions[i].direction = "EMPTY" =>
                 positions[i].openVolume = 0 /\ positions[i].openPriceSum = 0
            /\ positions[i].direction # "EMPTY" => positions[i].openVolume > 0
            /\ \A action \in OrderAction : positions[i].pending[action] >= 0
            /\ ~ IsEmptyPosition(positions[i])

Pending(s, uid, symbol, action) ==
  IF uid \in DOMAIN Profiles(s) /\ HasPosition(Profiles(s)[uid], symbol)
  THEN LET profile == Profiles(s)[uid]
       IN profile.positions[IndexOf(profile, symbol)].pending[action]
  ELSE 0

\* What is pending in a position is what the user's orders may still trade: the
\* rest of those in the book and the whole of those checked and not matched yet.
\* The two are kept by different processors and change at different times; a
\* command that is refused, rejected, cut, cancelled, moved or filled, as taker
\* or as maker, releases exactly its part.
PendingAccounted ==
  \A s \in RiskShards : r2[s] = me =>
    \A uid \in {c.uid : c \in Commands}, symbol \in Contracts, action \in OrderAction :
      LET resting == SelectSeq(books[symbol][action], LAMBDA o : o.uid = uid)
          checked == SelectSeq(SubSeq(slots, me + 1, r1[s]), LAMBDA c :
                       /\ c.uid = uid /\ c.symbol = symbol /\ c.action = action
                       /\ c.command = "PLACE_ORDER"
                       /\ c.resultCode = "VALID_FOR_MATCHING_ENGINE")
      IN UidForThisHandler(s, uid) =>
           Pending(s, uid, symbol, action)
             = Volume(resting) + SumBy(LAMBDA c : c.size, checked)

\* Every trade finds the position of its taker and of its maker: none is given
\* back to the pool, or forgotten with its user, while an order may still trade,
\* and the record that is looked up once for a chain of events lasts to its end.
PositionsKept == ~ lost

\* A TotalCurrencyBalanceReport when nothing is in flight: what all users have and
\* their positions are worth, fees and payments from outside add up to zero, and
\* every lot that is held long is held short by another: taker and maker are
\* settled by different engines, each with its part of the fees.
MarginBalanced ==
  slots = <<>> =>
    LET reports == [s \in RiskShards |-> MarginReport(engines[s])]
        shards == SetToSeq(RiskShards)
    IN /\ SumBy(LAMBDA s : reports[s].balance, shards) = 0
       /\ \A c \in Contracts : SumBy(LAMBDA s : reports[s].openInterest[c], shards) = 0

\* RiskEngine.cpp:670, "Calculate free margin for all positions same currency": an
\* order that needs more margin is accepted only if the money of its user and all
\* positions together cover it.
MarginCovered == ~ uncovered
=============================================================================
