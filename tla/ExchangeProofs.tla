--------------------------- MODULE ExchangeProofs ---------------------------
(***************************************************************************)
(* Type correctness of the exchange, that its accounts are never           *)
(* overdrawn, that no transaction is settled twice and that no money is    *)
(* lost or made, for any number of risk engines, any commands in flight,   *)
(* any fees and scales.                                                    *)
(*                                                                         *)
(* First what order books and risk engines keep, command by command.  Each *)
(* fact is stated for sound = FALSE, where amounts are whole numbers, and  *)
(* for sound = TRUE, where orders and trades are such that no settlement   *)
(* takes anything from anybody.                                            *)
(***************************************************************************)
EXTENDS Exchange, PriceTimeBookProofs

-----------------------------------------------------------------------------
(***************************************************************************)
(* Orders, events and books.                                               *)
(***************************************************************************)

\* A lot sold at this price brings at least the fee of the taker.
PaysFee(price) == price * QuoteScale >= TakerFee

SoundOrder(o) ==
  /\ Remaining(o) >= 0 /\ o.price >= 0 /\ o.reserveBidPrice >= 0
  /\ o.action = "BID" => o.price <= o.reserveBidPrice
  /\ o.action = "ASK" => PaysFee(o.price)

Orders(side, sound) == {o \in TypedOrder(side) : sound => SoundOrder(o)}

BookKept(bk, sound) ==
  /\ DOMAIN bk = OrderAction
  /\ \A side \in OrderAction : bk[side] \in Seq(Orders(side, sound))

\* A trade that takes nothing from its maker, nor, unless the taker has a budget
\* for all trades, from its taker.
SoundTrade(ev, budget) ==
  /\ ev.size >= 0 /\ ev.price >= 0 /\ PaysFee(ev.price)
  /\ budget \/ ev.price <= ev.bidderHoldPrice

TradeEvents(sound, budget) ==
  {ev \in TypedEvent : ev.eventType = "TRADE" /\ (sound => SoundTrade(ev, budget))}

\* What is returned to the taker.
ReturnEvents(sound) ==
  {ev \in TypedEvent :
     /\ ev.eventType # "TRADE"
     /\ sound => ev.size >= 0 /\ ev.price >= 0 /\ ev.bidderHoldPrice >= 0}

-----------------------------------------------------------------------------
(***************************************************************************)
(* Prices.                                                                 *)
(***************************************************************************)

\* A higher price pays the fee when a lower one does.
LEMMA PaysMore ==
  ASSUME NEW p \in Int, NEW q \in Int, p <= q, PaysFee(p)
  PROVE  PaysFee(q)
<1>1. QuoteScale \in Nat /\ TakerFee \in Nat
  BY FeeAssumption
<1>2. PICK d \in Nat : d = q - p
  OBVIOUS
<1>3. q = p + d /\ (p + d) * QuoteScale = p * QuoteScale + d * QuoteScale
  BY <1>1, <1>2, Distributive
<1>4. d * QuoteScale \in Nat /\ p * QuoteScale \in Int
  BY <1>1, ProductIsNat, ProductIsInt
<1> QED
  BY <1>1, <1>3, <1>4 DEF PaysFee

-----------------------------------------------------------------------------
(***************************************************************************)
(* The sides of a book.                                                    *)
(***************************************************************************)

\* Orders of a side can be filled as long as something is left of them.
LEMMA OrdersFillable ==
  ASSUME NEW side \in OrderAction, NEW sound \in BOOLEAN
  PROVE  Fillable(Orders(side, sound))
<1> SUFFICES ASSUME NEW o \in Orders(side, sound)
             PROVE  /\ Remaining(o) \in Int
                    /\ \A n \in Nat :
                         Remaining([o EXCEPT !.filled = @ + n]) > 0
                           => [o EXCEPT !.filled = @ + n] \in Orders(side, sound)
  BY DEF Fillable
<1>1. o \in TypedOrder(side) /\ (sound => SoundOrder(o))
  BY DEF Orders
<1>2. Remaining(o) \in Int
  BY <1>1 DEF TypedOrder, Remaining
<1>3. ASSUME NEW n \in Nat, Remaining([o EXCEPT !.filled = @ + n]) > 0
      PROVE  [o EXCEPT !.filled = @ + n] \in Orders(side, sound)
  <2>1. PICK p : p = [o EXCEPT !.filled = @ + n]
    OBVIOUS
  <2>2. p \in TypedOrder(side)
    BY <1>1, <2>1 DEF TypedOrder
  <2>3. p.price = o.price /\ p.reserveBidPrice = o.reserveBidPrice /\ p.action = o.action
    BY <1>1, <2>1 DEF TypedOrder
  <2>4. Remaining(p) \in Int
    BY <2>2 DEF TypedOrder, Remaining
  <2>5. sound => SoundOrder(p)
    BY <1>1, <1>3, <2>1, <2>3, <2>4 DEF SoundOrder
  <2> QED
    BY <2>1, <2>2, <2>5 DEF Orders
<1> QED
  BY <1>2, <1>3

\* The makers of a taker are orders of the other side within its limit.
MakersOf(action, limit, sound) ==
  {o \in Orders(Opposite(action), sound) : Within(action, limit, o.price)}

\* MakersWithin gives those.
LEMMA MakersWithinIn ==
  ASSUME NEW action \in OrderAction, NEW limit, NEW sound \in BOOLEAN,
         NEW bk, BookKept(bk, sound)
  PROVE  MakersWithin(bk, action, limit) \in Seq(MakersOf(action, limit, sound))
<1> DEFINE side == bk[Opposite(action)]
           K == {o \in ToSet(side) : Within(action, limit, o.price)}
           S == Orders(Opposite(action), sound)
<1>1. side \in Seq(S)
  BY Sides DEF BookKept
<1> HIDE DEF S
<1>2. Kept(side, K) \in Seq(S \cap K)
  <2> HIDE DEF side, K
  <2> QED
    BY <1>1, KeptElements
<1>3. \A o \in S \cap K : o \in MakersOf(action, limit, sound)
  BY DEF MakersOf, S
<1> HIDE DEF K, side
<1>4. Kept(side, K) \in Seq(MakersOf(action, limit, sound))
  BY <1>2, <1>3, SeqOfSubset
<1> QED
  BY <1>4 DEF MakersWithin, K, side

\* A book with another sequence of orders on a side.
LEMMA SideKept ==
  ASSUME NEW bk, NEW sound \in BOOLEAN, BookKept(bk, sound),
         NEW a \in OrderAction, NEW side \in Seq(Orders(a, sound))
  PROVE  BookKept([bk EXCEPT ![a] = side], sound)
<1> DEFINE after == [bk EXCEPT ![a] = side]
<1>1. DOMAIN after = OrderAction
  BY DEF BookKept
<1>2. ASSUME NEW b \in OrderAction PROVE after[b] \in Seq(Orders(b, sound))
  <2>1. CASE b = a
    BY <2>1 DEF BookKept
  <2>2. CASE b # a
    BY <2>2 DEF BookKept
  <2> QED
    BY <2>1, <2>2
<1> QED
  BY <1>1, <1>2 DEF BookKept

\* Rest adds an order to its side.
LEMMA RestKeeps ==
  ASSUME NEW bk, NEW sound \in BOOLEAN, BookKept(bk, sound),
         NEW order, order.action \in OrderAction, order \in Orders(order.action, sound)
  PROVE  BookKept(Rest(bk, order), sound)
<1> DEFINE a == order.action
           side == bk[a]
           S == Orders(a, sound)
           behind == {o \in ToSet(side) : Better(a, order.price, o.price)}
           ahead == ToSet(side) \ behind
           queue == Kept(side, ahead) \o <<order>> \o Kept(side, behind)
<1>1. side \in Seq(S) /\ order \in S /\ a \in OrderAction
  BY DEF BookKept
<1>2. Rest(bk, order) = [bk EXCEPT ![a] = queue]
  BY DEF Rest
<1>3. queue \in Seq(S)
  <2> HIDE DEF S, a, side, behind, ahead
  <2>1. Kept(side, ahead) \in Seq(S) /\ Kept(side, behind) \in Seq(S) /\ <<order>> \in Seq(S)
    BY <1>1, KeptInSet
  <2>2. PICK x, y, z \in Seq(S) :
          x = Kept(side, ahead) /\ y = Kept(side, behind) /\ z = <<order>>
    BY <2>1
  <2>3. (x \o z) \o y \in Seq(S)
    BY ConcatProperties
  <2> QED
    BY <2>2, <2>3
<1> HIDE DEF queue, S, a, side
<1>4. BookKept([bk EXCEPT ![a] = queue], sound)
  BY <1>1, <1>3, SideKept DEF S
<1> QED
  BY <1>2, <1>4

\* Without takes one from its side.
LEMMA WithoutKeeps ==
  ASSUME NEW bk, NEW sound \in BOOLEAN, BookKept(bk, sound),
         NEW order, order.action \in OrderAction
  PROVE  BookKept(Without(bk, order), sound)
<1> DEFINE a == order.action
           queue == Kept(bk[a], ToSet(bk[a]) \ {order})
<1>1. bk[a] \in Seq(Orders(a, sound))
  BY DEF BookKept
<1>2. queue \in Seq(Orders(a, sound))
  BY <1>1, KeptInSet
<1>3. Without(bk, order) = [bk EXCEPT ![a] = queue]
  BY DEF Without
<1>4. a \in OrderAction
  OBVIOUS
<1> HIDE DEF queue, a
<1>5. BookKept([bk EXCEPT ![a] = queue], sound)
  BY <1>2, <1>4, SideKept
<1> QED
  BY <1>3, <1>5

\* Replace puts an order in the place of another one.
LEMMA ReplaceKeeps ==
  ASSUME NEW bk, NEW sound \in BOOLEAN, BookKept(bk, sound),
         NEW order, order.action \in OrderAction, NEW new \in Orders(order.action, sound)
  PROVE  BookKept(Replace(bk, order, new), sound)
<1> DEFINE a == order.action
           side == bk[a]
           S == Orders(a, sound)
           queue == [i \in DOMAIN side |-> IF side[i] = order THEN new ELSE side[i]]
<1>1. side \in Seq(S)
  BY DEF BookKept
<1>2. Len(side) \in Nat /\ DOMAIN side = 1 .. Len(side) /\ \A i \in 1 .. Len(side) : side[i] \in S
  BY <1>1, LenProperties, ElementOfSeq
<1>3. queue \in [1 .. Len(side) -> S]
  <2> HIDE DEF S
  <2> QED
    BY <1>2 DEF S
<1>4. queue \in Seq(S)
  BY <1>2, <1>3, SeqDef
<1>5. Replace(bk, order, new) = [bk EXCEPT ![a] = queue]
  BY DEF Replace
<1>6. a \in OrderAction
  OBVIOUS
<1> HIDE DEF queue, a, S, side
<1>7. BookKept([bk EXCEPT ![a] = queue], sound)
  BY <1>4, <1>6, SideKept DEF S
<1> QED
  BY <1>5, <1>7

\* The order that a command names is one of the book.
LEMMA OwnInBook ==
  ASSUME NEW bk, NEW sound \in BOOLEAN, BookKept(bk, sound),
         NEW cmd, NEW o \in Own(bk, cmd)
  PROVE  o.action \in OrderAction /\ o \in Orders(o.action, sound)
<1>1. o \in ToSet(bk["ASK"] \o bk["BID"])
  BY DEF Own, Find
<1> DEFINE A == Orders("ASK", sound)
           B == Orders("BID", sound)
<1>2. \A x \in A : x.action = "ASK"
  BY DEF Orders, TypedOrder
<1>3. \A x \in B : x.action = "BID"
  BY DEF Orders, TypedOrder
<1>4. bk["ASK"] \in Seq(A) /\ bk["BID"] \in Seq(B)
  BY DEF BookKept, OrderAction
<1> HIDE DEF A, B
<1>5. bk["ASK"] \in Seq(A \cup B) /\ bk["BID"] \in Seq(A \cup B)
  BY <1>4, SeqOfSubset
<1>6. PICK s \in Seq(A \cup B) : s = bk["ASK"] \o bk["BID"]
  BY <1>5, ConcatProperties
<1>7. PICK i \in DOMAIN s : s[i] = o
  BY <1>1, <1>6 DEF ToSet
<1>8. o \in A \cup B
  BY <1>7, LenProperties, ElementOfSeq
<1> QED
  BY <1>2, <1>3, <1>8 DEF OrderAction, A, B

-----------------------------------------------------------------------------
(***************************************************************************)
(* Slots.                                                                  *)
(***************************************************************************)
\* A placement that R1 lets through, and a move, that are within their hold.
SoundRequest(cmd) ==
  /\ cmd.command = "PLACE_ORDER" /\ cmd.resultCode = "VALID_FOR_MATCHING_ENGINE" =>
       /\ cmd.size >= 0 /\ cmd.price >= 0 /\ cmd.reserveBidPrice >= 0
       /\ AcceptablePrice(cmd)
       /\ cmd.orderType = "FOK_BUDGET" => cmd.action = "BID"
  /\ cmd.command = "MOVE_ORDER" => cmd.price >= 0 /\ PaysFee(cmd.price)

\* A slot before it is matched.
Unmatched(cmd, sound) ==
  IsSlot(cmd) /\ cmd.matcherEvent = <<>> /\ (sound => SoundRequest(cmd))

\* The trades of a taker that none of them costs more than it holds.
Covered(cmd, trades) ==
  IsFokBudget(cmd) /\ trades # <<>> => cmd.action = "BID" /\ Cost(trades) <= cmd.price

\* A slot after it is matched, or one that is not to be.
Settles(cmd, sound) ==
  /\ IsSlot(cmd)
  /\ cmd.matcherEvent \in Seq(TypedEvent)
  /\ Returned(cmd.matcherEvent) => Head(cmd.matcherEvent) \in ReturnEvents(sound)
  /\ Trades(cmd.matcherEvent) \in Seq(TradeEvents(sound, IsFokBudget(cmd)))
  /\ sound => Covered(cmd, Trades(cmd.matcherEvent))

\* A chain of nothing but trades.
LEMMA TradesOnly ==
  ASSUME NEW sound, NEW budget, NEW trades \in Seq(TradeEvents(sound, budget))
  PROVE  trades \in Seq(TypedEvent) /\ ~ Returned(trades) /\ Trades(trades) = trades
<1> DEFINE T == TradeEvents(sound, budget)
<1>1. \A ev \in T : ev \in TypedEvent /\ ev.eventType = "TRADE"
  BY DEF TradeEvents
<1> HIDE DEF T
<1>2. trades \in Seq(T)
  BY DEF T
<1>3. trades \in Seq(TypedEvent)
  BY <1>1, <1>2, SeqOfSubset
<1>4. trades # <<>> => Head(trades) \in T
  BY <1>2, HeadTailProperties
<1>5. ~ Returned(trades)
  BY <1>1, <1>4 DEF Returned
<1> QED
  BY <1>3, <1>5 DEF Trades

\* A chain with a first event that is not a trade.
LEMMA AfterReturn ==
  ASSUME NEW sound, NEW budget, NEW trades \in Seq(TradeEvents(sound, budget)),
         NEW r \in ReturnEvents(sound), NEW events, events = <<r>> \o trades
  PROVE  /\ events \in Seq(TypedEvent) /\ Returned(events)
         /\ Head(events) = r /\ Trades(events) = trades
<1>1. r \in TypedEvent
  BY DEF ReturnEvents
<1>2. r.eventType # "TRADE"
  BY DEF ReturnEvents
<1>3. trades \in Seq(TypedEvent)
  BY TradesOnly
<1>4. events \in Seq(TypedEvent) /\ events # <<>> /\ Head(events) = r /\ Tail(events) = trades
  BY <1>1, <1>3, HeadAndTail
<1>5. Returned(events)
  BY <1>2, <1>4 DEF Returned
<1> QED
  BY <1>4, <1>5 DEF Trades

\* What a command with these trades, and an event before them or not, settles.
LEMMA DoneSettles ==
  ASSUME NEW cmd, IsSlot(cmd), NEW code, NEW sound \in BOOLEAN,
         NEW trades \in Seq(TradeEvents(sound, IsFokBudget(cmd))),
         sound => Covered(cmd, trades),
         NEW events,
         events = trades \/ \E r \in ReturnEvents(sound) : events = <<r>> \o trades
  PROVE  Settles(Answer(cmd, code, events), sound)
<1>1. PICK x : x = Answer(cmd, code, events)
  OBVIOUS
<1>2. /\ IsSlot(x) /\ x.matcherEvent = events /\ x.command = cmd.command
      /\ x.orderType = cmd.orderType /\ x.action = cmd.action /\ x.price = cmd.price
  BY <1>1, SlotAnswered
<1>3. IsFokBudget(x) = IsFokBudget(cmd)
  BY <1>2 DEF IsFokBudget
<1>4. /\ Trades(events) = trades /\ events \in Seq(TypedEvent)
      /\ Returned(events) => Head(events) \in ReturnEvents(sound)
  <2>1. CASE events = trades
    BY <2>1, TradesOnly
  <2>2. CASE events # trades
    <3>1. PICK r \in ReturnEvents(sound) : events = <<r>> \o trades
      BY <2>2
    <3> QED
      BY <3>1, AfterReturn
  <2> QED
    BY <2>1, <2>2
<1>5. sound => Covered(x, trades)
  BY <1>2, <1>3 DEF Covered
<1> QED
  BY <1>1, <1>2, <1>3, <1>4, <1>5 DEF Settles

-----------------------------------------------------------------------------
(***************************************************************************)
(* Commands to the order book.                                             *)
(***************************************************************************)

\* What a trade with a maker is.
LEMMA TradeIsEvent ==
  ASSUME NEW side \in OrderAction, NEW sound \in BOOLEAN, NEW budget \in BOOLEAN,
         NEW taker, taker.reserveBidPrice \in Int,
         NEW o \in Orders(side, sound), NEW n \in Nat, NEW c \in BOOLEAN, NEW d \in BOOLEAN,
         sound => /\ side = "BID" => PaysFee(o.price)
                  /\ side = "ASK" /\ ~ budget => o.price <= taker.reserveBidPrice
  PROVE  TradeEvent(taker, o, n, c, d) \in TradeEvents(sound, budget)
<1>1. PICK ev : ev = TradeEvent(taker, o, n, c, d)
  OBVIOUS
<1>2. o \in TypedOrder(side) /\ (sound => SoundOrder(o))
  BY DEF Orders
<1>3. /\ o.orderId \in Int /\ o.uid \in Int /\ o.price \in Int
      /\ o.reserveBidPrice \in Int /\ o.action = side
  BY <1>2 DEF TypedOrder
<1>4. ev \in TypedEvent
  BY <1>1, <1>3 DEF TradeEvent, TypedEvent
<1>5. /\ ev.eventType = "TRADE" /\ ev.size = n /\ ev.price = o.price
      /\ ev.bidderHoldPrice = IF side = "ASK" THEN taker.reserveBidPrice ELSE o.reserveBidPrice
  BY <1>1, <1>3 DEF TradeEvent
<1>6. sound => SoundTrade(ev, budget)
  <2> SUFFICES ASSUME sound PROVE SoundTrade(ev, budget)
    OBVIOUS
  <2>1. ev.size >= 0 /\ ev.price >= 0
    BY <1>2, <1>5 DEF SoundOrder
  <2>2. PaysFee(ev.price)
    BY <1>2, <1>3, <1>5 DEF SoundOrder, OrderAction
  <2>3. budget \/ ev.price <= ev.bidderHoldPrice
    BY <1>2, <1>3, <1>5 DEF SoundOrder, OrderAction
  <2> QED
    BY <2>1, <2>2, <2>3 DEF SoundTrade
<1> QED
  BY <1>1, <1>4, <1>5, <1>6 DEF TradeEvents

\* A taker with a limit, and a hold for it, trades soundly with the makers within it.
LEMMA LimitTrades ==
  ASSUME NEW action \in OrderAction, NEW sound \in BOOLEAN, NEW limit \in Int,
         NEW taker, taker.reserveBidPrice \in Int,
         sound => /\ action = "BID" => limit <= taker.reserveBidPrice
                  /\ action = "ASK" => PaysFee(limit)
  PROVE  TradesInto(taker, MakersOf(action, limit, sound), TradeEvents(sound, FALSE))
<1> SUFFICES ASSUME NEW o \in MakersOf(action, limit, sound), NEW n \in Nat,
                    NEW c \in BOOLEAN, NEW d \in BOOLEAN
             PROVE  TradeEvent(taker, o, n, c, d) \in TradeEvents(sound, FALSE)
  BY DEF TradesInto
<1> DEFINE side == Opposite(action)
<1>1. o \in Orders(side, sound) /\ Within(action, limit, o.price)
  BY DEF MakersOf
<1>2. o.price \in Int
  BY <1>1 DEF Orders, TypedOrder
<1>3. side \in OrderAction
  BY Sides
<1>4. sound => /\ side = "BID" => PaysFee(o.price)
               /\ side = "ASK" => o.price <= taker.reserveBidPrice
  <2> SUFFICES ASSUME sound PROVE /\ side = "BID" => PaysFee(o.price)
                                  /\ side = "ASK" => o.price <= taker.reserveBidPrice
    OBVIOUS
  <2>1. CASE action = "ASK"
    <3>1. side = "BID" /\ limit <= o.price /\ PaysFee(limit)
      BY <1>1, <1>2, <2>1 DEF Opposite, Within
    <3> QED
      BY <1>2, <3>1, PaysMore
  <2>2. CASE action = "BID"
    <3>1. side = "ASK" /\ o.price <= limit /\ limit <= taker.reserveBidPrice
      BY <1>1, <1>2, <2>2 DEF Opposite, Within
    <3> QED
      BY <1>2, <3>1
  <2> QED
    BY <2>1, <2>2 DEF OrderAction
<1> HIDE DEF side
<1>5. PICK b \in BOOLEAN : b = FALSE
  OBVIOUS
<1>6. TradeEvent(taker, o, n, c, d) \in TradeEvents(sound, b)
  BY <1>1, <1>3, <1>4, TradeIsEvent
<1> QED
  BY <1>5, <1>6

\* A taker with a budget trades with any maker; one that sells is sound only if
\* nothing has to be.
LEMMA BudgetTrades ==
  ASSUME NEW action \in OrderAction, NEW sound \in BOOLEAN,
         NEW taker, taker.reserveBidPrice \in Int,
         sound => action = "BID"
  PROVE  TradesInto(taker, Orders(Opposite(action), sound), TradeEvents(sound, TRUE))
<1> DEFINE side == Opposite(action)
<1>1. side \in OrderAction /\ (sound => side = "ASK")
  BY Sides DEF Opposite
<1>2. PICK b \in BOOLEAN : b = TRUE
  OBVIOUS
<1> HIDE DEF side
<1>3. ASSUME NEW o \in Orders(side, sound), NEW n \in Nat, NEW c \in BOOLEAN, NEW d \in BOOLEAN
      PROVE  TradeEvent(taker, o, n, c, d) \in TradeEvents(sound, b)
  BY <1>1, <1>2, TradeIsEvent
<1> QED
  BY <1>2, <1>3 DEF TradesInto, side

\* Matching keeps the book.
LEMMA MatchSound ==
  ASSUME NEW bk, NEW sound \in BOOLEAN, BookKept(bk, sound),
         NEW taker, taker.action \in OrderAction, NEW volume \in Int,
         NEW M, \A o \in M : o \in Orders(Opposite(taker.action), sound),
         NEW makers \in Seq(M), NEW E, TradesInto(taker, M, E)
  PROVE  LET match == Match(bk, taker, volume, makers)
         IN /\ match.filled \in Int /\ match.filled <= volume
            /\ match.events \in Seq(E)
            /\ BookKept(match.book, sound)
<1> DEFINE a == taker.action
           opp == Opposite(a)
           S == Orders(opp, sound)
<1>1. opp \in OrderAction /\ opp # a /\ DOMAIN bk = OrderAction
  BY Sides DEF BookKept
<1>2. Fillable(S) /\ bk[opp] \in Seq(S) /\ \A o \in M : o \in S
  BY <1>1, OrdersFillable DEF BookKept
<1> HIDE DEF S
<1>3. PICK match : match = Match(bk, taker, volume, makers)
  OBVIOUS
<1>4. /\ match.filled \in Int /\ match.filled <= volume
      /\ match.events \in Seq(E)
      /\ DOMAIN match.book = OrderAction
      /\ match.book[opp] \in Seq(S)
      /\ match.book[a] = bk[a]
  BY <1>1, <1>2, <1>3, MatchKept
<1>5. BookKept(match.book, sound)
  <2>1. ASSUME NEW b \in OrderAction PROVE match.book[b] \in Seq(Orders(b, sound))
    <3>1. CASE b = opp
      BY <1>4, <3>1 DEF S
    <3>2. CASE b = a
      BY <1>4, <3>2 DEF BookKept
    <3> QED
      BY <1>1, <3>1, <3>2 DEF OrderAction
  <2> QED
    BY <1>4, <2>1 DEF BookKept
<1> QED
  BY <1>3, <1>4, <1>5

\* What processing a command leaves.
Processed(res, sound) == BookKept(res.book, sound) /\ Settles(res.cmd, sound)

\* Done with a book and trades that are sound.
LEMMA DoneProcessed ==
  ASSUME NEW bk, NEW sound \in BOOLEAN, BookKept(bk, sound),
         NEW cmd, IsSlot(cmd), NEW code,
         NEW trades \in Seq(TradeEvents(sound, IsFokBudget(cmd))),
         sound => Covered(cmd, trades),
         NEW events,
         events = trades \/ \E r \in ReturnEvents(sound) : events = <<r>> \o trades
  PROVE  Processed(Done(bk, cmd, code, events), sound)
<1>1. Settles(Answer(cmd, code, events), sound)
  BY DoneSettles
<1>2. PICK res : res = Done(bk, cmd, code, events)
  OBVIOUS
<1>3. res.book = bk /\ res.cmd = Answer(cmd, code, events)
  BY <1>2 DEF Done, Answer
<1> QED
  BY <1>1, <1>2, <1>3 DEF Processed

\* Done without a trade.
LEMMA DoneWithout ==
  ASSUME NEW bk, NEW sound \in BOOLEAN, BookKept(bk, sound),
         NEW cmd, IsSlot(cmd), NEW code,
         NEW events, events = <<>> \/ \E r \in ReturnEvents(sound) : events = <<r>>
  PROVE  Processed(Done(bk, cmd, code, events), sound)
<1> DEFINE T == TradeEvents(sound, IsFokBudget(cmd))
<1>1. PICK none \in Seq(T) : none = <<>>
  BY EmptySeq
<1>2. sound => Covered(cmd, none)
  BY <1>1 DEF Covered
<1>3. ASSUME NEW r \in ReturnEvents(sound), events = <<r>>
      PROVE  events = <<r>> \o none
  <2> DEFINE R == ReturnEvents(sound)
  <2>1. <<r>> \in Seq(R)
    OBVIOUS
  <2> HIDE DEF R
  <2>2. <<r>> \o <<>> = <<r>>
    BY <2>1, ConcatEmptySeq
  <2> QED
    BY <1>1, <1>3, <2>2
<1>4. events = none \/ \E r \in ReturnEvents(sound) : events = <<r>> \o none
  BY <1>1, <1>3
<1> HIDE DEF T
<1> QED
  BY <1>1, <1>2, <1>4, DoneProcessed DEF T

\* What is refused of a placement is returned.
LEMMA RejectIsReturn ==
  ASSUME NEW cmd, IsSlot(cmd), NEW size \in Int, NEW sound \in BOOLEAN,
         sound => size >= 0 /\ cmd.price >= 0 /\ cmd.reserveBidPrice >= 0
  PROVE  RejectEvent(cmd, size) \in ReturnEvents(sound)
<1>1. cmd.price \in Int /\ cmd.reserveBidPrice \in Int
  BY DEF IsSlot
<1>2. PICK ev : ev = RejectEvent(cmd, size)
  OBVIOUS
<1>3. /\ ev \in TypedEvent /\ ev.eventType = "REJECT" /\ ev.size = size
      /\ ev.price = cmd.price /\ ev.bidderHoldPrice = cmd.reserveBidPrice
  BY <1>1, <1>2 DEF RejectEvent, SingleEvent, TypedEvent
<1> QED
  BY <1>2, <1>3 DEF ReturnEvents

\* What is taken off an order is returned.
LEMMA ReduceIsReturn ==
  ASSUME NEW sound \in BOOLEAN, NEW side \in OrderAction, NEW order \in Orders(side, sound),
         NEW size \in Int, sound => size >= 0, NEW completed \in BOOLEAN
  PROVE  ReduceEvent(order, size, completed) \in ReturnEvents(sound)
<1>1. order \in TypedOrder(side) /\ (sound => SoundOrder(order))
  BY DEF Orders
<1>2. PICK ev : ev = ReduceEvent(order, size, completed)
  OBVIOUS
<1>3. /\ ev \in TypedEvent /\ ev.eventType = "REDUCE" /\ ev.size = size
      /\ ev.price = order.price /\ ev.bidderHoldPrice = order.reserveBidPrice
  BY <1>1, <1>2 DEF ReduceEvent, SingleEvent, TypedEvent, TypedOrder
<1> QED
  BY <1>1, <1>2, <1>3 DEF ReturnEvents, SoundOrder

\* A placement that R1 let through.
Placed(cmd) ==
  cmd.command = "PLACE_ORDER" /\ cmd.resultCode = "VALID_FOR_MATCHING_ENGINE"

\* The price of a limit order is within its hold.
LEMMA LimitWithinHold ==
  ASSUME NEW cmd, IsSlot(cmd), SoundRequest(cmd), Placed(cmd), ~ IsBudget(cmd)
  PROVE  /\ cmd.action = "BID" => cmd.price <= cmd.reserveBidPrice
         /\ cmd.action = "ASK" => PaysFee(cmd.price)
<1>1. AcceptablePrice(cmd)
  BY DEF SoundRequest, Placed
<1>2. cmd.price \in Int /\ cmd.reserveBidPrice \in Int
  BY DEF IsSlot
<1> QED
  BY <1>1, <1>2 DEF AcceptablePrice, PaysFee

\* The matching of a limit order.
LEMMA LimitMatch ==
  ASSUME NEW bk, NEW sound \in BOOLEAN, BookKept(bk, sound),
         NEW cmd, Unmatched(cmd, sound), Placed(cmd), cmd.orderType \in {"GTC", "IOC"}
  PROVE  LET match == Match(bk, cmd, cmd.size, MakersWithin(bk, cmd.action, cmd.price))
         IN /\ match.filled \in Int /\ match.filled <= cmd.size
            /\ match.events \in Seq(TradeEvents(sound, IsFokBudget(cmd)))
            /\ BookKept(match.book, sound)
<1>1. /\ cmd.action \in OrderAction /\ cmd.size \in Int /\ cmd.price \in Int
      /\ cmd.reserveBidPrice \in Int /\ IsSlot(cmd)
  BY DEF Unmatched, IsSlot
<1>2. ~ IsBudget(cmd) /\ IsFokBudget(cmd) = FALSE
  BY DEF IsBudget, IsFokBudget
<1>3. sound => /\ cmd.action = "BID" => cmd.price <= cmd.reserveBidPrice
               /\ cmd.action = "ASK" => PaysFee(cmd.price)
  BY <1>1, <1>2, LimitWithinHold DEF Unmatched
<1> DEFINE M == MakersOf(cmd.action, cmd.price, sound)
           E == TradeEvents(sound, FALSE)
<1>4. TradesInto(cmd, M, E)
  BY <1>1, <1>3, LimitTrades
<1>5. MakersWithin(bk, cmd.action, cmd.price) \in Seq(M)
  BY <1>1, MakersWithinIn
<1>6. \A o \in M : o \in Orders(Opposite(cmd.action), sound)
  BY DEF MakersOf
<1> HIDE DEF M, E
<1>7. PICK makers \in Seq(M) : makers = MakersWithin(bk, cmd.action, cmd.price)
  BY <1>5
<1>8. PICK match : match = Match(bk, cmd, cmd.size, makers)
  OBVIOUS
<1>9. /\ match.filled \in Int /\ match.filled <= cmd.size
      /\ match.events \in Seq(E)
      /\ BookKept(match.book, sound)
  BY <1>1, <1>4, <1>6, <1>8, MatchSound
<1> QED
  BY <1>2, <1>7, <1>8, <1>9 DEF E

\* Placing a GTC order.
LEMMA GtcProcessed ==
  ASSUME NEW bk, NEW sound \in BOOLEAN, BookKept(bk, sound),
         NEW cmd, Unmatched(cmd, sound), Placed(cmd), cmd.orderType = "GTC"
  PROVE  Processed(NewOrderPlaceGtc(bk, cmd), sound)
<1>1. PICK match :
        match = Match(bk, cmd, cmd.size, MakersWithin(bk, cmd.action, cmd.price))
  OBVIOUS
<1>2. /\ match.filled \in Int /\ match.filled <= cmd.size
      /\ match.events \in Seq(TradeEvents(sound, IsFokBudget(cmd)))
      /\ BookKept(match.book, sound)
  BY <1>1, LimitMatch
<1>3. /\ cmd.action \in OrderAction /\ cmd.size \in Int /\ cmd.price \in Int /\ cmd.uid \in Int
      /\ cmd.reserveBidPrice \in Int /\ cmd.orderId \in Int /\ IsSlot(cmd)
  BY DEF Unmatched, IsSlot
<1>4. ~ IsBudget(cmd) /\ ~ IsFokBudget(cmd)
  BY DEF IsBudget, IsFokBudget
<1>5. sound => /\ cmd.action = "BID" => cmd.price <= cmd.reserveBidPrice
               /\ cmd.action = "ASK" => PaysFee(cmd.price)
               /\ cmd.size >= 0 /\ cmd.price >= 0 /\ cmd.reserveBidPrice >= 0
  BY <1>3, <1>4, LimitWithinHold DEF Unmatched, SoundRequest, Placed
<1>6. PICK left \in Int : left = cmd.size - match.filled /\ left >= 0
  BY <1>2, <1>3
<1>7. PICK order : order = [orderId |-> cmd.orderId, uid |-> cmd.uid,
                            action |-> cmd.action, price |-> cmd.price,
                            size |-> cmd.size, filled |-> match.filled,
                            reserveBidPrice |-> cmd.reserveBidPrice]
  OBVIOUS
<1>8. sound => Covered(cmd, match.events)
  BY <1>4 DEF Covered
<1>9. order.action \in OrderAction /\ order \in Orders(order.action, sound)
  <2>1. order \in TypedOrder(cmd.action)
    BY <1>2, <1>3, <1>7 DEF TypedOrder
  <2>2. /\ order.action = cmd.action /\ order.price = cmd.price
        /\ order.reserveBidPrice = cmd.reserveBidPrice
        /\ Remaining(order) = left
    BY <1>6, <1>7 DEF Remaining
  <2>3. sound => SoundOrder(order)
    BY <1>5, <1>6, <2>2 DEF SoundOrder
  <2> QED
    BY <1>3, <2>1, <2>2, <2>3 DEF Orders
<1>10. BookKept(Rest(match.book, order), sound)
  BY <1>2, <1>9, RestKeeps
<1>11. RejectEvent(cmd, left) \in ReturnEvents(sound)
  BY <1>3, <1>5, <1>6, RejectIsReturn
<1> DEFINE res == NewOrderPlaceGtc(bk, cmd)
<1>12. \/ res = Done(match.book, cmd, "SUCCESS", match.events)
       \/ res = Done(match.book, cmd, "SUCCESS", <<RejectEvent(cmd, left)>> \o match.events)
       \/ res = Done(Rest(match.book, order), cmd, "SUCCESS", match.events)
  BY <1>1, <1>6, <1>7 DEF NewOrderPlaceGtc
<1> HIDE DEF res
<1>13. Processed(Done(match.book, cmd, "SUCCESS", match.events), sound)
  BY <1>2, <1>3, <1>8, DoneProcessed
<1>14. Processed(Done(match.book, cmd, "SUCCESS", <<RejectEvent(cmd, left)>> \o match.events), sound)
  <2>1. PICK events : events = <<RejectEvent(cmd, left)>> \o match.events
    OBVIOUS
  <2>2. \E r \in ReturnEvents(sound) : events = <<r>> \o match.events
    BY <1>11, <2>1
  <2>3. Processed(Done(match.book, cmd, "SUCCESS", events), sound)
    BY <1>2, <1>3, <1>8, <2>2, DoneProcessed
  <2> QED
    BY <2>1, <2>3
<1>15. Processed(Done(Rest(match.book, order), cmd, "SUCCESS", match.events), sound)
  BY <1>2, <1>3, <1>8, <1>10, DoneProcessed
<1> QED
  BY <1>12, <1>13, <1>14, <1>15 DEF res

\* Matching an IOC order.
LEMMA IocProcessed ==
  ASSUME NEW bk, NEW sound \in BOOLEAN, BookKept(bk, sound),
         NEW cmd, Unmatched(cmd, sound), Placed(cmd), cmd.orderType = "IOC"
  PROVE  Processed(NewOrderMatchIoc(bk, cmd), sound)
<1>1. PICK match :
        match = Match(bk, cmd, cmd.size, MakersWithin(bk, cmd.action, cmd.price))
  OBVIOUS
<1>2. /\ match.filled \in Int /\ match.filled <= cmd.size
      /\ match.events \in Seq(TradeEvents(sound, IsFokBudget(cmd)))
      /\ BookKept(match.book, sound)
  BY <1>1, LimitMatch
<1>3. cmd.size \in Int /\ IsSlot(cmd) /\ cmd.price \in Int /\ cmd.reserveBidPrice \in Int
  BY DEF Unmatched, IsSlot
<1>4. ~ IsFokBudget(cmd)
  BY DEF IsFokBudget
<1>5. PICK left \in Int : left = cmd.size - match.filled /\ left >= 0
  BY <1>2, <1>3
<1>6. sound => Covered(cmd, match.events)
  BY <1>4 DEF Covered
<1>7. RejectEvent(cmd, left) \in ReturnEvents(sound)
  BY <1>3, <1>5, RejectIsReturn DEF Unmatched, SoundRequest, Placed
<1>8. PICK events :
        events = (IF left = 0 THEN <<>> ELSE <<RejectEvent(cmd, left)>>) \o match.events
  OBVIOUS
<1>9. events = match.events \/ \E r \in ReturnEvents(sound) : events = <<r>> \o match.events
  <2>1. CASE left = 0
    <3>1. <<>> \o match.events = match.events
      BY <1>2, ConcatEmptySeq
    <3> QED
      BY <1>8, <2>1, <3>1
  <2>2. CASE left # 0
    BY <1>7, <1>8, <2>2
  <2> QED
    BY <2>1, <2>2
<1>10. Processed(Done(match.book, cmd, "SUCCESS", events), sound)
  BY <1>2, <1>3, <1>6, <1>9, DoneProcessed
<1>11. NewOrderMatchIoc(bk, cmd) = Done(match.book, cmd, "SUCCESS", events)
  BY <1>1, <1>5, <1>8 DEF NewOrderMatchIoc
<1> QED
  BY <1>10, <1>11

\* Matching a FOK_BUDGET order: its budget covers all its trades.
LEMMA FokProcessed ==
  ASSUME NEW bk, NEW sound \in BOOLEAN, BookKept(bk, sound),
         NEW cmd, Unmatched(cmd, sound), Placed(cmd), cmd.orderType = "FOK_BUDGET"
  PROVE  Processed(NewOrderMatchFokBudget(bk, cmd), sound)
<1>1. /\ cmd.action \in OrderAction /\ cmd.size \in Int /\ cmd.price \in Int
      /\ cmd.reserveBidPrice \in Int /\ IsSlot(cmd)
  BY DEF Unmatched, IsSlot
<1>2. IsFokBudget(cmd) = TRUE
  BY DEF IsFokBudget, Placed
<1>3. sound => cmd.action = "BID" /\ cmd.size >= 0 /\ cmd.price >= 0 /\ cmd.reserveBidPrice >= 0
  BY DEF Unmatched, SoundRequest, Placed
<1> DEFINE M == Orders(Opposite(cmd.action), sound)
           E == TradeEvents(sound, TRUE)
<1>4. TradesInto(cmd, M, E)
  BY <1>1, <1>3, BudgetTrades
<1>5. PICK makers \in Seq(M) : makers = bk[Opposite(cmd.action)]
  BY <1>1, Sides DEF BookKept
<1>6. \A o \in M : o \in Orders(Opposite(cmd.action), sound)
  OBVIOUS
<1>7. PICK match : match = Match(bk, cmd, cmd.size, makers)
  OBVIOUS
<1> HIDE DEF M, E
<1>8. match.events \in Seq(E) /\ BookKept(match.book, sound)
  BY <1>1, <1>4, <1>6, <1>7, MatchSound
<1>9. match.events \in Seq(TradeEvents(sound, IsFokBudget(cmd)))
  BY <1>2, <1>8 DEF E
<1>10. RejectEvent(cmd, cmd.size) \in ReturnEvents(sound)
  BY <1>1, <1>3, RejectIsReturn
<1>11. CASE match.filled = cmd.size /\ BudgetLimitSatisfied(cmd.action, Cost(match.events), cmd.price)
  <2>1. NewOrderMatchFokBudget(bk, cmd) = Done(match.book, cmd, "SUCCESS", match.events)
    BY <1>5, <1>7, <1>11 DEF NewOrderMatchFokBudget
  <2>2. sound => Covered(cmd, match.events)
    BY <1>3, <1>11 DEF Covered, BudgetLimitSatisfied
  <2>3. Processed(Done(match.book, cmd, "SUCCESS", match.events), sound)
    BY <1>1, <1>8, <1>9, <2>2, DoneProcessed
  <2> QED
    BY <2>1, <2>3
<1>12. CASE ~ (match.filled = cmd.size
               /\ BudgetLimitSatisfied(cmd.action, Cost(match.events), cmd.price))
  <2>1. PICK events : events = <<RejectEvent(cmd, cmd.size)>>
    OBVIOUS
  <2>2. NewOrderMatchFokBudget(bk, cmd) = Done(bk, cmd, "SUCCESS", events)
    BY <1>5, <1>7, <1>12, <2>1 DEF NewOrderMatchFokBudget
  <2>3. \E r \in ReturnEvents(sound) : events = <<r>>
    BY <1>10, <2>1
  <2>4. Processed(Done(bk, cmd, "SUCCESS", events), sound)
    BY <1>1, <2>3, DoneWithout
  <2> QED
    BY <2>2, <2>4
<1> QED
  BY <1>11, <1>12

\* A placement of any type.
LEMMA NewOrderProcessed ==
  ASSUME NEW bk, NEW sound \in BOOLEAN, BookKept(bk, sound),
         NEW cmd, Unmatched(cmd, sound), Placed(cmd)
  PROVE  Processed(NewOrder(bk, cmd), sound)
<1>1. cmd.size \in Int /\ IsSlot(cmd)
  BY DEF Unmatched, IsSlot
<1>2. RejectEvent(cmd, cmd.size) \in ReturnEvents(sound)
  BY <1>1, RejectIsReturn DEF Unmatched, SoundRequest, Placed
<1>3. PICK events : events = <<RejectEvent(cmd, cmd.size)>>
  OBVIOUS
<1>4. Processed(Done(bk, cmd, "SUCCESS", events), sound)
  <2>1. \E r \in ReturnEvents(sound) : events = <<r>>
    BY <1>2, <1>3
  <2> QED
    BY <1>1, <2>1, DoneWithout
<1> DEFINE res == NewOrder(bk, cmd)
<1>5. \/ cmd.orderType = "GTC" /\ res = NewOrderPlaceGtc(bk, cmd)
      \/ cmd.orderType = "IOC" /\ res = NewOrderMatchIoc(bk, cmd)
      \/ cmd.orderType = "FOK_BUDGET" /\ res = NewOrderMatchFokBudget(bk, cmd)
      \/ res = Done(bk, cmd, "SUCCESS", events)
  BY <1>3 DEF NewOrder
<1> HIDE DEF res
<1>6. Processed(res, sound)
  BY <1>4, <1>5, GtcProcessed, IocProcessed, FokProcessed
<1> QED
  BY <1>6 DEF res

\* Cancelling an order.
LEMMA CancelProcessed ==
  ASSUME NEW bk, NEW sound \in BOOLEAN, BookKept(bk, sound), NEW cmd, IsSlot(cmd)
  PROVE  Processed(CancelOrder(bk, cmd), sound)
<1>1. CASE Own(bk, cmd) = {}
  <2>1. PICK none : none = <<>>
    OBVIOUS
  <2>2. Processed(Done(bk, cmd, "MATCHING_UNKNOWN_ORDER_ID", none), sound)
    BY <2>1, DoneWithout
  <2> QED
    BY <1>1, <2>1, <2>2 DEF CancelOrder
<1>2. CASE Own(bk, cmd) # {}
  <2>1. PICK order \in Own(bk, cmd) : order = CHOOSE o \in Own(bk, cmd) : TRUE
    BY <1>2
  <2>2. order.action \in OrderAction /\ order \in Orders(order.action, sound)
    BY OwnInBook
  <2>3. PICK after : after = Without(bk, order)
    OBVIOUS
  <2>4. BookKept(after, sound)
    BY <2>2, <2>3, WithoutKeeps
  <2>5. PICK x : x = Sided(cmd, order.action)
    OBVIOUS
  <2>6. IsSlot(x)
    BY <2>2, <2>5, SidedIsSlot
  <2>7. PICK size \in Int : size = Remaining(order) /\ (sound => size >= 0)
    BY <2>2 DEF Orders, TypedOrder, SoundOrder, Remaining
  <2>8. PICK completed \in BOOLEAN : completed = TRUE
    OBVIOUS
  <2>9. ReduceEvent(order, size, completed) \in ReturnEvents(sound)
    BY <2>2, <2>7, ReduceIsReturn
  <2>10. PICK events : events = <<ReduceEvent(order, size, completed)>>
    OBVIOUS
  <2>11. Processed(Done(after, x, "SUCCESS", events), sound)
    <3>1. \E r \in ReturnEvents(sound) : events = <<r>>
      BY <2>9, <2>10
    <3> QED
      BY <2>4, <2>6, <3>1, DoneWithout
  <2>12. CancelOrder(bk, cmd) = Done(after, x, "SUCCESS", events)
    BY <1>2, <2>1, <2>3, <2>5, <2>7, <2>8, <2>10 DEF CancelOrder, Sided
  <2> QED
    BY <2>11, <2>12
<1> QED
  BY <1>1, <1>2

\* Reducing an order.
LEMMA ReduceProcessed ==
  ASSUME NEW bk, NEW sound \in BOOLEAN, BookKept(bk, sound), NEW cmd, IsSlot(cmd)
  PROVE  Processed(ReduceOrder(bk, cmd), sound)
<1>1. cmd.size \in Int
  BY DEF IsSlot
<1>2. PICK none : none = <<>>
  OBVIOUS
<1>3. \A code : Processed(Done(bk, cmd, code, none), sound)
  BY <1>2, DoneWithout
<1>4. CASE cmd.size <= 0 \/ Own(bk, cmd) = {}
  BY <1>1, <1>2, <1>3, <1>4 DEF ReduceOrder
<1>5. CASE cmd.size > 0 /\ Own(bk, cmd) # {}
  <2>1. PICK order \in Own(bk, cmd) : order = CHOOSE o \in Own(bk, cmd) : TRUE
    BY <1>5
  <2>2. order.action \in OrderAction /\ order \in Orders(order.action, sound)
    BY OwnInBook
  <2>3. order \in TypedOrder(order.action) /\ (sound => SoundOrder(order))
    BY <2>2 DEF Orders
  <2>4. PICK left \in Int : left = Remaining(order) /\ (sound => left >= 0)
    BY <2>3 DEF TypedOrder, SoundOrder, Remaining
  <2>5. PICK by \in Int : by = Min({left, cmd.size}) /\ by <= left /\ (sound => by >= 0)
    <3>1. /\ Min({left, cmd.size}) \in Int /\ Min({left, cmd.size}) <= left
          /\ Min({left, cmd.size}) \in {left, cmd.size}
      BY <1>1, MaxMinOfTwo
    <3> QED
      BY <1>1, <1>5, <2>4, <3>1
  <2>6. PICK removed \in BOOLEAN : removed = (by = left)
    OBVIOUS
  <2>7. PICK new : new = [order EXCEPT !.size = @ - by]
    OBVIOUS
  <2>8. new \in Orders(order.action, sound)
    <3>1. new \in TypedOrder(order.action)
      BY <2>3, <2>5, <2>7 DEF TypedOrder
    <3>2. /\ new.price = order.price /\ new.reserveBidPrice = order.reserveBidPrice
          /\ new.action = order.action /\ new.size = order.size - by
          /\ new.filled = order.filled /\ order.size \in Int /\ order.filled \in Int
      BY <2>3, <2>7 DEF TypedOrder
    <3>3. Remaining(new) = left - by
      BY <2>4, <2>5, <3>2 DEF Remaining
    <3>4. sound => SoundOrder(new)
      BY <2>3, <2>4, <2>5, <3>2, <3>3 DEF SoundOrder
    <3> QED
      BY <3>1, <3>4 DEF Orders
  <2>9. PICK after : after = IF removed THEN Without(bk, order) ELSE Replace(bk, order, new)
    OBVIOUS
  <2>10. BookKept(after, sound)
    BY <2>2, <2>8, <2>9, WithoutKeeps, ReplaceKeeps
  <2>11. PICK x : x = Sided(cmd, order.action)
    OBVIOUS
  <2>12. IsSlot(x)
    BY <2>2, <2>11, SidedIsSlot
  <2>13. ReduceEvent(order, by, removed) \in ReturnEvents(sound)
    BY <2>2, <2>5, ReduceIsReturn
  <2>14. PICK events : events = <<ReduceEvent(order, by, removed)>>
    OBVIOUS
  <2>15. Processed(Done(after, x, "SUCCESS", events), sound)
    <3>1. \E r \in ReturnEvents(sound) : events = <<r>>
      BY <2>13, <2>14
    <3> QED
      BY <2>10, <2>12, <3>1, DoneWithout
  <2>16. ReduceOrder(bk, cmd) = Done(after, x, "SUCCESS", events)
    <3>1. ~ (cmd.size <= 0)
      BY <1>1, <1>5
    <3> QED
      BY <1>5, <2>1, <2>4, <2>5, <2>6, <2>7, <2>9, <2>11, <2>14, <3>1 DEF ReduceOrder, Sided
  <2> QED
    BY <2>15, <2>16
<1> QED
  BY <1>1, <1>4, <1>5

\* An order with another price and fill.
LEMMA MovedIsTyped ==
  ASSUME NEW side, NEW order \in TypedOrder(side), NEW p \in Int, NEW f \in Int
  PROVE  [order EXCEPT !.price = p, !.filled = f] \in TypedOrder(side)
  BY DEF TypedOrder

\* Moving an order: what trades at the new price is sound when the price is
\* within the hold, which the matching engine checks of a bid and the sender
\* answers for of an ask.
LEMMA MoveProcessed ==
  ASSUME ExchangePair = TRUE,
         NEW bk, NEW sound \in BOOLEAN, BookKept(bk, sound),
         NEW cmd, Unmatched(cmd, sound), cmd.command = "MOVE_ORDER"
  PROVE  Processed(MoveOrder(bk, cmd), sound)
<1>1. IsSlot(cmd) /\ cmd.price \in Int /\ (sound => cmd.price >= 0 /\ PaysFee(cmd.price))
  BY DEF Unmatched, IsSlot, SoundRequest
<1>2. PICK none : none = <<>>
  OBVIOUS
<1>3. CASE Own(bk, cmd) = {}
  <2>1. Processed(Done(bk, cmd, "MATCHING_UNKNOWN_ORDER_ID", none), sound)
    BY <1>1, <1>2, DoneWithout
  <2> QED
    BY <1>2, <1>3, <2>1 DEF MoveOrder
<1>4. CASE Own(bk, cmd) # {}
  <2>1. PICK order \in Own(bk, cmd) : order = CHOOSE o \in Own(bk, cmd) : TRUE
    BY <1>4
  <2>2. order.action \in OrderAction /\ order \in Orders(order.action, sound)
    BY OwnInBook
  <2>3. order \in TypedOrder(order.action) /\ (sound => SoundOrder(order))
    BY <2>2 DEF Orders
  <2>4. PICK left \in Int : left = Remaining(order) /\ (sound => left >= 0)
    BY <2>3 DEF TypedOrder, SoundOrder, Remaining
  <2>5. PICK x : x = Sided(cmd, order.action)
    OBVIOUS
  <2>6. IsSlot(x)
    BY <1>1, <2>2, <2>5, SidedIsSlot
  <2>7. PICK before : before = Without(bk, order)
    OBVIOUS
  <2>8. BookKept(before, sound)
    BY <2>2, <2>7, WithoutKeeps
  <2>9. PICK match : match = Match(before, order, left, MakersWithin(bk, order.action, cmd.price))
    OBVIOUS
  <2>10. PICK rest : rest = [order EXCEPT !.price = cmd.price, !.filled = @ + match.filled]
    OBVIOUS
  <2>11. CASE order.action = "BID" /\ cmd.price > order.reserveBidPrice
    <3>1. MoveOrder(bk, cmd) = Done(bk, x, "MATCHING_MOVE_FAILED_PRICE_OVER_RISK_LIMIT", none)
      BY <1>2, <1>4, <2>1, <2>5, <2>11 DEF MoveOrder, Sided
    <3>2. Processed(Done(bk, x, "MATCHING_MOVE_FAILED_PRICE_OVER_RISK_LIMIT", none), sound)
      BY <1>2, <2>6, DoneWithout
    <3> QED
      BY <3>1, <3>2
  <2>12. CASE ~ (order.action = "BID" /\ cmd.price > order.reserveBidPrice)
    <3>1. order.reserveBidPrice \in Int
      BY <2>3 DEF TypedOrder
    <3>2. sound => /\ order.action = "BID" => cmd.price <= order.reserveBidPrice
                   /\ order.action = "ASK" => PaysFee(cmd.price)
      BY <1>1, <2>12, <3>1
    <3> DEFINE a == order.action
               M == MakersOf(a, cmd.price, sound)
               E == TradeEvents(sound, FALSE)
    <3>3. TradesInto(order, M, E)
      BY <1>1, <2>2, <3>1, <3>2, LimitTrades
    <3>4. PICK makers \in Seq(M) : makers = MakersWithin(bk, a, cmd.price)
      BY <2>2, MakersWithinIn
    <3>5. \A o \in M : o \in Orders(Opposite(a), sound)
      BY DEF MakersOf
    <3> HIDE DEF M, E
    <3>6. match = Match(before, order, left, makers)
      BY <2>9, <3>4
    <3>7. /\ match.filled \in Int /\ match.filled <= left
          /\ match.events \in Seq(E) /\ BookKept(match.book, sound)
      BY <2>2, <2>4, <2>8, <3>3, <3>5, <3>6, MatchSound
    <3>8. ~ IsFokBudget(x)
      <4>1. x.command = "MOVE_ORDER"
        BY <1>1, <2>5 DEF IsSlot, Sided
      <4> QED
        BY <4>1 DEF IsFokBudget
    <3>9. match.events \in Seq(TradeEvents(sound, IsFokBudget(x)))
      <4>1. IsFokBudget(x) = FALSE
        BY <3>8 DEF IsFokBudget
      <4> QED
        BY <3>7, <4>1 DEF E
    <3>10. sound => Covered(x, match.events)
      BY <3>8 DEF Covered
    <3>11. rest \in Orders(a, sound) /\ rest.action = a
      <4>1. rest \in TypedOrder(a)
        <5>1. PICK f \in Int : f = order.filled + match.filled
          BY <2>3, <3>7 DEF TypedOrder
        <5>2. PICK p \in Int : p = cmd.price
          BY <1>1
        <5>3. rest = [order EXCEPT !.price = p, !.filled = f]
          BY <2>10, <5>1, <5>2
        <5> QED
          BY <2>3, <5>3, MovedIsTyped
      <4>2. /\ rest.price = cmd.price /\ rest.reserveBidPrice = order.reserveBidPrice
            /\ rest.action = a /\ rest.size = order.size
            /\ rest.filled = order.filled + match.filled
            /\ order.size \in Int /\ order.filled \in Int
        BY <2>3, <2>10 DEF TypedOrder
      <4>3. Remaining(rest) = left - match.filled
        BY <2>4, <3>7, <4>2 DEF Remaining
      <4>4. sound => SoundOrder(rest)
        BY <1>1, <2>3, <2>4, <3>2, <3>7, <4>2, <4>3 DEF SoundOrder
      <4> QED
        BY <4>1, <4>2, <4>4 DEF Orders
    <3>12. BookKept(Rest(match.book, rest), sound)
      BY <2>2, <3>7, <3>11, RestKeeps
    <3>13. PICK after : after = IF Remaining(rest) = 0 THEN match.book ELSE Rest(match.book, rest)
      OBVIOUS
    <3>14. BookKept(after, sound)
      BY <3>7, <3>12, <3>13
    <3>15. Processed(Done(after, x, "SUCCESS", match.events), sound)
      BY <2>6, <3>9, <3>10, <3>14, DoneProcessed
    <3>16. MoveOrder(bk, cmd) = Done(after, x, "SUCCESS", match.events)
      BY <1>4, <2>1, <2>4, <2>5, <2>7, <2>9, <2>10, <2>12, <3>13 DEF MoveOrder, Sided
    <3> QED
      BY <3>15, <3>16
  <2> QED
    BY <2>11, <2>12
<1> QED
  BY <1>3, <1>4

\* A command that the book does not change for.
LEMMA Unprocessed ==
  ASSUME NEW sound \in BOOLEAN, NEW cmd, IsSlot(cmd), cmd.matcherEvent = <<>>
  PROVE  Settles(cmd, sound)
<1> DEFINE T == TradeEvents(sound, IsFokBudget(cmd))
<1>1. PICK none \in Seq(T) : none = <<>>
  BY EmptySeq
<1> HIDE DEF T
<1>2. none \in Seq(TypedEvent) /\ ~ Returned(none) /\ Trades(none) = none
  BY <1>1, TradesOnly DEF T
<1>3. sound => Covered(cmd, none)
  BY <1>1 DEF Covered
<1> QED
  BY <1>1, <1>2, <1>3 DEF Settles, T

\* Any command to a book.
LEMMA CommandProcessed ==
  ASSUME ExchangePair = TRUE,
         NEW bk, NEW sound \in BOOLEAN, BookKept(bk, sound),
         NEW cmd, Unmatched(cmd, sound)
  PROVE  Processed(ProcessCommand(bk, cmd), sound)
<1>1. IsSlot(cmd) /\ cmd.matcherEvent = <<>>
  BY DEF Unmatched
<1>2. PICK none : none = <<>>
  OBVIOUS
<1> DEFINE res == ProcessCommand(bk, cmd)
<1>3. CASE cmd.command = "MOVE_ORDER"
  BY <1>3, MoveProcessed DEF ProcessCommand
<1>4. CASE cmd.command = "CANCEL_ORDER"
  BY <1>1, <1>4, CancelProcessed DEF ProcessCommand
<1>5. CASE cmd.command = "REDUCE_ORDER"
  BY <1>1, <1>5, ReduceProcessed DEF ProcessCommand
<1>6. CASE cmd.command = "PLACE_ORDER"
  <2>1. CASE Placed(cmd)
    BY <1>6, <2>1, NewOrderProcessed DEF ProcessCommand, Placed
  <2>2. CASE ~ Placed(cmd)
    <3>1. PICK r : r = ProcessCommand(bk, cmd)
      OBVIOUS
    <3>2. r.book = bk /\ r.cmd = cmd
      BY <1>6, <2>2, <3>1 DEF ProcessCommand, Placed
    <3>3. Settles(cmd, sound)
      BY <1>1, Unprocessed
    <3> QED
      BY <3>1, <3>2, <3>3 DEF Processed
  <2> QED
    BY <2>1, <2>2
<1>7. CASE cmd.command = "ORDER_BOOK_REQUEST"
  <2>1. PICK x : x = [cmd EXCEPT !.marketData = GetL2MarketDataSnapshot(bk, cmd.size)]
    OBVIOUS
  <2>2. IsSlot(x)
    BY <1>1, <2>1 DEF IsSlot
  <2>3. Processed(Done(bk, x, "SUCCESS", none), sound)
    BY <1>2, <2>2, DoneWithout
  <2>4. ProcessCommand(bk, cmd) = Done(bk, x, "SUCCESS", none)
    BY <1>1, <1>2, <1>7, <2>1 DEF ProcessCommand
  <2> QED
    BY <2>3, <2>4
<1>8. CASE ~ (cmd.command \in {"MOVE_ORDER", "CANCEL_ORDER", "REDUCE_ORDER", "PLACE_ORDER",
                               "ORDER_BOOK_REQUEST"})
  <2>1. Processed(Done(bk, cmd, "MATCHING_UNSUPPORTED_COMMAND", none), sound)
    BY <1>1, <1>2, DoneWithout
  <2>2. ProcessCommand(bk, cmd) = Done(bk, cmd, "MATCHING_UNSUPPORTED_COMMAND", none)
    BY <1>1, <1>2, <1>8 DEF ProcessCommand
  <2> QED
    BY <2>1, <2>2
<1> QED
  BY <1>3, <1>4, <1>5, <1>6, <1>7, <1>8

-----------------------------------------------------------------------------
(***************************************************************************)
(* What the events of a command bring to whom.                             *)
(***************************************************************************)
Amounts(sound) == IF sound THEN Nat ELSE Int

Gains(sound) == [Currency -> Amounts(sound)]

\* What a risk engine relies on to take nothing from a maker or a taker.
FeesInOrder(sound) == sound => MakerFee <= TakerFee

\* Natural multiples keep the order of numbers.
LEMMA Monotone ==
  ASSUME NEW s \in Nat, NEW u \in Int, NEW v \in Int, u >= v
  PROVE  s * u >= s * v /\ s * u \in Int /\ s * v \in Int
<1>1. PICK d \in Nat : d = u - v
  OBVIOUS
<1>2. s * d \in Nat /\ s * v \in Int /\ s * u \in Int
  BY ProductIsNat, ProductIsInt
<1>3. u = v + d
  BY <1>1
<1>4. s * u = s * v + s * d
  BY <1>3, Distributive
<1> QED
  BY <1>2, <1>4

\* An amount of one currency.
LEMMA AmountIsGain ==
  ASSUME NEW sound \in BOOLEAN, NEW currency \in Currency, NEW v \in Amounts(sound)
  PROVE  Amount(currency, v) \in Gains(sound)
<1>1. 0 \in Amounts(sound)
  BY DEF Amounts
<1> QED
  BY <1>1 DEF Amount, ZeroBalance, Gains

\* Amounts of both.
LEMMA PairIsGain ==
  ASSUME NEW sound \in BOOLEAN, NEW b \in Amounts(sound), NEW q \in Amounts(sound)
  PROVE  [base |-> b, quote |-> q] \in Gains(sound)
  BY DEF Gains, Currency

Sizes(trades) == [i \in DOMAIN trades |-> trades[i].size]

Costs(trades) == [i \in DOMAIN trades |-> trades[i].size * trades[i].price]

Holds(trades) == [i \in DOMAIN trades |-> trades[i].size * trades[i].bidderHoldPrice]

\* A trade in numbers.
LEMMA TradeNumbers ==
  ASSUME NEW sound \in BOOLEAN, NEW budget \in BOOLEAN, NEW ev \in TradeEvents(sound, budget)
  PROVE  /\ ev.size \in Int /\ ev.price \in Int /\ ev.bidderHoldPrice \in Int
         /\ ev.matchedOrderUid \in Int
         /\ sound => /\ ev.size \in Nat /\ ev.price \in Nat
                     /\ ev.price * QuoteScale >= TakerFee
                     /\ ~ budget => ev.bidderHoldPrice >= ev.price
<1>1. ev \in TypedEvent /\ (sound => SoundTrade(ev, budget))
  BY DEF TradeEvents
<1>2. /\ ev.size \in Int /\ ev.price \in Int /\ ev.bidderHoldPrice \in Int
      /\ ev.matchedOrderUid \in Int
  BY <1>1 DEF TypedEvent
<1> QED
  BY <1>1, <1>2 DEF SoundTrade, PaysFee

\* The sums over trades, and how they compare.
LEMMA TradeSums ==
  ASSUME NEW sound \in BOOLEAN, NEW budget \in BOOLEAN,
         NEW trades \in Seq(TradeEvents(sound, budget))
  PROVE  /\ Total(Sizes(trades)) \in Amounts(sound)
         /\ Total(Costs(trades)) \in Int /\ Total(Holds(trades)) \in Int
         /\ sound => /\ Total(Costs(trades)) * QuoteScale >= TakerFee * Total(Sizes(trades))
                     /\ ~ budget => Total(Holds(trades)) >= Total(Costs(trades))
<1> DEFINE n == Len(trades)
<1>1. n \in Nat /\ DOMAIN trades = 1 .. n
  BY LenProperties
<1>2. \A i \in 1 .. n : trades[i] \in TradeEvents(sound, budget)
  BY ElementOfSeq
<1>3. QuoteScale \in Nat /\ TakerFee \in Nat
  BY FeeAssumption
<1>4. ASSUME NEW i \in 1 .. n
      PROVE  /\ trades[i].size \in Int
             /\ trades[i].size * trades[i].price \in Int
             /\ trades[i].size * trades[i].bidderHoldPrice \in Int
             /\ sound => /\ trades[i].size >= 0
                         /\ (trades[i].size * trades[i].price) * QuoteScale
                              >= TakerFee * trades[i].size
                         /\ ~ budget => trades[i].size * trades[i].bidderHoldPrice
                                          >= trades[i].size * trades[i].price
  <2>1. PICK ev \in TradeEvents(sound, budget) : ev = trades[i]
    BY <1>2
  <2>2. PICK s \in Int, p \in Int, h \in Int :
          /\ s = ev.size /\ p = ev.price /\ h = ev.bidderHoldPrice
          /\ sound => /\ s \in Nat /\ p \in Nat /\ p * QuoteScale >= TakerFee
                      /\ ~ budget => h >= p
    BY TradeNumbers
  <2>3. s * p \in Int /\ s * h \in Int
    BY ProductIsInt
  <2>4. sound => (s * p) * QuoteScale >= TakerFee * s
    <3> SUFFICES ASSUME sound PROVE (s * p) * QuoteScale >= TakerFee * s
      OBVIOUS
    <3>1. PICK u \in Int : u = p * QuoteScale
      BY <1>3, ProductIsInt
    <3>2. PICK v \in Int : v = TakerFee
      BY <1>3
    <3>3. s \in Nat /\ u >= v
      BY <2>2, <3>1, <3>2
    <3>4. s * u >= s * v
      BY <3>3, Monotone
    <3>5. s * u >= s * TakerFee
      BY <3>2, <3>4
    <3>6. (s * p) * QuoteScale = s * u
      BY <1>3, <3>1
    <3>7. s * TakerFee = TakerFee * s
      BY <1>3
    <3> QED
      BY <3>5, <3>6, <3>7
  <2>5. sound /\ ~ budget => s * h >= s * p
    BY <2>2, Monotone
  <2> QED
    BY <2>1, <2>2, <2>3, <2>4, <2>5
<1> DEFINE A == Sizes(trades)
           B == Costs(trades)
           C == Holds(trades)
<1>5. /\ A \in [1 .. n -> Int] /\ B \in [1 .. n -> Int] /\ C \in [1 .. n -> Int]
      /\ \A i \in 1 .. n : /\ A[i] = trades[i].size
                           /\ B[i] = trades[i].size * trades[i].price
                           /\ C[i] = trades[i].size * trades[i].bidderHoldPrice
  BY <1>1, <1>4 DEF Sizes, Costs, Holds
<1> HIDE DEF n, A, B, C
<1>6. /\ A \in Seq(Int) /\ B \in Seq(Int) /\ C \in Seq(Int)
      /\ Len(A) = n /\ Len(B) = n /\ Len(C) = n
  BY <1>1, <1>5, FunctionIsSeq
<1>7. Total(A) \in Int /\ Total(B) \in Int /\ Total(C) \in Int
  BY <1>6, TotalIsInt
<1>8. PICK zero \in Int, one \in Int : zero = 0 /\ one = 1
  OBVIOUS
<1>9. sound => Total(A) >= 0
  <2> SUFFICES ASSUME sound PROVE Total(A) >= 0
    OBVIOUS
  <2>1. ASSUME NEW i \in 1 .. Len(A) PROVE A[i] * one >= zero * A[i]
    <3>1. i \in 1 .. n
      BY <1>6
    <3>2. PICK a \in Nat : a = A[i]
      BY <1>4, <1>5, <3>1
    <3>3. a * one = a /\ zero * a = 0
      BY <1>8
    <3> QED
      BY <3>2, <3>3
  <2>2. Total(A) * one >= zero * Total(A)
    BY <1>6, <2>1, TotalsScaled
  <2> QED
    BY <1>7, <1>8, <2>2
<1>10. sound => Total(B) * QuoteScale >= TakerFee * Total(A)
  <2> SUFFICES ASSUME sound PROVE Total(B) * QuoteScale >= TakerFee * Total(A)
    OBVIOUS
  <2>1. PICK p \in Int, q \in Int : p = QuoteScale /\ q = TakerFee
    BY <1>3
  <2>2. \A i \in 1 .. Len(B) : B[i] * p >= q * A[i]
    BY <1>4, <1>5, <1>6, <2>1
  <2>3. Total(B) * p >= q * Total(A)
    BY <1>6, <2>2, TotalsScaled
  <2> QED
    BY <2>1, <2>3
<1>11. sound /\ ~ budget => Total(C) >= Total(B)
  <2> SUFFICES ASSUME sound, ~ budget PROVE Total(C) >= Total(B)
    OBVIOUS
  <2>1. \A i \in 1 .. Len(C) : C[i] * one >= one * B[i]
    BY <1>4, <1>5, <1>6, <1>8
  <2>2. Total(C) * one >= one * Total(B)
    BY <1>6, <2>1, TotalsScaled
  <2> QED
    BY <1>7, <1>8, <2>2
<1> QED
  BY <1>7, <1>9, <1>10, <1>11 DEF A, B, C, Amounts

\* What a trade brings to its maker.
LEMMA MakerGainSound ==
  ASSUME NEW sound \in BOOLEAN, FeesInOrder(sound), NEW budget \in BOOLEAN,
         NEW cmd, cmd.action \in OrderAction, sound /\ budget => cmd.action = "BID",
         NEW ev \in TradeEvents(sound, budget)
  PROVE  MakerGain(cmd, ev) \in Gains(sound)
<1>1. PICK s \in Int, p \in Int, h \in Int :
        /\ s = ev.size /\ p = ev.price /\ h = ev.bidderHoldPrice
        /\ sound => /\ s \in Nat /\ p \in Nat /\ p * QuoteScale >= TakerFee
                    /\ ~ budget => h >= p
  BY TradeNumbers
<1>2. /\ QuoteScale \in Nat /\ TakerFee \in Nat /\ BaseScale \in Nat /\ MakerFee \in Nat
      /\ sound => MakerFee <= TakerFee
  BY FeeAssumption DEF FeesInOrder
<1>3. CASE cmd.action = "ASK"
  <2>1. s * BaseScale \in Amounts(sound)
    BY <1>1, <1>2, ProductIsInt, ProductIsNat DEF Amounts
  <2>2. PICK d \in Int : d = h - p /\ (sound => d \in Nat)
    BY <1>1, <1>3
  <2>3. PICK u \in Int : u = d * QuoteScale /\ (sound => u \in Nat)
    BY <1>2, <2>2, ProductIsInt, ProductIsNat
  <2>4. PICK w \in Int : w = u + (TakerFee - MakerFee) /\ (sound => w \in Nat)
    BY <1>2, <2>3
  <2>5. s * w \in Amounts(sound)
    BY <1>1, <2>4, ProductIsInt, ProductIsNat DEF Amounts
  <2>6. MakerGain(cmd, ev) = [base |-> s * BaseScale, quote |-> s * w]
    BY <1>1, <1>3, <2>2, <2>3, <2>4 DEF MakerGain, AmountAsk, AmountBidReleaseCorrMaker
  <2> QED
    BY <2>1, <2>5, <2>6, PairIsGain
<1>4. CASE cmd.action = "BID"
  <2>1. PICK u \in Int : u = p * QuoteScale /\ (sound => u >= MakerFee)
    BY <1>1, <1>2, ProductIsInt
  <2>2. s * u \in Int /\ MakerFee * s \in Int /\ s * MakerFee = MakerFee * s
    BY <1>2, ProductIsInt
  <2>3. sound => s * u >= MakerFee * s
    BY <1>1, <1>2, <2>1, <2>2, Monotone
  <2>4. PICK v \in Amounts(sound) : v = s * u - MakerFee * s
    BY <2>2, <2>3 DEF Amounts
  <2>5. MakerGain(cmd, ev) = Amount("quote", v)
    BY <1>1, <1>4, <2>1, <2>4 DEF MakerGain, AmountBid
  <2> QED
    BY <2>5, AmountIsGain DEF Currency
<1> QED
  BY <1>3, <1>4 DEF OrderAction

\* What its trades bring to a taker.
LEMMA TakerGainSound ==
  ASSUME NEW sound \in BOOLEAN, NEW cmd, cmd.action \in OrderAction, cmd.price \in Int,
         NEW trades \in Seq(TradeEvents(sound, IsFokBudget(cmd))), trades # <<>>,
         sound => Covered(cmd, trades)
  PROVE  TakerGain(cmd, trades) \in Gains(sound)
<1>1. PICK budget \in BOOLEAN : budget = IsFokBudget(cmd)
  BY DEF IsFokBudget
<1>2. PICK size \in Int, sum \in Int, held \in Int :
        /\ size = Total(Sizes(trades)) /\ sum = Total(Costs(trades))
        /\ held = Total(Holds(trades))
        /\ sound => /\ size \in Nat /\ sum * QuoteScale >= TakerFee * size
                    /\ ~ budget => held >= sum
  <2>1. trades \in Seq(TradeEvents(sound, budget))
    BY <1>1
  <2>2. /\ Total(Sizes(trades)) \in Amounts(sound)
        /\ Total(Costs(trades)) \in Int /\ Total(Holds(trades)) \in Int
        /\ sound => /\ Total(Costs(trades)) * QuoteScale >= TakerFee * Total(Sizes(trades))
                    /\ ~ budget => Total(Holds(trades)) >= Total(Costs(trades))
    BY <2>1, TradeSums
  <2>3. Total(Sizes(trades)) \in Int /\ (sound => Total(Sizes(trades)) \in Nat)
    BY <2>2 DEF Amounts
  <2> QED
    BY <2>2, <2>3
<1>3. QuoteScale \in Nat /\ TakerFee \in Nat /\ BaseScale \in Nat
  BY FeeAssumption
<1>4. PICK paid \in Int : paid = IF IsFokBudget(cmd) THEN cmd.price ELSE held
  OBVIOUS
<1>5. /\ SumBy(LAMBDA ev : ev.size, trades) = size
      /\ Cost(trades) = sum
      /\ SumBy(LAMBDA ev : ev.size * ev.bidderHoldPrice, trades) = held
  BY <1>2 DEF SumBy, Sizes, Cost, Costs, Holds
<1>6. TakerGain(cmd, trades) =
        IF cmd.action = "ASK" THEN Amount("quote", sum * QuoteScale - TakerFee * size)
        ELSE [base |-> AmountAsk(size), quote |-> (paid - sum) * QuoteScale]
  BY <1>4, <1>5 DEF TakerGain
<1>7. CASE cmd.action = "ASK"
  <2>1. sum * QuoteScale \in Int /\ TakerFee * size \in Int
    BY <1>3, ProductIsInt
  <2>2. PICK v \in Amounts(sound) : v = sum * QuoteScale - TakerFee * size
    BY <1>2, <2>1 DEF Amounts
  <2> QED
    BY <1>6, <1>7, <2>2, AmountIsGain DEF Currency
<1>8. CASE cmd.action = "BID"
  <2>1. PICK b \in Amounts(sound) : b = AmountAsk(size)
    BY <1>2, <1>3, ProductIsInt, ProductIsNat DEF Amounts, AmountAsk
  <2>2. sound => paid >= sum
    BY <1>1, <1>2, <1>4, <1>5 DEF Covered
  <2>3. PICK d \in Int : d = paid - sum /\ (sound => d \in Nat)
    BY <2>2
  <2>4. PICK q \in Amounts(sound) : q = d * QuoteScale
    BY <1>3, <2>3, ProductIsInt, ProductIsNat DEF Amounts
  <2> QED
    BY <1>6, <1>8, <2>1, <2>3, <2>4, PairIsGain
<1> QED
  BY <1>7, <1>8 DEF OrderAction

\* What is returned to a taker.
LEMMA RefundSound ==
  ASSUME NEW sound \in BOOLEAN, NEW cmd, cmd.action \in OrderAction,
         NEW ev \in ReturnEvents(sound)
  PROVE  Refund(cmd, ev) \in Gains(sound)
<1>1. ev \in TypedEvent
  BY DEF ReturnEvents
<1>2. PICK s \in Int, p \in Int, h \in Int :
        /\ s = ev.size /\ p = ev.price /\ h = ev.bidderHoldPrice
        /\ sound => s \in Nat /\ p \in Nat /\ h \in Nat
  BY <1>1 DEF TypedEvent, ReturnEvents
<1>3. QuoteScale \in Nat /\ TakerFee \in Nat /\ BaseScale \in Nat
  BY FeeAssumption
<1>4. PICK x \in Amounts(sound) : x = s * BaseScale
  BY <1>2, <1>3, ProductIsInt, ProductIsNat DEF Amounts
<1>5. PICK y \in Amounts(sound) : y = p * QuoteScale + s * TakerFee
  <2>1. PICK a \in Int : a = p * QuoteScale /\ (sound => a \in Nat)
    BY <1>2, <1>3, ProductIsInt, ProductIsNat
  <2>2. PICK b \in Int : b = s * TakerFee /\ (sound => b \in Nat)
    BY <1>2, <1>3, ProductIsInt, ProductIsNat
  <2> QED
    BY <2>1, <2>2 DEF Amounts
<1>6. PICK z \in Amounts(sound) : z = s * (h * QuoteScale + TakerFee)
  <2>1. PICK a \in Int : a = h * QuoteScale /\ (sound => a \in Nat)
    BY <1>2, <1>3, ProductIsInt, ProductIsNat
  <2>2. PICK b \in Int : b = a + TakerFee /\ (sound => b \in Nat)
    BY <1>3, <2>1
  <2>3. s * b \in Int /\ (sound => s * b \in Nat)
    BY <1>2, <2>2, ProductIsInt, ProductIsNat
  <2> QED
    BY <2>1, <2>2, <2>3 DEF Amounts
<1>7. \/ Refund(cmd, ev) = Amount("base", x)
      \/ Refund(cmd, ev) = Amount("quote", y)
      \/ Refund(cmd, ev) = Amount("quote", z)
  BY <1>2, <1>4, <1>5, <1>6
     DEF Refund, AmountAsk, AmountBidTakerFeeForBudget, AmountBidTakerFee, OrderAction
<1> QED
  BY <1>7, AmountIsGain DEF Currency

CreditRecords(sound) == [uid : Int, gain : Gains(sound)]

\* All of what a command brings: what is returned to its user, what trades bring
\* to its user, and what they bring to the makers.
BackCredits(cmd) ==
  IF Returned(cmd.matcherEvent)
  THEN <<[uid |-> cmd.uid, gain |-> Refund(cmd, Head(cmd.matcherEvent))]>> ELSE <<>>

TakerCredits(cmd, trades) ==
  IF trades # <<>> THEN <<[uid |-> cmd.uid, gain |-> TakerGain(cmd, trades)]>> ELSE <<>>

MakerCredit(cmd, ev) == [uid |-> ev.matchedOrderUid, gain |-> MakerGain(cmd, ev)]

MakerCredits(cmd, trades) == [i \in DOMAIN trades |-> MakerCredit(cmd, trades[i])]

\* The credits of a command are those of the refund, of the taker and of the makers.
LEMMA CreditsParts ==
  ASSUME NEW sound \in BOOLEAN, FeesInOrder(sound), NEW cmd, Settles(cmd, sound),
         NEW trades, trades = Trades(cmd.matcherEvent)
  PROVE  /\ BackCredits(cmd) \in Seq(CreditRecords(sound))
         /\ TakerCredits(cmd, trades) \in Seq(CreditRecords(sound))
         /\ MakerCredits(cmd, trades) \in Seq(CreditRecords(sound))
         /\ Len(MakerCredits(cmd, trades)) = Len(trades)
         /\ Credits(cmd)
              = (BackCredits(cmd) \o TakerCredits(cmd, trades)) \o MakerCredits(cmd, trades)
<1> DEFINE T == TradeEvents(sound, IsFokBudget(cmd))
           S == CreditRecords(sound)
<1>1. cmd.action \in OrderAction /\ cmd.price \in Int /\ cmd.uid \in Int
  BY DEF Settles, IsSlot
<1>2. /\ trades \in Seq(T) /\ (sound => Covered(cmd, trades))
      /\ Returned(cmd.matcherEvent) => Head(cmd.matcherEvent) \in ReturnEvents(sound)
  BY DEF Settles
<1>3. BackCredits(cmd) \in Seq(S)
  <2>1. CASE Returned(cmd.matcherEvent)
    <3>1. PICK g \in Gains(sound) : g = Refund(cmd, Head(cmd.matcherEvent))
      BY <1>1, <1>2, <2>1, RefundSound
    <3>2. [uid |-> cmd.uid, gain |-> g] \in S
      BY <1>1 DEF CreditRecords
    <3> HIDE DEF S
    <3>3. <<[uid |-> cmd.uid, gain |-> g]>> \in Seq(S)
      BY <3>2
    <3> QED
      BY <2>1, <3>1, <3>3 DEF BackCredits
  <2>2. CASE ~ Returned(cmd.matcherEvent)
    BY <2>2, EmptySeq DEF BackCredits
  <2> QED
    BY <2>1, <2>2
<1>4. TakerCredits(cmd, trades) \in Seq(S)
  <2>1. CASE trades # <<>>
    <3>1. PICK g \in Gains(sound) : g = TakerGain(cmd, trades)
      BY <1>1, <1>2, <2>1, TakerGainSound
    <3>2. [uid |-> cmd.uid, gain |-> g] \in S
      BY <1>1 DEF CreditRecords
    <3> HIDE DEF S
    <3>3. <<[uid |-> cmd.uid, gain |-> g]>> \in Seq(S)
      BY <3>2
    <3> QED
      BY <2>1, <3>1, <3>3 DEF TakerCredits
  <2>2. CASE ~ (trades # <<>>)
    <3>1. TakerCredits(cmd, trades) = <<>>
      BY <2>2 DEF TakerCredits
    <3> QED
      BY <3>1, EmptySeq
  <2> QED
    BY <2>1, <2>2
<1>5. MakerCredits(cmd, trades) \in Seq(S) /\ Len(MakerCredits(cmd, trades)) = Len(trades)
  <2>1. Len(trades) \in Nat /\ DOMAIN trades = 1 .. Len(trades)
    BY <1>2, LenProperties
  <2>2. ASSUME NEW i \in 1 .. Len(trades)
        PROVE  MakerCredit(cmd, trades[i]) \in S
    <3>1. PICK budget \in BOOLEAN : budget = IsFokBudget(cmd)
      BY DEF IsFokBudget
    <3>2. PICK ev \in TradeEvents(sound, budget) : ev = trades[i]
      BY <1>2, <3>1, ElementOfSeq
    <3>3. trades # <<>>
      BY <2>1
    <3>4. sound /\ budget => cmd.action = "BID"
      BY <1>2, <3>1, <3>3 DEF Covered
    <3>5. MakerGain(cmd, ev) \in Gains(sound)
      BY <1>1, <3>4, MakerGainSound
    <3>6. ev.matchedOrderUid \in Int
      BY TradeNumbers
    <3> QED
      BY <3>2, <3>5, <3>6 DEF CreditRecords, MakerCredit
  <2> HIDE DEF S
  <2>3. MakerCredits(cmd, trades) \in [1 .. Len(trades) -> S]
    BY <2>1, <2>2 DEF MakerCredits
  <2> QED
    BY <2>1, <2>3, FunctionIsSeq
<1>6. Credits(cmd)
        = (BackCredits(cmd) \o TakerCredits(cmd, trades)) \o MakerCredits(cmd, trades)
  BY DEF Credits, BackCredits, TakerCredits, MakerCredits, MakerCredit
<1> QED
  BY <1>3, <1>4, <1>5, <1>6

\* What a matched command credits are amounts.
LEMMA CreditsSound ==
  ASSUME NEW sound \in BOOLEAN, FeesInOrder(sound), NEW cmd, Settles(cmd, sound)
  PROVE  Credits(cmd) \in Seq(CreditRecords(sound))
<1>1. PICK trades : trades = Trades(cmd.matcherEvent)
  OBVIOUS
<1>2. PICK S : S = CreditRecords(sound)
  OBVIOUS
<1>3. PICK b, t, m : /\ b = BackCredits(cmd) /\ t = TakerCredits(cmd, trades)
                     /\ m = MakerCredits(cmd, trades)
  OBVIOUS
<1>4. b \in Seq(S) /\ t \in Seq(S) /\ m \in Seq(S) /\ Credits(cmd) = (b \o t) \o m
  BY <1>1, <1>2, <1>3, CreditsParts
<1> QED
  BY <1>2, <1>4, ConcatProperties

\* The fees of a shard are whole.
LEMMA FeesOfIsInt ==
  ASSUME NEW sound \in BOOLEAN, NEW cmd, Settles(cmd, sound), NEW shard
  PROVE  FeesOf(shard, cmd) \in Int
<1> DEFINE trades == Trades(cmd.matcherEvent)
           rate(ev) == (IF UidForThisHandler(shard, cmd.uid) THEN TakerFee ELSE 0)
                         + (IF UidForThisHandler(shard, ev.matchedOrderUid) THEN MakerFee ELSE 0)
           fees == [i \in DOMAIN trades |-> trades[i].size * rate(trades[i])]
<1>1. PICK budget \in BOOLEAN : budget = IsFokBudget(cmd)
  BY DEF IsFokBudget
<1>2. trades \in Seq(TradeEvents(sound, budget))
  BY <1>1 DEF Settles
<1>3. FeesOf(shard, cmd) = Total(fees)
  BY DEF FeesOf, SumBy
<1> HIDE DEF trades
<1>4. Len(trades) \in Nat /\ DOMAIN trades = 1 .. Len(trades)
  BY <1>2, LenProperties
<1>5. ASSUME NEW i \in 1 .. Len(trades) PROVE trades[i].size * rate(trades[i]) \in Int
  <2>1. trades[i] \in TradeEvents(sound, budget)
    BY <1>2, ElementOfSeq
  <2>2. PICK s \in Int : s = trades[i].size
    BY <2>1, TradeNumbers
  <2>3. PICK r \in Int : r = rate(trades[i])
    BY FeeAssumption
  <2> HIDE DEF rate
  <2> QED
    BY <2>2, <2>3, ProductIsInt
<1> HIDE DEF rate
<1>6. fees \in [1 .. Len(trades) -> Int]
  BY <1>4, <1>5
<1> HIDE DEF fees
<1>7. fees \in Seq(Int)
  BY <1>4, <1>6, FunctionIsSeq
<1> QED
  BY <1>3, <1>7, TotalIsInt

-----------------------------------------------------------------------------
(***************************************************************************)
(* Profiles and engines.                                                   *)
(***************************************************************************)
ProfileMaps(sound) == UNION {[U -> Profile(Amounts(sound))] : U \in SUBSET Int}

\* A profile stays, and its transaction ids only go up.
Grows(before, after) ==
  \A uid \in DOMAIN before :
    /\ uid \in DOMAIN after
    /\ before[uid].adjustmentsCounter <= after[uid].adjustmentsCounter

\* What a map of profiles is.
LEMMA ProfileMap ==
  ASSUME NEW p, NEW sound
  PROVE  p \in ProfileMaps(sound) <=>
           /\ p = [uid \in DOMAIN p |-> p[uid]]
           /\ DOMAIN p \subseteq Int
           /\ \A uid \in DOMAIN p : p[uid] \in Profile(Amounts(sound))
<1> DEFINE A == Profile(Amounts(sound))
<1>1. p \in ProfileMaps(sound) <=> \E U \in SUBSET Int : p \in [U -> A]
  BY DEF ProfileMaps
<1> HIDE DEF A
<1>2. (\E U \in SUBSET Int : p \in [U -> A]) <=>
        /\ p = [uid \in DOMAIN p |-> p[uid]]
        /\ DOMAIN p \subseteq Int
        /\ \A uid \in DOMAIN p : p[uid] \in A
  OBVIOUS
<1> QED
  BY <1>1, <1>2 DEF A

\* A profile in its fields.
LEMMA ProfileFields ==
  ASSUME NEW sound \in BOOLEAN, NEW x \in Profile(Amounts(sound))
  PROVE  /\ x.adjustmentsCounter \in Nat
         /\ x.accounts \in [Currency -> Amounts(sound)]
         /\ \A currency \in Currency : x.accounts[currency] \in Int
<1>1. x.adjustmentsCounter \in Nat /\ x.accounts \in [Currency -> Amounts(sound)]
  BY DEF Profile
<1>2. \A a \in Amounts(sound) : a \in Int
  BY DEF Amounts
<1> QED
  BY <1>1, <1>2

\* Nothing changes.
LEMMA GrowsSame ==
  ASSUME NEW sound \in BOOLEAN, NEW p \in ProfileMaps(sound)
  PROVE  Grows(p, p)
<1>1. \A uid \in DOMAIN p : p[uid].adjustmentsCounter \in Nat
  BY ProfileMap, ProfileFields
<1> QED
  BY <1>1 DEF Grows

\* Growing twice.
LEMMA GrowsTwice ==
  ASSUME NEW sound \in BOOLEAN, NEW p \in ProfileMaps(sound), NEW q \in ProfileMaps(sound),
         NEW r \in ProfileMaps(sound), Grows(p, q), Grows(q, r)
  PROVE  Grows(p, r)
<1> SUFFICES ASSUME NEW uid \in DOMAIN p
             PROVE  /\ uid \in DOMAIN r
                    /\ p[uid].adjustmentsCounter <= r[uid].adjustmentsCounter
  BY DEF Grows
<1>1. uid \in DOMAIN q /\ p[uid].adjustmentsCounter <= q[uid].adjustmentsCounter
  BY DEF Grows
<1>2. uid \in DOMAIN r /\ q[uid].adjustmentsCounter <= r[uid].adjustmentsCounter
  BY <1>1 DEF Grows
<1>3. PICK a \in Int, b \in Int, c \in Int :
        /\ a = p[uid].adjustmentsCounter /\ b = q[uid].adjustmentsCounter
        /\ c = r[uid].adjustmentsCounter
  BY <1>1, <1>2, ProfileMap, ProfileFields
<1> QED
  BY <1>1, <1>2, <1>3

\* A profile takes the place of one with a counter that is not greater.
LEMMA ProfileReplaced ==
  ASSUME NEW sound \in BOOLEAN, NEW p \in ProfileMaps(sound), NEW uid \in DOMAIN p,
         NEW x \in Profile(Amounts(sound)),
         p[uid].adjustmentsCounter <= x.adjustmentsCounter,
         NEW q, q = [p EXCEPT ![uid] = x]
  PROVE  q \in ProfileMaps(sound) /\ Grows(p, q) /\ q[uid] = x /\ DOMAIN q = DOMAIN p
<1> DEFINE A == Profile(Amounts(sound))
<1>1. DOMAIN p \subseteq Int /\ \A u \in DOMAIN p : p[u] \in A
  BY ProfileMap
<1>2. \A u \in DOMAIN p : p[u].adjustmentsCounter \in Int
  BY <1>1, ProfileFields
<1> HIDE DEF A
<1>3. /\ DOMAIN q = DOMAIN p /\ q[uid] = x
      /\ \A u \in DOMAIN p : u # uid => q[u] = p[u]
      /\ q = [u \in DOMAIN q |-> q[u]]
  BY DEF A
<1>4. x \in A
  BY DEF A
<1>5. \A u \in DOMAIN q : q[u] \in A
  BY <1>1, <1>3, <1>4
<1>6. q \in ProfileMaps(sound)
  BY <1>1, <1>3, <1>5, ProfileMap DEF A
<1>7. Grows(p, q)
  BY <1>2, <1>3 DEF Grows
<1> QED
  BY <1>3, <1>6, <1>7

\* A new profile.
LEMMA ProfileAdded ==
  ASSUME NEW sound \in BOOLEAN, NEW p \in ProfileMaps(sound), NEW uid \in Int,
         uid \notin DOMAIN p, NEW status \in {"ACTIVE", "SUSPENDED"},
         NEW q, q = WithUser(p, uid, NewProfile(status))
  PROVE  q \in ProfileMaps(sound) /\ Grows(p, q) /\ uid \in DOMAIN q
<1> DEFINE A == Profile(Amounts(sound))
<1>1. DOMAIN p \subseteq Int /\ \A u \in DOMAIN p : p[u] \in A
  BY ProfileMap
<1>2. \A u \in DOMAIN p : p[u].adjustmentsCounter \in Int
  BY <1>1, ProfileFields
<1>3. PICK x : x = NewProfile(status)
  OBVIOUS
<1>4. x \in A
  <2>1. ZeroBalance \in [Currency -> Amounts(sound)]
    BY DEF ZeroBalance, Amounts
  <2> QED
    BY <1>3, <2>1 DEF NewProfile, Profile
<1> HIDE DEF A
<1>5. /\ DOMAIN q = {uid} \cup DOMAIN p /\ q[uid] = x
      /\ \A u \in DOMAIN p : q[u] = p[u]
      /\ q = [u \in DOMAIN q |-> q[u]]
  BY <1>3 DEF WithUser
<1>6. DOMAIN q \subseteq Int /\ \A u \in DOMAIN q : q[u] \in A
  BY <1>1, <1>4, <1>5
<1>7. q \in ProfileMaps(sound)
  BY <1>5, <1>6, ProfileMap DEF A
<1>8. Grows(p, q)
  BY <1>2, <1>5 DEF Grows
<1> QED
  BY <1>5, <1>7, <1>8

\* A credit is given to a profile, a new one if need be.
LEMMA CreditKept ==
  ASSUME NEW sound \in BOOLEAN, NEW p \in ProfileMaps(sound),
         NEW credit \in CreditRecords(sound)
  PROVE  Credit(p, credit) \in ProfileMaps(sound) /\ Grows(p, Credit(p, credit))
<1> DEFINE uid == credit.uid
<1>1. uid \in Int /\ credit.gain \in Gains(sound)
  BY DEF CreditRecords
<1>2. PICK q : q = GetUserProfileOrAddSuspended(p, uid)
  OBVIOUS
<1>3. q \in ProfileMaps(sound) /\ Grows(p, q) /\ uid \in DOMAIN q
  <2>1. CASE uid \in DOMAIN p
    <3>1. q = p
      BY <1>2, <2>1 DEF GetUserProfileOrAddSuspended
    <3> QED
      BY <2>1, <3>1, GrowsSame
  <2>2. CASE uid \notin DOMAIN p
    <3>1. PICK status \in {"ACTIVE", "SUSPENDED"} : status = "SUSPENDED"
      OBVIOUS
    <3>2. q = WithUser(p, uid, NewProfile(status))
      BY <1>2, <2>2, <3>1 DEF GetUserProfileOrAddSuspended
    <3> HIDE DEF uid
    <3> QED
      BY <1>1, <2>2, <3>2, ProfileAdded
  <2> QED
    BY <2>1, <2>2
<1>4. q[uid] \in Profile(Amounts(sound))
  BY <1>3, ProfileMap
<1>5. PICK sums : sums = [currency \in Currency |->
                            q[uid].accounts[currency] + credit.gain[currency]]
  OBVIOUS
<1>6. sums \in [Currency -> Amounts(sound)]
  <2>1. q[uid].accounts \in [Currency -> Amounts(sound)]
    BY <1>4, ProfileFields
  <2>2. \A a, b \in Amounts(sound) : a + b \in Amounts(sound)
    BY DEF Amounts
  <2> QED
    BY <1>1, <1>5, <2>1, <2>2 DEF Gains
<1>7. PICK x : x = [q[uid] EXCEPT !.accounts = sums]
  OBVIOUS
<1>8. x \in Profile(Amounts(sound)) /\ x.adjustmentsCounter = q[uid].adjustmentsCounter
  <2>1. PICK y \in Profile(Amounts(sound)) : y = q[uid]
    BY <1>4
  <2>2. x = [y EXCEPT !.accounts = sums]
    BY <1>7, <2>1
  <2> QED
    BY <1>6, <2>1, <2>2 DEF Profile
<1>9. q[uid].adjustmentsCounter <= x.adjustmentsCounter
  BY <1>4, <1>8, ProfileFields
<1>10. PICK r : r = [q EXCEPT ![uid] = x]
  OBVIOUS
<1>11. r \in ProfileMaps(sound) /\ Grows(q, r)
  <2> HIDE DEF uid
  <2> QED
    BY <1>3, <1>8, <1>9, <1>10, ProfileReplaced
<1>12. Credit(p, credit) = r
  BY <1>2, <1>5, <1>7, <1>10 DEF Credit
<1> QED
  BY <1>3, <1>11, <1>12, GrowsTwice

\* The profiles after the first i credits, for every i.
IsCredited(all, p, credits, sound) ==
  /\ all[0] = p
  /\ \A i \in 1 .. Len(credits) : all[i] = Credit(all[i - 1], credits[i])
  /\ \A i \in 0 .. Len(credits) : all[i] \in ProfileMaps(sound) /\ Grows(p, all[i])
  /\ CreditAll(p, credits) = all[Len(credits)]

\* Crediting one after the other reaches profiles at every step.
LEMMA CreditSteps ==
  ASSUME NEW sound \in BOOLEAN, NEW p \in ProfileMaps(sound),
         NEW credits \in Seq(CreditRecords(sound))
  PROVE  \E all : IsCredited(all, p, credits, sound)
<1> DEFINE N == Len(credits)
           V == {q \in ProfileMaps(sound) : Grows(p, q)}
           step == [i \in 1 .. N |-> [q \in V |-> Credit(q, credits[i])]]
           value(g, i) == IF i = 0 THEN p ELSE Credit(g[i - 1], credits[i])
           all == CHOOSE g : g = [i \in 0 .. N |-> value(g, i)]
<1>1. N \in Nat /\ \A i \in 1 .. N : credits[i] \in CreditRecords(sound)
  BY LenProperties, ElementOfSeq
<1>2. p \in V
  BY GrowsSame
<1>3. \A i \in 1 .. N : \A q \in V : Credit(q, credits[i]) \in V
  <2> SUFFICES ASSUME NEW i \in 1 .. N, NEW q \in V PROVE Credit(q, credits[i]) \in V
    OBVIOUS
  <2>1. Credit(q, credits[i]) \in ProfileMaps(sound) /\ Grows(q, Credit(q, credits[i]))
    BY <1>1, CreditKept
  <2> QED
    BY <2>1, GrowsTwice
<1> HIDE DEF N, V
<1>4. IsSteps(step, N, V)
  BY <1>3 DEF IsSteps
<1>5. \A i \in 1 .. N : \A q \in V : step[i][q] = Credit(q, credits[i])
  OBVIOUS
<1> HIDE DEF step
<1>6. PICK f : IsRun(f, N, V, p, step)
  BY <1>1, <1>2, <1>4, RunOfSteps
<1>7. /\ f \in [0 .. N -> V] /\ f[0] = p
      /\ \A i \in 1 .. N : f[i] = step[i][f[i - 1]]
  BY <1>6 DEF IsRun
<1>8. \A i \in 0 .. N : f[i] = value(f, i)
  <2> SUFFICES ASSUME NEW i \in 0 .. N PROVE f[i] = value(f, i)
    OBVIOUS
  <2>1. CASE i = 0
    BY <1>7, <2>1
  <2>2. CASE i # 0
    <3>1. i \in 1 .. N /\ f[i - 1] \in V
      BY <1>1, <1>7, <2>2
    <3> QED
      BY <1>5, <1>7, <2>2, <3>1
  <2> QED
    BY <2>1, <2>2
<1>9. f = [i \in 0 .. N |-> value(f, i)]
  BY <1>7, <1>8
<1>10. all = [i \in 0 .. N |-> value(all, i)]
  BY <1>9
<1>11. CreditAll(p, credits) = all[N]
  BY DEF CreditAll, N
<1> HIDE DEF all
<1>12. \A i \in 0 .. N : all[i] = value(all, i)
  BY <1>10
<1>13. all[0] \in V
  BY <1>1, <1>2, <1>12
<1>14. ASSUME NEW i \in 1 .. N, all[i - 1] \in V PROVE all[i] \in V
  BY <1>1, <1>3, <1>12, <1>14
<1>15. \A i \in 0 .. N : all[i] \in V
  BY <1>1, <1>13, <1>14, StaysIn
<1>16. all[0] = p /\ \A i \in 1 .. N : all[i] = Credit(all[i - 1], credits[i])
  BY <1>1, <1>12
<1>17. /\ \A i \in 1 .. Len(credits) : all[i] = Credit(all[i - 1], credits[i])
       /\ \A i \in 0 .. Len(credits) : all[i] \in V
       /\ CreditAll(p, credits) = all[Len(credits)]
  BY <1>11, <1>15, <1>16 DEF N
<1> QED
  BY <1>16, <1>17 DEF IsCredited, V

\* All credits are given.
LEMMA CreditAllKept ==
  ASSUME NEW sound \in BOOLEAN, NEW p \in ProfileMaps(sound),
         NEW credits \in Seq(CreditRecords(sound))
  PROVE  CreditAll(p, credits) \in ProfileMaps(sound) /\ Grows(p, CreditAll(p, credits))
<1>1. PICK all : IsCredited(all, p, credits, sound)
  BY CreditSteps
<1>2. Len(credits) \in 0 .. Len(credits)
  BY LenProperties
<1> QED
  BY <1>1, <1>2 DEF IsCredited

Engines(sound) ==
  [profiles : ProfileMaps(sound), fees : Int,
   external : [BalanceAdjustmentType -> [Currency -> Int]], symbols : SUBSET STRING]

\* The engines of IsEngine.
LEMMA EngineIs ==
  ASSUME NEW e, NEW sound
  PROVE  IsEngine(e, Amounts(sound)) <=> e \in Engines(sound)
<1> DEFINE A == Profile(Amounts(sound))
<1>1. e.profiles \in ProfileMaps(sound) <=>
        DOMAIN e.profiles \subseteq Int /\ e.profiles \in [DOMAIN e.profiles -> A]
  <2>1. PICK p : p = e.profiles
    OBVIOUS
  <2>2. p \in ProfileMaps(sound) <=>
          /\ p = [uid \in DOMAIN p |-> p[uid]]
          /\ DOMAIN p \subseteq Int
          /\ \A uid \in DOMAIN p : p[uid] \in A
    BY ProfileMap
  <2> HIDE DEF A
  <2> QED
    BY <2>1, <2>2
<1> HIDE DEF A
<1>2. e \in Engines(sound) <=>
        /\ e \in [profiles : {e.profiles}, fees : Int,
                  external : [BalanceAdjustmentType -> [Currency -> Int]],
                  symbols : SUBSET STRING]
        /\ e.profiles \in ProfileMaps(sound)
  BY DEF Engines
<1> QED
  BY <1>1, <1>2 DEF IsEngine, A

\* The engines that one grows into.
GrownFrom(engine, sound) == {e \in Engines(sound) : Grows(engine.profiles, e.profiles)}

\* Growing twice, from engine to engine.
LEMMA GrownTwice ==
  ASSUME NEW sound \in BOOLEAN, NEW e \in Engines(sound), NEW f \in GrownFrom(e, sound),
         NEW g \in GrownFrom(f, sound)
  PROVE  g \in GrownFrom(e, sound)
<1>1. /\ e.profiles \in ProfileMaps(sound) /\ f.profiles \in ProfileMaps(sound)
      /\ g.profiles \in ProfileMaps(sound) /\ g \in Engines(sound)
      /\ Grows(e.profiles, f.profiles) /\ Grows(f.profiles, g.profiles)
  BY DEF GrownFrom, Engines
<1> QED
  BY <1>1, GrowsTwice DEF GrownFrom

\* Growing by nothing.
LEMMA GrownSame ==
  ASSUME NEW sound \in BOOLEAN, NEW e \in Engines(sound)
  PROVE  e \in GrownFrom(e, sound)
<1>1. e.profiles \in ProfileMaps(sound)
  BY DEF Engines
<1> QED
  BY <1>1, GrowsSame DEF GrownFrom

\* An engine with other profiles.
LEMMA EngineWithProfiles ==
  ASSUME NEW sound \in BOOLEAN, NEW e \in Engines(sound), NEW p \in ProfileMaps(sound),
         NEW f, f = [e EXCEPT !.profiles = p]
  PROVE  f \in Engines(sound) /\ f.profiles = p /\ f.symbols = e.symbols
<1> DEFINE P == ProfileMaps(sound)
<1>1. e \in [profiles : P, fees : Int,
             external : [BalanceAdjustmentType -> [Currency -> Int]], symbols : SUBSET STRING]
  BY DEF Engines
<1>2. p \in P
  OBVIOUS
<1> HIDE DEF P
<1>3. f \in [profiles : P, fees : Int,
             external : [BalanceAdjustmentType -> [Currency -> Int]], symbols : SUBSET STRING]
  BY <1>1, <1>2
<1>4. f.profiles = p /\ f.symbols = e.symbols
  BY <1>1
<1> QED
  BY <1>3, <1>4 DEF Engines, P

\* An engine f that is engine e with x as the profile of a user.
ProfileSet(e, f, uid, x) ==
  /\ uid \in DOMAIN e.profiles
  /\ f.profiles = [e.profiles EXCEPT ![uid] = x]
  /\ f.symbols = e.symbols

\* What an adjustment makes of the profile it is for.
AdjustedTo(old, x, cmd) ==
  /\ old.adjustmentsCounter < cmd.orderId /\ x.adjustmentsCounter = cmd.orderId
  /\ x.accounts = [old.accounts EXCEPT ![cmd.symbol] = @ + cmd.price]

\* An adjustment is applied once for a transaction id, and overdraws nobody.
LEMMA AdjustmentIs ==
  ASSUME NEW sound \in BOOLEAN, NEW e \in Engines(sound), NEW cmd,
         cmd.uid \in Int, cmd.symbol \in Currency, cmd.price \in Int, cmd.orderId \in Int,
         cmd.orderType \in BalanceAdjustmentType,
         NEW res, res = AdjustBalance(e, cmd)
  PROVE  /\ res.engine \in GrownFrom(e, sound)
         /\ res.code # "VALID_FOR_MATCHING_ENGINE"
         /\ res.code # "SUCCESS" => res.engine = e
         /\ res.code = "SUCCESS" =>
              \E x : /\ ProfileSet(e, res.engine, cmd.uid, x)
                     /\ AdjustedTo(e.profiles[cmd.uid], x, cmd)
         /\ /\ cmd.uid \in DOMAIN e.profiles /\ cmd.price >= 0
            /\ e.profiles[cmd.uid].adjustmentsCounter < cmd.orderId
            => res.code = "SUCCESS"
<1>1. PICK code : code = AdjustmentCode(e.profiles, cmd.uid, cmd.symbol, cmd.price, cmd.orderId)
  OBVIOUS
<1>2. res.code = code
  BY <1>1 DEF AdjustBalance, BalanceAdjustment, Outcome
<1>3. code # "VALID_FOR_MATCHING_ENGINE"
  BY <1>1 DEF AdjustmentCode
<1>4. ASSUME cmd.uid \in DOMAIN e.profiles, cmd.price >= 0,
             e.profiles[cmd.uid].adjustmentsCounter < cmd.orderId
      PROVE  code = "SUCCESS"
  <2>1. PICK old : old = e.profiles[cmd.uid]
    OBVIOUS
  <2>2. old \in Profile(Amounts(sound))
    <3>1. e.profiles \in ProfileMaps(sound)
      BY DEF Engines
    <3> QED
      BY <1>4, <2>1, <3>1, ProfileMap
  <2>3. old.adjustmentsCounter \in Nat
    BY <2>2, ProfileFields
  <2>4. ~ AppliedBefore(old, cmd.orderId) /\ ~ Overdraws(old, cmd.symbol, cmd.price)
    BY <1>4, <2>1, <2>3 DEF AppliedBefore, Overdraws
  <2> QED
    BY <1>1, <1>4, <2>1, <2>4 DEF AdjustmentCode
<1>5. CASE code # "SUCCESS"
  <2>1. res.engine = e
    BY <1>1, <1>5 DEF AdjustBalance, BalanceAdjustment, Outcome
  <2> QED
    BY <1>2, <1>3, <1>5, <1>4, <2>1, GrownSame
<1>6. CASE code = "SUCCESS"
  <2> DEFINE p == e.profiles
             uid == cmd.uid
  <2>1. p \in ProfileMaps(sound)
    BY DEF Engines
  <2>2. uid \in DOMAIN p
    BY <1>1, <1>6 DEF AdjustmentCode
  <2>3. PICK old \in Profile(Amounts(sound)) : old = p[uid]
    BY <2>1, <2>2, ProfileMap
  <2>4. ~ AppliedBefore(old, cmd.orderId) /\ ~ Overdraws(old, cmd.symbol, cmd.price)
    BY <1>1, <1>6, <2>2, <2>3 DEF AdjustmentCode
  <2>5. old.adjustmentsCounter < cmd.orderId /\ cmd.orderId \in Nat
    <3>1. old.adjustmentsCounter \in Nat
      BY ProfileFields
    <3> QED
      BY <2>4, <3>1 DEF AppliedBefore
  <2>6. PICK a \in Amounts(sound) : a = old.accounts[cmd.symbol] + cmd.price
    <3>1. old.accounts[cmd.symbol] \in Int /\ old.accounts[cmd.symbol] \in Amounts(sound)
      BY ProfileFields
    <3> QED
      BY <2>4, <3>1 DEF Overdraws, Amounts
  <2>7. PICK sums : sums = [old.accounts EXCEPT ![cmd.symbol] = a]
    OBVIOUS
  <2>8. sums \in [Currency -> Amounts(sound)]
    BY <2>6, <2>7, ProfileFields
  <2>9. PICK x : x = [old EXCEPT !.accounts = sums, !.adjustmentsCounter = cmd.orderId]
    OBVIOUS
  <2>10. /\ x \in Profile(Amounts(sound)) /\ x.adjustmentsCounter = cmd.orderId
         /\ x.accounts = sums
    BY <2>5, <2>8, <2>9 DEF Profile
  <2>11. PICK q : q = [p EXCEPT ![uid] = x]
    OBVIOUS
  <2>12. q \in ProfileMaps(sound) /\ Grows(p, q) /\ q[uid] = x /\ DOMAIN q = DOMAIN p
    <3>1. p[uid].adjustmentsCounter <= x.adjustmentsCounter
      <4>1. old.adjustmentsCounter \in Nat
        BY ProfileFields
      <4> QED
        BY <2>3, <2>5, <2>10, <4>1
    <3> HIDE DEF p, uid
    <3> QED
      BY <2>1, <2>2, <2>10, <2>11, <3>1, ProfileReplaced
  <2>13. q = [p EXCEPT ![uid].accounts[cmd.symbol] = @ + cmd.price,
                       ![uid].adjustmentsCounter = cmd.orderId]
    <3> HIDE DEF p, uid
    <3> QED
      BY <2>2, <2>3, <2>6, <2>7, <2>9, <2>11
  <2>14. BalanceAdjustment(p, uid, cmd.symbol, cmd.price, cmd.orderId) = Outcome(q, "SUCCESS")
    BY <1>1, <1>6, <2>13 DEF BalanceAdjustment
  <2>15. res.engine = [e EXCEPT !.profiles = q,
                                !.external[cmd.orderType][cmd.symbol] = @ - cmd.price]
    BY <2>14 DEF AdjustBalance, Outcome
  <2>16. PICK f : f = [e EXCEPT !.profiles = q]
    OBVIOUS
  <2>17. f \in Engines(sound) /\ f.profiles = q /\ f.symbols = e.symbols
    BY <2>12, <2>16, EngineWithProfiles
  <2>18. PICK external : external = [f.external EXCEPT ![cmd.orderType][cmd.symbol] = @ - cmd.price]
    OBVIOUS
  <2>19. external \in [BalanceAdjustmentType -> [Currency -> Int]]
    <3>1. f.external \in [BalanceAdjustmentType -> [Currency -> Int]]
      BY <2>17 DEF Engines
    <3> QED
      BY <2>18, <3>1
  <2>20. res.engine = [f EXCEPT !.external = external]
    <3>1. e \in [profiles : {p}, fees : Int,
                 external : [BalanceAdjustmentType -> [Currency -> Int]], symbols : SUBSET STRING]
      BY DEF Engines
    <3> QED
      BY <2>15, <2>16, <2>18, <3>1
  <2>21. /\ res.engine \in Engines(sound) /\ res.engine.profiles = q
         /\ res.engine.symbols = e.symbols
    <3> DEFINE P == ProfileMaps(sound)
    <3>1. f \in [profiles : P, fees : Int,
                 external : [BalanceAdjustmentType -> [Currency -> Int]], symbols : SUBSET STRING]
      BY <2>17 DEF Engines
    <3> HIDE DEF P
    <3>2. res.engine \in [profiles : P, fees : Int,
                 external : [BalanceAdjustmentType -> [Currency -> Int]], symbols : SUBSET STRING]
      BY <2>19, <2>20, <3>1
    <3>3. res.engine.profiles = f.profiles /\ res.engine.symbols = f.symbols
      BY <2>20, <3>1
    <3> QED
      BY <2>17, <3>2, <3>3 DEF P, Engines
  <2>22. res.engine \in GrownFrom(e, sound)
    BY <2>12, <2>21 DEF GrownFrom
  <2>23. ProfileSet(e, res.engine, cmd.uid, x)
    BY <2>2, <2>11, <2>21 DEF ProfileSet
  <2>24. AdjustedTo(e.profiles[cmd.uid], x, cmd)
    <3>1. x.accounts = [old.accounts EXCEPT ![cmd.symbol] = @ + cmd.price]
      BY <2>6, <2>7, <2>10
    <3>2. AdjustedTo(old, x, cmd)
      BY <2>5, <2>10, <3>1 DEF AdjustedTo
    <3> QED
      BY <2>3, <3>2
  <2> QED
    BY <1>2, <1>3, <1>6, <2>22, <2>23, <2>24
<1> QED
  BY <1>5, <1>6

\* An adjustment that is applied is applied to a profile which has not seen its id.
LEMMA AdjustmentKept ==
  ASSUME NEW sound \in BOOLEAN, NEW e \in Engines(sound), NEW cmd,
         cmd.uid \in Int, cmd.symbol \in Currency, cmd.price \in Int, cmd.orderId \in Int,
         cmd.orderType \in BalanceAdjustmentType,
         NEW res, res = AdjustBalance(e, cmd)
  PROVE  /\ res.engine \in GrownFrom(e, sound)
         /\ res.code = "SUCCESS" =>
              /\ cmd.uid \in DOMAIN e.profiles
              /\ e.profiles[cmd.uid].adjustmentsCounter < cmd.orderId
              /\ cmd.uid \in DOMAIN res.engine.profiles
              /\ res.engine.profiles[cmd.uid].adjustmentsCounter = cmd.orderId
         /\ res.code # "VALID_FOR_MATCHING_ENGINE"
<1>1. res.engine \in GrownFrom(e, sound) /\ res.code # "VALID_FOR_MATCHING_ENGINE"
  BY AdjustmentIs
<1>2. ASSUME res.code = "SUCCESS"
      PROVE  /\ cmd.uid \in DOMAIN e.profiles
             /\ e.profiles[cmd.uid].adjustmentsCounter < cmd.orderId
             /\ cmd.uid \in DOMAIN res.engine.profiles
             /\ res.engine.profiles[cmd.uid].adjustmentsCounter = cmd.orderId
  <2>1. PICK x : /\ ProfileSet(e, res.engine, cmd.uid, x)
                 /\ AdjustedTo(e.profiles[cmd.uid], x, cmd)
    BY <1>2, AdjustmentIs
  <2> QED
    BY <2>1 DEF ProfileSet, AdjustedTo
<1> QED
  BY <1>1, <1>2

\* Another profile for a user, with the counter it had.
LEMMA EngineWithProfile ==
  ASSUME NEW sound \in BOOLEAN, NEW e \in Engines(sound), NEW uid \in DOMAIN e.profiles,
         NEW x \in Profile(Amounts(sound)),
         x.adjustmentsCounter = e.profiles[uid].adjustmentsCounter,
         NEW q, q = [e.profiles EXCEPT ![uid] = x]
  PROVE  [e EXCEPT !.profiles = q] \in GrownFrom(e, sound)
<1> DEFINE p == e.profiles
<1>1. p \in ProfileMaps(sound)
  BY DEF Engines
<1>2. p[uid].adjustmentsCounter <= x.adjustmentsCounter
  BY ProfileFields
<1>3. q \in ProfileMaps(sound) /\ Grows(p, q)
  <2> HIDE DEF p
  <2>1. uid \in DOMAIN p /\ q = [p EXCEPT ![uid] = x]
    BY DEF p
  <2> QED
    BY <1>1, <1>2, <2>1, ProfileReplaced
<1>4. PICK f : f = [e EXCEPT !.profiles = q]
  OBVIOUS
<1>5. f \in Engines(sound) /\ f.profiles = q
  BY <1>3, <1>4, EngineWithProfiles
<1>6. f \in GrownFrom(e, sound)
  BY <1>3, <1>5 DEF GrownFrom
<1> QED
  BY <1>4, <1>6

\* What a hold makes of the profile it is taken from.
HeldOf(old, x, cmd) ==
  /\ OrderHoldAmount(cmd) \in Int
  /\ x.accounts = [old.accounts EXCEPT ![HoldCurrency(cmd)] = @ - OrderHoldAmount(cmd)]

\* The check of R1 holds no more than there is.
LEMMA RiskCheckKept ==
  ASSUME NEW sound \in BOOLEAN, NEW e \in Engines(sound), NEW cmd, IsSlot(cmd),
         NEW res, res = PlaceOrderRiskCheck(e, cmd)
  PROVE  /\ res.engine \in GrownFrom(e, sound)
         /\ res.code = "VALID_FOR_MATCHING_ENGINE" => AcceptablePrice(cmd)
         /\ res.code # "SUCCESS"
         /\ res.code # "VALID_FOR_MATCHING_ENGINE" => res.engine = e
         /\ res.code = "VALID_FOR_MATCHING_ENGINE" =>
              /\ cmd.symbol \in e.symbols
              /\ \E x : /\ ProfileSet(e, res.engine, cmd.uid, x)
                        /\ HeldOf(e.profiles[cmd.uid], x, cmd)
<1> DEFINE uid == cmd.uid
           Passes == AcceptablePrice(cmd) /\ Enough(e.profiles[uid].accounts, cmd)
<1>1. CASE ~ (uid \in DOMAIN e.profiles /\ cmd.symbol \in e.symbols /\ Passes)
  <2>1. /\ res.engine = e
        /\ res.code \in {"AUTH_INVALID_USER", "INVALID_SYMBOL", "RISK_NSF"}
    <3>1. CASE uid \notin DOMAIN e.profiles
      BY <3>1 DEF PlaceOrderRiskCheck
    <3>2. CASE uid \in DOMAIN e.profiles /\ cmd.symbol \notin e.symbols
      BY <3>2 DEF PlaceOrderRiskCheck
    <3>3. CASE uid \in DOMAIN e.profiles /\ cmd.symbol \in e.symbols
      BY <1>1, <3>3 DEF PlaceOrderRiskCheck
    <3> QED
      BY <3>1, <3>2, <3>3
  <2> QED
    BY <2>1, GrownSame
<1>2. CASE uid \in DOMAIN e.profiles /\ cmd.symbol \in e.symbols /\ Passes
  <2>1. res = [engine |-> [e EXCEPT !.profiles[uid].accounts[HoldCurrency(cmd)] =
                             @ - OrderHoldAmount(cmd)],
               code |-> "VALID_FOR_MATCHING_ENGINE"]
    BY <1>2 DEF PlaceOrderRiskCheck
  <2>2. PICK c \in Currency : c = HoldCurrency(cmd)
    BY DEF HoldCurrency, Currency
  <2>3. PICK hold \in Int : hold = OrderHoldAmount(cmd)
    <3>1. cmd.size \in Int /\ cmd.price \in Int /\ cmd.reserveBidPrice \in Int
      BY DEF IsSlot
    <3>2. BaseScale \in Nat /\ QuoteScale \in Nat /\ TakerFee \in Nat
      BY FeeAssumption
    <3>3. cmd.size * BaseScale \in Int
      BY <3>1, <3>2, ProductIsInt
    <3>4. cmd.price * QuoteScale + cmd.size * TakerFee \in Int
      <4>1. cmd.price * QuoteScale \in Int /\ cmd.size * TakerFee \in Int
        BY <3>1, <3>2, ProductIsInt
      <4> QED
        BY <4>1
    <3>5. cmd.size * (cmd.reserveBidPrice * QuoteScale + TakerFee) \in Int
      <4>1. PICK a \in Int : a = cmd.reserveBidPrice * QuoteScale
        BY <3>1, <3>2, ProductIsInt
      <4>2. PICK b \in Int : b = a + TakerFee
        BY <3>2
      <4>3. cmd.size * b \in Int
        BY <3>1, ProductIsInt
      <4> QED
        BY <4>1, <4>2, <4>3
    <3> QED
      BY <3>3, <3>4, <3>5
         DEF OrderHoldAmount, AmountAsk, AmountBidTakerFeeForBudget, AmountBidTakerFee
  <2>4. PICK old \in Profile(Amounts(sound)) : old = e.profiles[uid]
    <3>1. e.profiles \in ProfileMaps(sound)
      BY DEF Engines
    <3> QED
      BY <1>2, <3>1, ProfileMap
  <2>5. old.accounts[c] >= hold
    BY <1>2, <2>2, <2>3, <2>4 DEF Enough
  <2>6. PICK a \in Amounts(sound) : a = old.accounts[c] - hold
    BY <2>5, ProfileFields DEF Amounts
  <2>7. PICK sums : sums = [old.accounts EXCEPT ![c] = a]
    OBVIOUS
  <2>8. sums \in [Currency -> Amounts(sound)]
    BY <2>7, ProfileFields
  <2>9. PICK x : x = [old EXCEPT !.accounts = sums]
    OBVIOUS
  <2>10. /\ x \in Profile(Amounts(sound)) /\ x.adjustmentsCounter = old.adjustmentsCounter
         /\ x.accounts = sums
    BY <2>8, <2>9 DEF Profile
  <2>11. PICK q : q = [e.profiles EXCEPT ![uid] = x]
    OBVIOUS
  <2>12. [e EXCEPT !.profiles = q] \in GrownFrom(e, sound)
    <3> HIDE DEF uid
    <3> QED
      BY <1>2, <2>4, <2>10, <2>11, EngineWithProfile
  <2>13. res.engine = [e EXCEPT !.profiles = q]
    <3>1. e \in [profiles : {e.profiles}, fees : Int,
                 external : [BalanceAdjustmentType -> [Currency -> Int]], symbols : SUBSET STRING]
      BY DEF Engines
    <3>2. e.profiles = [u \in DOMAIN e.profiles |-> e.profiles[u]]
      <4>1. e.profiles \in ProfileMaps(sound)
        BY DEF Engines
      <4> QED
        BY <4>1, ProfileMap
    <3> QED
      BY <1>2, <2>1, <2>2, <2>3, <2>4, <2>6, <2>7, <2>9, <2>11, <3>1, <3>2
  <2>14. ProfileSet(e, res.engine, cmd.uid, x)
    <3>1. q \in ProfileMaps(sound)
      <4>1. PICK f \in GrownFrom(e, sound) : f = [e EXCEPT !.profiles = q]
        BY <2>12
      <4>2. f.profiles = q /\ f.profiles \in ProfileMaps(sound)
        BY <4>1 DEF GrownFrom, Engines
      <4> QED
        BY <4>2
    <3>2. res.engine.profiles = q /\ res.engine.symbols = e.symbols
      BY <2>13, <3>1, EngineWithProfiles
    <3> QED
      BY <1>2, <2>11, <3>2 DEF ProfileSet
  <2>15. HeldOf(e.profiles[cmd.uid], x, cmd)
    <3>1. x.accounts = [old.accounts EXCEPT ![HoldCurrency(cmd)] = @ - OrderHoldAmount(cmd)]
      BY <2>2, <2>3, <2>6, <2>7, <2>10
    <3>2. HeldOf(old, x, cmd)
      BY <2>3, <3>1 DEF HeldOf
    <3> QED
      BY <2>4, <3>2
  <2> QED
    BY <1>2, <2>1, <2>12, <2>13, <2>14, <2>15
<1> QED
  BY <1>1, <1>2

\* Adding a user, or resuming one, takes no profile away.
LEMMA UsersGrow ==
  ASSUME NEW sound \in BOOLEAN, NEW e \in Engines(sound), NEW uid \in Int,
         NEW res, res = AddUser(e.profiles, uid) \/ res = ResumeUser(e.profiles, uid)
  PROVE  /\ [e EXCEPT !.profiles = res.profiles] \in GrownFrom(e, sound)
         /\ res.code # "VALID_FOR_MATCHING_ENGINE"
<1> DEFINE p == e.profiles
<1>1. p \in ProfileMaps(sound)
  BY DEF Engines
<1>2. res.code # "VALID_FOR_MATCHING_ENGINE"
  BY DEF AddUser, ResumeUser, Outcome
<1>3. \/ res.profiles = p
      \/ uid \notin DOMAIN p /\ res.profiles = WithUser(p, uid, NewProfile("ACTIVE"))
      \/ uid \in DOMAIN p /\ res.profiles = [p EXCEPT ![uid].userStatus = "ACTIVE"]
  BY DEF AddUser, ResumeUser, Outcome
<1>4. PICK q : q = res.profiles
  OBVIOUS
<1>5. q \in ProfileMaps(sound) /\ Grows(p, q)
  <2> HIDE DEF p
  <2>1. CASE q = p
    BY <1>1, <2>1, GrowsSame
  <2>2. CASE uid \notin DOMAIN p /\ q = WithUser(p, uid, NewProfile("ACTIVE"))
    <3>1. PICK status \in {"ACTIVE", "SUSPENDED"} : status = "ACTIVE"
      OBVIOUS
    <3> QED
      BY <1>1, <2>2, <3>1, ProfileAdded
  <2>3. CASE uid \in DOMAIN p /\ q = [p EXCEPT ![uid].userStatus = "ACTIVE"]
    <3>1. PICK old \in Profile(Amounts(sound)) : old = p[uid]
      BY <1>1, <2>3, ProfileMap
    <3>2. PICK x : x = [old EXCEPT !.userStatus = "ACTIVE"]
      OBVIOUS
    <3>3. x \in Profile(Amounts(sound)) /\ x.adjustmentsCounter = old.adjustmentsCounter
      BY <3>2 DEF Profile
    <3>4. q = [p EXCEPT ![uid] = x]
      BY <2>3, <3>1, <3>2
    <3>5. p[uid].adjustmentsCounter <= x.adjustmentsCounter
      BY <3>1, <3>3, ProfileFields
    <3>6. uid \in DOMAIN p /\ x \in Profile(Amounts(sound))
      BY <2>3, <3>3
    <3> QED
      BY <1>1, <3>4, <3>5, <3>6, ProfileReplaced
  <2> QED
    BY <1>3, <1>4, <2>1, <2>2, <2>3
<1>6. PICK f : f = [e EXCEPT !.profiles = q]
  OBVIOUS
<1>7. f \in Engines(sound) /\ f.profiles = q
  BY <1>5, <1>6, EngineWithProfiles
<1>8. f \in GrownFrom(e, sound)
  BY <1>5, <1>7 DEF GrownFrom
<1> QED
  BY <1>2, <1>4, <1>6, <1>8

\* Suspending one leaves well-formed profiles.
LEMMA SuspendKept ==
  ASSUME NEW sound \in BOOLEAN, NEW e \in Engines(sound), NEW uid \in Int,
         NEW res, res = SuspendUser(e.profiles, uid)
  PROVE  /\ [e EXCEPT !.profiles = res.profiles] \in Engines(sound)
         /\ res.code # "VALID_FOR_MATCHING_ENGINE"
<1> DEFINE p == e.profiles
           A == Profile(Amounts(sound))
<1>1. p \in ProfileMaps(sound)
  BY DEF Engines
<1>2. res.code # "VALID_FOR_MATCHING_ENGINE"
  BY DEF SuspendUser, Outcome
<1>3. res.profiles = p \/ res.profiles = [u \in DOMAIN p \ {uid} |-> p[u]]
  BY DEF SuspendUser, Outcome, Restrict
<1>4. DOMAIN p \subseteq Int /\ \A u \in DOMAIN p : p[u] \in A
  BY <1>1, ProfileMap
<1>5. PICK q : q = res.profiles
  OBVIOUS
<1> HIDE DEF A
<1>6. q \in ProfileMaps(sound)
  <2>1. CASE q = p
    BY <1>1, <2>1
  <2>2. CASE q = [u \in DOMAIN p \ {uid} |-> p[u]]
    <3>1. /\ q = [u \in DOMAIN q |-> q[u]] /\ DOMAIN q \subseteq Int
          /\ \A u \in DOMAIN q : q[u] \in A
      BY <1>4, <2>2
    <3> QED
      BY <3>1, ProfileMap DEF A
  <2> QED
    BY <1>3, <1>5, <2>1, <2>2
<1>7. PICK f : f = [e EXCEPT !.profiles = q]
  OBVIOUS
<1>8. f \in Engines(sound)
  BY <1>6, <1>7, EngineWithProfiles
<1> QED
  BY <1>2, <1>5, <1>7, <1>8

\* The transaction id of a payment into a new account.
LEMMA TransactionIdIsInt ==
  ASSUME NEW currency \in Currency
  PROVE  AccountTransactionId(currency) \in Int
<1>1. PICK x \in Int : x = CurrencyId[currency]
  BY DEF CurrencyId, Currency
<1>2. 1000000000 + x \in Int
  BY SMT
<1> QED
  BY <1>1, <1>2, SMT DEF AccountTransactionId

\* An account of a message.
Payment == [currency : Currency, balance : Int]

\* A user of a message.
Joiner == [uid : Int, accounts : Seq(Payment)]

\* The adjustment that pays in for an account.
PaymentOf(uid, account) ==
  [uid |-> uid, symbol |-> account.currency, price |-> account.balance,
   orderId |-> AccountTransactionId(account.currency), orderType |-> "ADJUSTMENT"]

\* The engines after the first i accounts of a user, for every i.
IsPaid(paid, e, user, sound) ==
  /\ paid[0] = [e EXCEPT !.profiles = AddUser(e.profiles, user.uid).profiles]
  /\ \A i \in 1 .. Len(user.accounts) :
       paid[i] = AdjustBalance(paid[i - 1], PaymentOf(user.uid, user.accounts[i])).engine
  /\ \A i \in 0 .. Len(user.accounts) : paid[i] \in GrownFrom(e, sound)
  /\ AddAccounts(e, user)
       = IF AddUser(e.profiles, user.uid).code # "SUCCESS" THEN e
         ELSE paid[Len(user.accounts)]

\* The accounts that a message brings.
LEMMA AddAccountsSteps ==
  ASSUME NEW sound \in BOOLEAN, NEW e \in Engines(sound), NEW user \in Joiner
  PROVE  \E paid : IsPaid(paid, e, user, sound)
<1> DEFINE accounts == user.accounts
           N == Len(accounts)
           V == GrownFrom(e, sound)
           added == AddUser(e.profiles, user.uid)
           base == [e EXCEPT !.profiles = added.profiles]
           pay(x, i) == AdjustBalance(x, PaymentOf(user.uid, accounts[i])).engine
           step == [i \in 1 .. N |-> [x \in V |-> pay(x, i)]]
           value(g, i) == IF i = 0 THEN base ELSE pay(g[i - 1], i)
           paid == CHOOSE g : g = [i \in 0 .. N |-> value(g, i)]
<1>1. user.uid \in Int /\ accounts \in Seq(Payment)
  BY DEF Joiner
<1>2. N \in Nat /\ \A i \in 1 .. N : accounts[i] \in Payment
  <2> HIDE DEF accounts
  <2> QED
    BY <1>1, LenProperties, ElementOfSeq
<1>3. base \in V
  <2>1. PICK res : res = added
    OBVIOUS
  <2>2. [e EXCEPT !.profiles = res.profiles] \in GrownFrom(e, sound)
    BY <1>1, <2>1, UsersGrow
  <2> QED
    BY <2>1, <2>2
<1>4. \A i \in 1 .. N : \A x \in V : pay(x, i) \in V
  <2> SUFFICES ASSUME NEW i \in 1 .. N, NEW x \in V PROVE pay(x, i) \in V
    OBVIOUS
  <2>1. PICK account \in Payment : account = accounts[i]
    BY <1>2
  <2>2. PICK cmd : cmd = PaymentOf(user.uid, account)
    OBVIOUS
  <2>3. /\ cmd.uid \in Int /\ cmd.symbol \in Currency /\ cmd.price \in Int
        /\ cmd.orderId \in Int /\ cmd.orderType \in BalanceAdjustmentType
    <3>1. account.currency \in Currency /\ account.balance \in Int
      BY DEF Payment
    <3>2. AccountTransactionId(account.currency) \in Int
      BY <3>1, TransactionIdIsInt
    <3> QED
      BY <1>1, <2>2, <3>1, <3>2 DEF PaymentOf, BalanceAdjustmentType
  <2>4. x \in Engines(sound)
    BY DEF GrownFrom
  <2>5. PICK res : res = AdjustBalance(x, cmd)
    OBVIOUS
  <2>6. res.engine \in GrownFrom(x, sound)
    BY <2>3, <2>4, <2>5, AdjustmentKept
  <2>7. res.engine \in V
    BY <2>6, GrownTwice
  <2> QED
    BY <2>1, <2>2, <2>5, <2>7
<1> HIDE DEF N, V, base, pay
<1>5. IsSteps(step, N, V)
  BY <1>4 DEF IsSteps
<1>6. \A i \in 1 .. N : \A x \in V : step[i][x] = pay(x, i)
  OBVIOUS
<1> HIDE DEF step
<1>7. PICK f : IsRun(f, N, V, base, step)
  BY <1>2, <1>3, <1>5, RunOfSteps
<1>8. /\ f \in [0 .. N -> V] /\ f[0] = base
      /\ \A i \in 1 .. N : f[i] = step[i][f[i - 1]]
  BY <1>7 DEF IsRun
<1>9. \A i \in 0 .. N : f[i] = value(f, i)
  <2> SUFFICES ASSUME NEW i \in 0 .. N PROVE f[i] = value(f, i)
    OBVIOUS
  <2>1. CASE i = 0
    BY <1>8, <2>1
  <2>2. CASE i # 0
    <3>1. i \in 1 .. N /\ f[i - 1] \in V
      BY <1>2, <1>8, <2>2
    <3> QED
      BY <1>6, <1>8, <2>2, <3>1
  <2> QED
    BY <2>1, <2>2
<1>10. f = [i \in 0 .. N |-> value(f, i)]
  BY <1>8, <1>9
<1>11. paid = [i \in 0 .. N |-> value(paid, i)]
  BY <1>10
<1>12. AddAccounts(e, user) = IF added.code # "SUCCESS" THEN e ELSE paid[N]
  BY DEF AddAccounts, PaymentOf, N, base, pay
<1> HIDE DEF paid
<1>13. \A i \in 0 .. N : paid[i] = value(paid, i)
  BY <1>11
<1>14. paid[0] \in V
  BY <1>2, <1>3, <1>13
<1>15. ASSUME NEW i \in 1 .. N, paid[i - 1] \in V PROVE paid[i] \in V
  BY <1>2, <1>4, <1>13, <1>15
<1>16. \A i \in 0 .. N : paid[i] \in V
  BY <1>2, <1>14, <1>15, StaysIn
<1>17. paid[0] = base /\ \A i \in 1 .. N : paid[i] = pay(paid[i - 1], i)
  BY <1>2, <1>13
<1>18. /\ paid[0] = [e EXCEPT !.profiles = AddUser(e.profiles, user.uid).profiles]
       /\ \A i \in 1 .. Len(user.accounts) :
            paid[i] = AdjustBalance(paid[i - 1], PaymentOf(user.uid, user.accounts[i])).engine
  BY <1>17 DEF N, base, pay
<1>19. /\ \A i \in 0 .. Len(user.accounts) : paid[i] \in GrownFrom(e, sound)
       /\ AddAccounts(e, user)
            = IF AddUser(e.profiles, user.uid).code # "SUCCESS" THEN e
              ELSE paid[Len(user.accounts)]
  BY <1>12, <1>16 DEF N, V
<1> QED
  BY <1>18, <1>19 DEF IsPaid

\* The accounts of a new user.
LEMMA AddAccountsKept ==
  ASSUME NEW sound \in BOOLEAN, NEW e \in Engines(sound), NEW user \in Joiner
  PROVE  AddAccounts(e, user) \in GrownFrom(e, sound)
<1>1. PICK paid : IsPaid(paid, e, user, sound)
  BY AddAccountsSteps
<1>2. Len(user.accounts) \in 0 .. Len(user.accounts)
  BY LenProperties DEF Joiner
<1> QED
  BY <1>1, <1>2, GrownSame DEF IsPaid

\* The engines after the first i users of a message, for every i.
IsAdded(added, e, message, sound) ==
  /\ added[0] = [e EXCEPT !.symbols = @ \cup message.symbols]
  /\ \A i \in 1 .. Len(message.users) :
       added[i] = AddAccounts(added[i - 1], message.users[i])
  /\ \A i \in 0 .. Len(message.users) : added[i] \in GrownFrom(e, sound)
  /\ HandleBinaryMessage(e, message) = added[Len(message.users)]

\* The messages that a risk engine handles.
LEMMA MessageSteps ==
  ASSUME NEW sound \in BOOLEAN, NEW e \in Engines(sound), NEW message \in Messages
  PROVE  \E added : IsAdded(added, e, message, sound)
<1> DEFINE users == message.users
           N == Len(users)
           V == GrownFrom(e, sound)
           base == [e EXCEPT !.symbols = @ \cup message.symbols]
           step == [i \in 1 .. N |-> [x \in V |-> AddAccounts(x, users[i])]]
           value(g, i) == IF i = 0 THEN base ELSE AddAccounts(g[i - 1], users[i])
           added == CHOOSE g : g = [i \in 0 .. N |-> value(g, i)]
<1>1. users \in Seq(Joiner) /\ message.symbols \in SUBSET STRING
  BY DEF Messages, Joiner, Payment
<1>2. N \in Nat /\ \A i \in 1 .. N : users[i] \in Joiner
  <2> HIDE DEF users
  <2> QED
    BY <1>1, LenProperties, ElementOfSeq
<1>3. base \in V
  <2> DEFINE P == ProfileMaps(sound)
  <2>1. e \in [profiles : P, fees : Int,
               external : [BalanceAdjustmentType -> [Currency -> Int]], symbols : SUBSET STRING]
    BY DEF Engines
  <2> HIDE DEF P
  <2>2. PICK symbols \in SUBSET STRING : symbols = e.symbols \cup message.symbols
    BY <1>1, <2>1
  <2>3. base = [e EXCEPT !.symbols = symbols]
    BY <2>2
  <2>4. base \in [profiles : P, fees : Int,
                  external : [BalanceAdjustmentType -> [Currency -> Int]], symbols : SUBSET STRING]
    BY <2>1, <2>3
  <2>5. base.profiles = e.profiles
    BY <2>1, <2>3
  <2>6. Grows(e.profiles, e.profiles)
    BY <2>1, GrowsSame DEF P
  <2> QED
    BY <2>4, <2>5, <2>6 DEF GrownFrom, Engines, P
<1>4. \A i \in 1 .. N : \A x \in V : AddAccounts(x, users[i]) \in V
  <2> SUFFICES ASSUME NEW i \in 1 .. N, NEW x \in V PROVE AddAccounts(x, users[i]) \in V
    OBVIOUS
  <2>1. PICK user \in Joiner : user = users[i]
    BY <1>2
  <2>2. x \in Engines(sound)
    BY DEF GrownFrom
  <2>3. AddAccounts(x, user) \in GrownFrom(x, sound)
    BY <2>2, AddAccountsKept
  <2>4. AddAccounts(x, user) \in V
    BY <2>3, GrownTwice
  <2> QED
    BY <2>1, <2>4
<1> HIDE DEF N, V, base
<1>5. IsSteps(step, N, V)
  BY <1>4 DEF IsSteps
<1>6. \A i \in 1 .. N : \A x \in V : step[i][x] = AddAccounts(x, users[i])
  OBVIOUS
<1> HIDE DEF step
<1>7. PICK f : IsRun(f, N, V, base, step)
  BY <1>2, <1>3, <1>5, RunOfSteps
<1>8. /\ f \in [0 .. N -> V] /\ f[0] = base
      /\ \A i \in 1 .. N : f[i] = step[i][f[i - 1]]
  BY <1>7 DEF IsRun
<1>9. \A i \in 0 .. N : f[i] = value(f, i)
  <2> SUFFICES ASSUME NEW i \in 0 .. N PROVE f[i] = value(f, i)
    OBVIOUS
  <2>1. CASE i = 0
    BY <1>8, <2>1
  <2>2. CASE i # 0
    <3>1. i \in 1 .. N /\ f[i - 1] \in V
      BY <1>2, <1>8, <2>2
    <3> QED
      BY <1>6, <1>8, <2>2, <3>1
  <2> QED
    BY <2>1, <2>2
<1>10. f = [i \in 0 .. N |-> value(f, i)]
  BY <1>8, <1>9
<1>11. added = [i \in 0 .. N |-> value(added, i)]
  BY <1>10
<1>12. HandleBinaryMessage(e, message) = added[N]
  BY DEF HandleBinaryMessage, N, base
<1> HIDE DEF added
<1>13. \A i \in 0 .. N : added[i] = value(added, i)
  BY <1>11
<1>14. added[0] \in V
  <2>1. 0 \in 0 .. N
    BY <1>2
  <2>2. added[0] = base
    BY <1>13, <2>1
  <2> QED
    BY <1>3, <2>2
<1>15. ASSUME NEW i \in 1 .. N, added[i - 1] \in V PROVE added[i] \in V
  BY <1>2, <1>4, <1>13, <1>15
<1>16. \A i \in 0 .. N : added[i] \in V
  BY <1>2, <1>14, <1>15, StaysIn
<1>17. added[0] = base /\ \A i \in 1 .. N : added[i] = AddAccounts(added[i - 1], users[i])
  BY <1>2, <1>13
<1>18. /\ added[0] = [e EXCEPT !.symbols = @ \cup message.symbols]
       /\ \A i \in 1 .. Len(message.users) :
            added[i] = AddAccounts(added[i - 1], message.users[i])
  BY <1>17 DEF N, base
<1>19. /\ \A i \in 0 .. Len(message.users) : added[i] \in GrownFrom(e, sound)
       /\ HandleBinaryMessage(e, message) = added[Len(message.users)]
  BY <1>12, <1>16 DEF N, V
<1> QED
  BY <1>18, <1>19 DEF IsAdded

\* A message with symbols and users.
LEMMA MessageKept ==
  ASSUME NEW sound \in BOOLEAN, NEW e \in Engines(sound), NEW message \in Messages
  PROVE  HandleBinaryMessage(e, message) \in GrownFrom(e, sound)
<1>1. PICK added : IsAdded(added, e, message, sound)
  BY MessageSteps
<1>2. Len(message.users) \in 0 .. Len(message.users)
  BY LenProperties DEF Messages
<1> QED
  BY <1>1, <1>2 DEF IsAdded

\* No profiles are well-formed ones.
LEMMA NoProfilesKept ==
  ASSUME NEW sound
  PROVE  NoProfiles \in ProfileMaps(sound)
<1>1. PICK p : p = NoProfiles
  OBVIOUS
<1>2. p = <<>>
  BY <1>1 DEF NoProfiles
<1>3. p \in Seq({})
  BY <1>2, EmptySeq
<1>4. DOMAIN p = {} /\ p = [uid \in DOMAIN p |-> p[uid]]
  <2>1. Len(p) = 0 /\ DOMAIN p = 1 .. Len(p) /\ p \in [1 .. Len(p) -> {}]
    BY <1>2, <1>3, LenProperties, EmptySeq
  <2>2. 1 .. 0 = {}
    OBVIOUS
  <2> QED
    BY <2>1, <2>2
<1> QED
  BY <1>1, <1>4, ProfileMap

\* RESET leaves a well-formed engine.
LEMMA ResetKept ==
  ASSUME NEW sound, NEW e \in Engines(sound)
  PROVE  Reset(e) \in Engines(sound) /\ Reset(e).profiles = NoProfiles
<1> DEFINE P == ProfileMaps(sound)
<1>1. e \in [profiles : P, fees : Int,
             external : [BalanceAdjustmentType -> [Currency -> Int]], symbols : SUBSET STRING]
  BY DEF Engines
<1>2. PICK p \in P : p = NoProfiles
  BY NoProfilesKept
<1>3. PICK external \in [BalanceAdjustmentType -> [Currency -> Int]] :
        external = NewEngine.external
  <2>1. ZeroBalance \in [Currency -> Int]
    BY DEF ZeroBalance
  <2>2. PICK zero \in [Currency -> Int] : zero = ZeroBalance
    BY <2>1
  <2>3. NewEngine.external = [type \in BalanceAdjustmentType |-> zero]
    BY <2>2 DEF NewEngine
  <2>4. [type \in BalanceAdjustmentType |-> zero] \in [BalanceAdjustmentType -> [Currency -> Int]]
    OBVIOUS
  <2> QED
    BY <2>3, <2>4
<1> HIDE DEF P
<1>4. PICK f : f = Reset(e)
  OBVIOUS
<1>5. PICK fees \in Int, none \in SUBSET STRING :
        f = [e EXCEPT !.profiles = p, !.fees = fees, !.external = external, !.symbols = none]
  <2>1. PICK fees \in Int : fees = 0
    OBVIOUS
  <2>2. {} \in SUBSET STRING
    OBVIOUS
  <2>3. f = [e EXCEPT !.profiles = p, !.fees = fees, !.external = external, !.symbols = {}]
    BY <1>2, <1>3, <1>4, <2>1 DEF Reset
  <2> QED
    BY <2>2, <2>3
<1>6. f.profiles = p
  BY <1>1, <1>5
<1>7. f \in [profiles : P, fees : Int,
             external : [BalanceAdjustmentType -> [Currency -> Int]], symbols : SUBSET STRING]
  BY <1>1, <1>5
<1> QED
  BY <1>2, <1>4, <1>6, <1>7 DEF Engines, P

\* An adjustment that a risk engine has applied.
AppliedTo(before, after, cmd) ==
  /\ cmd.uid \in DOMAIN before.profiles
  /\ before.profiles[cmd.uid].adjustmentsCounter < cmd.orderId
  /\ cmd.uid \in DOMAIN after.profiles
  /\ after.profiles[cmd.uid].adjustmentsCounter = cmd.orderId

\* What R1 does with a command, for the engine and for the result code.
LEMMA PreProcessKept ==
  ASSUME NEW sound \in BOOLEAN, NEW e \in Engines(sound), NEW shard, NEW cmd, IsSlot(cmd),
         cmd.message \in Messages,
         cmd.command = "BALANCE_ADJUSTMENT" =>
           cmd.symbol \in Currency /\ cmd.orderType \in BalanceAdjustmentType,
         NEW res, res = PreProcessCommand(e, shard, cmd)
  PROVE  /\ res.engine \in Engines(sound)
         /\ cmd.command \notin {"SUSPEND_USER", "RESET"} => res.engine \in GrownFrom(e, sound)
         /\ cmd.command = "RESET" => res.engine.profiles = NoProfiles
         /\ ~ UidForThisHandler(shard, cmd.uid)
              /\ cmd.command \notin {"BINARY_DATA_COMMAND", "RESET"} => res.engine = e
         /\ cmd.command = "BALANCE_ADJUSTMENT" /\ UidForThisHandler(shard, cmd.uid)
              /\ res.code = "SUCCESS" => AppliedTo(e, res.engine, cmd)
         /\ cmd.command = "PLACE_ORDER" /\ res.code = "VALID_FOR_MATCHING_ENGINE" =>
              cmd.resultCode = "VALID_FOR_MATCHING_ENGINE" \/ AcceptablePrice(cmd)
<1>1. cmd.uid \in Int /\ cmd.price \in Int /\ cmd.orderId \in Int
  BY DEF IsSlot
<1>2. e \in GrownFrom(e, sound) /\ \A f \in GrownFrom(e, sound) : f \in Engines(sound)
  BY GrownSame DEF GrownFrom
<1>3. CASE cmd.command = "BINARY_DATA_COMMAND"
  <2>1. res.engine = HandleBinaryMessage(e, cmd.message)
    BY <1>3 DEF PreProcessCommand
  <2> QED
    BY <1>2, <1>3, <2>1, MessageKept
<1>4. CASE cmd.command = "RESET"
  <2>1. res.engine = Reset(e)
    BY <1>4 DEF PreProcessCommand
  <2> QED
    BY <1>4, <2>1, ResetKept
<1>5. CASE cmd.command \notin {"BINARY_DATA_COMMAND", "RESET"}
           /\ ~ UidForThisHandler(shard, cmd.uid)
  <2>1. res.engine = e /\ res.code = cmd.resultCode
    BY <1>5 DEF PreProcessCommand
  <2> QED
    BY <1>2, <1>5, <2>1
<1>6. CASE cmd.command \notin {"BINARY_DATA_COMMAND", "RESET"}
           /\ UidForThisHandler(shard, cmd.uid)
  <2>1. res = PreProcess(e, cmd)
    BY <1>6 DEF PreProcessCommand
  <2>2. CASE cmd.command = "PLACE_ORDER"
    <3>1. res = PlaceOrderRiskCheck(e, cmd)
      BY <2>1, <2>2 DEF PreProcess
    <3>2. /\ res.engine \in GrownFrom(e, sound)
          /\ res.code = "VALID_FOR_MATCHING_ENGINE" => AcceptablePrice(cmd)
      BY <3>1, RiskCheckKept
    <3> QED
      BY <1>2, <1>6, <2>2, <3>2
  <2>3. CASE cmd.command = "BALANCE_ADJUSTMENT"
    <3>1. res = AdjustBalance(e, cmd)
      BY <2>1, <2>3 DEF PreProcess
    <3>2. res.engine \in GrownFrom(e, sound)
      BY <1>1, <2>3, <3>1, AdjustmentKept
    <3>3. res.code = "SUCCESS" => AppliedTo(e, res.engine, cmd)
      BY <1>1, <2>3, <3>1, AdjustmentKept DEF AppliedTo
    <3> QED
      BY <1>2, <1>6, <2>3, <3>2, <3>3
  <2>4. CASE cmd.command = "SUSPEND_USER"
    <3>1. PICK r : r = SuspendUser(e.profiles, cmd.uid)
      OBVIOUS
    <3>2. res.engine = [e EXCEPT !.profiles = r.profiles]
      BY <2>1, <2>4, <3>1 DEF PreProcess, UserCommand
    <3>3. [e EXCEPT !.profiles = r.profiles] \in Engines(sound)
      BY <1>1, <3>1, SuspendKept
    <3> QED
      BY <1>6, <2>4, <3>2, <3>3
  <2>5. CASE cmd.command = "ADD_USER" \/ cmd.command = "RESUME_USER"
    <3>1. PICK r : r = IF cmd.command = "ADD_USER" THEN AddUser(e.profiles, cmd.uid)
                       ELSE ResumeUser(e.profiles, cmd.uid)
      OBVIOUS
    <3>2. res.engine = [e EXCEPT !.profiles = r.profiles]
      BY <2>1, <2>5, <3>1 DEF PreProcess, UserCommand
    <3>3. [e EXCEPT !.profiles = r.profiles] \in GrownFrom(e, sound)
      BY <1>1, <3>1, UsersGrow
    <3> QED
      BY <1>2, <1>6, <2>5, <3>2, <3>3
  <2>6. CASE cmd.command \notin {"PLACE_ORDER", "BALANCE_ADJUSTMENT", "SUSPEND_USER",
                                 "ADD_USER", "RESUME_USER"}
    <3>1. res.engine = e
      BY <2>1, <2>6 DEF PreProcess
    <3> QED
      BY <1>2, <1>6, <2>6, <3>1
  <2> QED
    BY <2>2, <2>3, <2>4, <2>5, <2>6
<1> QED
  BY <1>3, <1>4, <1>5, <1>6

\* What R2 does with a command.
LEMMA PostProcessKept ==
  ASSUME NEW sound \in BOOLEAN, FeesInOrder(sound), NEW e \in Engines(sound), NEW shard,
         NEW cmd, Settles(cmd, sound)
  PROVE  PostProcessCommand(e, shard, cmd) \in GrownFrom(e, sound)
<1> DEFINE own == {c \in ToSet(Credits(cmd)) : UidForThisHandler(shard, c.uid)}
           credits == Kept(Credits(cmd), own)
           P == ProfileMaps(sound)
<1>1. Credits(cmd) \in Seq(CreditRecords(sound))
  BY CreditsSound
<1>2. credits \in Seq(CreditRecords(sound))
  <2> HIDE DEF own
  <2> QED
    BY <1>1, KeptInSet
<1> HIDE DEF own, credits
<1>3. e \in [profiles : P, fees : Int,
             external : [BalanceAdjustmentType -> [Currency -> Int]], symbols : SUBSET STRING]
  BY DEF Engines
<1>4. PICK p \in P : p = CreditAll(e.profiles, credits) /\ Grows(e.profiles, p)
  BY <1>2, <1>3, CreditAllKept
<1>5. PICK fees \in Int : fees = e.fees + FeesOf(shard, cmd)
  <2>1. FeesOf(shard, cmd) \in Int /\ e.fees \in Int
    BY <1>3, FeesOfIsInt
  <2> QED
    BY <2>1
<1>6. PICK f : f = [e EXCEPT !.profiles = p, !.fees = fees]
  OBVIOUS
<1> HIDE DEF P
<1>7. f.profiles = p
  BY <1>3, <1>6
<1>8. f \in [profiles : P, fees : Int,
             external : [BalanceAdjustmentType -> [Currency -> Int]], symbols : SUBSET STRING]
  BY <1>3, <1>6
<1>9. f \in GrownFrom(e, sound)
  BY <1>4, <1>7, <1>8 DEF GrownFrom, Engines, P
<1>10. PostProcessCommand(e, shard, cmd) = e \/ PostProcessCommand(e, shard, cmd) = f
  BY <1>4, <1>5, <1>6 DEF PostProcessCommand, credits, own
<1> QED
  BY <1>9, <1>10, GrownSame

-----------------------------------------------------------------------------
(***************************************************************************)
(* What users hold in a book, what a command brings them, and what they    *)
(* trade for.                                                              *)
(***************************************************************************)

\* What a lot of an order holds in a currency.
LotHold(action, reserve, currency) ==
  IF action = "ASK" THEN (IF currency = "base" THEN BaseScale ELSE 0)
  ELSE IF currency = "quote" THEN reserve * QuoteScale + TakerFee ELSE 0

\* The hold of a lot is a whole number.
LEMMA LotHoldIsInt ==
  ASSUME NEW action, NEW reserve \in Int, NEW currency
  PROVE  LotHold(action, reserve, currency) \in Int
<1>1. BaseScale \in Int /\ QuoteScale \in Int /\ TakerFee \in Int
  BY FeeAssumption
<1>2. reserve * QuoteScale \in Int
  BY <1>1, ProductIsInt
<1> QED
  BY <1>1, <1>2 DEF LotHold

\* The same if the order is of one of the users.
RateOf(o, W, currency) ==
  IF o.uid \in W THEN LotHold(o.action, o.reserveBidPrice, currency) ELSE 0

\* The rate and the weight of each order.
HoldRates(W, currency) ==
  [o \in Order("ASK") \cup Order("BID") |-> RateOf(o, W, currency)]

HoldWeights(W, currency) ==
  [o \in Order("ASK") \cup Order("BID") |-> Remaining(o) * RateOf(o, W, currency)]

\* What an order holds.
LEMMA HoldWeightIs ==
  ASSUME NEW W, NEW currency, NEW a \in OrderAction, NEW o \in Order(a)
  PROVE  /\ HoldRates(W, currency)[o] = RateOf(o, W, currency)
         /\ HoldWeights(W, currency)[o] = Remaining(o) * RateOf(o, W, currency)
         /\ RateOf(o, W, currency) \in Int
         /\ HoldWeights(W, currency)[o] \in Int
<1>1. o \in Order("ASK") \cup Order("BID")
  BY DEF OrderAction
<1>2. o.reserveBidPrice \in Int
  BY DEF Order
<1>3. RateOf(o, W, currency) \in Int
  BY <1>2, LotHoldIsInt DEF RateOf
<1>4. Remaining(o) \in Int
  BY RemainingIsNat
<1>5. HoldRates(W, currency)[o] = RateOf(o, W, currency)
  BY <1>1 DEF HoldRates
<1>6. HoldWeights(W, currency)[o] = Remaining(o) * RateOf(o, W, currency)
  BY <1>1 DEF HoldWeights
<1>7. Remaining(o) * RateOf(o, W, currency) \in Int
  BY <1>3, <1>4, ProductIsInt
<1> QED
  BY <1>3, <1>5, <1>6, <1>7

\* What an order holds goes by the lots that remain of it.
LEMMA HoldsWeigh ==
  ASSUME NEW W, NEW currency
  PROVE  Weighing(HoldWeights(W, currency), HoldRates(W, currency))
<1>1. PICK w : w = HoldWeights(W, currency)
  OBVIOUS
<1>2. PICK rate : rate = HoldRates(W, currency)
  OBVIOUS
<1>3. ASSUME NEW a \in OrderAction, NEW o \in Order(a)
      PROVE  /\ w[o] \in Int /\ rate[o] \in Int /\ w[o] = Remaining(o) * rate[o]
             /\ \A n \in Nat : Filled(o, n) \in Order(a) => rate[Filled(o, n)] = rate[o]
  <2>1. ASSUME NEW n \in Nat, Filled(o, n) \in Order(a)
        PROVE  rate[Filled(o, n)] = rate[o]
    <3>1. PICK p \in Order(a) : p = Filled(o, n)
      BY <2>1
    <3>2. p.uid = o.uid /\ p.action = o.action /\ p.reserveBidPrice = o.reserveBidPrice
      BY <3>1 DEF Filled, Order
    <3>3. RateOf(p, W, currency) = RateOf(o, W, currency)
      BY <3>2 DEF RateOf
    <3> QED
      BY <1>2, <3>1, <3>3, HoldWeightIs
  <2> QED
    BY <1>1, <1>2, <2>1, HoldWeightIs
<1>4. ASSUME NEW a \in OrderAction PROVE PerLot(w, rate, Order(a))
  BY <1>3 DEF PerLot
<1> QED
  BY <1>1, <1>2, <1>4 DEF Weighing

\* What users hold in the orders of a book.
Held(b, W, currency) == BookWorth(b, HoldWeights(W, currency))

\* What a book holds is a whole number.
LEMMA HeldIsInt ==
  ASSUME NEW W, NEW currency, NEW b, IsBook(b)
  PROVE  Held(b, W, currency) \in Int
<1>1. PICK w, rate : w = HoldWeights(W, currency) /\ Weighing(w, rate)
  BY HoldsWeigh
<1>2. PICK a \in OrderAction : a = "ASK"
  BY DEF OrderAction
<1>3. /\ BookWorth(b, w) = Worth(b[a], w) + Worth(b[Opposite(a)], w)
      /\ Worth(b[a], w) \in Int /\ Worth(b[Opposite(a)], w) \in Int
  BY <1>1, WorthBySide
<1> QED
  BY <1>1, <1>3 DEF Held

\* What the check of R1 has taken for a placement.
HoldIn(c, W, currency) ==
  IF /\ c.command = "PLACE_ORDER" /\ c.resultCode = "VALID_FOR_MATCHING_ENGINE"
     /\ c.uid \in W /\ currency = HoldCurrency(c)
  THEN OrderHoldAmount(c) ELSE 0

\* What is credited to users.
GainWeights(W, currency) ==
  [x \in CreditRecords(FALSE) |-> IF x.uid \in W THEN x.gain[currency] ELSE 0]

\* What a command credits to them in all.
Gained(cmd, W, currency) == Worth(Credits(cmd), GainWeights(W, currency))

\* What a credit brings is a whole number.
LEMMA GainsWeigh ==
  ASSUME NEW W, NEW currency \in Currency
  PROVE  /\ Weighs(GainWeights(W, currency), CreditRecords(FALSE))
         /\ \A x \in CreditRecords(FALSE) :
              GainWeights(W, currency)[x] = IF x.uid \in W THEN x.gain[currency] ELSE 0
<1>1. ASSUME NEW x \in CreditRecords(FALSE)
      PROVE  /\ GainWeights(W, currency)[x] = IF x.uid \in W THEN x.gain[currency] ELSE 0
             /\ x.gain[currency] \in Int
  <2>1. x.gain \in [Currency -> Int]
    BY DEF CreditRecords, Gains, Amounts
  <2> QED
    BY <2>1 DEF GainWeights
<1>2. ASSUME NEW x \in CreditRecords(FALSE) PROVE GainWeights(W, currency)[x] \in Int
  <2>1. PICK g \in Int : g = x.gain[currency]
    BY <1>1
  <2>2. GainWeights(W, currency)[x] = IF x.uid \in W THEN g ELSE 0
    BY <1>1, <2>1
  <2> QED
    BY <2>2
<1>3. Weighs(GainWeights(W, currency), CreditRecords(FALSE))
  BY <1>2 DEF Weighs
<1> QED
  BY <1>1, <1>3

\* The parts of what a command brings.
ReturnedPart(cmd, W, currency) ==
  IF Returned(cmd.matcherEvent) /\ cmd.uid \in W
  THEN Refund(cmd, Head(cmd.matcherEvent))[currency] ELSE 0

\* What the trades bring the taker.
TakerPart(cmd, trades, W, currency) ==
  IF trades # <<>> /\ cmd.uid \in W THEN TakerGain(cmd, trades)[currency] ELSE 0

\* What a trade brings the maker.
MakerPart(cmd, ev, W, currency) ==
  IF ev.matchedOrderUid \in W THEN MakerGain(cmd, ev)[currency] ELSE 0

AreMakerParts(p, cmd, trades, W, currency) ==
  /\ p \in Seq(Int) /\ Len(p) = Len(trades)
  /\ \A i \in 1 .. Len(trades) : p[i] = MakerPart(cmd, trades[i], W, currency)

\* They are all.
LEMMA GainedIs ==
  ASSUME NEW W, NEW currency \in Currency, NEW cmd, Settles(cmd, FALSE),
         NEW trades, trades = Trades(cmd.matcherEvent)
  PROVE  /\ ReturnedPart(cmd, W, currency) \in Int
         /\ TakerPart(cmd, trades, W, currency) \in Int
         /\ \E p : /\ AreMakerParts(p, cmd, trades, W, currency)
                   /\ Gained(cmd, W, currency)
                        = ReturnedPart(cmd, W, currency) + TakerPart(cmd, trades, W, currency)
                          + Total(p)
<1>1. PICK S : S = CreditRecords(FALSE)
  OBVIOUS
<1>2. PICK w : w = GainWeights(W, currency)
  OBVIOUS
<1>3. /\ Weighs(w, S)
      /\ \A x \in S : w[x] = IF x.uid \in W THEN x.gain[currency] ELSE 0
  <2>1. Weighs(GainWeights(W, currency), CreditRecords(FALSE))
    BY GainsWeigh
  <2>2. ASSUME NEW x \in S PROVE w[x] = IF x.uid \in W THEN x.gain[currency] ELSE 0
    <3>1. x \in CreditRecords(FALSE)
      BY <1>1
    <3>2. GainWeights(W, currency)[x] = IF x.uid \in W THEN x.gain[currency] ELSE 0
      BY <3>1, GainsWeigh
    <3> QED
      BY <1>2, <3>2
  <2> QED
    BY <1>1, <1>2, <2>1, <2>2
<1>4. PICK b, t, m : /\ b = BackCredits(cmd) /\ t = TakerCredits(cmd, trades)
                     /\ m = MakerCredits(cmd, trades)
  OBVIOUS
<1>5. /\ b \in Seq(S) /\ t \in Seq(S) /\ m \in Seq(S) /\ Len(m) = Len(trades)
      /\ Credits(cmd) = (b \o t) \o m
  <2>1. FeesInOrder(FALSE)
    BY DEF FeesInOrder
  <2> QED
    BY <1>1, <1>4, <2>1, CreditsParts
<1>6. PICK bt, c : bt = b \o t /\ c = bt \o m
  OBVIOUS
<1>7. bt \in Seq(S) /\ Worth(bt, w) = Worth(b, w) + Worth(t, w)
  <2>1. IsConcat(bt, b, t)
    BY <1>6 DEF IsConcat
  <2> QED
    BY <1>3, <1>5, <2>1, WorthConcat
<1>8. Worth(c, w) = Worth(bt, w) + Worth(m, w)
  <2>1. IsConcat(c, bt, m)
    BY <1>6 DEF IsConcat
  <2> QED
    BY <1>3, <1>5, <1>7, <2>1, WorthConcat
<1>9. Gained(cmd, W, currency) = Worth(c, w)
  BY <1>2, <1>5, <1>6 DEF Gained
<1>10. Worth(b, w) = ReturnedPart(cmd, W, currency)
  <2>1. CASE Returned(cmd.matcherEvent)
    <3>1. PICK x : x = [uid |-> cmd.uid, gain |-> Refund(cmd, Head(cmd.matcherEvent))]
      OBVIOUS
    <3>2. b = <<x>>
      BY <1>4, <2>1, <3>1 DEF BackCredits
    <3>3. x \in S
      <4>1. Len(b) = 1 /\ b[1] = x /\ 1 \in 1 .. Len(b)
        BY <3>2
      <4>2. b[1] \in S
        BY <1>5, <4>1, ElementOfSeq
      <4> QED
        BY <4>1, <4>2
    <3>4. Worth(b, w) = w[x]
      BY <1>3, <3>2, <3>3, WorthOfFew
    <3>5. w[x] = IF cmd.uid \in W THEN Refund(cmd, Head(cmd.matcherEvent))[currency] ELSE 0
      BY <1>3, <3>1, <3>3
    <3> QED
      BY <2>1, <3>4, <3>5 DEF ReturnedPart
  <2>2. CASE ~ Returned(cmd.matcherEvent)
    <3>1. b = <<>>
      BY <1>4, <2>2 DEF BackCredits
    <3> QED
      BY <1>3, <2>2, <3>1, WorthOfFew DEF ReturnedPart
  <2> QED
    BY <2>1, <2>2
<1>11. Worth(t, w) = TakerPart(cmd, trades, W, currency)
  <2>1. CASE trades # <<>>
    <3>1. PICK x : x = [uid |-> cmd.uid, gain |-> TakerGain(cmd, trades)]
      OBVIOUS
    <3>2. t = <<x>>
      BY <1>4, <2>1, <3>1 DEF TakerCredits
    <3>3. x \in S
      <4>1. Len(t) = 1 /\ t[1] = x /\ 1 \in 1 .. Len(t)
        BY <3>2
      <4>2. t[1] \in S
        BY <1>5, <4>1, ElementOfSeq
      <4> QED
        BY <4>1, <4>2
    <3>4. Worth(t, w) = w[x]
      BY <1>3, <3>2, <3>3, WorthOfFew
    <3>5. w[x] = IF cmd.uid \in W THEN TakerGain(cmd, trades)[currency] ELSE 0
      BY <1>3, <3>1, <3>3
    <3> QED
      BY <2>1, <3>4, <3>5 DEF TakerPart
  <2>2. CASE ~ (trades # <<>>)
    <3>1. t = <<>>
      BY <1>4, <2>2 DEF TakerCredits
    <3> QED
      BY <1>3, <2>2, <3>1, WorthOfFew DEF TakerPart
  <2> QED
    BY <2>1, <2>2
<1>12. PICK p : IsWeighed(p, m, w)
  BY <1>3, <1>5, WeightsOf
<1>13. /\ p \in Seq(Int) /\ Len(p) = Len(m) /\ Worth(m, w) = Total(p)
       /\ \A i \in 1 .. Len(m) : p[i] = w[m[i]]
  BY <1>12 DEF IsWeighed
<1>14. AreMakerParts(p, cmd, trades, W, currency)
  <2>1. ASSUME NEW i \in 1 .. Len(trades)
        PROVE  p[i] = MakerPart(cmd, trades[i], W, currency)
    <3>1. i \in 1 .. Len(m) /\ i \in DOMAIN m
      BY <1>5, LenProperties
    <3>2. PICK x \in S : x = m[i]
      BY <1>5, <3>1, ElementOfSeq
    <3>3. DOMAIN m = DOMAIN trades
      BY <1>4 DEF MakerCredits
    <3>4. x = MakerCredit(cmd, trades[i])
      BY <1>4, <3>1, <3>2, <3>3 DEF MakerCredits
    <3>5. x.uid = trades[i].matchedOrderUid /\ x.gain = MakerGain(cmd, trades[i])
      BY <3>4 DEF MakerCredit
    <3>6. p[i] = IF x.uid \in W THEN x.gain[currency] ELSE 0
      BY <1>3, <1>13, <3>1, <3>2
    <3> QED
      BY <3>5, <3>6 DEF MakerPart
  <2> QED
    BY <1>5, <1>13, <2>1 DEF AreMakerParts
<1>15. Worth(b, w) \in Int /\ Worth(t, w) \in Int
  BY <1>3, <1>5, WorthIsInt
<1>16. Gained(cmd, W, currency)
         = ReturnedPart(cmd, W, currency) + TakerPart(cmd, trades, W, currency) + Total(p)
  BY <1>7, <1>8, <1>9, <1>10, <1>11, <1>13
<1> QED
  BY <1>10, <1>11, <1>14, <1>15, <1>16

\* What the lots of a trade come to for one side of it, less its fee.
LotsOf(ev, action, fee, currency) ==
  IF currency = "base" THEN (IF action = "BID" THEN 1 ELSE -1) * AmountAsk(ev.size)
  ELSE (IF action = "BID" THEN -1 ELSE 1) * AmountBid(ev.size, ev.price) - fee * ev.size

\* What the taker and the maker have of a trade, if they are among the users.
TakerTraded(cmd, ev, W, currency) ==
  IF cmd.uid \in W THEN LotsOf(ev, cmd.action, TakerFee, currency) ELSE 0

MakerTraded(cmd, ev, W, currency) ==
  IF ev.matchedOrderUid \in W THEN LotsOf(ev, Opposite(cmd.action), MakerFee, currency)
  ELSE 0

\* What a command came to for the users, over its trades.
TradedBy(cmd, W, currency) ==
  LET trades == Trades(cmd.matcherEvent)
  IN Total([i \in DOMAIN trades |-> TakerTraded(cmd, trades[i], W, currency)
                                      + MakerTraded(cmd, trades[i], W, currency)])

AreTakerTraded(t, cmd, trades, W, currency) ==
  /\ t \in Seq(Int) /\ Len(t) = Len(trades)
  /\ \A i \in 1 .. Len(trades) : t[i] = TakerTraded(cmd, trades[i], W, currency)

AreMakerTraded(m, cmd, trades, W, currency) ==
  /\ m \in Seq(Int) /\ Len(m) = Len(trades)
  /\ \A i \in 1 .. Len(trades) : m[i] = MakerTraded(cmd, trades[i], W, currency)

\* The numbers of the model are whole.
LEMMA ScalesAreInt ==
  BaseScale \in Int /\ QuoteScale \in Int /\ TakerFee \in Int /\ MakerFee \in Int
BY FeeAssumption

\* What a trade comes to is a whole number.
LEMMA LotsOfIsInt ==
  ASSUME NEW budget \in BOOLEAN, NEW ev \in TradeEvents(FALSE, budget), NEW action,
         NEW fee \in Int, NEW currency
  PROVE  LotsOf(ev, action, fee, currency) \in Int
<1>1. PICK s \in Int, p \in Int : s = ev.size /\ p = ev.price
  BY TradeNumbers
<1>2. s * BaseScale \in Int /\ p * QuoteScale \in Int /\ fee * s \in Int
  BY ScalesAreInt, ProductIsInt
<1>3. s * (p * QuoteScale) \in Int
  BY <1>2, ProductIsInt
<1>4. PICK x \in Int, y \in Int, z \in Int :
        x = AmountAsk(s) /\ y = AmountBid(s, p) /\ z = fee * s
  BY <1>2, <1>3 DEF AmountAsk, AmountBid
<1>5. LotsOf(ev, action, fee, currency)
        = IF currency = "base" THEN (IF action = "BID" THEN 1 ELSE -1) * x
          ELSE (IF action = "BID" THEN -1 ELSE 1) * y - z
  BY <1>1, <1>4 DEF LotsOf
<1> QED
  BY <1>5

\* What a command came to is the sum of what its user, t, and its makers, m, traded.
AreTraded(cmd, trades, t, m, W, currency) ==
  /\ AreTakerTraded(t, cmd, trades, W, currency)
  /\ AreMakerTraded(m, cmd, trades, W, currency)
  /\ TradedBy(cmd, W, currency) = Total(t) + Total(m)

\* There are such sums.
LEMMA TradedIs ==
  ASSUME NEW W, NEW currency, NEW cmd, Settles(cmd, FALSE),
         NEW trades, trades = Trades(cmd.matcherEvent)
  PROVE  \E t, m : AreTraded(cmd, trades, t, m, W, currency)
<1>1. PICK budget \in BOOLEAN : budget = IsFokBudget(cmd)
  BY DEF IsFokBudget
<1>2. trades \in Seq(TradeEvents(FALSE, budget))
  BY <1>1 DEF Settles
<1>3. Len(trades) \in Nat /\ DOMAIN trades = 1 .. Len(trades)
  BY <1>2, LenProperties
<1>4. PICK t, m, x :
        /\ t = [i \in 1 .. Len(trades) |-> TakerTraded(cmd, trades[i], W, currency)]
        /\ m = [i \in 1 .. Len(trades) |-> MakerTraded(cmd, trades[i], W, currency)]
        /\ x = [i \in 1 .. Len(trades) |-> TakerTraded(cmd, trades[i], W, currency)
                                             + MakerTraded(cmd, trades[i], W, currency)]
  OBVIOUS
<1>5. ASSUME NEW i \in 1 .. Len(trades)
      PROVE  /\ TakerTraded(cmd, trades[i], W, currency) \in Int
             /\ MakerTraded(cmd, trades[i], W, currency) \in Int
  <2>1. PICK ev \in TradeEvents(FALSE, budget) : ev = trades[i]
    BY <1>2, ElementOfSeq
  <2>2. /\ LotsOf(ev, cmd.action, TakerFee, currency) \in Int
        /\ LotsOf(ev, Opposite(cmd.action), MakerFee, currency) \in Int
    BY ScalesAreInt, LotsOfIsInt
  <2> QED
    BY <2>1, <2>2 DEF TakerTraded, MakerTraded
<1>6. t \in Seq(Int) /\ Len(t) = Len(trades)
  <2>1. t \in [1 .. Len(trades) -> Int]
    BY <1>4, <1>5
  <2> QED
    BY <1>3, <2>1, FunctionIsSeq
<1>7. m \in Seq(Int) /\ Len(m) = Len(trades)
  <2>1. m \in [1 .. Len(trades) -> Int]
    BY <1>4, <1>5
  <2> QED
    BY <1>3, <2>1, FunctionIsSeq
<1>8. x \in Seq(Int) /\ Len(x) = Len(trades)
  <2>1. \A i \in 1 .. Len(trades) : TakerTraded(cmd, trades[i], W, currency)
                                      + MakerTraded(cmd, trades[i], W, currency) \in Int
    BY <1>5
  <2>2. x \in [1 .. Len(trades) -> Int]
    BY <1>4, <2>1
  <2> QED
    BY <1>3, <2>2, FunctionIsSeq
<1>9. Total(x) = Total(t) + Total(m)
  <2>1. \A i \in 1 .. Len(x) : x[i] = t[i] + m[i]
    BY <1>4, <1>8
  <2> QED
    BY <1>6, <1>7, <1>8, <2>1, TotalsAdd
<1>10. TradedBy(cmd, W, currency) = Total(x)
  BY <1>3, <1>4 DEF TradedBy
<1>11. AreTakerTraded(t, cmd, trades, W, currency)
  BY <1>4, <1>6 DEF AreTakerTraded
<1>12. AreMakerTraded(m, cmd, trades, W, currency)
  BY <1>4, <1>7 DEF AreMakerTraded
<1> QED
  BY <1>9, <1>10, <1>11, <1>12 DEF AreTraded

\* The sizes of trades and what they cost.
LEMMA SizesAndCosts ==
  ASSUME NEW budget \in BOOLEAN, NEW trades \in Seq(TradeEvents(FALSE, budget))
  PROVE  \E u, v : /\ u = Sizes(trades) /\ v = Costs(trades)
                   /\ u \in Seq(Int) /\ Len(u) = Len(trades)
                   /\ v \in Seq(Int) /\ Len(v) = Len(trades)
                   /\ \A i \in 1 .. Len(trades) :
                        /\ u[i] = trades[i].size /\ v[i] = trades[i].size * trades[i].price
                        /\ trades[i].size \in Int /\ trades[i].price \in Int
<1>1. Len(trades) \in Nat /\ DOMAIN trades = 1 .. Len(trades)
  BY LenProperties
<1>2. \A i \in 1 .. Len(trades) : trades[i].size \in Int /\ trades[i].price \in Int
  BY ElementOfSeq, TradeNumbers
<1>3. \A i \in 1 .. Len(trades) : trades[i].size * trades[i].price \in Int
  BY <1>2, ProductIsInt
<1>4. PICK u, v : u = Sizes(trades) /\ v = Costs(trades)
  OBVIOUS
<1>5. u \in [1 .. Len(trades) -> Int] /\ \A i \in 1 .. Len(trades) : u[i] = trades[i].size
  BY <1>1, <1>2, <1>4 DEF Sizes
<1>6. /\ v \in [1 .. Len(trades) -> Int]
      /\ \A i \in 1 .. Len(trades) : v[i] = trades[i].size * trades[i].price
  BY <1>1, <1>3, <1>4 DEF Costs
<1>7. /\ u \in Seq(Int) /\ Len(u) = Len(trades)
      /\ v \in Seq(Int) /\ Len(v) = Len(trades)
  BY <1>1, <1>5, <1>6, FunctionIsSeq
<1> QED
  BY <1>2, <1>4, <1>5, <1>6, <1>7

\* What a taker's hold for this many lots is.
TakerHold(cmd, W, size, reserve, currency) ==
  IF cmd.uid \notin W THEN 0
  ELSE IF IsFokBudget(cmd) /\ cmd.action = "BID"
       THEN (IF currency = "quote" THEN AmountBidTakerFeeForBudget(size, cmd.price) ELSE 0)
       ELSE size * LotHold(cmd.action, reserve, currency)

\* The holds of trades that all have one.
LEMMA HoldsTotal ==
  ASSUME NEW budget \in BOOLEAN, NEW trades \in Seq(TradeEvents(FALSE, budget)),
         NEW reserve \in Int,
         \A i \in 1 .. Len(trades) : trades[i].bidderHoldPrice = reserve
  PROVE  Total(Holds(trades)) = reserve * Total(Sizes(trades))
<1>1. PICK u, v : /\ u = Sizes(trades) /\ v = Costs(trades)
                  /\ u \in Seq(Int) /\ Len(u) = Len(trades)
                  /\ v \in Seq(Int) /\ Len(v) = Len(trades)
                  /\ \A i \in 1 .. Len(trades) :
                       /\ u[i] = trades[i].size /\ v[i] = trades[i].size * trades[i].price
                       /\ trades[i].size \in Int /\ trades[i].price \in Int
  BY SizesAndCosts
<1>2. Len(trades) \in Nat /\ DOMAIN trades = 1 .. Len(trades)
  BY LenProperties
<1>3. PICK h : h = Holds(trades)
  OBVIOUS
<1>4. ASSUME NEW i \in 1 .. Len(trades)
      PROVE  trades[i].size * trades[i].bidderHoldPrice = reserve * u[i]
  <2>1. PICK s \in Int : s = trades[i].size /\ u[i] = s
    BY <1>1
  <2>2. trades[i].bidderHoldPrice = reserve
    OBVIOUS
  <2> QED
    BY <2>1, <2>2
<1>5. \A i \in 1 .. Len(trades) : reserve * u[i] \in Int
  BY <1>1
<1>6. h \in [1 .. Len(trades) -> Int] /\ \A i \in 1 .. Len(trades) : h[i] = reserve * u[i]
  BY <1>2, <1>3, <1>4, <1>5 DEF Holds
<1>7. h \in Seq(Int) /\ Len(h) = Len(trades)
  BY <1>2, <1>6, FunctionIsSeq
<1>8. Total(h) = reserve * Total(u)
  <2>1. \A i \in 1 .. Len(h) : h[i] = reserve * u[i]
    BY <1>6, <1>7
  <2>2. Len(u) = Len(h)
    BY <1>1, <1>7
  <2> QED
    BY <1>1, <1>7, <2>1, <2>2, TotalScaled
<1> QED
  BY <1>1, <1>3, <1>8

\* What so many lots come to for a taker, at so much in all.
ComesTo(cmd, W, size, cost, currency) ==
  IF cmd.uid \notin W THEN 0
  ELSE IF currency = "base"
  THEN (IF cmd.action = "BID" THEN size * BaseScale ELSE - (size * BaseScale))
  ELSE (IF cmd.action = "BID" THEN - (cost * QuoteScale) ELSE cost * QuoteScale)
         - size * TakerFee

\* What the trades of a taker come to, from their sizes and costs.
LEMMA TakerTradedTotal ==
  ASSUME NEW W, NEW currency \in Currency, NEW cmd, cmd.action \in OrderAction,
         NEW budget \in BOOLEAN, NEW trades \in Seq(TradeEvents(FALSE, budget)),
         NEW t, AreTakerTraded(t, cmd, trades, W, currency)
  PROVE  Total(t) = ComesTo(cmd, W, Total(Sizes(trades)), Total(Costs(trades)), currency)
<1> SUFFICES ASSUME NEW size \in Int, NEW cost \in Int,
                    size = Total(Sizes(trades)), cost = Total(Costs(trades))
             PROVE  Total(t) = ComesTo(cmd, W, size, cost, currency)
  BY TradeSums DEF Amounts
<1> USE DEF ComesTo
<1>1. PICK u, v : /\ u = Sizes(trades) /\ v = Costs(trades)
                  /\ u \in Seq(Int) /\ Len(u) = Len(trades)
                  /\ v \in Seq(Int) /\ Len(v) = Len(trades)
                  /\ \A i \in 1 .. Len(trades) :
                       /\ u[i] = trades[i].size /\ v[i] = trades[i].size * trades[i].price
                       /\ trades[i].size \in Int /\ trades[i].price \in Int
  BY SizesAndCosts
<1>2. PICK B \in Int, Q \in Int, T \in Int : B = BaseScale /\ Q = QuoteScale /\ T = TakerFee
  BY ScalesAreInt
<1>3. t \in Seq(Int) /\ Len(t) = Len(trades)
  BY DEF AreTakerTraded
<1>4. ASSUME NEW k \in Int, NEW l \in Int, \A i \in 1 .. Len(t) : t[i] = k * u[i] + l * v[i]
      PROVE  Total(t) = k * size + l * cost
  <2>1. Len(u) = Len(t) /\ Len(v) = Len(t)
    BY <1>1, <1>3
  <2>2. PICK x : x = t
    OBVIOUS
  <2>3. /\ u \in Seq(Int) /\ v \in Seq(Int) /\ x \in Seq(Int)
        /\ AreCombined(x, u, v, k, l)
    BY <1>1, <1>3, <1>4, <2>1, <2>2 DEF AreCombined
  <2>4. Total(x) = k * Total(u) + l * Total(v)
    BY <2>3, TotalLinear
  <2> QED
    BY <1>1, <2>2, <2>4
<1>5. CASE cmd.uid \notin W
  <2>1. PICK zero \in Int : zero = 0
    OBVIOUS
  <2>2. \A i \in 1 .. Len(t) : t[i] = zero * u[i] + zero * v[i]
    <3>1. \A i \in 1 .. Len(t) : t[i] = 0
      BY <1>3, <1>5 DEF AreTakerTraded, TakerTraded
    <3>2. ASSUME NEW i \in 1 .. Len(t) PROVE u[i] \in Int /\ v[i] \in Int
      BY <1>1, <1>3, ElementOfSeq
    <3> QED
      BY <2>1, <3>1, <3>2
  <2>3. Total(t) = zero * size + zero * cost
    BY <1>4, <2>2
  <2> QED
    BY <1>5, <2>1, <2>3
<1>6. ASSUME cmd.uid \in W, NEW i \in 1 .. Len(t)
      PROVE  \E s \in Int, p \in Int :
               /\ u[i] = s /\ v[i] = s * p
               /\ t[i] = IF currency = "base"
                         THEN (IF cmd.action = "BID" THEN 1 ELSE -1) * (s * B)
                         ELSE (IF cmd.action = "BID" THEN -1 ELSE 1) * (s * (p * Q)) - T * s
  <2>1. i \in 1 .. Len(trades)
    BY <1>3, <1>6
  <2>2. t[i] = LotsOf(trades[i], cmd.action, TakerFee, currency)
    BY <1>6, <2>1 DEF AreTakerTraded, TakerTraded
  <2>3. PICK s \in Int, p \in Int : s = trades[i].size /\ p = trades[i].price
    BY <1>1, <2>1
  <2>4. u[i] = s /\ v[i] = s * p
    BY <1>1, <2>1, <2>3
  <2> QED
    BY <1>2, <2>2, <2>3, <2>4 DEF LotsOf, AmountAsk, AmountBid
<1>7. CASE cmd.uid \in W /\ currency = "base" /\ cmd.action = "BID"
  <2>1. PICK zero \in Int : zero = 0
    OBVIOUS
  <2>2. ASSUME NEW i \in 1 .. Len(t) PROVE t[i] = B * u[i] + zero * v[i]
    <3>1. PICK s \in Int, p \in Int :
            u[i] = s /\ v[i] = s * p /\ t[i] = (IF cmd.action = "BID" THEN 1 ELSE -1) * (s * B)
      BY <1>6, <1>7
    <3>2. s * B \in Int
      BY <1>2, ProductIsInt
    <3>3. t[i] = s * B
      BY <1>7, <3>1, <3>2
    <3>4. v[i] \in Int
      BY <3>1, ProductIsInt
    <3> QED
      BY <1>2, <2>1, <3>1, <3>4, <3>3
  <2>3. Total(t) = B * size + zero * cost
    BY <1>2, <1>4, <2>1, <2>2
  <2> QED
    BY <1>2, <1>7, <2>1, <2>3
<1>8. CASE cmd.uid \in W /\ currency = "base" /\ cmd.action = "ASK"
  <2>1. PICK zero \in Int, k \in Int : zero = 0 /\ k = - B
    OBVIOUS
  <2>2. ASSUME NEW i \in 1 .. Len(t) PROVE t[i] = k * u[i] + zero * v[i]
    <3>1. PICK s \in Int, p \in Int :
            u[i] = s /\ v[i] = s * p /\ t[i] = (IF cmd.action = "BID" THEN 1 ELSE -1) * (s * B)
      BY <1>6, <1>8
    <3>2. s * B \in Int
      BY <1>2, ProductIsInt
    <3>3. t[i] = - (s * B)
      BY <1>8, <3>1, <3>2
    <3>4. v[i] \in Int
      BY <3>1, ProductIsInt
    <3> QED
      BY <1>2, <2>1, <3>1, <3>4, <3>3
  <2>3. Total(t) = k * size + zero * cost
    BY <1>4, <2>1, <2>2
  <2> QED
    BY <1>2, <1>8, <2>1, <2>3
<1>9. CASE cmd.uid \in W /\ currency = "quote" /\ cmd.action = "BID"
  <2>1. PICK k \in Int, l \in Int : k = - T /\ l = - Q
    OBVIOUS
  <2>2. ASSUME NEW i \in 1 .. Len(t) PROVE t[i] = k * u[i] + l * v[i]
    <3>1. PICK s \in Int, p \in Int :
            u[i] = s /\ v[i] = s * p /\ t[i] = - (s * (p * Q)) - T * s
      <4>1. PICK s \in Int, p \in Int :
              /\ u[i] = s /\ v[i] = s * p
              /\ t[i] = (-1) * (s * (p * Q)) - T * s
        BY <1>6, <1>9
      <4>2. s * (p * Q) \in Int
        BY ProductIsInt
      <4> QED
        BY <4>1, <4>2
    <3>2. s * (p * Q) = (s * p) * Q
      OBVIOUS
    <3>3. PICK z \in Int : z = s * p
      BY ProductIsInt
    <3>4. t[i] = - (z * Q) - T * s /\ v[i] = z
      BY <3>1, <3>2, <3>3
    <3> QED
      BY <2>1, <3>1, <3>4
  <2>3. Total(t) = k * size + l * cost
    BY <1>4, <2>1, <2>2
  <2> QED
    BY <1>2, <1>9, <2>1, <2>3
<1>10. CASE cmd.uid \in W /\ currency = "quote" /\ cmd.action = "ASK"
  <2>1. PICK k \in Int : k = - T
    OBVIOUS
  <2>2. ASSUME NEW i \in 1 .. Len(t) PROVE t[i] = k * u[i] + Q * v[i]
    <3>1. PICK s \in Int, p \in Int :
            u[i] = s /\ v[i] = s * p /\ t[i] = s * (p * Q) - T * s
      <4>1. PICK s \in Int, p \in Int :
              /\ u[i] = s /\ v[i] = s * p
              /\ t[i] = 1 * (s * (p * Q)) - T * s
        BY <1>6, <1>10
      <4>2. s * (p * Q) \in Int
        BY ProductIsInt
      <4> QED
        BY <4>1, <4>2
    <3>2. s * (p * Q) = (s * p) * Q
      OBVIOUS
    <3>3. PICK z \in Int : z = s * p
      BY ProductIsInt
    <3>4. t[i] = z * Q - T * s /\ v[i] = z
      BY <3>1, <3>2, <3>3
    <3> QED
      BY <2>1, <3>1, <3>4
  <2>3. Total(t) = k * size + Q * cost
    BY <1>2, <1>4, <2>1, <2>2
  <2> QED
    BY <1>2, <1>10, <2>1, <2>3
<1> QED
  BY <1>5, <1>7, <1>8, <1>9, <1>10 DEF OrderAction, Currency

\* What a taker has held for its trades.
HeldFor(cmd, trades) == IF IsFokBudget(cmd) THEN cmd.price ELSE Total(Holds(trades))

\* What so many lots bring to a taker who held so much.
Brings(cmd, size, cost, held, currency) ==
  IF currency = "base" THEN (IF cmd.action = "BID" THEN size * BaseScale ELSE 0)
  ELSE IF cmd.action = "BID" THEN (held - cost) * QuoteScale
       ELSE cost * QuoteScale - TakerFee * size

\* What its trades bring to a taker, from their sizes and costs.
LEMMA TakerPartIs ==
  ASSUME NEW W, NEW currency \in Currency, NEW cmd, cmd.action \in OrderAction,
         cmd.price \in Int,
         NEW trades \in Seq(TradeEvents(FALSE, IsFokBudget(cmd))), trades # <<>>,
         cmd.uid \in W
  PROVE  TakerPart(cmd, trades, W, currency)
           = Brings(cmd, Total(Sizes(trades)), Total(Costs(trades)), HeldFor(cmd, trades), currency)
<1> SUFFICES ASSUME NEW size \in Int, NEW cost \in Int, NEW held \in Int,
                    size = Total(Sizes(trades)), cost = Total(Costs(trades)),
                    held = HeldFor(cmd, trades)
             PROVE  TakerPart(cmd, trades, W, currency) = Brings(cmd, size, cost, held, currency)
  <2>1. PICK budget \in BOOLEAN : budget = IsFokBudget(cmd)
    BY DEF IsFokBudget
  <2>2. trades \in Seq(TradeEvents(FALSE, budget))
    BY <2>1
  <2>3. Total(Sizes(trades)) \in Int /\ Total(Costs(trades)) \in Int /\ Total(Holds(trades)) \in Int
    BY <2>2, TradeSums DEF Amounts
  <2>4. HeldFor(cmd, trades) \in Int
    BY <2>3 DEF HeldFor
  <2> QED
    BY <2>3, <2>4
<1> USE DEF Brings
<1>1. /\ SumBy(LAMBDA ev : ev.size, trades) = size
      /\ Cost(trades) = cost
      /\ SumBy(LAMBDA ev : ev.size * ev.bidderHoldPrice, trades) = Total(Holds(trades))
  BY DEF SumBy, Sizes, Cost, Costs, Holds
<1>2. TakerGain(cmd, trades) =
        IF cmd.action = "ASK" THEN Amount("quote", cost * QuoteScale - TakerFee * size)
        ELSE [base |-> AmountAsk(size), quote |-> (held - cost) * QuoteScale]
  BY <1>1 DEF TakerGain, HeldFor
<1>3. TakerPart(cmd, trades, W, currency) = TakerGain(cmd, trades)[currency]
  BY DEF TakerPart
<1>4. CASE cmd.action = "ASK"
  <2>1. PICK x : x = cost * QuoteScale - TakerFee * size
    OBVIOUS
  <2>2. TakerPart(cmd, trades, W, currency) = Amount("quote", x)[currency]
    BY <1>2, <1>3, <1>4, <2>1
  <2>3. Amount("quote", x)[currency] = IF currency = "quote" THEN x ELSE 0
    BY DEF Amount, ZeroBalance, Currency
  <2> QED
    BY <1>4, <2>1, <2>2, <2>3 DEF Currency
<1>5. CASE cmd.action = "BID"
  <2>1. PICK x, y : x = AmountAsk(size) /\ y = (held - cost) * QuoteScale
    OBVIOUS
  <2>2. TakerPart(cmd, trades, W, currency) = [base |-> x, quote |-> y][currency]
    BY <1>2, <1>3, <1>5, <2>1
  <2>3. [base |-> x, quote |-> y][currency] = IF currency = "base" THEN x ELSE y
    BY DEF Currency
  <2>4. x = size * BaseScale
    BY <2>1 DEF AmountAsk
  <2> QED
    BY <1>5, <2>1, <2>2, <2>3, <2>4
<1> QED
  BY <1>4, <1>5 DEF OrderAction

\* What a taker had to hold for its trades, and what they come to, is what they
\* bring.
LEMMA TakerBalance ==
  ASSUME NEW W, NEW currency \in Currency, NEW cmd, cmd.action \in OrderAction,
         cmd.price \in Int,
         NEW trades \in Seq(TradeEvents(FALSE, IsFokBudget(cmd))), NEW reserve \in Int,
         cmd.action = "BID" /\ ~ IsFokBudget(cmd) =>
           \A i \in 1 .. Len(trades) : trades[i].bidderHoldPrice = reserve,
         cmd.action = "BID" /\ IsFokBudget(cmd) => trades # <<>>,
         NEW t, AreTakerTraded(t, cmd, trades, W, currency)
  PROVE  /\ TakerHold(cmd, W, Total(Sizes(trades)), reserve, currency) + Total(t)
              = TakerPart(cmd, trades, W, currency)
         /\ TakerHold(cmd, W, Total(Sizes(trades)), reserve, currency) \in Int
<1>1. PICK budget \in BOOLEAN : budget = IsFokBudget(cmd)
  BY DEF IsFokBudget
<1>2. trades \in Seq(TradeEvents(FALSE, budget))
  BY <1>1
<1>3. PICK size \in Int, cost \in Int, h \in Int :
        size = Total(Sizes(trades)) /\ cost = Total(Costs(trades)) /\ h = Total(Holds(trades))
  BY <1>2, TradeSums DEF Amounts
<1>4. PICK B \in Int, Q \in Int, T \in Int : B = BaseScale /\ Q = QuoteScale /\ T = TakerFee
  BY ScalesAreInt
<1>5. Total(t) =
        IF cmd.uid \notin W THEN 0
        ELSE IF currency = "base"
        THEN (IF cmd.action = "BID" THEN size * B ELSE - (size * B))
        ELSE (IF cmd.action = "BID" THEN - (cost * Q) ELSE cost * Q) - size * T
  <2>1. Total(t) = ComesTo(cmd, W, Total(Sizes(trades)), Total(Costs(trades)), currency)
    BY <1>2, TakerTradedTotal
  <2> QED
    BY <1>3, <1>4, <2>1 DEF ComesTo
<1>6. TakerHold(cmd, W, size, reserve, currency)
        = IF cmd.uid \notin W THEN 0
          ELSE IF budget /\ cmd.action = "BID"
          THEN (IF currency = "quote" THEN cmd.price * Q + size * T ELSE 0)
          ELSE size * (IF cmd.action = "ASK" THEN (IF currency = "base" THEN B ELSE 0)
                       ELSE IF currency = "quote" THEN reserve * Q + T ELSE 0)
  BY <1>1, <1>4 DEF TakerHold, LotHold, AmountBidTakerFeeForBudget
<1>7. CASE cmd.uid \notin W
  BY <1>3, <1>5, <1>6, <1>7 DEF TakerPart
<1>8. CASE cmd.uid \in W /\ trades = <<>>
  <2>1. size = 0 /\ cost = 0
    <3>1. Sizes(trades) = <<>> /\ Costs(trades) = <<>>
      <4>1. DOMAIN trades = {}
        BY <1>8
      <4> QED
        BY <4>1 DEF Sizes, Costs
    <3>2. Total(<<>>) = 0
      <4>1. <<>> \in Seq(Int) /\ Len(<<>>) = 0
        OBVIOUS
      <4> QED
        BY <4>1, TotalOfNone
    <3> QED
      BY <1>3, <3>1, <3>2
  <2>2. ~ (budget /\ cmd.action = "BID")
    BY <1>1, <1>8
  <2>3. TakerPart(cmd, trades, W, currency) = 0
    BY <1>8 DEF TakerPart
  <2>4. Total(t) = 0
    BY <1>4, <1>5, <1>8, <2>1
  <2>5. PICK rate \in Int :
          rate = IF cmd.action = "ASK" THEN (IF currency = "base" THEN B ELSE 0)
                 ELSE IF currency = "quote" THEN reserve * Q + T ELSE 0
    <3>1. reserve * Q \in Int
      BY ProductIsInt
    <3> QED
      BY <3>1
  <2>6. TakerHold(cmd, W, size, reserve, currency) = 0 * rate
    BY <1>6, <1>8, <2>1, <2>2, <2>5
  <2> QED
    BY <1>3, <2>3, <2>4, <2>6
<1>9. ASSUME cmd.uid \in W, trades # <<>>
      PROVE  TakerPart(cmd, trades, W, currency) =
               IF currency = "base" THEN (IF cmd.action = "BID" THEN size * B ELSE 0)
               ELSE IF cmd.action = "BID" THEN ((IF budget THEN cmd.price ELSE h) - cost) * Q
                    ELSE cost * Q - T * size
  <2>1. PICK held \in Int : held = HeldFor(cmd, trades)
    BY <1>3 DEF HeldFor
  <2>2. TakerPart(cmd, trades, W, currency)
          = Brings(cmd, Total(Sizes(trades)), Total(Costs(trades)), HeldFor(cmd, trades), currency)
    BY <1>9, TakerPartIs
  <2> QED
    BY <1>1, <1>3, <1>4, <2>1, <2>2 DEF Brings, HeldFor
<1>10. CASE cmd.uid \in W /\ trades # <<>> /\ cmd.action = "ASK"
  BY <1>3, <1>5, <1>6, <1>9, <1>10
<1>11. CASE cmd.uid \in W /\ trades # <<>> /\ cmd.action = "BID" /\ budget
  BY <1>3, <1>5, <1>6, <1>9, <1>11 DEF Currency
<1>12. CASE cmd.uid \in W /\ trades # <<>> /\ cmd.action = "BID" /\ ~ budget
  <2>1. h = reserve * size
    <3>1. \A i \in 1 .. Len(trades) : trades[i].bidderHoldPrice = reserve
      BY <1>1, <1>12
    <3> QED
      BY <1>2, <1>3, <3>1, HoldsTotal
  <2>2. CASE currency = "base"
    BY <1>3, <1>5, <1>6, <1>9, <1>12, <2>2
  <2>3. CASE currency = "quote"
    <3>1. /\ TakerPart(cmd, trades, W, currency) = (h - cost) * Q
          /\ TakerHold(cmd, W, size, reserve, currency) = size * (reserve * Q + T)
          /\ Total(t) = - (cost * Q) - size * T
      BY <1>5, <1>6, <1>9, <1>12, <2>3
    <3>2. (h - cost) * Q = reserve * size * Q - cost * Q
      BY <2>1
    <3>3. size * (reserve * Q + T) = reserve * size * Q + size * T
      OBVIOUS
    <3>4. PICK k \in Int, l \in Int, m \in Int :
            k = reserve * size * Q /\ l = cost * Q /\ m = size * T
      BY ProductIsInt
    <3>5. PICK f, g, p : /\ f = TakerHold(cmd, W, size, reserve, currency) /\ g = Total(t)
                         /\ p = TakerPart(cmd, trades, W, currency)
      OBVIOUS
    <3>6. f = k + m /\ g = - l - m /\ p = k - l
      BY <3>1, <3>2, <3>3, <3>4, <3>5
    <3>7. f + g = p /\ f \in Int
      BY <3>6
    <3> QED
      BY <1>3, <3>5, <3>7
  <2> QED
    BY <2>2, <2>3 DEF Currency
<1> QED
  BY <1>3, <1>7, <1>8, <1>10, <1>11, <1>12 DEF OrderAction

\* What a maker held for what it gives, and what that comes to, is what it brings.
LEMMA MakerBalance ==
  ASSUME NEW W, NEW currency \in Currency, NEW cmd, NEW a \in OrderAction, cmd.action = a,
         NEW o \in Order(Opposite(a)), NEW ev, ev.matchedOrderUid = o.uid,
         ev.size \in Int, ev.price \in Int,
         a = "ASK" => ev.bidderHoldPrice = o.reserveBidPrice
  PROVE  ev.size * RateOf(o, W, currency) + MakerTraded(cmd, ev, W, currency)
           = MakerPart(cmd, ev, W, currency)
<1>1. PICK B \in Int, Q \in Int, T \in Int, F \in Int :
        B = BaseScale /\ Q = QuoteScale /\ T = TakerFee /\ F = MakerFee
  BY ScalesAreInt
<1>2. PICK s \in Int, p \in Int : s = ev.size /\ p = ev.price
  OBVIOUS
<1>3. o.action = Opposite(a) /\ o.reserveBidPrice \in Int
  BY DEF Order
<1>4. CASE o.uid \notin W
  <2>1. RateOf(o, W, currency) = 0 /\ MakerTraded(cmd, ev, W, currency) = 0
    BY <1>4 DEF RateOf, MakerTraded
  <2>2. MakerPart(cmd, ev, W, currency) = 0
    BY <1>4 DEF MakerPart
  <2> QED
    BY <1>2, <2>1, <2>2
<1>5. CASE o.uid \in W /\ a = "ASK"
  <2>1. PICK r \in Int : r = o.reserveBidPrice /\ r = ev.bidderHoldPrice
    BY <1>3, <1>5
  <2>2. RateOf(o, W, currency) = IF currency = "quote" THEN r * Q + T ELSE 0
    BY <1>1, <1>3, <1>5, <2>1 DEF RateOf, LotHold, Opposite
  <2>3. MakerTraded(cmd, ev, W, currency)
          = IF currency = "base" THEN 1 * (s * B) ELSE (-1) * (s * (p * Q)) - F * s
    BY <1>1, <1>2, <1>5 DEF MakerTraded, LotsOf, Opposite, AmountAsk, AmountBid
  <2>4. MakerPart(cmd, ev, W, currency)
          = IF currency = "base" THEN s * B ELSE s * ((r - p) * Q + (T - F))
    <3>1. MakerGain(cmd, ev) = [base |-> s * B, quote |-> s * ((r - p) * Q + (T - F))]
      BY <1>1, <1>2, <1>5, <2>1 DEF MakerGain, AmountAsk, AmountBidReleaseCorrMaker
    <3>2. MakerPart(cmd, ev, W, currency) = MakerGain(cmd, ev)[currency]
      BY <1>5 DEF MakerPart
    <3>3. PICK x, y : x = s * B /\ y = s * ((r - p) * Q + (T - F))
      OBVIOUS
    <3>4. [base |-> x, quote |-> y][currency] = IF currency = "base" THEN x ELSE y
      BY DEF Currency
    <3> QED
      BY <3>1, <3>2, <3>3, <3>4
  <2>5. CASE currency = "base"
    <3>1. s * B \in Int
      BY ProductIsInt
    <3> QED
      BY <1>2, <2>2, <2>3, <2>4, <2>5, <3>1
  <2>6. CASE currency = "quote"
    <3>1. PICK c \in Int, d \in Int, e \in Int : c = s * (p * Q) /\ d = F * s /\ e = s * (r * Q + T)
      BY ProductIsInt
    <3>2. s * ((r - p) * Q + (T - F)) = e - c - d
      BY <3>1
    <3> QED
      BY <1>2, <2>2, <2>3, <2>4, <2>6, <3>1, <3>2
  <2> QED
    BY <2>5, <2>6 DEF Currency
<1>6. CASE o.uid \in W /\ a = "BID"
  <2>1. RateOf(o, W, currency) = IF currency = "base" THEN B ELSE 0
    BY <1>1, <1>3, <1>6 DEF RateOf, LotHold, Opposite
  <2>2. MakerTraded(cmd, ev, W, currency)
          = IF currency = "base" THEN (-1) * (s * B) ELSE 1 * (s * (p * Q)) - F * s
    BY <1>1, <1>2, <1>6 DEF MakerTraded, LotsOf, Opposite, AmountAsk, AmountBid
  <2>3. MakerPart(cmd, ev, W, currency)
          = IF currency = "quote" THEN s * (p * Q) - F * s ELSE 0
    <3>1. MakerGain(cmd, ev) = Amount("quote", s * (p * Q) - F * s)
      BY <1>1, <1>2, <1>6 DEF MakerGain, AmountBid
    <3>2. MakerPart(cmd, ev, W, currency) = MakerGain(cmd, ev)[currency]
      BY <1>6 DEF MakerPart
    <3>3. PICK x : x = s * (p * Q) - F * s
      OBVIOUS
    <3>4. Amount("quote", x)[currency] = IF currency = "quote" THEN x ELSE 0
      BY DEF Amount, ZeroBalance, Currency
    <3> QED
      BY <3>1, <3>2, <3>3, <3>4
  <2>4. s * B \in Int /\ s * (p * Q) \in Int /\ F * s \in Int
    BY ProductIsInt
  <2>5. CASE currency = "base"
    BY <1>2, <2>1, <2>2, <2>3, <2>4, <2>5
  <2>6. CASE currency = "quote"
    BY <1>2, <2>1, <2>2, <2>3, <2>4, <2>6
  <2> QED
    BY <2>5, <2>6 DEF Currency
<1> QED
  BY <1>4, <1>5, <1>6 DEF OrderAction

\* Trades of a taker, one for each of the first makers.
TradesWith(makers, events, a, reserve, f, volume, budget) ==
  /\ events \in Seq(TradeEvents(FALSE, budget))
  /\ Len(events) \in 0 .. Len(makers)
  /\ \A i \in 1 .. Len(events) :
       /\ makers[i] \in Order(a)
       /\ events[i].matchedOrderUid = makers[i].uid
       /\ events[i].size = Share(f, i, volume)
       /\ events[i].bidderHoldPrice
            = IF a = "ASK" THEN reserve ELSE makers[i].reserveBidPrice
  /\ \A i \in 1 .. Len(makers) : i > Len(events) => Share(f, i, volume) = 0

\* What a match has trades of.
LEMMA MatchTrades ==
  ASSUME NEW b, NEW taker, taker.reserveBidPrice \in Int, NEW volume \in Nat,
         NEW a, NEW makers \in Seq(Resting(a)),
         NEW match, NEW f, IsMatch(match, b, taker, volume, makers, f),
         NEW budget \in BOOLEAN
  PROVE  TradesWith(makers, match.events, a, taker.reserveBidPrice, f, volume, budget)
<1>1. /\ match.events \in Seq(Event)
      /\ Len(match.events) \in 0 .. Len(makers)
      /\ \A i \in 1 .. Len(match.events) :
           /\ Share(f, i, volume) > 0
           /\ match.events[i].eventType = "TRADE"
           /\ match.events[i].matchedOrderId = makers[i].orderId
           /\ match.events[i].size = Share(f, i, volume)
      /\ \A i \in 1 .. Len(makers) : i > Len(match.events) => Share(f, i, volume) = 0
  <2>1. match.events \in Seq(Event)
    BY TradesAreEvents
  <2>2. Len(match.events) \in 0 .. Len(makers)
    BY TradesAreEvents
  <2>3. ASSUME NEW i \in 1 .. Len(match.events)
        PROVE  /\ Share(f, i, volume) > 0
               /\ match.events[i].eventType = "TRADE"
               /\ match.events[i].matchedOrderId = makers[i].orderId
               /\ match.events[i].size = Share(f, i, volume)
    BY TradesAreEvents
  <2>4. ASSUME NEW i \in 1 .. Len(makers), i > Len(match.events)
        PROVE  Share(f, i, volume) = 0
    BY <2>4 DEF IsMatch
  <2> QED
    BY <2>1, <2>2, <2>3, <2>4
<1>2. Len(makers) \in Nat /\ Len(match.events) \in Nat
  BY <1>1, LenProperties
<1>3. ASSUME NEW i \in 1 .. Len(match.events)
      PROVE  /\ makers[i] \in Order(a)
             /\ match.events[i].matchedOrderUid = makers[i].uid
             /\ match.events[i].bidderHoldPrice
                  = IF a = "ASK" THEN taker.reserveBidPrice ELSE makers[i].reserveBidPrice
  <2>1. i \in 1 .. Len(makers)
    BY <1>1, <1>2
  <2>2. makers[i] \in Resting(a)
    BY <2>1, ElementOfSeq
  <2>3. makers[i] \in Order(a) /\ makers[i].action = a
    BY <2>2 DEF Resting, Order
  <2>4. match.events[i] = Trade(taker, makers[i], i, f, volume)
    BY DEF IsMatch
  <2> QED
    BY <2>3, <2>4 DEF Trade, TradeEvent
<1>4. match.events \in Seq(TradeEvents(FALSE, budget))
  <2>1. IsSequence(match.events)
    BY <1>1 DEF IsSequence
  <2>2. ASSUME NEW i \in 1 .. Len(match.events)
        PROVE  match.events[i] \in TradeEvents(FALSE, budget)
    <3>1. match.events[i] \in Event
      BY <1>1, ElementOfSeq
    <3>2. match.events[i] \in TypedEvent
      BY <3>1 DEF Event, TypedEvent
    <3> QED
      BY <1>1, <3>2 DEF TradeEvents
  <2> QED
    BY <2>1, <2>2, SeqByElements
<1> QED
  BY <1>1, <1>3, <1>4 DEF TradesWith

\* What all makers held for what they give, and what their trades come to, is what
\* these bring; and the lots of the trades are those that the makers give.
LEMMA MakersBalance ==
  ASSUME NEW W, NEW currency \in Currency, NEW cmd, NEW a \in OrderAction, cmd.action = a,
         NEW b, NEW taker, taker.reserveBidPrice \in Int, NEW volume \in Nat,
         NEW makers \in Seq(Resting(Opposite(a))),
         NEW match, NEW f, IsMatch(match, b, taker, volume, makers, f),
         NEW trades, trades = match.events,
         NEW n, n = Len(makers),
         NEW y, Given(y, makers, HoldRates(W, currency), n, f, volume),
         NEW g, AreShares(g, n, f, volume),
         NEW m, AreMakerTraded(m, cmd, trades, W, currency),
         NEW p, AreMakerParts(p, cmd, trades, W, currency)
  PROVE  Total(y) + Total(m) = Total(p) /\ Total(g) = Total(Sizes(trades))
<1>1. PICK budget \in BOOLEAN : budget = FALSE
  OBVIOUS
<1>2. PICK h : h = Len(trades)
  OBVIOUS
<1>3. /\ trades \in Seq(TradeEvents(FALSE, budget))
      /\ h \in 0 .. n /\ n \in Nat
      /\ \A i \in 1 .. h :
           /\ makers[i] \in Order(Opposite(a))
           /\ trades[i].matchedOrderUid = makers[i].uid
           /\ trades[i].size = Share(f, i, volume)
           /\ trades[i].bidderHoldPrice
                = IF Opposite(a) = "ASK" THEN taker.reserveBidPrice ELSE makers[i].reserveBidPrice
      /\ \A i \in 1 .. n : i > h => Share(f, i, volume) = 0
  <2>1. Len(makers) \in Nat
    BY LenProperties
  <2>2. TradesWith(makers, trades, Opposite(a), taker.reserveBidPrice, f, volume, budget)
    BY MatchTrades
  <2> QED
    BY <1>2, <2>1, <2>2 DEF TradesWith
<1>4. h \in Nat
  BY <1>3
<1>5. PICK rate : rate = HoldRates(W, currency)
  OBVIOUS
<1>6. /\ y \in Seq(Int) /\ Len(y) = n
      /\ \A i \in 1 .. n : y[i] = Share(f, i, volume) * rate[makers[i]]
  BY <1>5 DEF Given
<1>7. /\ g \in Seq(Int) /\ Len(g) = n
      /\ \A i \in 1 .. n : g[i] = Share(f, i, volume)
  BY DEF AreShares
<1>8. PICK u : /\ u = Sizes(trades) /\ u \in Seq(Int) /\ Len(u) = h
               /\ \A i \in 1 .. h : u[i] = trades[i].size /\ trades[i].size \in Int
                                    /\ trades[i].price \in Int
  <2>1. PICK u, v : /\ u = Sizes(trades) /\ v = Costs(trades)
                    /\ u \in Seq(Int) /\ Len(u) = Len(trades)
                    /\ v \in Seq(Int) /\ Len(v) = Len(trades)
                    /\ \A i \in 1 .. Len(trades) :
                         /\ u[i] = trades[i].size /\ v[i] = trades[i].size * trades[i].price
                         /\ trades[i].size \in Int /\ trades[i].price \in Int
    BY <1>3, SizesAndCosts
  <2> QED
    BY <1>2, <2>1
<1>9. Total(g) = Total(u)
  <2>1. ASSUME NEW i \in 1 .. Len(u) PROVE u[i] = g[i]
    <3>1. i \in 1 .. h /\ i \in 1 .. n
      BY <1>3, <1>8, <2>1
    <3>2. g[i] = Share(f, i, volume)
      BY <1>7, <3>1
    <3>3. trades[i].size = Share(f, i, volume)
      BY <1>3, <3>1
    <3> QED
      BY <1>8, <3>1, <3>2, <3>3
  <2>2. \A i \in 1 .. Len(g) : i > Len(u) => g[i] = 0
    BY <1>3, <1>7, <1>8
  <2>3. Len(u) <= Len(g)
    BY <1>3, <1>7, <1>8
  <2> QED
    BY <1>7, <1>8, <2>1, <2>2, <2>3, TotalOfPadded
<1>10. ASSUME NEW i \in 1 .. n
       PROVE  /\ makers[i] \in Order(Opposite(a))
              /\ rate[makers[i]] = RateOf(makers[i], W, currency)
              /\ RateOf(makers[i], W, currency) \in Int
  <2>1. Opposite(a) \in OrderAction
    BY Sides
  <2>2. makers[i] \in Resting(Opposite(a))
    BY ElementOfSeq
  <2>3. makers[i] \in Order(Opposite(a))
    BY <2>2 DEF Resting
  <2> QED
    BY <1>5, <2>1, <2>3, HoldWeightIs
<1>11. PICK z : z = [i \in 1 .. h |-> y[i]]
  OBVIOUS
<1>12. z \in Seq(Int) /\ Len(z) = h /\ \A i \in 1 .. h : z[i] = y[i]
  <2>1. \A i \in 1 .. h : y[i] \in Int
    BY <1>3, <1>6, ElementOfSeq
  <2>2. z \in [1 .. h -> Int]
    BY <1>11, <2>1
  <2> QED
    BY <1>4, <1>11, <2>2, FunctionIsSeq
<1>13. Total(y) = Total(z)
  <2>1. ASSUME NEW i \in 1 .. Len(y), i > Len(z) PROVE y[i] = 0
    <3>1. i \in 1 .. n /\ i > h
      BY <1>6, <1>12, <2>1
    <3>2. y[i] = 0 * rate[makers[i]] /\ rate[makers[i]] \in Int
      BY <1>3, <1>6, <1>10, <3>1
    <3> QED
      BY <3>2
  <2>2. Len(z) <= Len(y) /\ \A i \in 1 .. Len(z) : z[i] = y[i]
    BY <1>3, <1>6, <1>12
  <2> QED
    BY <1>6, <1>12, <2>1, <2>2, TotalOfPadded
<1>14. m \in Seq(Int) /\ Len(m) = h /\ p \in Seq(Int) /\ Len(p) = h
  BY <1>2 DEF AreMakerTraded, AreMakerParts
<1>15. Total(p) = Total(z) + Total(m)
  <2>1. ASSUME NEW i \in 1 .. Len(p) PROVE p[i] = z[i] + m[i]
    <3>1. i \in 1 .. h /\ i \in 1 .. n
      BY <1>3, <1>14, <2>1
    <3>2. PICK o, ev : o = makers[i] /\ ev = trades[i]
      OBVIOUS
    <3>3. o \in Order(Opposite(a)) /\ RateOf(o, W, currency) \in Int
      BY <1>10, <3>1, <3>2
    <3>4. /\ ev.matchedOrderUid = o.uid /\ ev.size \in Int /\ ev.price \in Int
          /\ a = "ASK" => ev.bidderHoldPrice = o.reserveBidPrice
      BY <1>3, <1>8, <3>1, <3>2 DEF Opposite
    <3>5. ev.size * RateOf(o, W, currency) + MakerTraded(cmd, ev, W, currency)
            = MakerPart(cmd, ev, W, currency)
      BY <3>3, <3>4, MakerBalance
    <3>6. z[i] = ev.size * RateOf(o, W, currency)
      BY <1>3, <1>6, <1>10, <1>12, <3>1, <3>2
    <3>7. m[i] = MakerTraded(cmd, ev, W, currency)
      BY <1>2, <3>1, <3>2 DEF AreMakerTraded
    <3>8. p[i] = MakerPart(cmd, ev, W, currency)
      BY <1>2, <3>1, <3>2 DEF AreMakerParts
    <3> QED
      BY <3>5, <3>6, <3>7, <3>8
  <2>2. Len(z) = Len(p) /\ Len(m) = Len(p) /\ \A i \in 1 .. Len(p) : p[i] = z[i] + m[i]
    BY <1>12, <1>14, <2>1
  <2>3. z \in Seq(Int) /\ m \in Seq(Int) /\ p \in Seq(Int)
    BY <1>12, <1>14
  <2> QED
    BY <2>2, <2>3, TotalsAdd
<1> QED
  BY <1>8, <1>9, <1>13, <1>15

-----------------------------------------------------------------------------
(***************************************************************************)
(* A command moves what users hold and have, and makes nothing of it.      *)
(***************************************************************************)

\* A taker that does not hold a budget.
PerLotHold(cmd) == ~ (IsFokBudget(cmd) /\ cmd.action = "BID")

\* Its hold is for each lot.
LEMMA TakerHoldSum ==
  ASSUME NEW W, NEW currency, NEW cmd, PerLotHold(cmd), NEW reserve \in Int,
         NEW x \in Int, NEW y \in Int, NEW z, z = x + y
  PROVE  /\ TakerHold(cmd, W, z, reserve, currency)
              = TakerHold(cmd, W, x, reserve, currency) + TakerHold(cmd, W, y, reserve, currency)
         /\ TakerHold(cmd, W, x, reserve, currency) \in Int
         /\ TakerHold(cmd, W, y, reserve, currency) \in Int
<1>1. PICK h \in Int : h = LotHold(cmd.action, reserve, currency)
  BY LotHoldIsInt
<1>2. \A n : TakerHold(cmd, W, n, reserve, currency) = IF cmd.uid \notin W THEN 0 ELSE n * h
  BY <1>1 DEF TakerHold, PerLotHold
<1>3. PICK p \in Int, q \in Int : p = x * h /\ q = y * h /\ z * h = p + q
  <2>1. z * h = x * h + y * h
    OBVIOUS
  <2> QED
    BY <2>1, ProductIsInt
<1> QED
  BY <1>2, <1>3

\* An order holds for what is left of it.
LEMMA OrderHold ==
  ASSUME NEW W, NEW currency, NEW cmd, PerLotHold(cmd), NEW a \in OrderAction,
         NEW o \in Order(a), o.uid = cmd.uid, cmd.action = a
  PROVE  /\ HoldWeights(W, currency)[o]
              = TakerHold(cmd, W, Remaining(o), o.reserveBidPrice, currency)
         /\ HoldWeights(W, currency)[o] \in Int
<1>1. /\ HoldWeights(W, currency)[o] = Remaining(o) * RateOf(o, W, currency)
      /\ HoldWeights(W, currency)[o] \in Int
  BY HoldWeightIs
<1>2. o.action = a /\ Remaining(o) \in Int
  BY RemainingIsNat DEF Order
<1>3. CASE cmd.uid \in W
  BY <1>1, <1>2, <1>3 DEF TakerHold, PerLotHold, RateOf
<1>4. CASE cmd.uid \notin W
  <2>1. RateOf(o, W, currency) = 0 /\ TakerHold(cmd, W, Remaining(o), o.reserveBidPrice, currency) = 0
    BY <1>4 DEF TakerHold, RateOf
  <2> QED
    BY <1>1, <1>2, <2>1
<1> QED
  BY <1>3, <1>4

\* What is returned is the hold for it.
LEMMA ReturnedIs ==
  ASSUME NEW W, NEW currency \in Currency, NEW cmd, cmd.action \in OrderAction,
         Returned(cmd.matcherEvent), NEW ev, ev = Head(cmd.matcherEvent),
         IsFokBudget(cmd) /\ cmd.action = "BID" => ev.price = cmd.price,
         ev.size \in Int, ev.price \in Int, ev.bidderHoldPrice \in Int
  PROVE  ReturnedPart(cmd, W, currency)
           = TakerHold(cmd, W, ev.size, ev.bidderHoldPrice, currency)
<1>1. PICK B \in Int, Q \in Int, T \in Int : B = BaseScale /\ Q = QuoteScale /\ T = TakerFee
  BY ScalesAreInt
<1>2. PICK s \in Int, r \in Int : s = ev.size /\ r = ev.bidderHoldPrice
  OBVIOUS
<1>3. \A c \in Currency : \A x : Amount(c, x)[currency] = IF currency = c THEN x ELSE 0
  BY DEF Amount, ZeroBalance, Currency
<1>4. CASE cmd.uid \notin W
  BY <1>4 DEF ReturnedPart, TakerHold
<1>5. CASE cmd.uid \in W /\ cmd.action = "ASK"
  <2>1. Refund(cmd, ev) = Amount("base", s * B)
    BY <1>1, <1>2, <1>5 DEF Refund, AmountAsk
  <2>2. ReturnedPart(cmd, W, currency) = IF currency = "base" THEN s * B ELSE 0
    BY <1>3, <1>5, <2>1 DEF ReturnedPart, Currency
  <2>3. TakerHold(cmd, W, s, r, currency) = s * (IF currency = "base" THEN B ELSE 0)
    BY <1>1, <1>5 DEF TakerHold, LotHold
  <2> QED
    BY <1>2, <2>2, <2>3
<1>6. CASE cmd.uid \in W /\ cmd.action = "BID" /\ IsFokBudget(cmd)
  <2>1. Refund(cmd, ev) = Amount("quote", AmountBidTakerFeeForBudget(s, cmd.price))
    BY <1>2, <1>6 DEF Refund
  <2>2. ReturnedPart(cmd, W, currency)
          = IF currency = "quote" THEN AmountBidTakerFeeForBudget(s, cmd.price) ELSE 0
    BY <1>3, <1>6, <2>1 DEF ReturnedPart, Currency
  <2> QED
    BY <1>2, <1>6, <2>2 DEF TakerHold
<1>7. CASE cmd.uid \in W /\ cmd.action = "BID" /\ ~ IsFokBudget(cmd)
  <2>1. Refund(cmd, ev) = Amount("quote", s * (r * Q + T))
    BY <1>1, <1>2, <1>7 DEF Refund, AmountBidTakerFee
  <2>2. ReturnedPart(cmd, W, currency) = IF currency = "quote" THEN s * (r * Q + T) ELSE 0
    BY <1>3, <1>7, <2>1 DEF ReturnedPart, Currency
  <2>3. TakerHold(cmd, W, s, r, currency) = s * (IF currency = "quote" THEN r * Q + T ELSE 0)
    BY <1>1, <1>7 DEF TakerHold, LotHold
  <2> QED
    BY <1>2, <2>2, <2>3
<1> QED
  BY <1>4, <1>5, <1>6, <1>7 DEF OrderAction

\* A placement without the type of budget order that no book executes.
NoIocBudgetBid(c) ==
  c.command = "PLACE_ORDER" => ~ (c.orderType = "IOC_BUDGET" /\ c.action = "BID")

\* What R1 has taken for a placement is the hold for its size.
LEMMA HoldInIs ==
  ASSUME NEW W, NEW currency \in Currency, NEW c, c.action \in OrderAction, c.size \in Int,
         NoIocBudgetBid(c)
  PROVE  HoldIn(c, W, currency) =
           IF c.command = "PLACE_ORDER" /\ IsValid(c)
           THEN TakerHold(c, W, c.size, c.reserveBidPrice, currency) ELSE 0
<1>1. CASE ~ (c.command = "PLACE_ORDER" /\ IsValid(c))
  BY <1>1 DEF HoldIn, IsValid
<1>2. CASE c.command = "PLACE_ORDER" /\ IsValid(c) /\ c.uid \notin W
  BY <1>2 DEF HoldIn, TakerHold
<1>3. CASE c.command = "PLACE_ORDER" /\ IsValid(c) /\ c.uid \in W
  <2>1. HoldIn(c, W, currency) = IF currency = HoldCurrency(c) THEN OrderHoldAmount(c) ELSE 0
    BY <1>3 DEF HoldIn, IsValid
  <2>2. CASE c.action = "ASK"
    <3>1. HoldCurrency(c) = "base" /\ OrderHoldAmount(c) = c.size * BaseScale
      BY <2>2 DEF HoldCurrency, OrderHoldAmount, AmountAsk
    <3>2. TakerHold(c, W, c.size, c.reserveBidPrice, currency)
            = c.size * (IF currency = "base" THEN BaseScale ELSE 0)
      BY <1>3, <2>2 DEF TakerHold, LotHold
    <3> QED
      BY <1>3, <2>1, <3>1, <3>2
  <2>3. CASE c.action = "BID" /\ IsFokBudget(c)
    <3>1. IsBudget(c)
      BY <2>3 DEF IsBudget, IsFokBudget
    <3>2. /\ HoldCurrency(c) = "quote"
          /\ OrderHoldAmount(c) = AmountBidTakerFeeForBudget(c.size, c.price)
      BY <2>3, <3>1 DEF HoldCurrency, OrderHoldAmount
    <3> QED
      BY <1>3, <2>1, <2>3, <3>2 DEF TakerHold
  <2>4. CASE c.action = "BID" /\ ~ IsFokBudget(c)
    <3>1. ~ IsBudget(c)
      BY <1>3, <2>4 DEF IsBudget, IsFokBudget, NoIocBudgetBid
    <3>2. /\ HoldCurrency(c) = "quote"
          /\ OrderHoldAmount(c) = c.size * (c.reserveBidPrice * QuoteScale + TakerFee)
      BY <2>4, <3>1 DEF HoldCurrency, OrderHoldAmount, AmountBidTakerFee
    <3>3. TakerHold(c, W, c.size, c.reserveBidPrice, currency)
            = c.size * (IF currency = "quote" THEN c.reserveBidPrice * QuoteScale + TakerFee
                        ELSE 0)
      BY <1>3, <2>4 DEF TakerHold, LotHold
    <3> QED
      BY <1>3, <2>1, <3>2, <3>3
  <2> QED
    BY <2>2, <2>3, <2>4 DEF OrderAction
<1> QED
  BY <1>1, <1>2, <1>3

\* What a matched command brings is the sum of the parts p of its makers and of its own.
AreGains(cmd, trades, p, W, currency) ==
  /\ AreMakerParts(p, cmd, trades, W, currency)
  /\ Gained(cmd, W, currency)
       = ReturnedPart(cmd, W, currency) + TakerPart(cmd, trades, W, currency) + Total(p)

\* What a matched command brings, as a sum over its trades.
LEMMA GainsAre ==
  ASSUME NEW W, NEW currency \in Currency, NEW cmd, Settles(cmd, FALSE),
         NEW trades, trades = Trades(cmd.matcherEvent)
  PROVE  /\ ReturnedPart(cmd, W, currency) \in Int
         /\ TakerPart(cmd, trades, W, currency) \in Int
         /\ \E p : AreGains(cmd, trades, p, W, currency)
BY GainedIs DEF AreGains

\* A command without trades.
LEMMA WithoutTrades ==
  ASSUME NEW W, NEW currency \in Currency, NEW cmd, Settles(cmd, FALSE),
         Trades(cmd.matcherEvent) = <<>>
  PROVE  /\ TradedBy(cmd, W, currency) = 0
         /\ Gained(cmd, W, currency) = ReturnedPart(cmd, W, currency)
         /\ ReturnedPart(cmd, W, currency) \in Int
<1>1. PICK trades : trades = Trades(cmd.matcherEvent)
  OBVIOUS
<1>2. ReturnedPart(cmd, W, currency) \in Int
  BY <1>1, GainsAre
<1>3. PICK p : AreGains(cmd, trades, p, W, currency)
  BY <1>1, GainsAre
<1>4. PICK t, m : AreTraded(cmd, trades, t, m, W, currency)
  BY <1>1, TradedIs
<1>5. TakerPart(cmd, trades, W, currency) = 0
  BY <1>1 DEF TakerPart
<1>6. p \in Seq(Int) /\ Len(p) = 0
  BY <1>1, <1>3 DEF AreGains, AreMakerParts
<1>7. t \in Seq(Int) /\ Len(t) = 0 /\ m \in Seq(Int) /\ Len(m) = 0
  BY <1>1, <1>4 DEF AreTraded, AreTakerTraded, AreMakerTraded
<1>8. Total(p) = 0
  BY <1>6, TotalOfNone
<1>9. Total(t) = 0 /\ Total(m) = 0
  BY <1>7, TotalOfNone
<1>10. Gained(cmd, W, currency)
         = ReturnedPart(cmd, W, currency) + TakerPart(cmd, trades, W, currency) + Total(p)
  BY <1>3 DEF AreGains
<1>11. TradedBy(cmd, W, currency) = Total(t) + Total(m)
  BY <1>4 DEF AreTraded
<1> QED
  BY <1>2, <1>5, <1>8, <1>9, <1>10, <1>11

\* A chain of one event that is not a trade.
LEMMA OneReturn ==
  ASSUME NEW ev, ev.eventType # "TRADE", NEW events, events = <<ev>>
  PROVE  Returned(events) /\ Head(events) = ev /\ Trades(events) = <<>>
BY DEF Returned, Trades

\* A chain of none.
LEMMA NoEvent ==
  ASSUME NEW events, events = <<>>
  PROVE  ~ Returned(events) /\ Trades(events) = <<>>
BY DEF Returned, Trades

\* An answer asks what the slot does.
LEMMA AnswerSame ==
  ASSUME NEW cmd, NEW c, NEW code, NEW events, Answers(cmd, c, code, events)
  PROVE  /\ cmd.matcherEvent = events /\ cmd.uid = c.uid /\ cmd.price = c.price
         /\ IsFokBudget(cmd) = (c.command = "PLACE_ORDER" /\ c.orderType = "FOK_BUDGET")
         /\ c.command = "PLACE_ORDER" => cmd.action = c.action
BY DEF Answers, SameFields, IsFokBudget

\* The placements whose money is accounted for.
Placeable(c) == NoIocBudgetBid(c) /\ (c.command = "PLACE_ORDER" => c.size > 0)

\* What the book and the command held is, after matching, what the book holds, what
\* is credited and what the trades came to, with its sign.
Conserved(b, c, res, W, currency) ==
  Held(b, W, currency) + HoldIn(c, W, currency) + TradedBy(res.cmd, W, currency)
    = Held(res.book, W, currency) + Gained(res.cmd, W, currency)

\* A command that leaves the book as it is.
LEMMA UnchangedConserves ==
  ASSUME NEW b, IsBook(b), NEW c, BookSlot(c), Placeable(c), NEW res,
         Settles(res.cmd, FALSE), Unchanged(b, c, res), NEW W, NEW currency \in Currency
  PROVE  Conserved(b, c, res, W, currency)
<1>1. PICK cmd : cmd = res.cmd
  OBVIOUS
<1>2. Settles(cmd, FALSE) /\ res.book = b
  BY <1>1 DEF Unchanged
<1>3. HoldIn(c, W, currency) =
        IF c.command = "PLACE_ORDER" /\ IsValid(c)
        THEN TakerHold(c, W, c.size, c.reserveBidPrice, currency) ELSE 0
  <2>1. c.action \in OrderAction /\ c.size \in Int
    BY DEF BookSlot
  <2>2. NoIocBudgetBid(c)
    BY DEF Placeable
  <2> QED
    BY <2>1, <2>2, HoldInIs
<1>4. Held(b, W, currency) \in Int
  BY HeldIsInt
<1>5. ASSUME NEW code, Answers(cmd, c, code, <<>>), c.command = "PLACE_ORDER" => ~ IsValid(c)
      PROVE  Conserved(b, c, res, W, currency)
  <2>1. cmd.matcherEvent = <<>>
    BY <1>5 DEF Answers
  <2>2. ~ Returned(cmd.matcherEvent) /\ Trades(cmd.matcherEvent) = <<>>
    BY <2>1, NoEvent
  <2>3. TradedBy(cmd, W, currency) = 0 /\ Gained(cmd, W, currency) = ReturnedPart(cmd, W, currency)
    BY <1>2, <2>2, WithoutTrades
  <2>4. ReturnedPart(cmd, W, currency) = 0
    BY <2>2 DEF ReturnedPart
  <2>5. HoldIn(c, W, currency) = 0
    BY <1>3, <1>5
  <2> QED
    BY <1>1, <1>2, <1>4, <2>3, <2>4, <2>5 DEF Conserved
<1>6. ASSUME c.command = "PLACE_ORDER", IsValid(c),
             Answers(cmd, c, "SUCCESS", <<RejectEvent(c, c.size)>>)
      PROVE  Conserved(b, c, res, W, currency)
  <2>1. PICK ev : ev = RejectEvent(c, c.size)
    OBVIOUS
  <2>2. /\ ev.eventType # "TRADE" /\ ev.size = c.size /\ ev.price = c.price
        /\ ev.bidderHoldPrice = c.reserveBidPrice
    BY <2>1 DEF RejectEvent, SingleEvent
  <2>3. ev.size \in Int /\ ev.price \in Int /\ ev.bidderHoldPrice \in Int
    BY <2>2 DEF BookSlot
  <2>4. PICK events : events = <<ev>>
    OBVIOUS
  <2>5. Answers(cmd, c, "SUCCESS", events)
    BY <1>6, <2>1, <2>4
  <2>6. /\ cmd.matcherEvent = events /\ cmd.uid = c.uid /\ cmd.price = c.price
        /\ IsFokBudget(cmd) = IsFokBudget(c) /\ cmd.action = c.action
    BY <1>6, <2>5, AnswerSame DEF IsFokBudget
  <2>7. Returned(events) /\ Head(events) = ev /\ Trades(events) = <<>>
    BY <2>2, <2>4, OneReturn
  <2>8. ReturnedPart(cmd, W, currency)
          = TakerHold(cmd, W, ev.size, ev.bidderHoldPrice, currency)
    <3>1. cmd.action \in OrderAction
      BY <2>6 DEF BookSlot
    <3> QED
      BY <2>2, <2>3, <2>6, <2>7, <3>1, ReturnedIs
  <2>9. TakerHold(cmd, W, c.size, c.reserveBidPrice, currency)
          = TakerHold(c, W, c.size, c.reserveBidPrice, currency)
    BY <2>6 DEF TakerHold
  <2>10. /\ TradedBy(cmd, W, currency) = 0
         /\ Gained(cmd, W, currency) = ReturnedPart(cmd, W, currency)
         /\ ReturnedPart(cmd, W, currency) \in Int
    BY <1>2, <2>6, <2>7, WithoutTrades
  <2>11. HoldIn(c, W, currency) = ReturnedPart(cmd, W, currency)
    BY <1>3, <1>6, <2>2, <2>8, <2>9
  <2> QED
    BY <1>1, <1>2, <1>4, <2>10, <2>11 DEF Conserved
<1> QED
  BY <1>1, <1>5, <1>6 DEF Unchanged

\* The event of so many lots taken off an order.
TakesOff(events, order, n) ==
  \E completed : events = <<ReduceEvent(order, n, completed)>>

\* A command that trades nothing brings what so many lots of an order held.
Regained(c, cmd, a, order, n, W, currency) ==
  /\ PerLotHold(cmd) /\ cmd.uid = order.uid
  /\ order \in Order(a) /\ order.reserveBidPrice \in Int
  /\ TradedBy(cmd, W, currency) = 0 /\ HoldIn(c, W, currency) = 0
  /\ Gained(cmd, W, currency) = TakerHold(cmd, W, n, order.reserveBidPrice, currency)

\* A command that takes lots off an order.
LEMMA ReductionGains ==
  ASSUME NEW b, NEW c, BookSlot(c), c.command # "PLACE_ORDER", NEW a, NEW order,
         OwnOrder(b, c, a, order), NEW n \in Nat, NEW events, TakesOff(events, order, n),
         NEW cmd, Settles(cmd, FALSE), cmd.action = a, NEW code, Answers(cmd, c, code, events),
         NEW W, NEW currency \in Currency
  PROVE  Regained(c, cmd, a, order, n, W, currency)
<1>1. PICK ev, completed : ev = ReduceEvent(order, n, completed) /\ events = <<ev>>
  BY DEF TakesOff
<1>2. /\ ev.eventType # "TRADE" /\ ev.size = n /\ ev.price = order.price
      /\ ev.bidderHoldPrice = order.reserveBidPrice
  BY <1>1 DEF ReduceEvent, SingleEvent
<1>3. order \in Order(a) /\ a \in OrderAction /\ order.uid = c.uid
  BY DEF OwnOrder, Resting
<1>4. order.price \in Int /\ order.reserveBidPrice \in Int
  BY <1>3 DEF Order
<1>5. cmd.matcherEvent = events /\ cmd.uid = c.uid /\ ~ IsFokBudget(cmd)
  BY AnswerSame
<1>6. Returned(events) /\ Head(events) = ev /\ Trades(events) = <<>>
  BY <1>1, <1>2, OneReturn
<1>7. ReturnedPart(cmd, W, currency)
        = TakerHold(cmd, W, ev.size, ev.bidderHoldPrice, currency)
  <2>1. ev.size \in Int /\ ev.price \in Int /\ ev.bidderHoldPrice \in Int
    BY <1>2, <1>4
  <2>2. cmd.action \in OrderAction
    BY <1>3
  <2> QED
    BY <1>5, <1>6, <2>1, <2>2, ReturnedIs
<1>8. TradedBy(cmd, W, currency) = 0 /\ Gained(cmd, W, currency) = ReturnedPart(cmd, W, currency)
  BY <1>5, <1>6, WithoutTrades
<1>9. HoldIn(c, W, currency) = 0
  BY DEF HoldIn
<1>10. PerLotHold(cmd)
  BY <1>5 DEF PerLotHold
<1> QED
  BY <1>2, <1>3, <1>4, <1>5, <1>7, <1>8, <1>9, <1>10 DEF Regained

\* A command that takes an order out returns what the order held.
LEMMA RemovedConserves ==
  ASSUME NEW b, IsBook(b), NEW c, BookSlot(c), NEW res,
         Settles(res.cmd, FALSE), Removed(b, c, res), NEW W, NEW currency \in Currency
  PROVE  Conserved(b, c, res, W, currency)
<1>1. PICK a, order :
        /\ OwnOrder(b, c, a, order)
        /\ c.command # "PLACE_ORDER" /\ c.command # "MOVE_ORDER"
        /\ res.book = Without(b, order) /\ res.cmd.action = a
        /\ Answers(res.cmd, c, "SUCCESS", <<ReduceEvent(order, Remaining(order), TRUE)>>)
  BY DEF Removed
<1>2. PICK cmd, n, e : cmd = res.cmd /\ n = Remaining(order) /\ e = Without(b, order)
  OBVIOUS
<1>3. n \in Nat
  <2>1. order \in Order(a)
    BY <1>1 DEF OwnOrder, Resting
  <2> QED
    BY <1>2, <2>1, RemainingIsNat
<1>4. /\ PerLotHold(cmd) /\ cmd.uid = order.uid
      /\ order \in Order(a) /\ order.reserveBidPrice \in Int
      /\ TradedBy(cmd, W, currency) = 0 /\ HoldIn(c, W, currency) = 0
      /\ Gained(cmd, W, currency) = TakerHold(cmd, W, n, order.reserveBidPrice, currency)
  <2>1. PICK events, code : events = <<ReduceEvent(order, n, TRUE)>> /\ code = "SUCCESS"
    OBVIOUS
  <2>2. TakesOff(events, order, n) /\ Answers(cmd, c, code, events)
    BY <1>1, <1>2, <2>1 DEF TakesOff
  <2>3. Settles(cmd, FALSE) /\ cmd.action = a
    BY <1>1, <1>2
  <2>4. OwnOrder(b, c, a, order) /\ c.command # "PLACE_ORDER"
    BY <1>1
  <2>5. Regained(c, cmd, a, order, n, W, currency)
    BY <1>3, <2>2, <2>3, <2>4, ReductionGains
  <2> QED
    BY <2>5 DEF Regained
<1>5. a \in OrderAction /\ order.action = a /\ Has(b[a], order)
  BY <1>1 DEF OwnOrder
<1>6. PICK w, rate : w = HoldWeights(W, currency) /\ rate = HoldRates(W, currency)
  OBVIOUS
<1>7. Weighing(w, rate)
  BY <1>6, HoldsWeigh
<1>8. BookWorth(b, w) = BookWorth(e, w) + w[order] /\ BookWorth(e, w) \in Int
  BY <1>2, <1>4, <1>5, <1>7, WithoutBookWorth
<1>9. w[order] = TakerHold(cmd, W, n, order.reserveBidPrice, currency) /\ w[order] \in Int
  BY <1>1, <1>2, <1>4, <1>5, <1>6, OrderHold
<1>10. Held(b, W, currency) = Held(e, W, currency) + Gained(cmd, W, currency)
  BY <1>4, <1>6, <1>8, <1>9 DEF Held
<1>11. Held(b, W, currency) \in Int
  BY HeldIsInt
<1> QED
  BY <1>1, <1>2, <1>4, <1>10, <1>11 DEF Conserved

\* A command that reduces an order returns what those lots held.
LEMMA ReducedConserves ==
  ASSUME NEW b, IsBook(b), NEW c, BookSlot(c), NEW res,
         Settles(res.cmd, FALSE), Reduced(b, c, res), NEW W, NEW currency \in Currency
  PROVE  Conserved(b, c, res, W, currency)
<1>1. PICK a, order, new, by :
        /\ OwnOrder(b, c, a, order)
        /\ c.command # "PLACE_ORDER" /\ c.command # "MOVE_ORDER"
        /\ new \in Resting(a) /\ Same(order, new)
        /\ new.uid = order.uid /\ new.reserveBidPrice = order.reserveBidPrice
        /\ by \in Nat /\ Remaining(new) = Remaining(order) - by
        /\ res.book = Replace(b, order, new) /\ res.cmd.action = a
        /\ Answers(res.cmd, c, "SUCCESS", <<ReduceEvent(order, by, FALSE)>>)
  BY DEF Reduced
<1>2. PICK cmd, e : cmd = res.cmd /\ e = Replace(b, order, new)
  OBVIOUS
<1>3. by \in Nat
  BY <1>1
<1>4. /\ PerLotHold(cmd) /\ cmd.uid = order.uid
      /\ order \in Order(a) /\ order.reserveBidPrice \in Int
      /\ TradedBy(cmd, W, currency) = 0 /\ HoldIn(c, W, currency) = 0
      /\ Gained(cmd, W, currency) = TakerHold(cmd, W, by, order.reserveBidPrice, currency)
  <2>1. PICK events, code : events = <<ReduceEvent(order, by, FALSE)>> /\ code = "SUCCESS"
    OBVIOUS
  <2>2. TakesOff(events, order, by) /\ Answers(cmd, c, code, events)
    BY <1>1, <1>2, <2>1 DEF TakesOff
  <2>3. Settles(cmd, FALSE) /\ cmd.action = a
    BY <1>1, <1>2
  <2>4. OwnOrder(b, c, a, order) /\ c.command # "PLACE_ORDER"
    BY <1>1
  <2>5. Regained(c, cmd, a, order, by, W, currency)
    BY <1>3, <2>2, <2>3, <2>4, ReductionGains
  <2> QED
    BY <2>5 DEF Regained
<1>5. a \in OrderAction /\ order.action = a /\ Has(b[a], order) /\ new \in Order(a)
  BY <1>1 DEF OwnOrder, Resting
<1>6. PICK w, rate : w = HoldWeights(W, currency) /\ rate = HoldRates(W, currency)
  OBVIOUS
<1>7. Weighing(w, rate)
  BY <1>6, HoldsWeigh
<1>8. PICK r \in Int : r = order.reserveBidPrice
  BY <1>4
<1>9. PICK l \in Int, k \in Int : l = Remaining(order) /\ k = Remaining(new) /\ l = k + by
  <2>1. Remaining(order) \in Nat /\ Remaining(new) \in Nat
    BY <1>4, <1>5, RemainingIsNat
  <2> QED
    BY <1>1, <2>1
<1>10. w[order] = TakerHold(cmd, W, l, r, currency)
  <2>1. cmd.action = a
    BY <1>1, <1>2
  <2>2. w[order] = TakerHold(cmd, W, Remaining(order), order.reserveBidPrice, currency)
    BY <1>4, <1>5, <1>6, <2>1, OrderHold
  <2> QED
    BY <1>8, <1>9, <2>2
<1>11. w[new] = TakerHold(cmd, W, k, r, currency)
  <2>1. cmd.action = a /\ new.uid = cmd.uid
    BY <1>1, <1>2, <1>4
  <2>2. w[new] = TakerHold(cmd, W, Remaining(new), new.reserveBidPrice, currency)
    BY <1>4, <1>5, <1>6, <2>1, OrderHold
  <2> QED
    BY <1>1, <1>8, <1>9, <2>2
<1>12. PICK x \in Int : x = TakerHold(cmd, W, by, r, currency) /\ w[new] = w[order] - x
  <2>1. by \in Int
    BY <1>3
  <2>2. /\ TakerHold(cmd, W, l, r, currency)
             = TakerHold(cmd, W, k, r, currency) + TakerHold(cmd, W, by, r, currency)
        /\ TakerHold(cmd, W, k, r, currency) \in Int
        /\ TakerHold(cmd, W, by, r, currency) \in Int
    BY <1>4, <1>9, <2>1, TakerHoldSum
  <2> QED
    BY <1>10, <1>11, <2>2
<1>13. BookWorth(b, w) = BookWorth(e, w) + x /\ BookWorth(e, w) \in Int
  <2>1. new \in Resting(a) /\ Same(order, new)
    BY <1>1
  <2> QED
    BY <1>2, <1>5, <1>7, <1>12, <2>1, ReplacedBookWorth
<1>14. Held(b, W, currency) = Held(e, W, currency) + Gained(cmd, W, currency)
  BY <1>4, <1>6, <1>8, <1>12, <1>13 DEF Held
<1>15. Held(b, W, currency) \in Int
  BY HeldIsInt
<1> QED
  BY <1>1, <1>2, <1>4, <1>14, <1>15 DEF Conserved

\* What is taken to the makers has been held, by the order that is moved or for
\* the one that is placed.
LEMMA TakerHeld ==
  ASSUME NEW b, IsBook(b), NEW c, BookSlot(c), Placeable(c),
         c.command = "PLACE_ORDER" => IsValid(c),
         NEW a, NEW from, NEW taker, NEW volume, Takes(b, c, a, from, taker, volume),
         NEW cmd, cmd.uid = c.uid, cmd.action = a, cmd.price = c.price,
         IsFokBudget(cmd) = (c.command = "PLACE_ORDER" /\ c.orderType = "FOK_BUDGET"),
         NEW W, NEW currency \in Currency
  PROVE  Held(b, W, currency) + HoldIn(c, W, currency)
           = Held(from, W, currency) + TakerHold(cmd, W, volume, taker.reserveBidPrice, currency)
<1>1. HoldIn(c, W, currency) =
        IF c.command = "PLACE_ORDER" /\ IsValid(c)
        THEN TakerHold(c, W, c.size, c.reserveBidPrice, currency) ELSE 0
  <2>1. c.action \in OrderAction /\ c.size \in Int
    BY DEF BookSlot
  <2>2. NoIocBudgetBid(c)
    BY DEF Placeable
  <2> QED
    BY <2>1, <2>2, HoldInIs
<1>2. CASE c.command = "PLACE_ORDER" /\ from = b /\ taker = c /\ volume = c.size
  <2>1. a = c.action
    BY <1>2 DEF Takes
  <2>2. IsFokBudget(cmd) = IsFokBudget(c)
    BY <1>2 DEF IsFokBudget
  <2>3. TakerHold(cmd, W, c.size, c.reserveBidPrice, currency)
          = TakerHold(c, W, c.size, c.reserveBidPrice, currency)
    BY <2>1, <2>2 DEF TakerHold
  <2> QED
    BY <1>1, <1>2, <2>3
<1>3. CASE /\ c.command = "MOVE_ORDER" /\ OwnOrder(b, c, a, taker)
           /\ from = Without(b, taker) /\ volume = Remaining(taker)
  <2>1. /\ a \in OrderAction /\ taker \in Order(a) /\ taker.action = a
        /\ Has(b[a], taker) /\ taker.uid = cmd.uid
    BY <1>3 DEF OwnOrder, Resting
  <2>2. PerLotHold(cmd)
    BY <1>3 DEF PerLotHold
  <2>3. PICK w, rate : w = HoldWeights(W, currency) /\ rate = HoldRates(W, currency)
    OBVIOUS
  <2>4. Weighing(w, rate)
    BY <2>3, HoldsWeigh
  <2>5. BookWorth(b, w) = BookWorth(from, w) + w[taker]
    BY <1>3, <2>1, <2>4, WithoutBookWorth
  <2>6. w[taker] = TakerHold(cmd, W, volume, taker.reserveBidPrice, currency)
    BY <1>3, <2>1, <2>2, <2>3, OrderHold
  <2>7. HoldIn(c, W, currency) = 0 /\ Held(b, W, currency) \in Int
    BY <1>1, <1>3, HeldIsInt
  <2> QED
    BY <2>3, <2>5, <2>6, <2>7 DEF Held
<1> QED
  BY <1>2, <1>3 DEF Takes

\* What the volume of a taker held is held by what rests of it, returned, or for its trades.
HoldsLeft(cmd, taker, match, left, volume, res, W, currency) ==
  /\ Trades(cmd.matcherEvent) = match.events
  /\ IsFokBudget(cmd) => left = 0
  /\ TakerHold(cmd, W, match.filled, taker.reserveBidPrice, currency) \in Int =>
       Held(match.book, W, currency)
         + TakerHold(cmd, W, volume, taker.reserveBidPrice, currency)
       = Held(res.book, W, currency) + ReturnedPart(cmd, W, currency)
         + TakerHold(cmd, W, match.filled, taker.reserveBidPrice, currency)

\* What is left is held by an order that rests, or returned.
LEMMA LeftHeld ==
  ASSUME NEW c, BookSlot(c), NEW a \in OrderAction, NEW taker, taker.reserveBidPrice \in Int,
         c.command = "PLACE_ORDER" => taker = c,
         NEW match, IsBook(match.book), match.filled \in Int,
         NEW budget \in BOOLEAN, match.events \in Seq(TradeEvents(FALSE, budget)),
         NEW left \in Int, NEW res, Leaves(c, a, taker, match, left, res),
         NEW cmd, cmd = res.cmd, cmd.uid = c.uid, cmd.action = a,
         IsFokBudget(cmd) = (c.command = "PLACE_ORDER" /\ c.orderType = "FOK_BUDGET"),
         NEW volume, volume = left + match.filled,
         NEW W, NEW currency \in Currency
  PROVE  HoldsLeft(cmd, taker, match, left, volume, res, W, currency)
<1>1. SUFFICES
         /\ Trades(cmd.matcherEvent) = match.events
         /\ IsFokBudget(cmd) => left = 0
         /\ TakerHold(cmd, W, match.filled, taker.reserveBidPrice, currency) \in Int =>
              Held(match.book, W, currency)
                + TakerHold(cmd, W, volume, taker.reserveBidPrice, currency)
              = Held(res.book, W, currency) + ReturnedPart(cmd, W, currency)
                + TakerHold(cmd, W, match.filled, taker.reserveBidPrice, currency)
  BY DEF HoldsLeft
<1>2. PICK filled \in Int : filled = match.filled
  OBVIOUS
<1>3. PICK r \in Int : r = taker.reserveBidPrice
  OBVIOUS
<1>4. PICK trades : trades = match.events
  OBVIOUS
<1>5. trades = match.events /\ filled = match.filled /\ r = taker.reserveBidPrice
  BY <1>2, <1>3, <1>4
<1>6. trades \in Seq(TradeEvents(FALSE, budget))
  BY <1>5
<1>7. ~ Returned(trades) /\ Trades(trades) = trades
  BY <1>6, TradesOnly
<1>8. Held(match.book, W, currency) \in Int
  BY HeldIsInt
<1>9. CASE left = 0 /\ res.book = match.book /\ Answers(res.cmd, c, "SUCCESS", match.events)
  <2>1. cmd.matcherEvent = trades
    BY <1>5, <1>9 DEF Answers
  <2>2. ReturnedPart(cmd, W, currency) = 0 /\ volume = filled
    BY <1>5, <1>7, <1>9, <2>1 DEF ReturnedPart
  <2> QED
    BY <1>5, <1>7, <1>8, <1>9, <2>1, <2>2
<1>10. CASE /\ left > 0 /\ c.command = "PLACE_ORDER" /\ c.orderType # "FOK_BUDGET"
           /\ res.book = match.book
           /\ Answers(res.cmd, c, "SUCCESS", <<RejectEvent(c, left)>> \o match.events)
  <2>1. PICK ev : ev = RejectEvent(c, left)
    OBVIOUS
  <2>2. /\ ev.eventType # "TRADE" /\ ev.size = left /\ ev.price \in Int
        /\ ev.bidderHoldPrice = r
    BY <1>5, <1>10, <2>1 DEF RejectEvent, SingleEvent, BookSlot
  <2>3. ev \in ReturnEvents(FALSE)
    <3>1. ev \in TypedEvent
      BY <1>10, <2>1 DEF RejectEvent, SingleEvent, BookSlot, TypedEvent
    <3> QED
      BY <2>2, <3>1 DEF ReturnEvents
  <2>4. PICK events : events = <<ev>> \o trades
    OBVIOUS
  <2>5. cmd.matcherEvent = events
    BY <1>5, <1>10, <2>1, <2>4 DEF Answers
  <2>6. Returned(events) /\ Head(events) = ev /\ Trades(events) = trades
    <3>1. PICK sound \in BOOLEAN : sound = FALSE
      OBVIOUS
    <3>2. ev \in ReturnEvents(sound) /\ trades \in Seq(TradeEvents(sound, budget))
      BY <1>6, <2>3, <3>1
    <3> QED
      BY <2>4, <3>2, AfterReturn
  <2>7. PerLotHold(cmd) /\ ~ IsFokBudget(cmd)
    BY <1>10 DEF PerLotHold
  <2>8. ReturnedPart(cmd, W, currency) = TakerHold(cmd, W, left, r, currency)
    BY <2>2, <2>5, <2>6, <2>7, ReturnedIs
  <2>9. /\ TakerHold(cmd, W, volume, r, currency)
             = TakerHold(cmd, W, left, r, currency) + TakerHold(cmd, W, filled, r, currency)
        /\ TakerHold(cmd, W, left, r, currency) \in Int
        /\ TakerHold(cmd, W, filled, r, currency) \in Int
    BY <1>5, <2>7, TakerHoldSum
  <2> QED
    BY <1>5, <1>8, <1>10, <2>5, <2>6, <2>7, <2>8, <2>9
<1>11. ASSUME NEW order,
             left > 0, c.command = "PLACE_ORDER" => c.orderType # "FOK_BUDGET",
             MayRest(match.book, a, order),
             Remaining(order) = left, order.uid = c.uid,
             order.reserveBidPrice = taker.reserveBidPrice,
             res.book = Rest(match.book, order),
             Answers(res.cmd, c, "SUCCESS", match.events)
      PROVE  /\ Trades(cmd.matcherEvent) = match.events /\ ~ IsFokBudget(cmd)
             /\ Held(match.book, W, currency) + TakerHold(cmd, W, volume, r, currency)
                  = Held(res.book, W, currency) + ReturnedPart(cmd, W, currency)
                    + TakerHold(cmd, W, filled, r, currency)
  <2>1. cmd.matcherEvent = trades
    BY <1>5, <1>11 DEF Answers
  <2>2. ReturnedPart(cmd, W, currency) = 0
    BY <1>7, <2>1 DEF ReturnedPart
  <2>3. ~ IsFokBudget(cmd) /\ PerLotHold(cmd)
    BY <1>11 DEF PerLotHold
  <2>4. order \in Order(a) /\ order.action = a
    BY <1>11 DEF MayRest, Resting, Order
  <2>5. PICK w, rate : w = HoldWeights(W, currency) /\ rate = HoldRates(W, currency)
    OBVIOUS
  <2>6. Weighing(w, rate)
    BY <2>5, HoldsWeigh
  <2>7. PICK d, e : d = match.book /\ e = Rest(d, order)
    OBVIOUS
  <2>8. BookWorth(e, w) = BookWorth(d, w) + w[order] /\ BookWorth(d, w) \in Int
    <3>1. IsBook(d) /\ MayRest(d, a, order)
      BY <1>11, <2>7
    <3> QED
      BY <2>6, <2>7, <3>1, RestedBookWorth
  <2>9. w[order] = TakerHold(cmd, W, left, r, currency)
    BY <1>5, <1>11, <2>3, <2>4, <2>5, OrderHold
  <2>10. /\ TakerHold(cmd, W, volume, r, currency)
             = TakerHold(cmd, W, left, r, currency) + TakerHold(cmd, W, filled, r, currency)
        /\ TakerHold(cmd, W, left, r, currency) \in Int
        /\ TakerHold(cmd, W, filled, r, currency) \in Int
    <3>1. PerLotHold(cmd) /\ volume = left + filled
      BY <1>5, <2>3
    <3> QED
      BY <3>1, TakerHoldSum
  <2>11. Held(res.book, W, currency)
           = Held(match.book, W, currency) + TakerHold(cmd, W, left, r, currency)
    BY <1>11, <2>5, <2>7, <2>8, <2>9 DEF Held
  <2> QED
    BY <1>5, <1>7, <1>8, <2>1, <2>2, <2>3, <2>10, <2>11
<1> QED
  BY <1>5, <1>9, <1>10, <1>11 DEF Leaves

\* A command that trades.
LEMMA ExecutedConserves ==
  ASSUME NEW b, IsBook(b), NEW c, BookSlot(c), Placeable(c), NEW res,
         Settles(res.cmd, FALSE), Executed(b, c, res), NEW W, NEW currency \in Currency
  PROVE  Conserved(b, c, res, W, currency)
<1>1. PICK a, from, taker, volume, makers, match, f :
        /\ Takes(b, c, a, from, taker, volume)
        /\ makers \in Seq(Resting(Opposite(a))) /\ First(makers, from[Opposite(a)])
        /\ IsMatch(match, from, taker, volume, makers, f)
        /\ Leaves(c, a, taker, match, volume - match.filled, res) /\ res.cmd.action = a
        /\ c.command = "PLACE_ORDER" => IsValid(c)
  BY DEF Executed
<1>2. PICK cmd : cmd = res.cmd /\ Settles(cmd, FALSE)
  OBVIOUS
<1>3. /\ a \in OrderAction /\ a = taker.action /\ volume \in Nat /\ IsBook(from)
      /\ c.command = "PLACE_ORDER" => taker = c /\ volume = c.size
  BY <1>1 DEF Takes
<1>4. PICK r \in Int : r = taker.reserveBidPrice
  BY <1>1 DEF Takes
<1>5. Opposite(a) \in OrderAction /\ cmd.action = a
  BY <1>1, <1>2, <1>3, Sides
<1>6. PICK budget \in BOOLEAN : budget = IsFokBudget(cmd)
  BY DEF IsFokBudget
<1>7. PICK trades : trades = match.events
  OBVIOUS
<1>8. /\ trades \in Seq(TradeEvents(FALSE, budget))
      /\ \A i \in 1 .. Len(trades) :
           trades[i].bidderHoldPrice
             = IF Opposite(a) = "ASK" THEN taker.reserveBidPrice ELSE makers[i].reserveBidPrice
  <2>1. TradesWith(makers, match.events, Opposite(a), taker.reserveBidPrice, f, volume, budget)
    BY <1>1, <1>3, <1>4, MatchTrades
  <2> QED
    BY <1>7, <2>1 DEF TradesWith
<1>9. PICK code, events : Answers(cmd, c, code, events)
  BY <1>1, <1>2 DEF Leaves
<1>10. /\ cmd.uid = c.uid /\ cmd.price = c.price
       /\ IsFokBudget(cmd) = (c.command = "PLACE_ORDER" /\ c.orderType = "FOK_BUDGET")
  BY <1>9, AnswerSame
<1>11. cmd.price \in Int
  BY <1>10 DEF BookSlot
<1>12. IsBook(match.book) /\ match.filled \in Nat
  <2>1. PICK d : d = match.book
    OBVIOUS
  <2>2. IsBook(d) /\ match.filled \in Nat
    BY <1>1, <1>3, <2>1, MatchedBook
  <2> QED
    BY <2>1, <2>2
<1>13. PICK left \in Int, filled \in Int :
         /\ filled = match.filled /\ left = volume - match.filled /\ volume = left + match.filled
  BY <1>3, <1>12
<1>14. /\ Trades(cmd.matcherEvent) = trades
       /\ IsFokBudget(cmd) => left = 0
       /\ TakerHold(cmd, W, filled, r, currency) \in Int =>
            Held(match.book, W, currency) + TakerHold(cmd, W, volume, r, currency)
            = Held(res.book, W, currency) + ReturnedPart(cmd, W, currency)
              + TakerHold(cmd, W, filled, r, currency)
  <2>1. Leaves(c, a, taker, match, left, res)
    BY <1>1, <1>13
  <2>2. match.events \in Seq(TradeEvents(FALSE, budget))
    BY <1>7, <1>8
  <2>3. match.filled \in Int
    <3>1. match.filled \in Nat
      BY <1>12
    <3> QED
      BY <3>1
  <2>4. taker.reserveBidPrice \in Int
    BY <1>4
  <2>5. IsBook(match.book) /\ volume = left + match.filled /\ cmd = res.cmd
    BY <1>2, <1>12, <1>13
  <2>6. a \in OrderAction /\ cmd.action = a /\ (c.command = "PLACE_ORDER" => taker = c)
    BY <1>3, <1>5
  <2>7. HoldsLeft(cmd, taker, match, left, volume, res, W, currency)
    BY <1>10, <2>1, <2>2, <2>4, <2>3, <2>5, <2>6, LeftHeld
  <2> QED
    BY <1>4, <1>7, <1>13, <2>7 DEF HoldsLeft
<1>15. Held(b, W, currency) + HoldIn(c, W, currency)
         = Held(from, W, currency) + TakerHold(cmd, W, volume, r, currency)
  BY <1>1, <1>4, <1>5, <1>10, TakerHeld
<1>16. PICK w, rate, n, e : /\ w = HoldWeights(W, currency) /\ rate = HoldRates(W, currency)
                            /\ n = Len(makers) /\ e = match.book
  OBVIOUS
<1>17. PICK g, y : /\ AreShares(g, n, f, volume) /\ Total(g) = match.filled
                   /\ Given(y, makers, rate, n, f, volume)
                   /\ BookWorth(from, w) = BookWorth(e, w) + Total(y)
                   /\ BookWorth(e, w) \in Int
  <2>1. Weighing(w, rate)
    BY <1>16, HoldsWeigh
  <2>2. \E g, y : /\ AreShares(g, Len(makers), f, volume) /\ Total(g) = match.filled
                   /\ Given(y, makers, rate, Len(makers), f, volume)
                   /\ BookWorth(from, w) = BookWorth(e, w) + Total(y)
                   /\ BookWorth(e, w) \in Int
    BY <1>1, <1>3, <1>16, <2>1, MatchedBookWorth
  <2> QED
    BY <1>16, <2>2
<1>18. Held(from, W, currency) = Held(match.book, W, currency) + Total(y)
  BY <1>16, <1>17 DEF Held
<1>19. Settles(cmd, FALSE) /\ trades = Trades(cmd.matcherEvent)
  BY <1>2, <1>14
<1>20. PICK t, m : AreTraded(cmd, trades, t, m, W, currency)
  BY <1>19, TradedIs
<1>21. /\ AreTakerTraded(t, cmd, trades, W, currency)
       /\ AreMakerTraded(m, cmd, trades, W, currency)
       /\ TradedBy(cmd, W, currency) = Total(t) + Total(m)
  BY <1>20 DEF AreTraded
<1>22. PICK p : AreGains(cmd, trades, p, W, currency)
  BY <1>19, GainsAre
<1>23. /\ AreMakerParts(p, cmd, trades, W, currency)
       /\ Gained(cmd, W, currency)
            = ReturnedPart(cmd, W, currency) + TakerPart(cmd, trades, W, currency) + Total(p)
  BY <1>22 DEF AreGains
<1>24. ReturnedPart(cmd, W, currency) \in Int /\ TakerPart(cmd, trades, W, currency) \in Int
  BY <1>19, GainsAre
<1>25. Total(y) + Total(m) = Total(p) /\ Total(g) = Total(Sizes(trades))
  <2>1. Given(y, makers, HoldRates(W, currency), n, f, volume)
    BY <1>16, <1>17
  <2>2. AreShares(g, n, f, volume)
    BY <1>17
  <2>3. taker.reserveBidPrice \in Int
    BY <1>4
  <2> QED
    BY <1>1, <1>3, <1>5, <1>7, <1>16, <1>21, <1>23, <2>1, <2>2, <2>3, MakersBalance
<1>26. Total(Sizes(trades)) = filled
  BY <1>13, <1>17, <1>25
<1>27. /\ TakerHold(cmd, W, filled, r, currency) + Total(t)
            = TakerPart(cmd, trades, W, currency)
       /\ TakerHold(cmd, W, filled, r, currency) \in Int
  <2>1. trades \in Seq(TradeEvents(FALSE, IsFokBudget(cmd)))
    BY <1>6, <1>8
  <2>2. ASSUME cmd.action = "BID", ~ IsFokBudget(cmd)
        PROVE  \A i \in 1 .. Len(trades) : trades[i].bidderHoldPrice = r
    BY <1>4, <1>5, <1>8, <2>2 DEF Opposite
  <2>3. ASSUME cmd.action = "BID", IsFokBudget(cmd)
        PROVE  trades # <<>>
    <3>1. filled > 0
      <4>1. left = 0 /\ c.size > 0 /\ volume = c.size
        BY <1>3, <1>10, <1>14, <2>3 DEF Placeable
      <4>2. volume = left + filled
        BY <1>13
      <4>3. volume > 0
        BY <4>1
      <4>4. volume = filled
        BY <4>1, <4>2
      <4> QED
        BY <4>3, <4>4
    <3>2. SUFFICES ASSUME trades = <<>> PROVE FALSE
      OBVIOUS
    <3>3. PICK u : u = Sizes(trades) /\ u \in Seq(Int) /\ Len(u) = Len(trades)
      BY <1>8, SizesAndCosts
    <3>4. Len(u) = 0
      BY <3>2, <3>3
    <3>5. Total(u) = 0
      BY <3>3, <3>4, TotalOfNone
    <3> QED
      BY <1>26, <3>1, <3>3, <3>5
  <2>4. cmd.action \in OrderAction
    BY <1>3, <1>5
  <2>5. /\ TakerHold(cmd, W, Total(Sizes(trades)), r, currency) + Total(t)
             = TakerPart(cmd, trades, W, currency)
        /\ TakerHold(cmd, W, Total(Sizes(trades)), r, currency) \in Int
    BY <1>11, <1>21, <2>1, <2>2, <2>3, <2>4, TakerBalance
  <2> QED
    BY <1>26, <2>5
<1>28. /\ Held(b, W, currency) \in Int /\ Held(match.book, W, currency) \in Int
       /\ Total(t) \in Int /\ Total(m) \in Int /\ Total(p) \in Int /\ Total(y) \in Int
  <2>1. Held(b, W, currency) \in Int /\ Held(match.book, W, currency) \in Int
    BY <1>12, HeldIsInt
  <2>2. t \in Seq(Int) /\ m \in Seq(Int) /\ p \in Seq(Int) /\ y \in Seq(Int)
    BY <1>17, <1>21, <1>23 DEF AreTakerTraded, AreMakerTraded, AreMakerParts, Given
  <2> QED
    BY <2>1, <2>2, TotalIsInt
<1>29. PICK hb \in Int, hm \in Int, tt \in Int, mm \in Int, pp \in Int, yy \in Int,
            hf \in Int, rp \in Int, tp \in Int :
         /\ hb = Held(b, W, currency) /\ hm = Held(match.book, W, currency)
         /\ tt = Total(t) /\ mm = Total(m) /\ pp = Total(p) /\ yy = Total(y)
         /\ hf = TakerHold(cmd, W, filled, r, currency)
         /\ rp = ReturnedPart(cmd, W, currency) /\ tp = TakerPart(cmd, trades, W, currency)
  BY <1>24, <1>27, <1>28
<1>30. PICK hi, hr, hv : /\ hi = HoldIn(c, W, currency) /\ hr = Held(res.book, W, currency)
                         /\ hv = TakerHold(cmd, W, volume, r, currency)
  OBVIOUS
<1>31. /\ hb + hi = hm + yy + hv
       /\ hm + hv = hr + rp + hf
       /\ yy + mm = pp /\ hf + tt = tp
  BY <1>14, <1>15, <1>18, <1>25, <1>27, <1>29, <1>30
<1>32. hr \in Int /\ hv \in Int /\ hi \in Int
  <2>1. hr \in Int
    <3>1. IsBook(res.book)
      <4>1. Effect(b, c, res)
        BY DEF Effect
      <4>2. c.command = "PLACE_ORDER" => c.size \in Nat
        BY DEF Placeable, BookSlot
      <4> QED
        BY <4>1, <4>2, OutcomeIsBook
    <3> QED
      BY <1>30, <3>1, HeldIsInt
  <2>2. hi \in Int
    <3>1. hi = HoldIn(c, W, currency) /\ c.size \in Int /\ c.price \in Int
          /\ c.reserveBidPrice \in Int
      BY <1>30 DEF BookSlot
    <3>2. OrderHoldAmount(c) \in Int
      <4>1. PICK B \in Int, Q \in Int, T \in Int :
              B = BaseScale /\ Q = QuoteScale /\ T = TakerFee
        BY ScalesAreInt
      <4>2. PICK x \in Int, y1 \in Int, z \in Int :
              /\ x = c.size * B /\ y1 = c.price * Q + c.size * T
              /\ z = c.size * (c.reserveBidPrice * Q + T)
        BY <3>1, ProductIsInt
      <4> QED
        BY <4>1, <4>2 DEF OrderHoldAmount, AmountAsk, AmountBidTakerFeeForBudget,
                          AmountBidTakerFee
    <3> QED
      BY <3>1, <3>2 DEF HoldIn
  <2>3. hv \in Int
    <3>1. CASE IsFokBudget(cmd)
      <4>1. volume = filled
        BY <1>3, <1>13, <1>14, <3>1
      <4> QED
        BY <1>29, <1>30, <4>1
    <3>2. CASE ~ IsFokBudget(cmd)
      <4>1. PerLotHold(cmd)
        BY <3>2 DEF PerLotHold
      <4>2. PICK zero \in Int, v \in Int : zero = 0 /\ v = volume /\ v = v + zero
        BY <1>3
      <4> QED
        BY <1>30, <4>1, <4>2, TakerHoldSum
    <3> QED
      BY <3>1, <3>2
  <2> QED
    BY <2>1, <2>2, <2>3
<1>33. hb + hi + (tt + mm) = hr + (rp + tp + pp)
  BY <1>31, <1>32
<1> QED
  BY <1>2, <1>21, <1>23, <1>29, <1>30, <1>33 DEF Conserved

\* Whatever a book does with a command, what users hold in its orders and for the
\* command, with what they trade for, is what they hold afterwards and what the
\* command brings them.
LEMMA CommandConserves ==
  ASSUME NEW b, IsBook(b), NEW c, BookSlot(c), Placeable(c), NEW res,
         Settles(res.cmd, FALSE), Effect(b, c, res), NEW W, NEW currency \in Currency
  PROVE  Conserved(b, c, res, W, currency)
BY UnchangedConserves, RemovedConserves, ReducedConserves, ExecutedConserves DEF Effect

-----------------------------------------------------------------------------
(***************************************************************************)
(* The accounts of a user.                                                 *)
(***************************************************************************)
\* What a user has in an account, if there is one.
Balance(p, uid, currency) == IF uid \in DOMAIN p THEN p[uid].accounts[currency] ELSE 0

\* An account is a whole number.
LEMMA BalanceIsInt ==
  ASSUME NEW sound \in BOOLEAN, NEW p \in ProfileMaps(sound), NEW uid,
         NEW currency \in Currency
  PROVE  Balance(p, uid, currency) \in Int
<1>1. CASE uid \in DOMAIN p
  <2>1. p[uid] \in Profile(Amounts(sound))
    BY <1>1, ProfileMap
  <2>2. p[uid].accounts[currency] \in Int
    BY <2>1, ProfileFields
  <2> QED
    BY <1>1, <2>2 DEF Balance
<1>2. CASE uid \notin DOMAIN p
  BY <1>2 DEF Balance
<1> QED
  BY <1>1, <1>2

\* A new profile has nothing.
LEMMA AddedBalance ==
  ASSUME NEW p, NEW uid, uid \notin DOMAIN p, NEW status,
         NEW q, q = WithUser(p, uid, NewProfile(status)), NEW u, NEW currency \in Currency
  PROVE  Balance(q, u, currency) = Balance(p, u, currency)
<1>1. PICK x : x = NewProfile(status)
  OBVIOUS
<1>2. x.accounts[currency] = 0
  BY <1>1 DEF NewProfile, ZeroBalance
<1>3. /\ DOMAIN q = {uid} \cup DOMAIN p /\ q[uid] = x
      /\ \A v \in DOMAIN p : v # uid => q[v] = p[v]
  BY <1>1 DEF WithUser
<1>4. CASE u = uid
  BY <1>2, <1>3, <1>4 DEF Balance
<1>5. CASE u # uid
  BY <1>3, <1>5 DEF Balance
<1> QED
  BY <1>4, <1>5

\* Profiles p with x for that of uid, and what users have in them.
IsReplaced(q, p, uid, x) == uid \in DOMAIN p /\ q = [p EXCEPT ![uid] = x]

ReplacedHas(q, p, uid, x, u, currency) ==
  Balance(q, u, currency) = IF u = uid THEN x.accounts[currency] ELSE Balance(p, u, currency)

\* Another profile in the place of one.
LEMMA ReplacedBalance ==
  ASSUME NEW p, NEW uid, NEW x, NEW q, IsReplaced(q, p, uid, x), NEW u, NEW currency
  PROVE  ReplacedHas(q, p, uid, x, u, currency)
<1>1. DOMAIN q = DOMAIN p /\ q[uid] = x /\ \A v \in DOMAIN p : v # uid => q[v] = p[v]
  BY DEF IsReplaced
<1>2. uid \in DOMAIN p
  BY DEF IsReplaced
<1> QED
  BY <1>1, <1>2 DEF Balance, ReplacedHas

\* A credit.
LEMMA CreditBalance ==
  ASSUME NEW sound \in BOOLEAN, NEW p \in ProfileMaps(sound),
         NEW credit \in CreditRecords(sound), NEW uid, NEW currency \in Currency
  PROVE  Balance(Credit(p, credit), uid, currency)
           = Balance(p, uid, currency) + (IF credit.uid = uid THEN credit.gain[currency] ELSE 0)
<1>1. PICK to \in Int : to = credit.uid
  BY DEF CreditRecords
<1>2. PICK q : q = GetUserProfileOrAddSuspended(p, to)
  OBVIOUS
<1>3. /\ q \in ProfileMaps(sound) /\ to \in DOMAIN q
      /\ Balance(q, uid, currency) = Balance(p, uid, currency)
  <2>1. CASE to \in DOMAIN p
    BY <1>2, <2>1 DEF GetUserProfileOrAddSuspended
  <2>2. CASE to \notin DOMAIN p
    <3>1. PICK status \in {"ACTIVE", "SUSPENDED"} : status = "SUSPENDED"
      OBVIOUS
    <3>2. q = WithUser(p, to, NewProfile(status))
      BY <1>2, <2>2, <3>1 DEF GetUserProfileOrAddSuspended
    <3>3. q \in ProfileMaps(sound) /\ to \in DOMAIN q
      BY <2>2, <3>2, ProfileAdded
    <3>4. Balance(q, uid, currency) = Balance(p, uid, currency)
      BY <2>2, <3>2, AddedBalance
    <3> QED
      BY <3>3, <3>4
  <2> QED
    BY <2>1, <2>2
<1>4. PICK sums : sums = [c \in Currency |-> q[to].accounts[c] + credit.gain[c]]
  OBVIOUS
<1>5. PICK x : x = [q[to] EXCEPT !.accounts = sums]
  OBVIOUS
<1>6. x.accounts[currency] = q[to].accounts[currency] + credit.gain[currency]
  <2>1. PICK y \in Profile(Amounts(sound)) : y = q[to]
    BY <1>3, ProfileMap
  <2>2. x.accounts = sums
    BY <1>5, <2>1 DEF Profile
  <2> QED
    BY <1>4, <2>2
<1>7. PICK r : r = [q EXCEPT ![to] = x]
  OBVIOUS
<1>8. Credit(p, credit) = r
  BY <1>1, <1>2, <1>4, <1>5, <1>7 DEF Credit
<1>9. Balance(r, uid, currency)
        = IF uid = to THEN x.accounts[currency] ELSE Balance(q, uid, currency)
  <2>1. IsReplaced(r, q, to, x)
    BY <1>3, <1>7 DEF IsReplaced
  <2>2. ReplacedHas(r, q, to, x, uid, currency)
    BY <2>1, ReplacedBalance
  <2> QED
    BY <2>2 DEF ReplacedHas
<1>10. CASE uid = to
  <2>1. Balance(q, uid, currency) = q[to].accounts[currency]
    BY <1>3, <1>10 DEF Balance
  <2> QED
    BY <1>1, <1>3, <1>6, <1>8, <1>9, <1>10, <2>1
<1>11. CASE uid # to
  <2>1. Balance(p, uid, currency) \in Int
    BY BalanceIsInt
  <2> QED
    BY <1>1, <1>3, <1>8, <1>9, <1>11, <2>1
<1> QED
  BY <1>10, <1>11

\* The users of a ledger: one.
IsOnly(W, uid) == \A u : u \in W <=> u = uid

\* Credits bring a user what they are worth.
CreditsAdd(p, credits, uid, W, currency) ==
  Balance(CreditAll(p, credits), uid, currency)
    = Balance(p, uid, currency) + Worth(credits, GainWeights(W, currency))

\* A sequence of credits.
LEMMA CreditAllBalance ==
  ASSUME NEW p, p \in ProfileMaps(FALSE), NEW credits, credits \in Seq(CreditRecords(FALSE)),
         NEW uid, NEW W, IsOnly(W, uid), NEW currency \in Currency
  PROVE  CreditsAdd(p, credits, uid, W, currency)
<1>1. PICK sound \in BOOLEAN : sound = FALSE
  OBVIOUS
<1>2. p \in ProfileMaps(sound) /\ credits \in Seq(CreditRecords(sound))
  BY <1>1
<1>3. PICK all : IsCredited(all, p, credits, sound)
  BY <1>2, CreditSteps
<1>4. PICK N \in Nat : N = Len(credits)
  BY LenProperties
<1>5. \A i \in 1 .. N : credits[i] \in CreditRecords(FALSE)
  BY <1>4, ElementOfSeq
<1>6. PICK w : w = GainWeights(W, currency)
  OBVIOUS
<1>7. /\ Weighs(w, CreditRecords(FALSE))
      /\ \A x \in CreditRecords(FALSE) : w[x] = IF x.uid = uid THEN x.gain[currency] ELSE 0
  BY <1>6, GainsWeigh DEF IsOnly
<1>8. PICK a : IsWeighed(a, credits, w)
  <2>1. PICK S : S = CreditRecords(FALSE)
    OBVIOUS
  <2>2. Weighs(w, S) /\ credits \in Seq(S)
    BY <1>7, <2>1
  <2> QED
    BY <2>2, WeightsOf
<1>9. /\ a \in Seq(Int) /\ Len(a) = N /\ Worth(credits, w) = Total(a)
      /\ \A i \in 1 .. N : a[i] = w[credits[i]]
  BY <1>4, <1>8 DEF IsWeighed
<1>10. PICK f : Sums(f, a, N)
  BY <1>9, SumsOf
<1>11. Total(a) = f[N]
  BY <1>9, <1>10, TotalBySums
<1> DEFINE B(i) == Balance(all[i], uid, currency)
           Q == {i \in 0 .. N : B(i) = B(0) + f[i]}
<1>12. \A i \in 0 .. N : all[i] \in ProfileMaps(sound) /\ f[i] \in Int
  BY <1>3, <1>4, <1>10 DEF IsCredited, Sums
<1>13. \A i \in 0 .. N : B(i) \in Int
  BY <1>12, BalanceIsInt
<1>14. 0 \in Q
  <2>1. f[0] = 0 /\ 0 \in 0 .. N
    BY <1>10 DEF Sums
  <2>2. B(0) \in Int
    BY <1>13, <2>1
  <2> QED
    BY <2>1, <2>2
<1>15. ASSUME NEW i \in 0 .. N - 1, i \in Q PROVE i + 1 \in Q
  <2>1. PICK j \in 1 .. N : j = i + 1 /\ j - 1 = i
    OBVIOUS
  <2>2. all[j] = Credit(all[i], credits[j])
    BY <1>3, <1>4, <2>1 DEF IsCredited
  <2>3. PICK q \in ProfileMaps(sound) : q = all[i]
    BY <1>12
  <2>4. PICK x \in CreditRecords(FALSE) : x = credits[j]
    BY <1>5
  <2>5. x \in CreditRecords(sound)
    BY <1>1
  <2>6. Balance(Credit(q, x), uid, currency)
          = Balance(q, uid, currency) + (IF x.uid = uid THEN x.gain[currency] ELSE 0)
    BY <2>5, CreditBalance
  <2>7. a[j] = IF x.uid = uid THEN x.gain[currency] ELSE 0
    BY <1>7, <1>9, <2>4
  <2>8. f[j] = f[i] + a[j] /\ a[j] \in Int
    BY <1>9, <1>10, <2>1, ElementOfSeq DEF Sums
  <2>9. B(j) = B(i) + a[j]
    BY <2>2, <2>3, <2>4, <2>6, <2>7
  <2>10. B(i) = B(0) + f[i] /\ B(0) \in Int /\ f[i] \in Int
    BY <1>12, <1>13, <1>15
  <2>11. B(j) = B(0) + f[j]
    <3> HIDE DEF B
    <3> QED
      BY <2>8, <2>9, <2>10
  <2> QED
    BY <2>1, <2>11
<1>16. N \in Q
  <2> HIDE DEF Q
  <2>1. \A i \in 0 .. N : i \in Q
    BY <1>14, <1>15, InductionOverInterval
  <2> QED
    BY <2>1
<1>17. all[0] = p /\ CreditAll(p, credits) = all[N]
  BY <1>3, <1>4 DEF IsCredited
<1> QED
  BY <1>6, <1>9, <1>11, <1>16, <1>17 DEF CreditsAdd

\* The credits that a shard keeps.
OwnOf(own, credits, shard) ==
  own = {c \in ToSet(credits) : UidForThisHandler(shard, c.uid)}

KeepsWorth(kept, credits, W, currency) ==
  /\ kept \in Seq(CreditRecords(FALSE))
  /\ Worth(kept, GainWeights(W, currency)) = Worth(credits, GainWeights(W, currency))

\* The credits of a user are kept by the risk engine of the user.
LEMMA OwnCredits ==
  ASSUME NEW credits, credits \in Seq(CreditRecords(FALSE)), NEW shard, NEW uid,
         UidForThisHandler(shard, uid), NEW own, OwnOf(own, credits, shard),
         NEW kept, kept = Kept(credits, own), NEW W, IsOnly(W, uid), NEW currency \in Currency
  PROVE  KeepsWorth(kept, credits, W, currency)
<1>1. own = {c \in ToSet(credits) : UidForThisHandler(shard, c.uid)}
  BY DEF OwnOf
<1>2. PICK S : S = CreditRecords(FALSE)
  OBVIOUS
<1>3. PICK w : w = GainWeights(W, currency)
  OBVIOUS
<1>4. /\ Weighs(w, S) /\ credits \in Seq(S)
      /\ \A x \in S : w[x] = IF x.uid = uid THEN x.gain[currency] ELSE 0
  BY <1>2, <1>3, GainsWeigh DEF IsOnly
<1>5. PICK p : p = Part(credits, own, w)
  OBVIOUS
<1>6. kept \in Seq(S) /\ Worth(kept, w) = Total(p)
  BY <1>4, <1>5, KeptWorth
<1>7. PICK a : IsWeighed(a, credits, w)
  BY <1>4, WeightsOf
<1>8. PICK N \in Nat : N = Len(credits)
  BY LenProperties
<1>9. /\ p \in Seq(Int) /\ Len(p) = N
      /\ \A i \in 1 .. N : p[i] = IF credits[i] \in own THEN w[credits[i]] ELSE 0
  BY <1>4, <1>5, <1>8, PartIs DEF Points
<1>10. /\ a \in Seq(Int) /\ Len(a) = N /\ Worth(credits, w) = Total(a)
      /\ \A i \in 1 .. N : a[i] = w[credits[i]]
  BY <1>7, <1>8 DEF IsWeighed
<1>11. ASSUME NEW i \in 1 .. N PROVE p[i] = a[i]
  <2>1. PICK x : x = credits[i]
    OBVIOUS
  <2>2. x \in S /\ x \in ToSet(credits)
    <3>1. DOMAIN credits = 1 .. N
      BY <1>4, <1>8, LenProperties
    <3> QED
      BY <1>4, <1>8, <2>1, <3>1, ElementOfSeq DEF ToSet
  <2>3. CASE x \in own
    BY <1>9, <1>10, <2>1, <2>3
  <2>4. CASE x \notin own
    <3>1. x.uid # uid
      BY <1>1, <2>2, <2>4
    <3>2. w[x] = 0
      BY <1>4, <2>2, <3>1
    <3> QED
      BY <1>9, <1>10, <2>1, <2>4, <3>2
  <2> QED
    BY <2>3, <2>4
<1>12. Total(p) = Total(a)
  <2>1. PICK f : Sums(f, a, N)
    BY <1>10, SumsOf
  <2>2. Total(a) = f[N]
    BY <1>10, <2>1, TotalBySums
  <2>3. Total(p) = f[Len(p)]
    <3>1. Len(p) <= N /\ \A i \in 1 .. Len(p) : p[i] = a[i]
      BY <1>9, <1>11
    <3> QED
      BY <1>9, <2>1, <3>1, TotalOfFirst
  <2> QED
    BY <1>9, <2>2, <2>3
<1> QED
  BY <1>2, <1>3, <1>6, <1>10, <1>12 DEF KeepsWorth

\* The engine knows the symbol of a command that has events.
KnowsSymbol(e, cmd) == cmd.matcherEvent # <<>> => cmd.symbol \in e.symbols

\* The engine f has brought the user what the command brings.
PaysOut(f, e, cmd, uid, W, currency) ==
  Balance(f.profiles, uid, currency)
    = Balance(e.profiles, uid, currency) + Gained(cmd, W, currency)

\* R2 brings a user what a command brings, if it knows the symbol.
LEMMA SettlementBalance ==
  ASSUME NEW e, e \in Engines(FALSE), NEW shard, NEW uid, UidForThisHandler(shard, uid),
         NEW cmd, Settles(cmd, FALSE), KnowsSymbol(e, cmd),
         NEW W, IsOnly(W, uid), NEW currency \in Currency
  PROVE  PaysOut(PostProcessCommand(e, shard, cmd), e, cmd, uid, W, currency)
<1>1. cmd.matcherEvent # <<>> => cmd.symbol \in e.symbols
  BY DEF KnowsSymbol
<1>2. PICK credits : credits = Credits(cmd)
  OBVIOUS
<1>3. credits \in Seq(CreditRecords(FALSE))
  <2>1. PICK sound \in BOOLEAN : sound = FALSE
    OBVIOUS
  <2>2. FeesInOrder(sound) /\ Settles(cmd, sound)
    BY <2>1 DEF FeesInOrder
  <2>3. Credits(cmd) \in Seq(CreditRecords(sound))
    BY <2>2, CreditsSound
  <2> QED
    BY <1>2, <2>1, <2>3
<1>4. PICK own : own = {c \in ToSet(credits) : UidForThisHandler(shard, c.uid)}
  OBVIOUS
<1>5. PICK kept : kept = Kept(credits, own)
  OBVIOUS
<1>6. OwnOf(own, credits, shard)
  BY <1>4 DEF OwnOf
<1>7. KeepsWorth(kept, credits, W, currency)
  BY <1>3, <1>5, <1>6, OwnCredits
<1>8. /\ kept \in Seq(CreditRecords(FALSE))
      /\ Worth(kept, GainWeights(W, currency)) = Worth(credits, GainWeights(W, currency))
  BY <1>7 DEF KeepsWorth
<1>9. PICK p : p \in ProfileMaps(FALSE) /\ p = e.profiles
  BY DEF Engines
<1>10. Balance(CreditAll(p, kept), uid, currency)
        = Balance(p, uid, currency) + Worth(kept, GainWeights(W, currency))
  <2>1. kept \in Seq(CreditRecords(FALSE))
    BY <1>8
  <2>2. p \in ProfileMaps(FALSE)
    BY <1>9
  <2>3. CreditsAdd(p, kept, uid, W, currency)
    BY <2>1, <2>2, CreditAllBalance
  <2> QED
    BY <2>3 DEF CreditsAdd
<1>11. PostProcessCommand(e, shard, cmd).profiles = CreditAll(p, kept)
  <2>1. PICK all : all = CreditAll(p, kept)
    OBVIOUS
  <2>2. PICK fees : fees = e.fees + FeesOf(shard, cmd)
    OBVIOUS
  <2>3. PostProcessCommand(e, shard, cmd) = [e EXCEPT !.profiles = all, !.fees = fees]
    BY <1>2, <1>4, <1>5, <1>9, <1>1, <2>1, <2>2 DEF PostProcessCommand
  <2> QED
    BY <2>1, <2>3 DEF Engines
<1>12. Balance(PostProcessCommand(e, shard, cmd).profiles, uid, currency)
         = Balance(e.profiles, uid, currency) + Gained(cmd, W, currency)
  BY <1>2, <1>8, <1>9, <1>10, <1>11 DEF Gained
<1> QED
  BY <1>12 DEF PaysOut

\* Another profile for a user.
LEMMA ProfileSetBalance ==
  ASSUME NEW e, NEW f, NEW uid, NEW x, ProfileSet(e, f, uid, x), NEW u, NEW currency
  PROVE  Balance(f.profiles, u, currency)
           = IF u = uid THEN x.accounts[currency] ELSE Balance(e.profiles, u, currency)
<1>1. PICK p, q : p = e.profiles /\ q = f.profiles
  OBVIOUS
<1>2. IsReplaced(q, p, uid, x)
  BY <1>1 DEF ProfileSet, IsReplaced
<1>3. ReplacedHas(q, p, uid, x, u, currency)
  BY <1>2, ReplacedBalance
<1> QED
  BY <1>1, <1>3 DEF ReplacedHas

\* The accounts of an engine are those of its profiles.
LEMMA AccountsAre ==
  ASSUME NEW sound \in BOOLEAN, NEW e \in Engines(sound), NEW uid \in DOMAIN e.profiles,
         NEW currency \in Currency
  PROVE  /\ Balance(e.profiles, uid, currency) = e.profiles[uid].accounts[currency]
         /\ Balance(e.profiles, uid, currency) \in Int
         /\ e.profiles[uid].accounts \in [Currency -> Int]
         /\ e.profiles[uid].adjustmentsCounter \in Nat
<1>1. PICK p \in ProfileMaps(sound) : p = e.profiles
  BY DEF Engines
<1>2. p[uid] \in Profile(Amounts(sound))
  BY <1>1, ProfileMap
<1>3. p[uid].accounts \in [Currency -> Int] /\ p[uid].adjustmentsCounter \in Nat
  <2>1. \A a \in Amounts(sound) : a \in Int
    BY DEF Amounts
  <2>2. /\ p[uid].accounts \in [Currency -> Amounts(sound)]
        /\ p[uid].adjustmentsCounter \in Nat
    BY <1>2, ProfileFields
  <2> QED
    BY <2>1, <2>2
<1> QED
  BY <1>1, <1>3 DEF Balance

\* The same of the profiles of an engine.
LEMMA EngineBalanceIsInt ==
  ASSUME NEW sound \in BOOLEAN, NEW e \in Engines(sound), NEW uid, NEW currency \in Currency
  PROVE  Balance(e.profiles, uid, currency) \in Int
<1>1. PICK p \in ProfileMaps(sound) : p = e.profiles
  BY DEF Engines
<1>2. Balance(p, uid, currency) \in Int
  BY BalanceIsInt
<1> QED
  BY <1>1, <1>2

\* An adjustment.
IsAdjustment(cmd) ==
  /\ cmd.uid \in Int /\ cmd.symbol \in Currency /\ cmd.price \in Int /\ cmd.orderId \in Int
  /\ cmd.orderType \in BalanceAdjustmentType

AdjustsBalance(res, e, cmd, u, currency) ==
  /\ Balance(res.engine.profiles, u, currency)
       = Balance(e.profiles, u, currency)
         + (IF res.code = "SUCCESS" /\ u = cmd.uid /\ currency = cmd.symbol
            THEN cmd.price ELSE 0)
  /\ res.engine.symbols = e.symbols
  /\ \A v : v \in DOMAIN res.engine.profiles <=> v \in DOMAIN e.profiles

\* What an adjustment brings.
LEMMA AdjustmentBalance ==
  ASSUME NEW sound \in BOOLEAN, NEW e \in Engines(sound), NEW cmd, IsAdjustment(cmd),
         NEW res, res = AdjustBalance(e, cmd), NEW u, NEW currency \in Currency
  PROVE  AdjustsBalance(res, e, cmd, u, currency)
<1>1. /\ cmd.uid \in Int /\ cmd.symbol \in Currency /\ cmd.price \in Int /\ cmd.orderId \in Int
      /\ cmd.orderType \in BalanceAdjustmentType
  BY DEF IsAdjustment
<1>2. Balance(e.profiles, u, currency) \in Int
  BY EngineBalanceIsInt
<1>3. CASE res.code # "SUCCESS"
  <2>1. res.engine = e
    BY <1>3, <1>1, AdjustmentIs
  <2> QED
    BY <1>2, <1>3, <2>1 DEF AdjustsBalance
<1>4. CASE res.code = "SUCCESS"
  <2>1. PICK x : /\ ProfileSet(e, res.engine, cmd.uid, x)
                 /\ AdjustedTo(e.profiles[cmd.uid], x, cmd)
    BY <1>4, <1>1, AdjustmentIs
  <2>2. Balance(res.engine.profiles, u, currency)
          = IF u = cmd.uid THEN x.accounts[currency] ELSE Balance(e.profiles, u, currency)
    BY <2>1, ProfileSetBalance
  <2>3. ASSUME u = cmd.uid
        PROVE  x.accounts[currency]
                 = Balance(e.profiles, u, currency)
                   + (IF currency = cmd.symbol THEN cmd.price ELSE 0)
    <3>1. u \in DOMAIN e.profiles
      BY <2>1, <2>3 DEF ProfileSet
    <3>2. PICK a \in [Currency -> Int] :
            a = e.profiles[u].accounts /\ Balance(e.profiles, u, currency) = a[currency]
      BY <3>1, AccountsAre
    <3>3. x.accounts = [a EXCEPT ![cmd.symbol] = @ + cmd.price]
      BY <2>1, <2>3, <3>2 DEF AdjustedTo
    <3> QED
      BY <3>2, <3>3
  <2>4. /\ res.engine.symbols = e.symbols
        /\ \A v : v \in DOMAIN res.engine.profiles <=> v \in DOMAIN e.profiles
    BY <2>1 DEF ProfileSet
  <2> QED
    BY <1>2, <1>4, <2>2, <2>3, <2>4 DEF AdjustsBalance
<1> QED
  BY <1>3, <1>4

\* What a user holds at R1 leaves the account.
HoldsBalance(res, e, cmd, u, currency) ==
  /\ Balance(e.profiles, u, currency)
       = Balance(res.engine.profiles, u, currency)
         + (IF /\ res.code = "VALID_FOR_MATCHING_ENGINE"
               /\ u = cmd.uid /\ currency = HoldCurrency(cmd)
            THEN OrderHoldAmount(cmd) ELSE 0)
  /\ res.engine.symbols = e.symbols
  /\ res.code = "VALID_FOR_MATCHING_ENGINE" =>
       cmd.symbol \in e.symbols /\ OrderHoldAmount(cmd) \in Int

\* What the check of R1 holds, it takes from the account.
LEMMA RiskCheckBalance ==
  ASSUME NEW sound \in BOOLEAN, NEW e \in Engines(sound), NEW cmd, IsSlot(cmd),
         NEW res, res = PlaceOrderRiskCheck(e, cmd), NEW u, NEW currency \in Currency
  PROVE  HoldsBalance(res, e, cmd, u, currency)
<1>1. Balance(e.profiles, u, currency) \in Int
  BY EngineBalanceIsInt
<1>2. CASE res.code # "VALID_FOR_MATCHING_ENGINE"
  <2>1. res.engine = e
    BY <1>2, RiskCheckKept
  <2> QED
    BY <1>1, <1>2, <2>1 DEF HoldsBalance
<1>3. CASE res.code = "VALID_FOR_MATCHING_ENGINE"
  <2>1. cmd.symbol \in e.symbols
    BY <1>3, RiskCheckKept
  <2>2. PICK x : /\ ProfileSet(e, res.engine, cmd.uid, x)
                 /\ HeldOf(e.profiles[cmd.uid], x, cmd)
    BY <1>3, RiskCheckKept
  <2>3. Balance(res.engine.profiles, u, currency)
          = IF u = cmd.uid THEN x.accounts[currency] ELSE Balance(e.profiles, u, currency)
    BY <2>2, ProfileSetBalance
  <2>4. PICK hold \in Int : hold = OrderHoldAmount(cmd)
    BY <2>2 DEF HeldOf
  <2>5. ASSUME u = cmd.uid
        PROVE  Balance(e.profiles, u, currency)
                 = x.accounts[currency] + (IF currency = HoldCurrency(cmd) THEN hold ELSE 0)
    <3>1. u \in DOMAIN e.profiles
      BY <2>2, <2>5 DEF ProfileSet
    <3>2. PICK a \in [Currency -> Int] :
            a = e.profiles[u].accounts /\ Balance(e.profiles, u, currency) = a[currency]
      BY <3>1, AccountsAre
    <3>3. PICK c \in Currency : c = HoldCurrency(cmd)
      BY DEF HoldCurrency, Currency
    <3>4. x.accounts = [a EXCEPT ![c] = @ - hold]
      BY <2>2, <2>4, <2>5, <3>2, <3>3 DEF HeldOf
    <3> QED
      BY <3>2, <3>3, <3>4
  <2>6. res.engine.symbols = e.symbols
    BY <2>2 DEF ProfileSet
  <2> QED
    BY <1>1, <1>3, <2>1, <2>3, <2>4, <2>5, <2>6 DEF HoldsBalance
<1> QED
  BY <1>2, <1>3

\* Users come without money, and leave without it.
LEMMA UserBalance ==
  ASSUME NEW sound \in BOOLEAN, NEW p \in ProfileMaps(sound), NEW uid,
         NEW res, res = AddUser(p, uid) \/ res = ResumeUser(p, uid) \/ res = SuspendUser(p, uid),
         NEW u, NEW currency \in Currency
  PROVE  Balance(res.profiles, u, currency) = Balance(p, u, currency)
<1>1. PICK q : q = res.profiles
  OBVIOUS
<1>2. \/ q = p
      \/ uid \notin DOMAIN p /\ q = WithUser(p, uid, NewProfile("ACTIVE"))
      \/ uid \in DOMAIN p /\ q = [p EXCEPT ![uid].userStatus = "ACTIVE"]
      \/ /\ uid \in DOMAIN p /\ p[uid].accounts = ZeroBalance
         /\ q = [v \in DOMAIN p \ {uid} |-> p[v]]
  <2>1. CASE res = AddUser(p, uid)
    BY <1>1, <2>1 DEF AddUser, Outcome
  <2>2. CASE res = ResumeUser(p, uid)
    BY <1>1, <2>2 DEF ResumeUser, Outcome
  <2>3. CASE res = SuspendUser(p, uid)
    BY <1>1, <2>3 DEF SuspendUser, Outcome, Restrict
  <2> QED
    BY <2>1, <2>2, <2>3
<1>3. CASE q = p
  BY <1>1, <1>3
<1>4. CASE uid \notin DOMAIN p /\ q = WithUser(p, uid, NewProfile("ACTIVE"))
  <2>1. PICK status : status = "ACTIVE"
    OBVIOUS
  <2>2. Balance(q, u, currency) = Balance(p, u, currency)
    BY <1>4, <2>1, AddedBalance
  <2> QED
    BY <1>1, <2>2
<1>5. CASE uid \in DOMAIN p /\ q = [p EXCEPT ![uid].userStatus = "ACTIVE"]
  <2>1. PICK old \in Profile(Amounts(sound)) : old = p[uid]
    BY <1>5, ProfileMap
  <2>2. PICK x : x = [old EXCEPT !.userStatus = "ACTIVE"]
    OBVIOUS
  <2>3. x.accounts = old.accounts
    BY <2>2 DEF Profile
  <2>4. uid \in DOMAIN p /\ q = [p EXCEPT ![uid] = x]
    BY <1>5, <2>1, <2>2
  <2>5. IsReplaced(q, p, uid, x)
    BY <2>4 DEF IsReplaced
  <2>6. ReplacedHas(q, p, uid, x, u, currency)
    BY <2>5, ReplacedBalance
  <2>7. Balance(q, u, currency) = IF u = uid THEN x.accounts[currency] ELSE Balance(p, u, currency)
    BY <2>6 DEF ReplacedHas
  <2> QED
    BY <1>1, <2>1, <2>3, <2>4, <2>7 DEF Balance
<1>6. CASE /\ uid \in DOMAIN p /\ p[uid].accounts = ZeroBalance
           /\ q = [v \in DOMAIN p \ {uid} |-> p[v]]
  <2>1. ZeroBalance[currency] = 0
    BY DEF ZeroBalance
  <2>2. /\ DOMAIN q = DOMAIN p \ {uid}
        /\ \A v \in DOMAIN q : q[v] = p[v]
    BY <1>6
  <2> QED
    BY <1>1, <1>6, <2>1, <2>2 DEF Balance
<1> QED
  BY <1>2, <1>3, <1>4, <1>5, <1>6

\* The transaction ids of payments are in the order of the currency ids.
LEMMA TransactionIdsInOrder ==
  ASSUME NEW a \in Currency, NEW b \in Currency
  PROVE  /\ AccountTransactionId(a) \in Nat \ {0}
         /\ CurrencyId[a] < CurrencyId[b] => AccountTransactionId(a) < AccountTransactionId(b)
<1>1. PICK x \in Nat, y \in Nat : x = CurrencyId[a] /\ y = CurrencyId[b]
  BY DEF CurrencyId, Currency
<1>2. PICK k \in Nat \ {0} : k = 1000000000
  <2>1. 1000000000 \in Nat \ {0}
    BY SMT
  <2> QED
    BY <2>1
<1>3. AccountTransactionId(a) = k + x /\ AccountTransactionId(b) = k + y
  BY <1>1, <1>2 DEF AccountTransactionId
<1> QED
  BY <1>1, <1>2, <1>3

\* What accounts have in a currency.
PaidIn(accounts, currency) ==
  [i \in DOMAIN accounts |->
     IF accounts[i].currency = currency THEN accounts[i].balance ELSE 0]

\* That, account by account.
LEMMA PaidInIs ==
  ASSUME NEW accounts \in Seq(Payment), NEW currency
  PROVE  /\ PaidIn(accounts, currency) \in Seq(Int)
         /\ Len(PaidIn(accounts, currency)) = Len(accounts) /\ Len(accounts) \in Nat
         /\ \A i \in 1 .. Len(accounts) :
              /\ accounts[i] \in Payment
              /\ PaidIn(accounts, currency)[i]
                   = IF accounts[i].currency = currency THEN accounts[i].balance ELSE 0
<1>1. PICK n \in Nat : n = Len(accounts) /\ DOMAIN accounts = 1 .. n
  BY LenProperties
<1>2. \A i \in 1 .. n : accounts[i] \in Payment
  BY <1>1, ElementOfSeq
<1>3. PICK p : p = PaidIn(accounts, currency)
  OBVIOUS
<1>4. \A i \in 1 .. n : /\ p[i] = IF accounts[i].currency = currency THEN accounts[i].balance ELSE 0
                        /\ p[i] \in Int
  BY <1>1, <1>2, <1>3 DEF PaidIn, Payment
<1>5. p = [i \in 1 .. n |-> p[i]]
  BY <1>1, <1>3 DEF PaidIn
<1>6. p \in [1 .. n -> Int]
  BY <1>4, <1>5
<1>7. p \in Seq(Int) /\ Len(p) = n
  BY <1>6, FunctionIsSeq
<1> QED
  BY <1>1, <1>2, <1>3, <1>4, <1>7

\* An engine in which a user has got a sum and its last payment.
PaidTo(x, e, uid, sum, last, u, currency) ==
  /\ Balance(x.profiles, u, currency) = Balance(e.profiles, u, currency)
                                          + (IF u = uid THEN sum ELSE 0)
  /\ x.symbols = e.symbols
  /\ \A v : v \in DOMAIN x.profiles <=> v \in DOMAIN e.profiles \/ v = uid
  /\ x.profiles[uid].adjustmentsCounter = last

\* One more payment to a user.
LEMMA PaymentBalance ==
  ASSUME NEW sound \in BOOLEAN, NEW e \in Engines(sound), NEW x \in Engines(sound),
         NEW uid \in Int, NEW sum \in Int, NEW last \in Int, NEW u, NEW currency \in Currency,
         PaidTo(x, e, uid, sum, last, u, currency),
         NEW account \in Payment, account.balance \in Nat,
         last < AccountTransactionId(account.currency),
         NEW y, y = AdjustBalance(x, PaymentOf(uid, account)).engine
  PROVE  PaidTo(y, e, uid, sum + (IF account.currency = currency THEN account.balance ELSE 0),
                AccountTransactionId(account.currency), u, currency)
<1>1. PICK id \in Int : id = AccountTransactionId(account.currency)
  BY TransactionIdIsInt DEF Payment
<1>2. PICK cmd : cmd = PaymentOf(uid, account)
  OBVIOUS
<1>3. /\ cmd.uid = uid /\ cmd.symbol = account.currency /\ cmd.price = account.balance
      /\ cmd.orderId = id /\ cmd.orderType \in BalanceAdjustmentType
  BY <1>1, <1>2 DEF PaymentOf, BalanceAdjustmentType
<1>4. /\ cmd.uid \in Int /\ cmd.symbol \in Currency /\ cmd.price \in Int /\ cmd.orderId \in Int
      /\ cmd.price >= 0
  BY <1>3 DEF Payment
<1>5. PICK res : res = AdjustBalance(x, cmd)
  OBVIOUS
<1>6. uid \in DOMAIN x.profiles /\ x.profiles[uid].adjustmentsCounter < id
  BY <1>1 DEF PaidTo
<1>7. res.code = "SUCCESS"
  BY <1>3, <1>4, <1>5, <1>6, AdjustmentIs
<1>8. /\ Balance(y.profiles, u, currency)
           = Balance(x.profiles, u, currency)
             + (IF u = uid /\ currency = account.currency THEN account.balance ELSE 0)
      /\ y.symbols = x.symbols
      /\ \A v : v \in DOMAIN y.profiles <=> v \in DOMAIN x.profiles
  <2>1. IsAdjustment(cmd)
    BY <1>3, <1>4 DEF IsAdjustment
  <2>2. AdjustsBalance(res, x, cmd, u, currency)
    BY <1>5, <2>1, AdjustmentBalance
  <2>3. y = res.engine
    BY <1>2, <1>5
  <2> QED
    BY <1>3, <1>7, <2>2, <2>3 DEF AdjustsBalance
<1>9. y.profiles[uid].adjustmentsCounter = id
  <2>1. PICK p : /\ ProfileSet(x, res.engine, cmd.uid, p)
                 /\ AdjustedTo(x.profiles[cmd.uid], p, cmd)
    BY <1>3, <1>4, <1>5, <1>7, AdjustmentIs
  <2>2. p.adjustmentsCounter = id
    BY <1>3, <2>1 DEF AdjustedTo
  <2>3. y.profiles = [x.profiles EXCEPT ![uid] = p]
    BY <1>2, <1>3, <1>5, <2>1 DEF ProfileSet
  <2> QED
    BY <1>6, <2>2, <2>3
<1>10. Balance(x.profiles, u, currency) \in Int /\ Balance(e.profiles, u, currency) \in Int
  BY EngineBalanceIsInt
<1>11. account.balance \in Int
  OBVIOUS
<1>12. Balance(y.profiles, u, currency)
         = Balance(e.profiles, u, currency)
           + (IF u = uid
              THEN sum + (IF account.currency = currency THEN account.balance ELSE 0) ELSE 0)
  BY <1>8, <1>10, <1>11 DEF PaidTo
<1> QED
  BY <1>1, <1>8, <1>9, <1>12 DEF PaidTo

\* An engine that a user of a message has joined.
Joined(x, e, user, u, currency) ==
  /\ Balance(x.profiles, u, currency)
       = Balance(e.profiles, u, currency)
         + (IF u = user.uid /\ u \notin DOMAIN e.profiles
            THEN Total(PaidIn(user.accounts, currency)) ELSE 0)
  /\ x.symbols = e.symbols
  /\ \A v : v \in DOMAIN x.profiles <=> v \in DOMAIN e.profiles \/ v = user.uid
  /\ Total(PaidIn(user.accounts, currency)) \in Int

\* A user of a message is paid what its accounts have, if it is new.
LEMMA AddAccountsBalance ==
  ASSUME NEW sound \in BOOLEAN, NEW e \in Engines(sound),
         NEW user \in Joiner, InOrder(user.accounts),
         NEW x, x = AddAccounts(e, user), NEW u, NEW currency \in Currency
  PROVE  Joined(x, e, user, u, currency)
<1>1. SUFFICES
         /\ Balance(x.profiles, u, currency)
              = Balance(e.profiles, u, currency)
                + (IF u = user.uid /\ u \notin DOMAIN e.profiles
                   THEN Total(PaidIn(user.accounts, currency)) ELSE 0)
         /\ x.symbols = e.symbols
         /\ \A v : v \in DOMAIN x.profiles <=> v \in DOMAIN e.profiles \/ v = user.uid
         /\ Total(PaidIn(user.accounts, currency)) \in Int
  BY DEF Joined
<1>2. PICK paid : IsPaid(paid, e, user, sound)
  BY AddAccountsSteps
<1>3. PICK uid \in Int, accounts \in Seq(Payment) : uid = user.uid /\ accounts = user.accounts
  BY DEF Joiner
<1>4. PICK numbers \in Seq(Int) : numbers = PaidIn(accounts, currency)
  BY PaidInIs
<1>5. PICK n \in Nat :
        /\ n = Len(accounts) /\ Len(numbers) = n
        /\ \A i \in 1 .. n :
             /\ accounts[i] \in Payment
             /\ numbers[i] = IF accounts[i].currency = currency THEN accounts[i].balance ELSE 0
  BY <1>4, PaidInIs
<1>6. PICK f : Sums(f, numbers, n)
  BY <1>5, SumsOf
<1>7. Total(numbers) = f[n] /\ f[n] \in Int
  BY <1>5, <1>6, TotalBySums
<1>8. Balance(e.profiles, u, currency) \in Int
  BY EngineBalanceIsInt
<1>9. CASE uid \in DOMAIN e.profiles
  <2>1. AddUser(e.profiles, uid).code # "SUCCESS"
    BY <1>9 DEF AddUser, Outcome
  <2>2. x = e
    BY <1>2, <1>3, <2>1 DEF IsPaid
  <2> QED
    BY <1>3, <1>4, <1>7, <1>8, <1>9, <2>2
<1>10. CASE uid \notin DOMAIN e.profiles
  <2>1. PICK p \in ProfileMaps(sound) : p = e.profiles
    BY DEF Engines
  <2>2. PICK res : res = AddUser(p, uid)
    OBVIOUS
  <2>3. res.code = "SUCCESS" /\ res.profiles = WithUser(p, uid, NewProfile("ACTIVE"))
    BY <1>10, <2>1, <2>2 DEF AddUser, Outcome
  <2>4. PICK q : q = res.profiles
    OBVIOUS
  <2>5. /\ \A v : v \in DOMAIN q <=> v \in DOMAIN p \/ v = uid
        /\ q[uid].adjustmentsCounter = 0
    BY <2>3, <2>4 DEF WithUser, NewProfile
  <2>6. Balance(q, u, currency) = Balance(p, u, currency)
    BY <2>2, <2>4, UserBalance
  <2>7. /\ x = paid[n]
        /\ paid[0] = [e EXCEPT !.profiles = q]
        /\ \A i \in 1 .. n : paid[i] = AdjustBalance(paid[i - 1], PaymentOf(uid, accounts[i])).engine
        /\ \A i \in 0 .. n : paid[i] \in GrownFrom(e, sound)
    BY <1>2, <1>3, <1>5, <2>1, <2>2, <2>3, <2>4 DEF IsPaid
  <2>8. \A i \in 0 .. n : paid[i] \in Engines(sound)
    BY <2>7 DEF GrownFrom
  <2> DEFINE last(i) == IF i = 0 THEN 0 ELSE AccountTransactionId(accounts[i].currency)
             T == {i \in 0 .. n : PaidTo(paid[i], e, uid, f[i], last(i), u, currency)}
  <2>9. /\ f[0] = 0 /\ \A i \in 1 .. n : f[i] = f[i - 1] + numbers[i]
        /\ \A i \in 0 .. n : f[i] \in Int
    BY <1>6 DEF Sums
  <2>10. 0 \in T
    <3>1. paid[0].profiles = q /\ paid[0].symbols = e.symbols
      BY <2>7 DEF Engines
    <3>2. PaidTo(paid[0], e, uid, f[0], 0, u, currency)
      BY <1>8, <2>1, <2>5, <2>6, <2>9, <3>1 DEF PaidTo
    <3> QED
      BY <3>2
  <2>11. ASSUME NEW i \in 0 .. n - 1, i \in T PROVE i + 1 \in T
    <3>1. PICK j \in 1 .. n : j = i + 1 /\ j - 1 = i
      OBVIOUS
    <3>2. PICK account \in Payment : account = accounts[j]
      BY <1>5
    <3>3. account.balance \in Nat /\ account.currency \in Currency
      BY <1>3, <1>5, <3>2 DEF InOrder, Payment
    <3>4. PICK k \in Int : k = last(i) /\ k < AccountTransactionId(account.currency)
      <4>1. CASE i = 0
        BY <3>3, <4>1, TransactionIdsInOrder
      <4>2. CASE i # 0
        <5>1. i \in 1 .. n /\ j \in 2 .. n /\ accounts[i] \in Payment
          BY <1>5, <3>1, <4>2
        <5>2. PICK c \in Currency : c = accounts[i].currency
          BY <5>1 DEF Payment
        <5>3. CurrencyId[c] < CurrencyId[account.currency]
          BY <1>3, <1>5, <3>1, <3>2, <5>1, <5>2 DEF InOrder
        <5>4. /\ AccountTransactionId(c) \in Nat \ {0}
              /\ AccountTransactionId(c) < AccountTransactionId(account.currency)
          BY <3>3, <5>2, <5>3, TransactionIdsInOrder
        <5> QED
          BY <4>2, <5>2, <5>4
      <4> QED
        BY <4>1, <4>2
    <3>5. PICK y \in Engines(sound), z \in Engines(sound) : y = paid[i] /\ z = paid[j]
      BY <2>8, <3>1
    <3>6. z = AdjustBalance(y, PaymentOf(uid, account)).engine
      BY <2>7, <3>1, <3>2, <3>5
    <3>7. PICK sum \in Int : sum = f[i]
      BY <2>9
    <3>8. PaidTo(y, e, uid, sum, k, u, currency)
      BY <2>11, <3>4, <3>5, <3>7
    <3>9. PaidTo(z, e, uid, sum + (IF account.currency = currency THEN account.balance ELSE 0),
                 AccountTransactionId(account.currency), u, currency)
      BY <3>3, <3>4, <3>6, <3>8, PaymentBalance
    <3>10. f[j] = sum + (IF account.currency = currency THEN account.balance ELSE 0)
      BY <1>5, <2>9, <3>1, <3>2, <3>7
    <3>11. last(j) = AccountTransactionId(account.currency)
      BY <3>2
    <3>12. PaidTo(paid[j], e, uid, f[j], last(j), u, currency)
      BY <3>5, <3>9, <3>10, <3>11
    <3> QED
      BY <3>1, <3>12
  <2> HIDE DEF T
  <2>12. n \in T
    <3>1. \A i \in 0 .. n : i \in T
      BY <2>10, <2>11, InductionOverInterval
    <3> QED
      BY <3>1
  <2>13. PaidTo(x, e, uid, f[n], last(n), u, currency)
    BY <2>7, <2>12 DEF T
  <2> QED
    BY <1>3, <1>4, <1>7, <1>8, <1>10, <2>13 DEF PaidTo
<1> QED
  BY <1>9, <1>10

\* What users of a message bring to one of them.
BroughtBy(users, uid, currency) ==
  [i \in DOMAIN users |->
     IF users[i].uid # uid THEN 0 ELSE Total(PaidIn(users[i].accounts, currency))]

\* That, user by user.
LEMMA BroughtByIs ==
  ASSUME NEW users \in Seq(Joiner), NEW uid, NEW currency
  PROVE  /\ BroughtBy(users, uid, currency) \in Seq(Int)
         /\ Len(BroughtBy(users, uid, currency)) = Len(users) /\ Len(users) \in Nat
         /\ \A i \in 1 .. Len(users) :
              /\ users[i] \in Joiner
              /\ BroughtBy(users, uid, currency)[i]
                   = IF users[i].uid # uid THEN 0
                     ELSE Total(PaidIn(users[i].accounts, currency))
<1>1. PICK n \in Nat : n = Len(users) /\ DOMAIN users = 1 .. n
  BY LenProperties
<1>2. \A i \in 1 .. n : users[i] \in Joiner
  BY <1>1, ElementOfSeq
<1>3. PICK p : p = BroughtBy(users, uid, currency)
  OBVIOUS
<1>4. ASSUME NEW i \in 1 .. n
      PROVE  /\ p[i] = IF users[i].uid # uid THEN 0
                       ELSE Total(PaidIn(users[i].accounts, currency))
             /\ p[i] \in Int
  <2>1. p[i] = IF users[i].uid # uid THEN 0 ELSE Total(PaidIn(users[i].accounts, currency))
    BY <1>1, <1>3 DEF BroughtBy
  <2>2. PICK accounts \in Seq(Payment) : accounts = users[i].accounts
    BY <1>2 DEF Joiner
  <2>3. Total(PaidIn(accounts, currency)) \in Int
    BY PaidInIs, TotalIsInt
  <2> QED
    BY <2>1, <2>2, <2>3
<1>5. p = [i \in 1 .. n |-> p[i]]
  BY <1>1, <1>3 DEF BroughtBy
<1>6. p \in [1 .. n -> Int]
  BY <1>4, <1>5
<1>7. p \in Seq(Int) /\ Len(p) = n
  BY <1>6, FunctionIsSeq
<1> QED
  BY <1>1, <1>2, <1>3, <1>4, <1>7

\* An engine after some users of a message.
JoinedBy(x, e, users, i, sum, u, currency) ==
  /\ Balance(x.profiles, u, currency) = Balance(e.profiles, u, currency)
                                          + (IF u \in DOMAIN e.profiles THEN 0 ELSE sum)
  /\ \A v : v \in DOMAIN x.profiles <=>
              v \in DOMAIN e.profiles \/ \E j \in 1 .. i : v = users[j].uid

\* An engine that a message has reached.
MessageBrings(x, e, message, u, currency) ==
  /\ Balance(x.profiles, u, currency)
       = Balance(e.profiles, u, currency)
         + (IF u \in DOMAIN e.profiles THEN 0
            ELSE Total(BroughtBy(message.users, u, currency)))
  /\ \A name : name \in x.symbols <=> name \in e.symbols \/ name \in message.symbols
  /\ Total(BroughtBy(message.users, u, currency)) \in Int

\* A message brings money to the users it adds, and nothing to others.
LEMMA MessageBalance ==
  ASSUME NEW sound \in BOOLEAN, NEW e \in Engines(sound), NEW message \in Messages,
         Joinable(message.users),
         NEW x, x = HandleBinaryMessage(e, message), NEW u, NEW currency \in Currency
  PROVE  MessageBrings(x, e, message, u, currency)
<1>1. PICK added : IsAdded(added, e, message, sound)
  BY MessageSteps
<1>2. PICK users \in Seq(Joiner) : users = message.users
  BY DEF Messages, Joiner, Payment
<1>3. PICK numbers \in Seq(Int) : numbers = BroughtBy(users, u, currency)
  BY BroughtByIs
<1>4. PICK n \in Nat :
        /\ n = Len(users) /\ Len(numbers) = n
        /\ \A i \in 1 .. n :
             /\ users[i] \in Joiner
             /\ numbers[i] = IF users[i].uid # u THEN 0
                             ELSE Total(PaidIn(users[i].accounts, currency))
  BY <1>3, BroughtByIs
<1>5. PICK f : Sums(f, numbers, n)
  BY <1>4, SumsOf
<1>6. Total(numbers) = f[n] /\ f[n] \in Int
  BY <1>4, <1>5, TotalBySums
<1>7. /\ f[0] = 0 /\ \A i \in 1 .. n : f[i] = f[i - 1] + numbers[i]
      /\ \A i \in 0 .. n : f[i] \in Int
  BY <1>5 DEF Sums
<1>8. Balance(e.profiles, u, currency) \in Int
  BY EngineBalanceIsInt
<1>9. /\ x = added[n]
      /\ added[0] = [e EXCEPT !.symbols = @ \cup message.symbols]
      /\ \A i \in 1 .. n : added[i] = AddAccounts(added[i - 1], users[i])
      /\ \A i \in 0 .. n : added[i] \in GrownFrom(e, sound)
  BY <1>1, <1>2, <1>4 DEF IsAdded
<1>10. \A i \in 0 .. n : added[i] \in Engines(sound)
  BY <1>9 DEF GrownFrom
<1>11. /\ added[0].profiles = e.profiles
       /\ \A name : name \in added[0].symbols <=> name \in e.symbols \/ name \in message.symbols
  BY <1>9 DEF Engines
<1>12. /\ \A i, j \in 1 .. n : users[i].uid = users[j].uid => i = j
       /\ \A i \in 1 .. n : InOrder(users[i].accounts)
  BY <1>2, <1>4 DEF Joinable
<1>13. ASSUME NEW i \in 1 .. n
       PROVE  /\ Balance(added[i].profiles, u, currency)
                   = Balance(added[i - 1].profiles, u, currency)
                     + (IF u = users[i].uid /\ u \notin DOMAIN added[i - 1].profiles
                        THEN numbers[i] ELSE 0)
              /\ added[i].symbols = added[i - 1].symbols
              /\ \A v : v \in DOMAIN added[i].profiles <=>
                          v \in DOMAIN added[i - 1].profiles \/ v = users[i].uid
  <2>1. PICK user \in Joiner : user = users[i] /\ InOrder(user.accounts)
    BY <1>4, <1>12
  <2>2. i - 1 \in 0 .. n
    OBVIOUS
  <2>3. PICK y \in Engines(sound) : y = added[i - 1]
    BY <1>10, <2>2
  <2>4. PICK z : z = added[i] /\ z = AddAccounts(y, user)
    BY <1>9, <2>1, <2>3
  <2>5. /\ Balance(z.profiles, u, currency)
             = Balance(y.profiles, u, currency)
               + (IF u = user.uid /\ u \notin DOMAIN y.profiles
                  THEN Total(PaidIn(user.accounts, currency)) ELSE 0)
        /\ z.symbols = y.symbols
        /\ \A v : v \in DOMAIN z.profiles <=> v \in DOMAIN y.profiles \/ v = user.uid
    <3>1. Joined(z, y, user, u, currency)
      BY <2>1, <2>4, AddAccountsBalance
    <3> QED
      BY <3>1 DEF Joined
  <2>6. u = user.uid => numbers[i] = Total(PaidIn(user.accounts, currency))
    BY <1>4, <2>1
  <2> QED
    BY <2>1, <2>3, <2>4, <2>5, <2>6
<1> DEFINE T == {i \in 0 .. n : /\ JoinedBy(added[i], e, users, i, f[i], u, currency)
                                /\ added[i].symbols = added[0].symbols}
<1>14. 0 \in T
  <2>1. JoinedBy(added[0], e, users, 0, f[0], u, currency)
    BY <1>7, <1>8, <1>11 DEF JoinedBy
  <2> QED
    BY <2>1
<1>15. ASSUME NEW i \in 0 .. n - 1, i \in T PROVE i + 1 \in T
  <2>1. PICK j \in 1 .. n : j = i + 1 /\ j - 1 = i
    OBVIOUS
  <2>2. JoinedBy(added[i], e, users, i, f[i], u, currency) /\ added[i].symbols = added[0].symbols
    BY <1>15
  <2>3. \A v : v \in DOMAIN added[j].profiles <=>
                 v \in DOMAIN e.profiles \/ \E k \in 1 .. j : v = users[k].uid
    <3>1. \A v : v \in DOMAIN added[j].profiles <=>
                   v \in DOMAIN added[i].profiles \/ v = users[j].uid
      BY <1>13, <2>1
    <3>2. \A k \in 1 .. j : k \in 1 .. i \/ k = j
      BY <2>1
    <3>3. \A k \in 1 .. i : k \in 1 .. j
      BY <2>1
    <3>4. j \in 1 .. j
      OBVIOUS
    <3> QED
      BY <2>2, <3>1, <3>2, <3>3, <3>4 DEF JoinedBy
  <2>4. Balance(added[j].profiles, u, currency)
          = Balance(e.profiles, u, currency) + (IF u \in DOMAIN e.profiles THEN 0 ELSE f[j])
    <3>1. PICK b \in Int, c \in Int, s \in Int, t \in Int, m \in Int :
            /\ b = Balance(e.profiles, u, currency) /\ s = f[i] /\ t = f[j] /\ m = numbers[j]
            /\ c = Balance(added[i].profiles, u, currency)
      <4>1. numbers[j] \in Int
        BY <1>4, ElementOfSeq
      <4>2. PICK y \in Engines(sound) : y = added[i]
        BY <1>10
      <4>3. Balance(y.profiles, u, currency) \in Int
        BY <4>2, EngineBalanceIsInt
      <4>4. i \in 0 .. n /\ j \in 0 .. n
        BY <2>1
      <4>5. f[i] \in Int /\ f[j] \in Int
        BY <1>7, <4>4
      <4> QED
        BY <1>8, <4>1, <4>2, <4>3, <4>5
    <3>2. t = s + m /\ c = b + (IF u \in DOMAIN e.profiles THEN 0 ELSE s)
      BY <1>7, <2>1, <2>2, <3>1 DEF JoinedBy
    <3>3. Balance(added[j].profiles, u, currency)
            = c + (IF u = users[j].uid /\ u \notin DOMAIN added[i].profiles THEN m ELSE 0)
      BY <1>13, <2>1, <3>1
    <3>4. CASE u \in DOMAIN e.profiles
      <4>1. u \in DOMAIN added[i].profiles
        BY <2>2, <3>4 DEF JoinedBy
      <4> QED
        BY <3>1, <3>2, <3>3, <3>4, <4>1
    <3>5. CASE u \notin DOMAIN e.profiles /\ u # users[j].uid
      <4>1. m = 0
        BY <1>4, <3>1, <3>5
      <4> QED
        BY <3>1, <3>2, <3>3, <3>5, <4>1
    <3>6. CASE u \notin DOMAIN e.profiles /\ u = users[j].uid
      <4>1. u \notin DOMAIN added[i].profiles
        <5>1. \A k \in 1 .. i : k \in 1 .. n /\ k # j
          BY <2>1
        <5>2. \A k \in 1 .. i : u # users[k].uid
          BY <1>12, <3>6, <5>1
        <5> QED
          BY <2>2, <3>6, <5>2 DEF JoinedBy
      <4> QED
        BY <3>1, <3>2, <3>3, <3>6, <4>1
    <3> QED
      BY <3>4, <3>5, <3>6
  <2>5. JoinedBy(added[j], e, users, j, f[j], u, currency)
    BY <2>3, <2>4 DEF JoinedBy
  <2>6. added[j].symbols = added[0].symbols
    BY <1>13, <2>1, <2>2
  <2> QED
    BY <2>1, <2>5, <2>6
<1> HIDE DEF T
<1>16. n \in T
  <2>1. \A i \in 0 .. n : i \in T
    BY <1>14, <1>15, InductionOverInterval
  <2> QED
    BY <2>1
<1>17. JoinedBy(x, e, users, n, f[n], u, currency) /\ x.symbols = added[0].symbols
  BY <1>9, <1>16 DEF T
<1> QED
  BY <1>2, <1>3, <1>6, <1>11, <1>17 DEF JoinedBy, MessageBrings

\* RESET leaves no money, and no symbols.
LEMMA ResetBalance ==
  ASSUME NEW sound \in BOOLEAN, NEW e \in Engines(sound), NEW u, NEW currency
  PROVE  Balance(Reset(e).profiles, u, currency) = 0 /\ Reset(e).symbols = {}
<1>1. Reset(e).profiles = NoProfiles
  BY ResetKept
<1>2. DOMAIN NoProfiles = {}
  <2>1. PICK p : p = NoProfiles
    OBVIOUS
  <2>2. p = <<>> /\ p \in Seq({})
    BY <2>1, EmptySeq DEF NoProfiles
  <2>3. Len(p) = 0 /\ DOMAIN p = 1 .. Len(p)
    BY <2>2, LenProperties, EmptySeq
  <2>4. 1 .. 0 = {}
    OBVIOUS
  <2> QED
    BY <2>1, <2>3, <2>4
<1>3. Reset(e).symbols = {}
  BY DEF Reset, Engines
<1> QED
  BY <1>1, <1>2, <1>3 DEF Balance

\* A placement that a client fills with natural numbers, and a move to a price
\* that pays the fee.
WithinHold(cmd) ==
  /\ cmd.command = "PLACE_ORDER" =>
       /\ cmd.size >= 0 /\ cmd.price >= 0 /\ cmd.reserveBidPrice >= 0
       /\ cmd.orderType = "FOK_BUDGET" => cmd.action = "BID"
  /\ cmd.command = "MOVE_ORDER" => cmd.price >= 0 /\ PaysFee(cmd.price)

-----------------------------------------------------------------------------
(***************************************************************************)
(* Sequences of slots.                                                     *)
(***************************************************************************)

-----------------------------------------------------------------------------
(***************************************************************************)
(* Slots on their way.                                                     *)
(***************************************************************************)

\* What clients ask for.
CommandNames == {c.command : c \in Commands}

\* A slot that is not matched yet.
Queued(cmd, sound) ==
  /\ IsSlot(cmd)
  /\ cmd.command \in CommandNames
  /\ cmd.matcherEvent = <<>>
  /\ cmd.message \in Messages
  /\ cmd.command = "BALANCE_ADJUSTMENT" =>
       cmd.symbol \in Currency /\ cmd.orderType \in BalanceAdjustmentType
  /\ sound => WithinHold(cmd)
  /\ sound /\ cmd.command = "PLACE_ORDER" /\ cmd.resultCode = "VALID_FOR_MATCHING_ENGINE" =>
       AcceptablePrice(cmd)

\* What a client publishes.
LEMMA RequestQueued ==
  ASSUME NEW sound \in BOOLEAN, NEW c \in Commands, IsRequest(c), sound => WithinHold(c)
  PROVE  Queued(c, sound)
<1>1. IsSlot(c) /\ c.matcherEvent = <<>> /\ c.message \in Messages /\ c.resultCode = "NEW"
  BY DEF IsRequest, IsSlot
<1>2. c.command = "BALANCE_ADJUSTMENT" =>
        c.symbol \in Currency /\ c.orderType \in BalanceAdjustmentType
  BY DEF IsRequest
<1> QED
  BY <1>1, <1>2 DEF Queued, CommandNames

\* A queued slot may be matched.
LEMMA QueuedUnmatched ==
  ASSUME NEW sound \in BOOLEAN, NEW c, Queued(c, sound)
  PROVE  Unmatched(c, sound)
  BY DEF Queued, Unmatched, WithinHold, SoundRequest

\* What differs in nothing that the stages look at.
SameRequest(x, c) ==
  /\ IsSlot(x)
  /\ x.command = c.command /\ x.orderId = c.orderId /\ x.uid = c.uid
  /\ x.orderType = c.orderType /\ x.action = c.action
  /\ x.price = c.price /\ x.size = c.size /\ x.reserveBidPrice = c.reserveBidPrice
  /\ x.matcherEvent = c.matcherEvent /\ x.message = c.message /\ x.symbol = c.symbol

\* A section of a report is added.
LEMMA SectionSame ==
  ASSUME NEW c, IsSlot(c), NEW section, NEW x, x = SectionAdded(c, section)
  PROVE  SameRequest(x, c) /\ x.resultCode = c.resultCode
<1>1. PICK balance : x = [c EXCEPT !.balance = balance]
  <2>1. PICK b : b = [currency \in Currency |-> c.balance[currency] + section[currency]]
    OBVIOUS
  <2>2. x = [c EXCEPT !.balance = b]
    BY <2>1 DEF SectionAdded
  <2> QED
    BY <2>2
<1>2. IsSlot(x)
  BY <1>1 DEF IsSlot
<1> QED
  BY <1>1, <1>2 DEF SameRequest, IsSlot

\* R1 writes its result code.
LEMMA CodeSame ==
  ASSUME NEW c, IsSlot(c), NEW code, NEW x, x = [c EXCEPT !.resultCode = code]
  PROVE  SameRequest(x, c) /\ x.resultCode = code
<1>1. IsSlot(x)
  BY DEF IsSlot
<1> QED
  BY <1>1 DEF SameRequest, IsSlot

\* A slot stays queued.
LEMMA QueuedSame ==
  ASSUME NEW sound \in BOOLEAN, NEW c, Queued(c, sound), NEW x, SameRequest(x, c),
         x.command = "PLACE_ORDER" /\ x.resultCode = "VALID_FOR_MATCHING_ENGINE" =>
           c.resultCode = "VALID_FOR_MATCHING_ENGINE" \/ AcceptablePrice(c)
  PROVE  Queued(x, sound)
<1>1. AcceptablePrice(c) => AcceptablePrice(x)
  BY DEF SameRequest, AcceptablePrice, IsBudget
<1>2. WithinHold(c) => WithinHold(x)
  BY DEF SameRequest, WithinHold
<1> QED
  BY <1>1, <1>2 DEF Queued, SameRequest

-----------------------------------------------------------------------------
(***************************************************************************)
(* The inductive invariant.                                                *)
(***************************************************************************)

\* How far the stages are.
Stages ==
  /\ IsSequence(slots)
  /\ me \in 0 .. Len(slots)
  /\ r1 \in [RiskShards -> Int] /\ r2 \in [RiskShards -> Int]
  /\ \A s \in RiskShards : r1[s] \in me .. Len(slots) /\ r2[s] \in 0 .. me

\* What the stages work on.
EnginesKept(sound) ==
  DOMAIN engines = RiskShards /\ \A s \in RiskShards : engines[s] \in Engines(sound)

\* The slots before and after the matching engine.
SlotsKept(sound) ==
  \A n \in 1 .. Len(slots) :
    /\ n > me => Queued(slots[n], sound)
    /\ n <= me => Settles(slots[n], sound)

Inv(sound) ==
  /\ published \in 0 .. MaxCommands
  /\ Stages
  /\ EnginesKept(sound)
  /\ BookKept(book, sound)
  /\ SlotsKept(sound)

\* What is asked of clients and fees for accounts that are never overdrawn.
Sound(sound) ==
  sound => MakerFee <= TakerFee /\ \A c \in Commands : WithinHold(c)

\* There is a risk engine.
LEMMA ShardsExist == 0 \in RiskShards
  BY FeeAssumption

\* An empty book is a book.
LEMMA EmptyBookKept ==
  ASSUME NEW sound \in BOOLEAN
  PROVE  BookKept(EmptyBook, sound)
<1>1. \A side : <<>> \in Seq(Orders(side, sound))
  <2> SUFFICES ASSUME NEW side PROVE <<>> \in Seq(Orders(side, sound))
    OBVIOUS
  <2>1. PICK S : S = Orders(side, sound)
    OBVIOUS
  <2> QED
    BY <2>1, EmptySeq
<1> QED
  BY <1>1 DEF BookKept, EmptyBook

\* The invariant holds initially.
LEMMA InitKept ==
  ASSUME NEW sound \in BOOLEAN, Init
  PROVE  Inv(sound)
<1>1. published \in 0 .. MaxCommands
  BY ExchangeAssumption DEF Init
<1>2. slots = <<>> /\ IsSequence(slots) /\ Len(slots) = 0
  <2>1. slots = <<>>
    BY DEF Init
  <2>2. slots \in Seq({}) /\ Len(slots) = 0
    BY <2>1, EmptySeq
  <2> QED
    BY <2>1, <2>2 DEF IsSequence
<1>3. Stages
  BY <1>2 DEF Init, Stages
<1>4. EnginesKept(sound)
  <2>1. PICK start \in InitialStates : engines = start.engines
    BY DEF Init
  <2>2. DOMAIN engines = RiskShards /\ \A s \in RiskShards : IsEngine(engines[s], Nat)
    BY <2>1, ExchangeAssumption
  <2>3. ASSUME NEW s \in RiskShards PROVE IsEngine(engines[s], Amounts(sound))
    <3>1. PICK e : e = engines[s]
      OBVIOUS
    <3>2. IsEngine(e, Nat)
      BY <2>2, <3>1
    <3>3. \A a \in Nat : a \in Amounts(sound)
      BY DEF Amounts
    <3>4. PICK A : A = Amounts(sound)
      OBVIOUS
    <3>5. \A x \in Profile(Nat) : x \in Profile(A)
      BY <3>3, <3>4 DEF Profile
    <3>6. e.profiles \in [DOMAIN e.profiles -> Profile(A)]
      <4>1. PICK P, Q : P = Profile(Nat) /\ Q = Profile(A)
        OBVIOUS
      <4>2. PICK p : p = e.profiles
        OBVIOUS
      <4>3. p \in [DOMAIN p -> P] /\ \A x \in P : x \in Q
        BY <3>2, <3>5, <4>1, <4>2 DEF IsEngine
      <4>4. p \in [DOMAIN p -> Q]
        BY <4>3
      <4> QED
        BY <4>1, <4>2, <4>4
    <3>7. IsEngine(e, A)
      BY <3>2, <3>6 DEF IsEngine
    <3> QED
      BY <3>1, <3>4, <3>7
  <2> QED
    BY <2>2, <2>3, EngineIs DEF EnginesKept
<1>5. BookKept(book, sound)
  BY EmptyBookKept DEF Init
<1>6. SlotsKept(sound)
  BY <1>2 DEF SlotsKept
<1> QED
  BY <1>1, <1>3, <1>4, <1>5, <1>6 DEF Inv

\* A command is published.
LEMMA PublishKept ==
  ASSUME NEW sound \in BOOLEAN, Sound(sound), Inv(sound), Publish
  PROVE  Inv(sound)'
<1>1. PICK c \in Commands : slots' = Append(slots, c)
  BY DEF Publish
<1>2. /\ IsSequence(slots') /\ Len(slots) \in Nat /\ Len(slots') = Len(slots) + 1
      /\ \A i \in 1 .. Len(slots) : slots'[i] = slots[i]
      /\ slots'[Len(slots) + 1] = c
  BY <1>1, AppendToSequence DEF Inv, Stages
<1>3. Queued(c, sound)
  BY ExchangeAssumption, RequestQueued DEF Sound
<1>4. /\ UNCHANGED <<r1, me, r2, engines, book>>
      /\ published' = published + 1 /\ published < MaxCommands
  BY DEF Publish, stages, router
<1>5. Stages'
  BY <1>2, <1>4 DEF Inv, Stages
<1>6. SlotsKept(sound)'
  <2> SUFFICES ASSUME NEW n \in 1 .. Len(slots')
               PROVE  /\ n > me => Queued(slots'[n], sound)
                      /\ n <= me => Settles(slots'[n], sound)
    BY <1>4 DEF SlotsKept
  <2>1. CASE n \in 1 .. Len(slots)
    BY <1>2, <2>1 DEF Inv, SlotsKept
  <2>2. CASE n = Len(slots) + 1
    BY <1>2, <1>3, <2>2 DEF Inv, Stages
  <2> QED
    BY <1>2, <2>1, <2>2
<1>7. (published \in 0 .. MaxCommands)'
  BY <1>4, ExchangeAssumption DEF Inv
<1>8. EnginesKept(sound)'
  BY <1>4 DEF Inv, EnginesKept
<1>9. BookKept(book', sound)
  BY <1>4 DEF Inv
<1> QED
  BY <1>5, <1>6, <1>7, <1>8, <1>9 DEF Inv

\* R2 settles a command.
LEMMA PostProcessSlotKept ==
  ASSUME NEW sound \in BOOLEAN, Sound(sound), Inv(sound), NEW s \in RiskShards,
         PostProcessSlot(s)
  PROVE  /\ Inv(sound)'
         /\ engines'[s] \in GrownFrom(engines[s], sound)
         /\ \A t \in RiskShards : t # s => engines'[t] = engines[t]
<1>1. PICK n : n = r2[s] + 1
  OBVIOUS
<1>2. /\ n <= me /\ r2' = [r2 EXCEPT ![s] = n]
      /\ engines' = [engines EXCEPT ![s] = PostProcessCommand(@, s, slots[n])]
      /\ UNCHANGED <<slots, r1, me, book, published>>
  BY <1>1 DEF PostProcessSlot, router
<1>3. r2[s] \in 0 .. me /\ me \in 0 .. Len(slots) /\ Len(slots) \in Int /\ n \in 1 .. me
  <2>1. Len(slots) \in Int
    BY AppendToSequence DEF Inv, Stages
  <2>2. r2[s] \in 0 .. me /\ me \in 0 .. Len(slots)
    BY DEF Inv, Stages
  <2> QED
    BY <1>1, <1>2, <2>1, <2>2
<1>4. PICK cmd : cmd = slots[n]
  OBVIOUS
<1>5. Settles(cmd, sound)
  BY <1>3, <1>4 DEF Inv, SlotsKept
<1>6. PICK e \in Engines(sound) : e = engines[s]
  BY DEF Inv, EnginesKept
<1>7. PICK f : f = PostProcessCommand(e, s, cmd)
  OBVIOUS
<1>8. f \in GrownFrom(e, sound)
  BY <1>5, <1>7, PostProcessKept DEF Sound, FeesInOrder
<1>9. /\ DOMAIN engines' = RiskShards /\ engines'[s] = f
      /\ \A t \in RiskShards : t # s => engines'[t] = engines[t]
  BY <1>2, <1>4, <1>6, <1>7 DEF Inv, EnginesKept
<1>10. EnginesKept(sound)'
  <2>1. f \in Engines(sound)
    BY <1>8 DEF GrownFrom
  <2> QED
    BY <1>9, <2>1 DEF Inv, EnginesKept
<1>11. Stages'
  BY <1>2, <1>3 DEF Inv, Stages
<1>12. SlotsKept(sound)'
  BY <1>2 DEF Inv, SlotsKept
<1>13. (published \in 0 .. MaxCommands)' /\ BookKept(book', sound)
  BY <1>2 DEF Inv
<1> QED
  BY <1>6, <1>8, <1>9, <1>10, <1>11, <1>12, <1>13 DEF Inv

\* A command leaves.
LEMMA ReleaseKept ==
  ASSUME NEW sound \in BOOLEAN, Inv(sound), Release
  PROVE  Inv(sound)'
<1>1. /\ IsSequence(slots') /\ Len(slots) \in Nat /\ Len(slots') = Len(slots) - 1
      /\ \A i \in 1 .. Len(slots') : slots'[i] = slots[i + 1]
  BY TailOfSequence DEF Inv, Stages, Release
<1>2. /\ \A s \in RiskShards : r2[s] >= 1
      /\ r1' = [s \in RiskShards |-> r1[s] - 1]
      /\ me' = me - 1
      /\ r2' = [s \in RiskShards |-> r2[s] - 1]
      /\ UNCHANGED <<engines, book, published>>
  BY DEF Release, router
<1>3. me \in 1 .. Len(slots)
  BY <1>1, <1>2, ShardsExist DEF Inv, Stages
<1>4. Stages'
  BY <1>1, <1>2, <1>3 DEF Inv, Stages
<1>5. SlotsKept(sound)'
  <2> SUFFICES ASSUME NEW n \in 1 .. Len(slots')
               PROVE  /\ n > me' => Queued(slots'[n], sound)
                      /\ n <= me' => Settles(slots'[n], sound)
    BY DEF SlotsKept
  <2>1. slots'[n] = slots[n + 1] /\ n + 1 \in 1 .. Len(slots)
    BY <1>1
  <2> QED
    BY <1>2, <1>3, <2>1 DEF Inv, SlotsKept
<1>6. EnginesKept(sound)'
  BY <1>2 DEF Inv, EnginesKept
<1>7. (published \in 0 .. MaxCommands)' /\ BookKept(book', sound)
  BY <1>2 DEF Inv
<1> QED
  BY <1>4, <1>5, <1>6, <1>7 DEF Inv

\* What the matching engine does with a command.
LEMMA OrderProcessed ==
  ASSUME NEW sound \in BOOLEAN, BookKept(book, sound), NEW cmd, Queued(cmd, sound)
  PROVE  Processed(ProcessOrder(cmd), sound)
<1>1. IsSlot(cmd) /\ cmd.matcherEvent = <<>>
  BY DEF Queued
<1>2. ASSUME NEW code, NEW b, BookKept(b, sound), NEW r,
             r = [book |-> b, cmd |-> [cmd EXCEPT !.resultCode = code]]
      PROVE  Processed(r, sound)
  <2>1. PICK x : x = [cmd EXCEPT !.resultCode = code]
    OBVIOUS
  <2>2. SameRequest(x, cmd)
    BY <1>1, <2>1, CodeSame
  <2>3. IsSlot(x) /\ x.matcherEvent = <<>>
    BY <1>1, <2>2 DEF SameRequest
  <2>4. Settles(x, sound)
    BY <2>3, Unprocessed
  <2> QED
    BY <1>2, <2>1, <2>4 DEF Processed
<1>3. PICK empty : empty = EmptyBook
  OBVIOUS
<1>4. BookKept(empty, sound)
  BY <1>3, EmptyBookKept
<1>5. PICK r : r = ProcessOrder(cmd)
  OBVIOUS
<1>6. CASE IsMatchingCommand(cmd) /\ listed
  <2>1. r = ProcessCommand(book, cmd)
    BY <1>5, <1>6 DEF ProcessOrder, IsMatchingCommand
  <2>2. Unmatched(cmd, sound)
    BY QueuedUnmatched
  <2> QED
    BY <1>5, <2>1, <2>2, CommandProcessed, ExchangeAssumption
<1>7. CASE IsMatchingCommand(cmd) /\ ~ listed
  <2>1. PICK code : code = "MATCHING_INVALID_ORDER_BOOK_ID"
    OBVIOUS
  <2>2. r = [book |-> book, cmd |-> [cmd EXCEPT !.resultCode = code]]
    BY <1>5, <1>7, <2>1 DEF ProcessOrder, IsMatchingCommand
  <2> QED
    BY <1>2, <1>5, <2>2
<1>8. CASE cmd.command = "BINARY_DATA_COMMAND"
  <2>1. PICK code : code = "SUCCESS"
    OBVIOUS
  <2>2. r = [book |-> book, cmd |-> [cmd EXCEPT !.resultCode = code]]
    BY <1>5, <1>8, <2>1 DEF ProcessOrder, IsMatchingCommand
  <2> QED
    BY <1>2, <1>5, <2>2
<1>9. CASE cmd.command = "RESET"
  <2>1. PICK code : code = "SUCCESS"
    OBVIOUS
  <2>2. r = [book |-> empty, cmd |-> [cmd EXCEPT !.resultCode = code]]
    BY <1>3, <1>5, <1>9, <2>1 DEF ProcessOrder, IsMatchingCommand
  <2> QED
    BY <1>2, <1>4, <1>5, <2>2
<1>10. CASE ~ IsMatchingCommand(cmd) /\ cmd.command \notin {"BINARY_DATA_COMMAND", "RESET"}
  <2>1. r.book = book /\ r.cmd = cmd
    BY <1>5, <1>10 DEF ProcessOrder
  <2>2. Settles(cmd, sound)
    BY <1>1, Unprocessed
  <2> QED
    BY <1>5, <2>1, <2>2 DEF Processed
<1> QED
  BY <1>6, <1>7, <1>8, <1>9, <1>10

\* The matching engine takes a command.
LEMMA MatchSlotKept ==
  ASSUME NEW sound \in BOOLEAN, Inv(sound), MatchSlot
  PROVE  Inv(sound)'
<1>1. PICK n : n = me + 1
  OBVIOUS
<1>2. PICK cmd : cmd = slots[n]
  OBVIOUS
<1>3. PICK res : res = ProcessOrder(cmd)
  OBVIOUS
<1>4. PICK x : x = IF IsReport(cmd)
                   THEN SectionAdded(cmd, OrderBalances(book["ASK"] \o book["BID"]))
                   ELSE res.cmd
  OBVIOUS
<1>5. /\ n <= Len(slots) /\ \A s \in RiskShards : n <= r1[s]
      /\ me' = n /\ book' = res.book /\ slots' = [slots EXCEPT ![n] = x]
      /\ UNCHANGED <<r1, r2, engines, published>>
  BY <1>1, <1>2, <1>3, <1>4 DEF MatchSlot, PreProcessed
<1>6. IsSequence(slots) /\ Len(slots) \in Int /\ me \in 0 .. Len(slots)
  BY AppendToSequence DEF Inv, Stages
<1>7. n \in 1 .. Len(slots) /\ n > me
  BY <1>1, <1>5, <1>6
<1>8. /\ IsSequence(slots') /\ Len(slots') = Len(slots) /\ slots'[n] = x
      /\ \A i \in 1 .. Len(slots) : i # n => slots'[i] = slots[i]
  <2>1. slots' = Replaced(slots, n, x)
    BY <1>5 DEF Replaced
  <2> QED
    BY <1>6, <1>7, <2>1, ReplaceInSequence
<1>9. Queued(cmd, sound)
  BY <1>2, <1>7 DEF Inv, SlotsKept
<1>10. Processed(res, sound)
  BY <1>3, <1>9, OrderProcessed DEF Inv
<1>11. Settles(x, sound)
  <2>1. CASE IsReport(cmd)
    <3>1. PICK section : x = SectionAdded(cmd, section)
      BY <1>4, <2>1
    <3>2. IsSlot(x) /\ x.matcherEvent = <<>>
      BY <1>9, <3>1, SectionSame DEF Queued, SameRequest
    <3> QED
      BY <3>2, Unprocessed
  <2>2. CASE ~ IsReport(cmd)
    BY <1>4, <1>10, <2>2 DEF Processed
  <2> QED
    BY <2>1, <2>2
<1>12. Stages'
  BY <1>1, <1>5, <1>6, <1>8 DEF Inv, Stages
<1>13. SlotsKept(sound)'
  <2> SUFFICES ASSUME NEW i \in 1 .. Len(slots')
               PROVE  /\ i > me' => Queued(slots'[i], sound)
                      /\ i <= me' => Settles(slots'[i], sound)
    BY DEF SlotsKept
  <2>1. CASE i = n
    BY <1>5, <1>7, <1>8, <1>11, <2>1
  <2>2. CASE i # n
    BY <1>1, <1>5, <1>6, <1>8, <2>2 DEF Inv, SlotsKept
  <2> QED
    BY <2>1, <2>2
<1>14. EnginesKept(sound)'
  BY <1>5 DEF Inv, EnginesKept
<1>15. (published \in 0 .. MaxCommands)' /\ BookKept(book', sound)
  BY <1>5, <1>10 DEF Inv, Processed
<1> QED
  BY <1>12, <1>13, <1>14, <1>15 DEF Inv

\* What R1 does with a command, to the engines and to the slot.
PreProcessedAt(s, sound, n, cmd, res) ==
  /\ n = r1[s] + 1 /\ n \in 1 .. Len(slots) /\ n > me
  /\ cmd = slots[n] /\ Queued(cmd, sound)
  /\ res = PreProcessCommand(engines[s], s, cmd)
  /\ engines'[s] = res.engine
  /\ \A t \in RiskShards : t # s => engines'[t] = engines[t]
  /\ settlements' = SettlementsAfter(s, cmd, res)

\* R1 checks a command.
LEMMA PreProcessSlotKept ==
  ASSUME NEW sound \in BOOLEAN, Inv(sound), NEW s \in RiskShards, PreProcessSlot(s)
  PROVE  Inv(sound)' /\ \E n, cmd, res : PreProcessedAt(s, sound, n, cmd, res)
<1>1. PICK n : n = r1[s] + 1
  OBVIOUS
<1>2. PICK cmd : cmd = slots[n]
  OBVIOUS
<1>3. PICK e : e = engines[s]
  OBVIOUS
<1>4. PICK res : res = PreProcessCommand(e, s, cmd)
  OBVIOUS
<1>5. PICK x : x = IF IsReport(cmd) THEN SectionAdded(cmd, ReportBalance(engines[s]))
                   ELSE [cmd EXCEPT !.resultCode = res.code]
  OBVIOUS
<1>6. /\ n <= Len(slots)
      /\ r1' = [r1 EXCEPT ![s] = n]
      /\ engines' = [engines EXCEPT ![s] = res.engine]
      /\ slots' = [slots EXCEPT ![n] = x]
      /\ settlements' = SettlementsAfter(s, cmd, res)
      /\ UNCHANGED <<me, r2, book, published>>
  BY <1>1, <1>2, <1>3, <1>4, <1>5 DEF PreProcessSlot, router
<1>7. IsSequence(slots) /\ Len(slots) \in Int /\ me \in 0 .. Len(slots)
  BY AppendToSequence DEF Inv, Stages
<1>8. n \in 1 .. Len(slots) /\ n > me
  BY <1>1, <1>6, <1>7 DEF Inv, Stages
<1>9. /\ IsSequence(slots') /\ Len(slots') = Len(slots) /\ slots'[n] = x
      /\ \A i \in 1 .. Len(slots) : i # n => slots'[i] = slots[i]
  <2>1. slots' = Replaced(slots, n, x)
    BY <1>6 DEF Replaced
  <2> QED
    BY <1>7, <1>8, <2>1, ReplaceInSequence
<1>10. Queued(cmd, sound)
  BY <1>2, <1>8 DEF Inv, SlotsKept
<1>11. e \in Engines(sound)
  BY <1>3 DEF Inv, EnginesKept
<1>12. /\ res.engine \in Engines(sound)
       /\ cmd.command = "PLACE_ORDER" /\ res.code = "VALID_FOR_MATCHING_ENGINE" =>
            cmd.resultCode = "VALID_FOR_MATCHING_ENGINE" \/ AcceptablePrice(cmd)
  BY <1>4, <1>10, <1>11, PreProcessKept DEF Queued
<1>13. Queued(x, sound)
  <2>1. CASE IsReport(cmd)
    <3>1. PICK section : x = SectionAdded(cmd, section)
      BY <1>5, <2>1
    <3>2. SameRequest(x, cmd) /\ x.resultCode = cmd.resultCode
      BY <1>10, <3>1, SectionSame DEF Queued
    <3> QED
      BY <1>10, <3>2, QueuedSame
  <2>2. CASE ~ IsReport(cmd)
    <3>1. PICK code : code = res.code
      OBVIOUS
    <3>2. x = [cmd EXCEPT !.resultCode = code]
      BY <1>5, <2>2, <3>1
    <3>3. SameRequest(x, cmd) /\ x.resultCode = code
      BY <1>10, <3>2, CodeSame DEF Queued
    <3>4. x.command = cmd.command
      BY <3>3 DEF SameRequest
    <3> QED
      BY <1>10, <1>12, <3>1, <3>3, <3>4, QueuedSame
  <2> QED
    BY <2>1, <2>2
<1>14. Stages'
  BY <1>6, <1>7, <1>8, <1>9 DEF Inv, Stages
<1>15. SlotsKept(sound)'
  <2> SUFFICES ASSUME NEW i \in 1 .. Len(slots')
               PROVE  /\ i > me' => Queued(slots'[i], sound)
                      /\ i <= me' => Settles(slots'[i], sound)
    BY DEF SlotsKept
  <2>1. CASE i = n
    BY <1>6, <1>7, <1>8, <1>9, <1>13, <2>1
  <2>2. CASE i # n
    BY <1>6, <1>9, <2>2 DEF Inv, SlotsKept
  <2> QED
    BY <2>1, <2>2
<1>16. /\ DOMAIN engines' = RiskShards /\ engines'[s] = res.engine
       /\ \A t \in RiskShards : t # s => engines'[t] = engines[t]
  BY <1>6 DEF Inv, EnginesKept
<1>17. EnginesKept(sound)'
  BY <1>12, <1>16 DEF Inv, EnginesKept
<1>18. (published \in 0 .. MaxCommands)' /\ BookKept(book', sound)
  BY <1>6 DEF Inv
<1>19. Inv(sound)'
  BY <1>14, <1>15, <1>17, <1>18 DEF Inv
<1>20. PreProcessedAt(s, sound, n, cmd, res)
  BY <1>1, <1>2, <1>3, <1>4, <1>6, <1>8, <1>10, <1>16 DEF PreProcessedAt
<1> QED
  BY <1>19, <1>20

\* The invariant is kept by every step.
LEMMA NextKept ==
  ASSUME NEW sound \in BOOLEAN, Sound(sound), Inv(sound), [Next]_vars
  PROVE  Inv(sound)'
<1>1. CASE Publish
  BY <1>1, PublishKept
<1>2. ASSUME NEW s \in RiskShards, PreProcessSlot(s) PROVE Inv(sound)'
  BY <1>2, PreProcessSlotKept
<1>3. CASE MatchSlot
  BY <1>3, MatchSlotKept
<1>4. ASSUME NEW s \in RiskShards, PostProcessSlot(s) PROVE Inv(sound)'
  BY <1>4, PostProcessSlotKept
<1>5. CASE Release
  BY <1>5, ReleaseKept
<1>6. CASE UNCHANGED vars
  BY <1>6 DEF vars, stages, router, Inv, Stages, EnginesKept, SlotsKept
<1> QED
  BY <1>1, <1>2, <1>3, <1>4, <1>5, <1>6 DEF Next

-----------------------------------------------------------------------------
(***************************************************************************)
(* Type correctness and NoOverdraft.                                       *)
(***************************************************************************)

\* Every stage follows the one before it, and every risk engine is well formed,
\* whatever the clients send.
THEOREM TypeCorrect == Spec => []TypeOK
<1>1. PICK sound \in BOOLEAN : ~ sound
  OBVIOUS
<1>2. Sound(sound) /\ Amounts(sound) = Int
  BY <1>1 DEF Sound, Amounts
<1>3. Init => Inv(sound)
  BY InitKept
<1>4. Inv(sound) /\ [Next]_vars => Inv(sound)'
  BY <1>2, NextKept
<1>5. Inv(sound) => TypeOK
  <2> SUFFICES ASSUME Inv(sound) PROVE TypeOK
    OBVIOUS
  <2>1. \A s \in RiskShards : IsEngine(engines[s], Int)
    <3> SUFFICES ASSUME NEW s \in RiskShards PROVE IsEngine(engines[s], Int)
      OBVIOUS
    <3>1. PICK e : e = engines[s]
      OBVIOUS
    <3>2. e \in Engines(sound)
      BY <3>1 DEF Inv, EnginesKept
    <3>3. IsEngine(e, Amounts(sound))
      BY <3>2, EngineIs
    <3> QED
      BY <1>2, <3>1, <3>3
  <2> QED
    BY <2>1 DEF Inv, Stages, TypeOK
<1> QED
  BY <1>3, <1>4, <1>5, PTL DEF Spec

\* Every user belongs to a risk engine.
LEMMA ShardOf ==
  ASSUME NEW uid \in Users
  PROVE  uid \in Int /\ \E s \in RiskShards : UidForThisHandler(s, uid)
<1>1. uid \in Int
  BY ExchangeAssumption DEF Users, IsRequest
<1>2. PICK n \in Nat \ {0} : n = Cardinality(RiskShards) /\ RiskShards = 0 .. n - 1
  BY FeeAssumption
<1>3. uid % n \in 0 .. n - 1
  BY <1>1, <1>2
<1> QED
  BY <1>1, <1>2, <1>3 DEF UidForThisHandler

\* If a maker pays no more than a taker, placements are in natural numbers,
\* budgets are those of buyers, and no order is moved to a price that does not pay
\* the fee, then R1 holds enough for whatever the matching engine makes of the
\* orders and at whatever time R2 settles them.
THEOREM NeverOverdrawn ==
  ASSUME MakerFee <= TakerFee, \A c \in Commands : WithinHold(c)
  PROVE  Spec => []NoOverdraft
<1>1. PICK sound \in BOOLEAN : sound
  OBVIOUS
<1>2. Sound(sound) /\ Amounts(sound) = Nat
  BY <1>1 DEF Sound, Amounts
<1>3. Init => Inv(sound)
  BY InitKept
<1>4. Inv(sound) /\ [Next]_vars => Inv(sound)'
  BY <1>2, NextKept
<1>5. Inv(sound) => NoOverdraft
  <2> SUFFICES ASSUME Inv(sound), NEW uid \in Users, NEW currency \in Currency
               PROVE  Accounts(uid)[currency] >= 0
    BY DEF NoOverdraft
  <2>1. PICK s \in RiskShards : s = CHOOSE t \in RiskShards : UidForThisHandler(t, uid)
    BY ShardOf
  <2>2. PICK e \in Engines(sound) : e = engines[s]
    BY DEF Inv, EnginesKept
  <2>3. PICK accounts : accounts = IF uid \in DOMAIN e.profiles THEN e.profiles[uid].accounts
                                   ELSE ZeroBalance
    OBVIOUS
  <2>4. Accounts(uid) = accounts
    BY <2>1, <2>2, <2>3 DEF Accounts
  <2>5. CASE uid \in DOMAIN e.profiles
    <3>1. PICK p : p = e.profiles
      OBVIOUS
    <3>2. p[uid] \in Profile(Amounts(sound))
      BY <2>2, <2>5, <3>1, ProfileMap DEF Engines
    <3>3. p[uid].accounts \in [Currency -> Nat]
      BY <1>2, <3>2 DEF Profile
    <3> QED
      BY <2>3, <2>4, <2>5, <3>1, <3>3
  <2>6. CASE uid \notin DOMAIN e.profiles
    BY <2>3, <2>4, <2>6 DEF ZeroBalance
  <2> QED
    BY <2>5, <2>6
<1> QED
  BY <1>3, <1>4, <1>5, PTL DEF Spec

-----------------------------------------------------------------------------
(***************************************************************************)
(* NoDoubleSettlement.                                                     *)
(***************************************************************************)

\* A settlement is remembered by the profile of its user.
Recorded(profiles, x) ==
  x[1] \in DOMAIN profiles /\ profiles[x[1]].adjustmentsCounter >= x[2]

\* Nothing is settled twice, for what has been settled is remembered.
SettledInv ==
  /\ settlements \in Seq(Int \X Int)
  /\ \A i, j \in 1 .. Len(settlements) : settlements[i] = settlements[j] => i = j
  /\ \A i \in 1 .. Len(settlements), s \in RiskShards :
       UidForThisHandler(s, settlements[i][1]) => Recorded(engines[s].profiles, settlements[i])

\* An engine that grows remembers what it did.
LEMMA RecordedGrows ==
  ASSUME NEW sound \in BOOLEAN, NEW e \in Engines(sound), NEW f \in GrownFrom(e, sound),
         NEW x \in Int \X Int, Recorded(e.profiles, x)
  PROVE  Recorded(f.profiles, x)
<1>1. PICK uid \in Int, id \in Int : x[1] = uid /\ x[2] = id
  OBVIOUS
<1>2. PICK p \in ProfileMaps(sound) : p = e.profiles
  BY DEF Engines
<1>3. PICK q \in ProfileMaps(sound) : q = f.profiles /\ Grows(p, q)
  BY <1>2 DEF GrownFrom, Engines
<1>4. uid \in DOMAIN p /\ p[uid].adjustmentsCounter >= id
  BY <1>1, <1>2 DEF Recorded
<1>5. uid \in DOMAIN q /\ p[uid].adjustmentsCounter <= q[uid].adjustmentsCounter
  BY <1>3, <1>4 DEF Grows
<1>6. p[uid].adjustmentsCounter \in Int /\ q[uid].adjustmentsCounter \in Int
  BY <1>4, <1>5, ProfileMap, ProfileFields
<1>7. q[uid].adjustmentsCounter >= id
  BY <1>4, <1>5, <1>6
<1> QED
  BY <1>1, <1>3, <1>5, <1>7 DEF Recorded

\* Engines that grow while nothing is settled.
LEMMA SettledGrows ==
  ASSUME NEW sound \in BOOLEAN, Inv(sound), SettledInv, settlements' = settlements,
         \A s \in RiskShards : engines'[s] \in GrownFrom(engines[s], sound)
  PROVE  SettledInv'
<1>1. \A i \in 1 .. Len(settlements) : settlements[i] \in Int \X Int
  BY ElementOfSeq, LenProperties DEF SettledInv
<1>2. ASSUME NEW i \in 1 .. Len(settlements), NEW s \in RiskShards,
             UidForThisHandler(s, settlements[i][1])
      PROVE  Recorded(engines'[s].profiles, settlements[i])
  <2>1. PICK e \in Engines(sound) : e = engines[s]
    BY DEF Inv, EnginesKept
  <2>2. PICK f \in GrownFrom(e, sound) : f = engines'[s]
    BY <2>1
  <2>3. PICK x \in Int \X Int : x = settlements[i]
    BY <1>1
  <2>4. Recorded(e.profiles, x)
    BY <1>2, <2>1, <2>3 DEF SettledInv
  <2> QED
    BY <2>2, <2>3, <2>4, RecordedGrows
<1> QED
  BY <1>2 DEF SettledInv

\* Nothing is settled initially.
LEMMA InitSettled ==
  ASSUME Init
  PROVE  SettledInv
<1>1. settlements = <<>>
  BY DEF Init
<1>2. settlements \in Seq(Int \X Int) /\ Len(settlements) = 0
  BY <1>1, EmptySeq
<1> QED
  BY <1>2 DEF SettledInv

\* RESET forgets the profiles of its engine and what they have been paid.
LEMMA ResetSettled ==
  ASSUME NEW sound \in BOOLEAN, Inv(sound), SettledInv, NEW s \in RiskShards,
         \A t \in RiskShards : t # s => engines'[t] = engines[t],
         NEW K, \A x \in K : ~ UidForThisHandler(s, x[1]),
         settlements' = Kept(settlements, K)
  PROVE  SettledInv'
<1> DEFINE P == Int \X Int
<1>1. settlements \in Seq(P)
  BY DEF SettledInv
<1> HIDE DEF P
<1>2. PICK k : k = Kept(settlements, K)
  OBVIOUS
<1>3. /\ k \in Seq(P \cap K)
      /\ \A i, j \in 1 .. Len(k) : k[i] = k[j] => i = j
  <2>1. \A i, j \in 1 .. Len(settlements) : settlements[i] = settlements[j] => i = j
    BY DEF SettledInv
  <2> QED
    BY <1>1, <1>2, <2>1, KeptElements, KeptOnce
<1>4. k \in Seq(P)
  BY <1>1, <1>2, KeptInSet
<1> DEFINE S == {settlements[i] : i \in 1 .. Len(settlements)}
<1>5. k \in Seq(S \cap K)
  <2>1. PICK n \in Nat : n = Len(settlements) /\ settlements \in [1 .. n -> P]
    BY <1>1, LenProperties
  <2>2. settlements \in [1 .. n -> S]
    BY <2>1
  <2> HIDE DEF S
  <2>3. settlements \in Seq(S)
    BY <2>1, <2>2, SeqDef
  <2> QED
    BY <1>2, <2>3, KeptElements
<1>6. ASSUME NEW i \in 1 .. Len(k), NEW t \in RiskShards, UidForThisHandler(t, k[i][1])
      PROVE  Recorded(engines'[t].profiles, k[i])
  <2>1. k[i] \in S \cap K
    <3> HIDE DEF S
    <3> QED
      BY <1>5, ElementOfSeq
  <2>2. t # s
    BY <1>6, <2>1
  <2>3. \E j \in 1 .. Len(settlements) : settlements[j] = k[i]
    BY <2>1
  <2> QED
    BY <1>6, <2>2, <2>3 DEF SettledInv
<1> QED
  BY <1>2, <1>3, <1>4, <1>6 DEF SettledInv, P

\* An adjustment is settled for a profile that remembers only smaller ones.
LEMMA AdjustmentSettled ==
  ASSUME NEW sound \in BOOLEAN, Inv(sound), SettledInv, NEW s \in RiskShards,
         NEW cmd, IsSlot(cmd), UidForThisHandler(s, cmd.uid),
         AppliedTo(engines[s], engines'[s], cmd),
         \A t \in RiskShards : engines'[t] \in GrownFrom(engines[t], sound),
         settlements' = Append(settlements, <<cmd.uid, cmd.orderId>>)
  PROVE  SettledInv'
<1>1. PICK uid \in Int, id \in Int : uid = cmd.uid /\ id = cmd.orderId
  BY DEF IsSlot
<1>2. PICK x \in Int \X Int : x = <<uid, id>> /\ x[1] = uid /\ x[2] = id
  <2>1. PICK y : y = <<uid, id>>
    OBVIOUS
  <2>2. y \in Int \X Int /\ y[1] = uid /\ y[2] = id
    BY <2>1
  <2> QED
    BY <2>1, <2>2
<1>3. PICK all : all = Append(settlements, x)
  OBVIOUS
<1>4. settlements' = all
  BY <1>1, <1>2, <1>3
<1> DEFINE P == Int \X Int
           n == Len(settlements)
<1>5. /\ n \in Nat /\ settlements \in Seq(P) /\ \A i \in 1 .. n : settlements[i] \in P
  BY ElementOfSeq, LenProperties DEF SettledInv
<1>6. /\ all \in Seq(P) /\ Len(all) = n + 1 /\ all[n + 1] = x
      /\ \A i \in 1 .. n : all[i] = settlements[i]
  <2>1. x \in P
    OBVIOUS
  <2> HIDE DEF P
  <2> QED
    BY <1>3, <1>5, <2>1, AppendElements
<1> HIDE DEF P
<1>7. ASSUME NEW i \in 1 .. n, settlements[i] = x PROVE FALSE
  <2>1. Recorded(engines[s].profiles, x)
    BY <1>1, <1>2, <1>7 DEF SettledInv
  <2>2. PICK e \in Engines(sound) : e = engines[s]
    BY DEF Inv, EnginesKept
  <2>3. PICK p \in ProfileMaps(sound) : p = e.profiles
    BY <2>2 DEF Engines
  <2>4. uid \in DOMAIN p /\ p[uid].adjustmentsCounter >= id
    BY <1>2, <2>1, <2>2, <2>3 DEF Recorded
  <2>5. p[uid].adjustmentsCounter < id
    BY <1>1, <2>2, <2>3 DEF AppliedTo
  <2>6. p[uid].adjustmentsCounter \in Int
    BY <2>4, ProfileMap, ProfileFields
  <2> QED
    BY <2>4, <2>5, <2>6
<1>8. ASSUME NEW i \in 1 .. n, NEW t \in RiskShards, UidForThisHandler(t, settlements[i][1])
      PROVE  Recorded(engines'[t].profiles, settlements[i])
  <2>1. PICK e \in Engines(sound) : e = engines[t]
    BY DEF Inv, EnginesKept
  <2>2. PICK f \in GrownFrom(e, sound) : f = engines'[t]
    BY <2>1
  <2>3. PICK y \in Int \X Int : y = settlements[i]
    BY <1>5 DEF P
  <2>4. Recorded(e.profiles, y)
    BY <1>8, <2>1, <2>3 DEF SettledInv
  <2> QED
    BY <2>2, <2>3, <2>4, RecordedGrows
<1>9. ASSUME NEW t \in RiskShards, UidForThisHandler(t, uid)
      PROVE  Recorded(engines'[t].profiles, x)
  <2>1. t = s
    BY <1>1, <1>9 DEF UidForThisHandler
  <2>2. engines'[s] \in Engines(sound)
    BY DEF GrownFrom
  <2>3. PICK q : q = engines'[s].profiles
    OBVIOUS
  <2>4. uid \in DOMAIN q /\ q[uid].adjustmentsCounter = id
    BY <1>1, <2>3 DEF AppliedTo
  <2> QED
    BY <1>2, <2>1, <2>3, <2>4 DEF Recorded
<1>10. \A i \in 1 .. n + 1 : i \in 1 .. n \/ i = n + 1
  BY <1>5
<1>11. \A i, j \in 1 .. Len(all) : all[i] = all[j] => i = j
  <2> SUFFICES ASSUME NEW i \in 1 .. n + 1, NEW j \in 1 .. n + 1, all[i] = all[j]
               PROVE  i = j
    BY <1>6
  <2>1. CASE i \in 1 .. n /\ j \in 1 .. n
    BY <1>6, <2>1 DEF SettledInv
  <2>2. CASE i \in 1 .. n /\ j = n + 1
    BY <1>6, <1>7, <2>2
  <2>3. CASE i = n + 1 /\ j \in 1 .. n
    BY <1>6, <1>7, <2>3
  <2> QED
    BY <1>10, <2>1, <2>2, <2>3
<1>12. ASSUME NEW i \in 1 .. Len(all), NEW t \in RiskShards, UidForThisHandler(t, all[i][1])
       PROVE  Recorded(engines'[t].profiles, all[i])
  <2>1. CASE i \in 1 .. n
    BY <1>6, <1>8, <1>12, <2>1
  <2>2. CASE i = n + 1
    BY <1>2, <1>6, <1>9, <1>12, <2>2
  <2> QED
    BY <1>6, <1>10, <2>1, <2>2
<1> QED
  BY <1>4, <1>6, <1>11, <1>12 DEF SettledInv, P

\* R1 settles an adjustment, or forgets, or goes on.
LEMMA PreProcessSettled ==
  ASSUME "SUSPEND_USER" \notin CommandNames, NEW sound \in BOOLEAN, Inv(sound), SettledInv,
         NEW s \in RiskShards, NEW n, NEW cmd, NEW res, PreProcessedAt(s, sound, n, cmd, res)
  PROVE  SettledInv'
<1>1. PICK e \in Engines(sound) : e = engines[s]
  BY DEF Inv, EnginesKept
<1>2. PICK f : f = engines'[s] /\ f = res.engine
  BY DEF PreProcessedAt
<1>3. /\ Queued(cmd, sound) /\ res = PreProcessCommand(e, s, cmd)
      /\ \A t \in RiskShards : t # s => engines'[t] = engines[t]
      /\ settlements' = SettlementsAfter(s, cmd, res)
  BY <1>1 DEF PreProcessedAt
<1>4. /\ IsSlot(cmd) /\ cmd.message \in Messages /\ cmd.command # "SUSPEND_USER"
      /\ cmd.command = "BALANCE_ADJUSTMENT" =>
           cmd.symbol \in Currency /\ cmd.orderType \in BalanceAdjustmentType
  BY <1>3 DEF Queued
<1>5. /\ cmd.command \notin {"SUSPEND_USER", "RESET"} => f \in GrownFrom(e, sound)
      /\ cmd.command = "BALANCE_ADJUSTMENT" /\ UidForThisHandler(s, cmd.uid)
           /\ res.code = "SUCCESS" => AppliedTo(e, f, cmd)
  BY <1>2, <1>3, <1>4, PreProcessKept
<1>6. ASSUME cmd.command # "RESET", NEW t \in RiskShards
      PROVE  engines'[t] \in GrownFrom(engines[t], sound)
  <2>1. CASE t = s
    BY <1>1, <1>2, <1>4, <1>5, <1>6, <2>1
  <2>2. CASE t # s
    <3>1. PICK g \in Engines(sound) : g = engines[t]
      BY DEF Inv, EnginesKept
    <3> QED
      BY <1>3, <2>2, <3>1, GrownSame
  <2> QED
    BY <2>1, <2>2
<1>7. CASE cmd.command = "RESET"
  <2>1. PICK K : K = {x \in ToSet(settlements) : ~ UidForThisHandler(s, x[1])}
    OBVIOUS
  <2>2. settlements' = Kept(settlements, K)
    BY <1>3, <1>7, <2>1 DEF SettlementsAfter
  <2>3. \A x \in K : ~ UidForThisHandler(s, x[1])
    BY <2>1
  <2> QED
    BY <1>3, <2>2, <2>3, ResetSettled
<1>8. CASE cmd.command # "RESET" /\ Applied(s, cmd, res)
  <2>1. settlements' = Append(settlements, <<cmd.uid, cmd.orderId>>)
    BY <1>3, <1>8 DEF SettlementsAfter
  <2>2. UidForThisHandler(s, cmd.uid) /\ AppliedTo(engines[s], engines'[s], cmd)
    BY <1>1, <1>2, <1>5, <1>8 DEF Applied
  <2> QED
    BY <1>4, <1>6, <1>8, <2>1, <2>2, AdjustmentSettled
<1>9. CASE cmd.command # "RESET" /\ ~ Applied(s, cmd, res)
  <2>1. settlements' = settlements
    BY <1>3, <1>9 DEF SettlementsAfter
  <2> QED
    BY <1>6, <1>9, <2>1, SettledGrows
<1> QED
  BY <1>7, <1>8, <1>9

\* SUSPEND_USER, which deletes a profile, is the only command to forget the
\* transactions of a user while others of the same user may come.
LEMMA NextSettled ==
  ASSUME "SUSPEND_USER" \notin CommandNames, NEW sound \in BOOLEAN, Sound(sound),
         Inv(sound), SettledInv, [Next]_vars
  PROVE  SettledInv'
<1>1. ASSUME UNCHANGED <<engines, settlements>> PROVE SettledInv'
  BY <1>1 DEF SettledInv
<1>2. CASE Publish
  BY <1>1, <1>2 DEF Publish, history
<1>3. ASSUME NEW s \in RiskShards, PreProcessSlot(s) PROVE SettledInv'
  <2>1. PICK n, cmd, res : PreProcessedAt(s, sound, n, cmd, res)
    BY <1>3, PreProcessSlotKept
  <2> QED
    BY <2>1, PreProcessSettled
<1>4. CASE MatchSlot
  BY <1>1, <1>4 DEF MatchSlot
<1>5. ASSUME NEW s \in RiskShards, PostProcessSlot(s) PROVE SettledInv'
  <2>1. settlements' = settlements
    BY <1>5 DEF PostProcessSlot, history
  <2>2. ASSUME NEW t \in RiskShards PROVE engines'[t] \in GrownFrom(engines[t], sound)
    <3>1. CASE t = s
      BY <1>5, <3>1, PostProcessSlotKept
    <3>2. CASE t # s
      <4>1. PICK g \in Engines(sound) : g = engines[t]
        BY DEF Inv, EnginesKept
      <4>2. engines'[t] = engines[t]
        BY <1>5, <3>2, PostProcessSlotKept
      <4> QED
        BY <4>1, <4>2, GrownSame
    <3> QED
      BY <3>1, <3>2
  <2> QED
    BY <2>1, <2>2, SettledGrows
<1>6. CASE Release
  BY <1>1, <1>6 DEF Release, history
<1>7. CASE UNCHANGED vars
  BY <1>1, <1>7 DEF vars, history
<1> QED
  BY <1>2, <1>3, <1>4, <1>5, <1>6, <1>7 DEF Next

\* While no user is suspended, an adjustment is applied once for each transaction
\* id of a user, whatever is repeated, and whatever the risk engines settle or
\* add in between.
THEOREM SettledOnce ==
  ASSUME "SUSPEND_USER" \notin CommandNames
  PROVE  Spec => []NoDoubleSettlement
<1>1. PICK sound \in BOOLEAN : ~ sound
  OBVIOUS
<1>2. Sound(sound)
  BY <1>1 DEF Sound
<1>3. Init => Inv(sound) /\ SettledInv
  BY InitKept, InitSettled
<1>4. Inv(sound) /\ SettledInv /\ [Next]_vars => Inv(sound)' /\ SettledInv'
  BY <1>2, NextKept, NextSettled
<1>5. SettledInv => NoDoubleSettlement
  <2> SUFFICES ASSUME SettledInv PROVE NoDoubleSettlement
    OBVIOUS
  <2>1. DOMAIN settlements = 1 .. Len(settlements)
    BY LenProperties DEF SettledInv
  <2> QED
    BY <2>1 DEF SettledInv, NoDoubleSettlement, IsInjective
<1> QED
  BY <1>3, <1>4, <1>5, PTL DEF Spec

-----------------------------------------------------------------------------
(***************************************************************************)
(* The steps of the exchange, to all that the ledger looks at.             *)
(***************************************************************************)

\* A slot of such a client that is not matched yet.
Payable(cmd, pair) ==
  /\ cmd.uid \in Users
  /\ Accountable(cmd, pair)
  /\ cmd.command = "PLACE_ORDER" => cmd.resultCode # "SUCCESS"

\* What R1 does with command n.
R1Step(s, n, cmd, res, x) ==
  /\ n = r1[s] + 1 /\ n \in 1 .. Len(slots) /\ n > me
  /\ cmd = slots[n] /\ Queued(cmd, FALSE)
  /\ ClosesGroup(cmd) => r2[s] = n - 1 /\ me = n - 1
  /\ res = PreProcessCommand(engines[s], s, cmd)
  /\ SameRequest(x, cmd)
  /\ x.resultCode = IF IsReport(cmd) THEN cmd.resultCode ELSE res.code
  /\ Len(slots') = Len(slots) /\ slots'[n] = x
  /\ \A i \in 1 .. Len(slots) : i # n => slots'[i] = slots[i]
  /\ r1'[s] = n /\ engines'[s] = res.engine
  /\ \A t \in RiskShards : t # s => r1'[t] = r1[t] /\ engines'[t] = engines[t]
  /\ due' = DueAfter(s, cmd, res)
  /\ me' = me /\ r2' = r2 /\ book' = book /\ listed' = listed

\* A step of R1 is one of these.
LEMMA R1Steps ==
  ASSUME Inv(FALSE), NEW s \in RiskShards, PreProcessSlot(s)
  PROVE  \E n, cmd, res, x : R1Step(s, n, cmd, res, x)
<1>1. PICK n : n = r1[s] + 1
  OBVIOUS
<1>2. PICK cmd : cmd = slots[n]
  OBVIOUS
<1>3. PICK res : res = PreProcessCommand(engines[s], s, cmd)
  OBVIOUS
<1>4. PICK x : x = IF IsReport(cmd) THEN SectionAdded(cmd, ReportBalance(engines[s]))
                   ELSE [cmd EXCEPT !.resultCode = res.code]
  OBVIOUS
<1>5. /\ n <= Len(slots) /\ (ClosesGroup(cmd) => r2[s] = n - 1)
      /\ r1' = [r1 EXCEPT ![s] = n]
      /\ engines' = [engines EXCEPT ![s] = res.engine]
      /\ slots' = [slots EXCEPT ![n] = x]
      /\ due' = DueAfter(s, cmd, res)
      /\ me' = me /\ r2' = r2 /\ book' = book /\ listed' = listed
  BY <1>1, <1>2, <1>3, <1>4 DEF PreProcessSlot, SettledBefore, router
<1>6. IsSequence(slots) /\ Len(slots) \in Int /\ me \in 0 .. Len(slots)
  BY AppendToSequence DEF Inv, Stages
<1>7. n \in 1 .. Len(slots) /\ n > me
  BY <1>1, <1>5, <1>6 DEF Inv, Stages
<1>8. r1[s] \in me .. Len(slots) /\ r2[s] \in 0 .. me
  BY DEF Inv, Stages
<1>9. ClosesGroup(cmd) => r2[s] = n - 1 /\ me = n - 1
  BY <1>1, <1>5, <1>6, <1>8
<1>10. /\ Len(slots') = Len(slots) /\ slots'[n] = x
       /\ \A i \in 1 .. Len(slots) : i # n => slots'[i] = slots[i]
  <2>1. slots' = Replaced(slots, n, x)
    BY <1>5 DEF Replaced
  <2> QED
    BY <1>6, <1>7, <2>1, ReplaceInSequence
<1>11. Queued(cmd, FALSE)
  BY <1>2, <1>7 DEF Inv, SlotsKept
<1>12. IsSlot(cmd)
  BY <1>11 DEF Queued
<1>13. SameRequest(x, cmd) /\ x.resultCode = IF IsReport(cmd) THEN cmd.resultCode ELSE res.code
  <2>1. CASE IsReport(cmd)
    <3>1. PICK section : x = SectionAdded(cmd, section)
      BY <1>4, <2>1
    <3> QED
      BY <1>12, <2>1, <3>1, SectionSame
  <2>2. CASE ~ IsReport(cmd)
    <3>1. PICK code : code = res.code
      OBVIOUS
    <3>2. x = [cmd EXCEPT !.resultCode = code]
      BY <1>4, <2>2, <3>1
    <3> QED
      BY <1>12, <2>2, <3>1, <3>2, CodeSame
  <2> QED
    BY <2>1, <2>2
<1>14. /\ r1'[s] = n /\ engines'[s] = res.engine
       /\ \A t \in RiskShards : t # s => r1'[t] = r1[t] /\ engines'[t] = engines[t]
  BY <1>5 DEF Inv, Stages, EnginesKept
<1>15. R1Step(s, n, cmd, res, x)
  BY <1>1, <1>2, <1>3, <1>5, <1>7, <1>9, <1>10, <1>11, <1>13, <1>14 DEF R1Step
<1> QED
  BY <1>15

\* What the matching engine does with command n.
MeStep(n, cmd, res, x) ==
  /\ n = me + 1 /\ n \in 1 .. Len(slots)
  /\ \A s \in RiskShards : n <= r1[s]
  /\ cmd = slots[n] /\ Queued(cmd, FALSE)
  /\ res = ProcessOrder(cmd) /\ Settles(res.cmd, FALSE)
  /\ IF IsReport(cmd) THEN SameRequest(x, cmd) ELSE x = res.cmd
  /\ Len(slots') = Len(slots) /\ slots'[n] = x
  /\ \A i \in 1 .. Len(slots) : i # n => slots'[i] = slots[i]
  /\ me' = n /\ book' = res.book /\ listed' = Listed(cmd)
  /\ due' = [uid \in Users |-> [currency \in Currency |->
               due[uid][currency] + TradedFor(res.cmd, uid, currency)]]
  /\ r1' = r1 /\ r2' = r2 /\ engines' = engines

\* A step of ME is one of these.
LEMMA MeSteps ==
  ASSUME Inv(FALSE), MatchSlot
  PROVE  \E n, cmd, res, x : MeStep(n, cmd, res, x)
<1>1. PICK n : n = me + 1
  OBVIOUS
<1>2. PICK cmd : cmd = slots[n]
  OBVIOUS
<1>3. PICK res : res = ProcessOrder(cmd)
  OBVIOUS
<1>4. PICK x : x = IF IsReport(cmd)
                   THEN SectionAdded(cmd, OrderBalances(book["ASK"] \o book["BID"]))
                   ELSE res.cmd
  OBVIOUS
<1>5. /\ n <= Len(slots) /\ \A s \in RiskShards : n <= r1[s]
      /\ me' = n /\ book' = res.book /\ listed' = Listed(cmd)
      /\ slots' = [slots EXCEPT ![n] = x]
      /\ due' = [uid \in Users |-> [currency \in Currency |->
                   due[uid][currency] + TradedFor(res.cmd, uid, currency)]]
      /\ r1' = r1 /\ r2' = r2 /\ engines' = engines
  BY <1>1, <1>2, <1>3, <1>4 DEF MatchSlot, PreProcessed
<1>6. IsSequence(slots) /\ Len(slots) \in Int /\ me \in 0 .. Len(slots)
  BY AppendToSequence DEF Inv, Stages
<1>7. n \in 1 .. Len(slots) /\ n > me
  BY <1>1, <1>5, <1>6
<1>8. /\ Len(slots') = Len(slots) /\ slots'[n] = x
      /\ \A i \in 1 .. Len(slots) : i # n => slots'[i] = slots[i]
  <2>1. slots' = Replaced(slots, n, x)
    BY <1>5 DEF Replaced
  <2> QED
    BY <1>6, <1>7, <2>1, ReplaceInSequence
<1>9. Queued(cmd, FALSE)
  BY <1>2, <1>7 DEF Inv, SlotsKept
<1>10. Settles(res.cmd, FALSE)
  <2>1. PICK sound \in BOOLEAN : sound = FALSE
    OBVIOUS
  <2>2. Inv(sound) /\ Queued(cmd, sound)
    BY <1>9, <2>1
  <2>3. BookKept(book, sound)
    BY <2>2 DEF Inv
  <2>4. Processed(res, sound)
    BY <1>3, <2>2, <2>3, OrderProcessed
  <2> QED
    BY <2>1, <2>4 DEF Processed
<1>11. IF IsReport(cmd) THEN SameRequest(x, cmd) ELSE x = res.cmd
  <2>1. CASE IsReport(cmd)
    <3>1. PICK section : x = SectionAdded(cmd, section)
      BY <1>4, <2>1
    <3>2. IsSlot(cmd)
      BY <1>9 DEF Queued
    <3> QED
      BY <2>1, <3>1, <3>2, SectionSame
  <2> QED
    BY <1>4, <2>1
<1> QED
  BY <1>1, <1>2, <1>3, <1>5, <1>7, <1>8, <1>9, <1>10, <1>11 DEF MeStep

-----------------------------------------------------------------------------
(***************************************************************************)
(* What R1 does to the symbols and to the accounts of its users.           *)
(***************************************************************************)

\* Every user has one risk engine.
LEMMA OneShard ==
  ASSUME NEW s, NEW t, NEW uid, UidForThisHandler(s, uid), UidForThisHandler(t, uid)
  PROVE  s = t
BY DEF UidForThisHandler

\* Commands that leave the symbols as they are.
LEMMA OtherSymbols ==
  ASSUME NEW sound \in BOOLEAN, NEW e \in Engines(sound), NEW s, NEW cmd, IsSlot(cmd),
         cmd.command \notin {"BINARY_DATA_COMMAND", "RESET"},
         cmd.command = "BALANCE_ADJUSTMENT" =>
           cmd.symbol \in Currency /\ cmd.orderType \in BalanceAdjustmentType,
         NEW res, res = PreProcessCommand(e, s, cmd)
  PROVE  /\ res.engine.symbols = e.symbols
         /\ ~ UidForThisHandler(s, cmd.uid) => res.engine = e /\ res.code = cmd.resultCode
         /\ cmd.command = "PLACE_ORDER" /\ UidForThisHandler(s, cmd.uid) =>
              /\ res.code # "SUCCESS"
              /\ res.code = "VALID_FOR_MATCHING_ENGINE" => cmd.symbol \in e.symbols
<1>1. PICK k \in Currency : k = "base"
  BY DEF Currency
<1>2. CASE ~ UidForThisHandler(s, cmd.uid)
  BY <1>2 DEF PreProcessCommand
<1>3. CASE UidForThisHandler(s, cmd.uid)
  <2>1. res = PreProcess(e, cmd)
    BY <1>3 DEF PreProcessCommand
  <2>2. CASE cmd.command = "PLACE_ORDER"
    <3>1. res = PlaceOrderRiskCheck(e, cmd)
      BY <2>1, <2>2 DEF PreProcess
    <3>2. /\ res.engine.symbols = e.symbols
          /\ res.code = "VALID_FOR_MATCHING_ENGINE" => cmd.symbol \in e.symbols
      <4>1. PICK u, currency \in Currency : HoldsBalance(res, e, cmd, u, currency)
        BY <1>1, <3>1, RiskCheckBalance
      <4> QED
        BY <4>1 DEF HoldsBalance
    <3>3. res.code # "SUCCESS"
      BY <3>1, RiskCheckKept
    <3> QED
      BY <1>3, <3>2, <3>3
  <2>3. CASE cmd.command = "BALANCE_ADJUSTMENT"
    <3>1. res = AdjustBalance(e, cmd)
      BY <2>1, <2>3 DEF PreProcess
    <3>2. cmd.uid \in Int /\ cmd.price \in Int /\ cmd.orderId \in Int
      BY DEF IsSlot
    <3>3. res.engine.symbols = e.symbols
      <4>1. IsAdjustment(cmd)
        BY <1>1, <2>3, <3>2 DEF IsAdjustment
      <4>2. PICK u, currency \in Currency : AdjustsBalance(res, e, cmd, u, currency)
        BY <1>1, <3>1, <4>1, AdjustmentBalance
      <4> QED
        BY <4>2 DEF AdjustsBalance
    <3> QED
      BY <1>3, <2>3, <3>3
  <2>4. CASE cmd.command \in {"ADD_USER", "SUSPEND_USER", "RESUME_USER"}
    <3>1. PICK p, f : res.engine = f /\ f = [e EXCEPT !.profiles = p]
      <4>1. PICK uid, q : uid = cmd.uid /\ q = e.profiles
        OBVIOUS
      <4>2. PICK r : /\ r = AddUser(q, uid) \/ r = SuspendUser(q, uid) \/ r = ResumeUser(q, uid)
                     /\ res = UserCommand(e, r)
        BY <2>1, <2>4, <4>1 DEF PreProcess
      <4>3. PICK p : p = r.profiles
        OBVIOUS
      <4>4. PICK f : f = [e EXCEPT !.profiles = p]
        OBVIOUS
      <4>5. res.engine = f
        BY <4>2, <4>3, <4>4 DEF UserCommand
      <4> QED
        BY <4>4, <4>5
    <3>2. res.engine.symbols = e.symbols
      BY <3>1 DEF Engines
    <3> QED
      BY <1>3, <2>4, <3>2
  <2>5. CASE cmd.command \notin {"PLACE_ORDER", "BALANCE_ADJUSTMENT", "SUSPEND_USER",
                                 "ADD_USER", "RESUME_USER"}
    <3>1. res.engine = e
      BY <2>1, <2>5 DEF PreProcess
    <3> QED
      BY <1>3, <2>5, <3>1
  <2> QED
    BY <2>2, <2>3, <2>4, <2>5
<1> QED
  BY <1>2, <1>3

\* What a command other than RESET brings to a user at R1.
Received(e, cmd, res, uid, currency) ==
  CASE cmd.command = "BINARY_DATA_COMMAND" ->
         IF uid \in DOMAIN e.profiles THEN 0
         ELSE Total(BroughtBy(cmd.message.users, uid, currency))
    [] cmd.command = "BALANCE_ADJUSTMENT" ->
         IF res.code = "SUCCESS" /\ uid = cmd.uid /\ currency = cmd.symbol
         THEN cmd.price ELSE 0
    [] OTHER -> 0

\* The result code that R1 leaves in a slot.
CodeAfter(x, cmd, res) == x.resultCode = IF IsReport(cmd) THEN cmd.resultCode ELSE res.code

\* What is in the account after R1 and what is held is what was there and what has come.
HeldOrReceived(e, cmd, res, x, uid, W, currency) ==
  /\ Balance(res.engine.profiles, uid, currency) + HoldIn(x, W, currency)
       = Balance(e.profiles, uid, currency) + Received(e, cmd, res, uid, currency)
  /\ HoldIn(x, W, currency) \in Int
  /\ Received(e, cmd, res, uid, currency) \in Int

\* It moves what it holds from the account of the user into the slot.
LEMMA PreProcessBalance ==
  ASSUME NEW sound \in BOOLEAN, NEW e \in Engines(sound), NEW s, NEW cmd, Queued(cmd, FALSE),
         cmd.command # "RESET",
         cmd.command = "BINARY_DATA_COMMAND" => Joinable(cmd.message.users),
         NEW res, res = PreProcessCommand(e, s, cmd),
         NEW x, SameRequest(x, cmd), CodeAfter(x, cmd, res),
         NEW uid, UidForThisHandler(s, uid), NEW W, IsOnly(W, uid), NEW currency \in Currency
  PROVE  HeldOrReceived(e, cmd, res, x, uid, W, currency)
<1>1. SUFFICES
         /\ Balance(res.engine.profiles, uid, currency) + HoldIn(x, W, currency)
              = Balance(e.profiles, uid, currency) + Received(e, cmd, res, uid, currency)
         /\ HoldIn(x, W, currency) \in Int
         /\ Received(e, cmd, res, uid, currency) \in Int
  BY DEF HeldOrReceived
<1>2. Balance(e.profiles, uid, currency) \in Int
  BY EngineBalanceIsInt
<1>3. IsSlot(cmd) /\ x.command = cmd.command /\ x.uid = cmd.uid
  BY DEF Queued, SameRequest
<1>4. cmd.command # "PLACE_ORDER" => HoldIn(x, W, currency) = 0
  BY <1>3 DEF HoldIn
<1>5. cmd.command \notin {"BINARY_DATA_COMMAND", "BALANCE_ADJUSTMENT"} =>
        Received(e, cmd, res, uid, currency) = 0
  BY DEF Received
<1>6. CASE cmd.command = "BINARY_DATA_COMMAND"
  <2>1. res.engine = HandleBinaryMessage(e, cmd.message)
    BY <1>6 DEF PreProcessCommand
  <2>2. PICK message \in Messages : message = cmd.message
    BY DEF Queued
  <2>3. /\ Balance(res.engine.profiles, uid, currency)
             = Balance(e.profiles, uid, currency)
               + (IF uid \in DOMAIN e.profiles THEN 0
                  ELSE Total(BroughtBy(message.users, uid, currency)))
        /\ Total(BroughtBy(message.users, uid, currency)) \in Int
    <3>1. Joinable(message.users) /\ res.engine = HandleBinaryMessage(e, message)
      BY <1>6, <2>1, <2>2
    <3>2. MessageBrings(res.engine, e, message, uid, currency)
      BY <3>1, MessageBalance
    <3> QED
      BY <3>2 DEF MessageBrings
  <2>4. PICK m \in Int : m = Total(BroughtBy(message.users, uid, currency))
    BY <2>3
  <2>5. Received(e, cmd, res, uid, currency) = IF uid \in DOMAIN e.profiles THEN 0 ELSE m
    BY <1>6, <2>2, <2>4 DEF Received
  <2> QED
    BY <1>2, <1>4, <1>6, <2>3, <2>4, <2>5
<1>7. CASE cmd.command # "BINARY_DATA_COMMAND" /\ ~ UidForThisHandler(s, cmd.uid)
  <2>1. res.engine = e
    BY <1>7 DEF PreProcessCommand
  <2>2. cmd.uid # uid /\ cmd.uid \notin W
    BY <1>7 DEF IsOnly
  <2>3. HoldIn(x, W, currency) = 0
    BY <1>3, <2>2 DEF HoldIn
  <2>4. Received(e, cmd, res, uid, currency) = 0
    BY <1>7, <2>2 DEF Received
  <2> QED
    BY <1>2, <2>1, <2>3, <2>4
<1>8. CASE cmd.command # "BINARY_DATA_COMMAND" /\ UidForThisHandler(s, cmd.uid)
  <2>1. res = PreProcess(e, cmd)
    BY <1>8 DEF PreProcessCommand
  <2>2. CASE cmd.command = "PLACE_ORDER"
    <3>1. res = PlaceOrderRiskCheck(e, cmd)
      BY <2>1, <2>2 DEF PreProcess
    <3>2. x.resultCode = res.code
      BY <2>2 DEF IsReport, CodeAfter
    <3>3. HoldCurrency(x) = HoldCurrency(cmd) /\ OrderHoldAmount(x) = OrderHoldAmount(cmd)
      BY DEF SameRequest, HoldCurrency, OrderHoldAmount, IsBudget
    <3>4. /\ Balance(e.profiles, uid, currency)
               = Balance(res.engine.profiles, uid, currency)
                 + (IF /\ res.code = "VALID_FOR_MATCHING_ENGINE"
                       /\ uid = cmd.uid /\ currency = HoldCurrency(cmd)
                    THEN OrderHoldAmount(cmd) ELSE 0)
          /\ res.code = "VALID_FOR_MATCHING_ENGINE" => OrderHoldAmount(cmd) \in Int
      <4>1. HoldsBalance(res, e, cmd, uid, currency)
        BY <1>3, <3>1, RiskCheckBalance
      <4> QED
        BY <4>1 DEF HoldsBalance
    <3>5. PICK f \in Engines(sound) : f = res.engine
      <4>1. res.engine \in GrownFrom(e, sound)
        BY <1>3, <3>1, RiskCheckKept
      <4> QED
        BY <4>1 DEF GrownFrom
    <3>6. PICK hold \in Int :
            hold = IF /\ res.code = "VALID_FOR_MATCHING_ENGINE"
                      /\ uid = cmd.uid /\ currency = HoldCurrency(cmd)
                   THEN OrderHoldAmount(cmd) ELSE 0
      BY <3>4
    <3>7. HoldIn(x, W, currency) = hold
      BY <1>3, <2>2, <3>2, <3>3, <3>6 DEF HoldIn, IsOnly
    <3>8. Balance(f.profiles, uid, currency) \in Int
      BY EngineBalanceIsInt
    <3> QED
      BY <1>2, <1>5, <2>2, <3>4, <3>5, <3>6, <3>7, <3>8
  <2>3. CASE cmd.command = "BALANCE_ADJUSTMENT"
    <3>1. res = AdjustBalance(e, cmd)
      BY <2>1, <2>3 DEF PreProcess
    <3>2. /\ cmd.uid \in Int /\ cmd.price \in Int /\ cmd.orderId \in Int
          /\ cmd.symbol \in Currency /\ cmd.orderType \in BalanceAdjustmentType
      BY <1>3, <2>3 DEF IsSlot, Queued
    <3>3. Balance(res.engine.profiles, uid, currency)
            = Balance(e.profiles, uid, currency)
              + (IF res.code = "SUCCESS" /\ uid = cmd.uid /\ currency = cmd.symbol
                 THEN cmd.price ELSE 0)
      <4>1. IsAdjustment(cmd)
        BY <3>2 DEF IsAdjustment
      <4>2. AdjustsBalance(res, e, cmd, uid, currency)
        BY <3>1, <4>1, AdjustmentBalance
      <4> QED
        BY <4>2 DEF AdjustsBalance
    <3>4. Received(e, cmd, res, uid, currency)
            = IF res.code = "SUCCESS" /\ uid = cmd.uid /\ currency = cmd.symbol
              THEN cmd.price ELSE 0
      BY <2>3 DEF Received
    <3> QED
      BY <1>2, <1>4, <2>3, <3>2, <3>3, <3>4
  <2>4. CASE cmd.command \in {"ADD_USER", "SUSPEND_USER", "RESUME_USER"}
    <3>1. PICK p \in ProfileMaps(sound) : p = e.profiles
      BY DEF Engines
    <3>2. PICK to : to = cmd.uid
      OBVIOUS
    <3>3. PICK r : /\ r = AddUser(p, to) \/ r = ResumeUser(p, to) \/ r = SuspendUser(p, to)
                   /\ res = UserCommand(e, r)
      BY <2>1, <2>4, <3>1, <3>2 DEF PreProcess
    <3>4. PICK q : q = r.profiles
      OBVIOUS
    <3>5. res.engine = [e EXCEPT !.profiles = q]
      BY <3>3, <3>4 DEF UserCommand
    <3>6. Balance(r.profiles, uid, currency) = Balance(p, uid, currency)
      BY <3>3, UserBalance
    <3>7. res.engine.profiles = r.profiles
      BY <3>5, <3>4 DEF Engines
    <3> QED
      BY <1>2, <1>4, <1>5, <2>4, <3>1, <3>6, <3>7
  <2>5. CASE cmd.command \notin {"PLACE_ORDER", "BALANCE_ADJUSTMENT", "SUSPEND_USER",
                                 "ADD_USER", "RESUME_USER"}
    <3>1. res.engine = e
      BY <2>1, <2>5 DEF PreProcess
    <3> QED
      BY <1>2, <1>4, <1>5, <1>8, <2>5, <3>1
  <2> QED
    BY <2>2, <2>3, <2>4, <2>5
<1> QED
  BY <1>6, <1>7, <1>8

-----------------------------------------------------------------------------
(***************************************************************************)
(* What the ledger needs of the book, of the slots and of the accounts of  *)
(* what is due.                                                            *)
(***************************************************************************)
\* The book is one, the commands still to be matched are those of such clients, and
\* what is due is known of every user.
Accounted(pair) ==
  /\ IsBook(book)
  /\ \A n \in 1 .. Len(slots) : n > me => Payable(slots[n], pair)
  /\ DOMAIN due = Users /\ \A uid \in Users : DOMAIN due[uid] = Currency

\* A new exchange has an empty book.
LEMMA EmptyIsBook ==
  /\ IsBook(EmptyBook)
  /\ \A W, currency : Held(EmptyBook, W, currency) = 0
<1>1. DOMAIN EmptyBook = OrderAction /\ \A a \in OrderAction : EmptyBook[a] = <<>>
  BY DEF EmptyBook
<1>2. Len(<<>>) = 0 /\ \A S : <<>> \in Seq(S)
  BY EmptySeq
<1>3. \A a \in OrderAction : SideSound(EmptyBook, a)
  <2> SUFFICES ASSUME NEW a \in OrderAction PROVE SideSound(EmptyBook, a)
    OBVIOUS
  <2>1. PICK S, R : S = Resting(a) /\ R = Queue(a)
    OBVIOUS
  <2>2. <<>> \in Seq(S) /\ Related(<<>>, R)
    BY <1>2 DEF Related
  <2> QED
    BY <1>1, <2>1, <2>2 DEF SideSound
<1>4. SidesApart(EmptyBook)
  <2> SUFFICES ASSUME NEW a \in OrderAction PROVE AllApart(a, EmptyBook[a], EmptyBook[Opposite(a)])
    BY DEF SidesApart
  <2>1. \A o : ~ Has(<<>>, o)
    BY <1>2 DEF Has
  <2> QED
    BY <1>1, <2>1 DEF AllApart
<1>5. ASSUME NEW W, NEW currency PROVE Held(EmptyBook, W, currency) = 0
  <2>1. PICK w : w = HoldWeights(W, currency)
    OBVIOUS
  <2>2. Weighs(w, {})
    BY DEF Weighs
  <2>3. Worth(<<>>, w) = 0
    BY <2>2, WorthOfFew
  <2>4. EmptyBook["ASK"] = <<>> /\ EmptyBook["BID"] = <<>>
    BY <1>1 DEF OrderAction
  <2> QED
    BY <2>1, <2>3, <2>4 DEF Held, BookWorth
<1> QED
  BY <1>1, <1>3, <1>4, <1>5 DEF IsBook

\* What a client asks for is payable.
LEMMA RequestPayable ==
  ASSUME NEW pair, Clients(pair), NEW c \in Commands
  PROVE  Payable(c, pair)
<1>1. c.uid \in Users /\ c.resultCode = "NEW"
  BY ExchangeAssumption DEF Users, IsRequest
<1> QED
  BY <1>1 DEF Clients, Payable

\* A slot stays so at R1.
LEMMA PayableSame ==
  ASSUME NEW pair, NEW c, Payable(c, pair), NEW x, SameRequest(x, c),
         x.command = "PLACE_ORDER" => x.resultCode # "SUCCESS"
  PROVE  Payable(x, pair)
<1>1. /\ x.command = c.command /\ x.uid = c.uid /\ x.symbol = c.symbol /\ x.orderId = c.orderId
      /\ x.price = c.price /\ x.size = c.size /\ x.orderType = c.orderType
      /\ x.action = c.action /\ x.message = c.message
  BY DEF SameRequest
<1>2. Accountable(x, pair)
  BY <1>1 DEF Payable, Accountable, IsMatchingCommand
<1> QED
  BY <1>1, <1>2 DEF Payable

\* The book takes a payable slot.
LEMMA PayableFits ==
  ASSUME NEW pair, NEW c, Queued(c, FALSE), Payable(c, pair), IsMatchingCommand(c)
  PROVE  BookSlot(c) /\ Placeable(c)
<1>1. IsSlot(c) /\ c.matcherEvent = <<>>
  BY DEF Queued
<1>2. c.orderId \in Nat /\ c.uid \in Nat /\ c.price \in Nat
  BY DEF Payable, Accountable
<1>3. c.action \in OrderAction /\ c.size \in Int /\ c.reserveBidPrice \in Int
  BY <1>1 DEF IsSlot
<1>4. {"command", "orderId", "uid", "action", "orderType", "price", "size",
       "reserveBidPrice", "resultCode", "matcherEvent", "marketData"} \subseteq DOMAIN c
  BY <1>1 DEF IsSlot
<1>5. Placeable(c)
  BY DEF Payable, Accountable, Placeable, NoIocBudgetBid
<1> QED
  BY <1>1, <1>2, <1>3, <1>4, <1>5 DEF BookSlot

\* What the matching engine makes of the book.
LEMMA MeOutcome ==
  ASSUME NEW pair, IsBook(book), NEW c, Queued(c, FALSE), Payable(c, pair),
         NEW res, res = ProcessOrder(c)
  PROVE  /\ IsBook(res.book)
         /\ IsMatchingCommand(c) /\ listed =>
              BookSlot(c) /\ Placeable(c) /\ Effect(book, c, res)
         /\ ~ (IsMatchingCommand(c) /\ listed) =>
              /\ res.cmd.matcherEvent = <<>>
              /\ res.book = IF c.command = "RESET" THEN EmptyBook ELSE book
<1>1. IsSlot(c) /\ c.matcherEvent = <<>>
  BY DEF Queued
<1>2. CASE IsMatchingCommand(c) /\ listed
  <2>1. res = ProcessCommand(book, c)
    BY <1>2 DEF ProcessOrder, IsMatchingCommand
  <2>2. BookSlot(c) /\ Placeable(c)
    BY <1>2, PayableFits
  <2>3. c.command = "PLACE_ORDER" => c.size \in Nat /\ c.size >= 0 /\ c.resultCode # "SUCCESS"
    BY <2>2 DEF Payable, Accountable, BookSlot
  <2>4. c.command \in {"PLACE_ORDER", "CANCEL_ORDER", "REDUCE_ORDER", "MOVE_ORDER",
                       "ORDER_BOOK_REQUEST"}
    BY <1>2 DEF IsMatchingCommand
  <2>5. Effect(book, c, res)
    BY <2>1, <2>2, <2>3, <2>4, CommandOutcome
  <2>6. IsBook(res.book)
    BY <2>2, <2>3, <2>5, OutcomeIsBook
  <2> QED
    BY <1>2, <2>2, <2>5, <2>6
<1>3. CASE ~ (IsMatchingCommand(c) /\ listed)
  <2>1. ASSUME NEW code PROVE [c EXCEPT !.resultCode = code].matcherEvent = <<>>
    BY <1>1 DEF IsSlot
  <2>2. /\ res.cmd.matcherEvent = <<>>
        /\ res.book = IF c.command = "RESET" THEN EmptyBook ELSE book
    <3>1. CASE IsMatchingCommand(c) /\ ~ listed
      <4>1. PICK code : code = "MATCHING_INVALID_ORDER_BOOK_ID"
        OBVIOUS
      <4>2. PICK x : x = [c EXCEPT !.resultCode = code]
        OBVIOUS
      <4>3. x.matcherEvent = <<>>
        BY <2>1, <4>2
      <4>4. res = [book |-> book, cmd |-> x]
        BY <3>1, <4>1, <4>2 DEF ProcessOrder, IsMatchingCommand
      <4>5. c.command # "RESET"
        BY <3>1 DEF IsMatchingCommand
      <4> QED
        BY <3>1, <4>4, <4>5, <4>3
    <3>2. CASE c.command = "BINARY_DATA_COMMAND"
      <4>1. PICK code : code = "SUCCESS"
        OBVIOUS
      <4>2. PICK x : x = [c EXCEPT !.resultCode = code]
        OBVIOUS
      <4>3. x.matcherEvent = <<>>
        BY <2>1, <4>2
      <4>4. res = [book |-> book, cmd |-> x]
        BY <3>2, <4>1, <4>2 DEF ProcessOrder, IsMatchingCommand
      <4> QED
        BY <3>2, <4>4, <4>3
    <3>3. CASE c.command = "RESET"
      <4>1. PICK code : code = "SUCCESS"
        OBVIOUS
      <4>2. PICK x : x = [c EXCEPT !.resultCode = code]
        OBVIOUS
      <4>3. x.matcherEvent = <<>>
        BY <2>1, <4>2
      <4>4. res = [book |-> EmptyBook, cmd |-> x]
        BY <3>3, <4>1, <4>2 DEF ProcessOrder, IsMatchingCommand
      <4> QED
        BY <3>3, <4>4, <4>3
    <3>4. CASE ~ IsMatchingCommand(c) /\ c.command \notin {"BINARY_DATA_COMMAND", "RESET"}
      <4>1. res.book = book /\ res.cmd = c
        BY <3>4 DEF ProcessOrder
      <4> QED
        BY <1>1, <3>4, <4>1
    <3> QED
      BY <1>3, <3>1, <3>2, <3>3, <3>4
  <2> QED
    BY <1>3, <2>2, EmptyIsBook
<1> QED
  BY <1>2, <1>3

\* Init and every step keep it.
LEMMA InitAccounted ==
  ASSUME NEW pair, Init
  PROVE  Accounted(pair)
<1>1. IsBook(book)
  BY EmptyIsBook DEF Init
<1>2. slots = <<>> /\ Len(slots) = 0
  BY EmptySeq DEF Init
<1>3. ASSUME NEW uid \in Users PROVE DOMAIN due[uid] = Currency
  <2>1. due[uid] = Accounts(uid)
    BY <1>3 DEF Init
  <2>2. PICK s \in RiskShards : s = CHOOSE t \in RiskShards : UidForThisHandler(t, uid)
    BY <1>3, ShardOf
  <2>3. PICK sound \in BOOLEAN : sound = FALSE
    OBVIOUS
  <2>4. Inv(sound)
    BY InitKept
  <2>5. PICK e \in Engines(sound) : e = engines[s]
    BY <2>4 DEF Inv, EnginesKept
  <2>6. PICK accounts : accounts = IF uid \in DOMAIN e.profiles THEN e.profiles[uid].accounts
                                   ELSE ZeroBalance
    OBVIOUS
  <2>7. Accounts(uid) = accounts
    BY <2>2, <2>5, <2>6 DEF Accounts
  <2>8. CASE uid \in DOMAIN e.profiles
    <3>1. PICK currency \in Currency : currency = "base"
      BY DEF Currency
    <3>2. e.profiles[uid].accounts \in [Currency -> Int]
      BY <2>8, <3>1, AccountsAre
    <3> QED
      BY <2>1, <2>6, <2>7, <2>8, <3>2
  <2>9. CASE uid \notin DOMAIN e.profiles
    BY <2>1, <2>6, <2>7, <2>9 DEF ZeroBalance
  <2> QED
    BY <2>8, <2>9
<1>4. DOMAIN due = Users
  BY DEF Init
<1> QED
  BY <1>1, <1>2, <1>3, <1>4 DEF Accounted

\* R1 leaves the book alone, and gives a placement no code that means it was matched.
LEMMA R1Accounted ==
  ASSUME NEW pair, Inv(FALSE), Accounted(pair), NEW s \in RiskShards,
         NEW n, NEW cmd, NEW res, NEW x, R1Step(s, n, cmd, res, x)
  PROVE  Accounted(pair)'
<1>1. /\ n \in 1 .. Len(slots) /\ n > me /\ cmd = slots[n] /\ Queued(cmd, FALSE)
      /\ res = PreProcessCommand(engines[s], s, cmd) /\ SameRequest(x, cmd)
      /\ x.resultCode = IF IsReport(cmd) THEN cmd.resultCode ELSE res.code
      /\ Len(slots') = Len(slots) /\ slots'[n] = x
      /\ \A i \in 1 .. Len(slots) : i # n => slots'[i] = slots[i]
      /\ due' = DueAfter(s, cmd, res) /\ me' = me /\ book' = book
  BY DEF R1Step
<1>2. Payable(cmd, pair)
  BY <1>1 DEF Accounted
<1>3. PICK sound \in BOOLEAN : sound = FALSE
  OBVIOUS
<1>4. PICK e \in Engines(sound) : e = engines[s]
  BY <1>3 DEF Inv, EnginesKept
<1>5. ASSUME x.command = "PLACE_ORDER" PROVE x.resultCode # "SUCCESS"
  <2>1. cmd.command = "PLACE_ORDER" /\ x.resultCode = res.code
    BY <1>1, <1>5 DEF SameRequest, IsReport
  <2>2. IsSlot(cmd) /\ res = PreProcessCommand(e, s, cmd)
    BY <1>1, <1>4 DEF Queued
  <2>3. IF UidForThisHandler(s, cmd.uid) THEN res.code # "SUCCESS"
        ELSE res.code = cmd.resultCode
    BY <2>1, <2>2, OtherSymbols
  <2> QED
    BY <1>2, <2>1, <2>3 DEF Payable
<1>6. Payable(x, pair)
  BY <1>1, <1>2, <1>5, PayableSame
<1>7. \A i \in 1 .. Len(slots') : i > me' => Payable(slots'[i], pair)
  BY <1>1, <1>6 DEF Accounted
<1>8. DOMAIN due' = Users /\ \A uid \in Users : DOMAIN due'[uid] = Currency
  <2>1. CASE cmd.command = "RESET"
    <3>1. due' = [uid \in Users |-> IF UidForThisHandler(s, uid) THEN ZeroBalance ELSE due[uid]]
      BY <1>1, <2>1 DEF DueAfter
    <3>2. DOMAIN ZeroBalance = Currency
      BY DEF ZeroBalance
    <3> QED
      BY <3>1, <3>2 DEF Accounted
  <2>2. CASE cmd.command = "BINARY_DATA_COMMAND"
    <3>1. due' = [uid \in Users |-> [currency \in Currency |->
                    due[uid][currency] + Brought(s, cmd.message, uid, currency)]]
      BY <1>1, <2>2 DEF DueAfter
    <3> QED
      BY <3>1
  <2>3. CASE cmd.command \notin {"RESET", "BINARY_DATA_COMMAND"}
    <3>1. due' = IF Applied(s, cmd, res) THEN [due EXCEPT ![cmd.uid][cmd.symbol] = @ + cmd.price]
                 ELSE due
      BY <1>1, <2>3 DEF DueAfter
    <3> QED
      BY <3>1 DEF Accounted
  <2> QED
    BY <2>1, <2>2, <2>3
<1>9. IsBook(book')
  BY <1>1 DEF Accounted
<1> QED
  BY <1>7, <1>8, <1>9 DEF Accounted

\* ME keeps a book.
LEMMA MeAccounted ==
  ASSUME NEW pair, Inv(FALSE), Accounted(pair),
         NEW n, NEW cmd, NEW res, NEW x, MeStep(n, cmd, res, x)
  PROVE  Accounted(pair)'
<1>1. /\ n = me + 1 /\ n \in 1 .. Len(slots) /\ cmd = slots[n] /\ Queued(cmd, FALSE)
      /\ res = ProcessOrder(cmd)
      /\ Len(slots') = Len(slots)
      /\ \A i \in 1 .. Len(slots) : i # n => slots'[i] = slots[i]
      /\ me' = n /\ book' = res.book
      /\ due' = [uid \in Users |-> [currency \in Currency |->
                   due[uid][currency] + TradedFor(res.cmd, uid, currency)]]
  BY DEF MeStep
<1>2. me \in Int
  BY AppendToSequence DEF Inv, Stages
<1>3. Payable(cmd, pair) /\ IsBook(book)
  BY <1>1, <1>2 DEF Accounted
<1>4. IsBook(res.book)
  BY <1>1, <1>3, MeOutcome
<1>5. \A i \in 1 .. Len(slots') : i > me' => Payable(slots'[i], pair)
  BY <1>1, <1>2 DEF Accounted
<1>6. DOMAIN due' = Users /\ \A uid \in Users : DOMAIN due'[uid] = Currency
  BY <1>1
<1> QED
  BY <1>1, <1>4, <1>5, <1>6 DEF Accounted

\* So every step keeps the three.
LEMMA NextAccounted ==
  ASSUME NEW pair, Clients(pair), Inv(FALSE), Accounted(pair), [Next]_vars
  PROVE  Accounted(pair)'
<1>1. CASE Publish
  <2>1. PICK c \in Commands : slots' = Append(slots, c)
    BY <1>1 DEF Publish
  <2>2. /\ Len(slots) \in Nat /\ Len(slots') = Len(slots) + 1
        /\ \A i \in 1 .. Len(slots) : slots'[i] = slots[i]
        /\ slots'[Len(slots) + 1] = c
    BY <2>1, AppendToSequence DEF Inv, Stages
  <2>3. me' = me /\ book' = book /\ due' = due
    BY <1>1 DEF Publish, stages, router, history
  <2>4. Payable(c, pair)
    BY RequestPayable
  <2>5. \A i \in 1 .. Len(slots') : i > me' => Payable(slots'[i], pair)
    BY <2>2, <2>3, <2>4 DEF Accounted
  <2> QED
    BY <2>3, <2>5 DEF Accounted
<1>2. ASSUME NEW s \in RiskShards, PreProcessSlot(s) PROVE Accounted(pair)'
  BY <1>2, R1Steps, R1Accounted
<1>3. CASE MatchSlot
  BY <1>3, MeSteps, MeAccounted
<1>4. ASSUME NEW s \in RiskShards, PostProcessSlot(s) PROVE Accounted(pair)'
  <2>1. me' = me /\ book' = book /\ due' = due /\ slots' = slots
    BY <1>4 DEF PostProcessSlot, router, history
  <2> QED
    BY <2>1 DEF Accounted
<1>5. CASE Release
  <2>1. /\ slots # <<>> /\ slots' = Tail(slots) /\ me' = me - 1
        /\ book' = book /\ due' = due
    BY <1>5 DEF Release, router, history
  <2>2. /\ Len(slots) \in Nat /\ Len(slots') = Len(slots) - 1
        /\ \A i \in 1 .. Len(slots') : slots'[i] = slots[i + 1]
    BY <2>1, TailOfSequence DEF Inv, Stages
  <2>3. me \in Int
    BY <2>2 DEF Inv, Stages
  <2>4. \A i \in 1 .. Len(slots') : i > me' => Payable(slots'[i], pair)
    <3> SUFFICES ASSUME NEW i \in 1 .. Len(slots'), i > me' PROVE Payable(slots'[i], pair)
      OBVIOUS
    <3>1. i + 1 \in 1 .. Len(slots) /\ i + 1 > me
      BY <2>1, <2>2, <2>3
    <3> QED
      BY <2>2, <3>1 DEF Accounted
  <2> QED
    BY <2>1, <2>4 DEF Accounted
<1>6. CASE UNCHANGED vars
  BY <1>6 DEF vars, stages, router, history, Accounted
<1> QED
  BY <1>1, <1>2, <1>3, <1>4, <1>5, <1>6 DEF Next

-----------------------------------------------------------------------------
(***************************************************************************)
(* What a risk engine and the matching engine know of the symbol, while    *)
(* commands are between them.                                              *)
(***************************************************************************)

\* A command that closes a group is the only one between a risk engine and the
\* matching engine, and finds everything before it settled.
Closers(s) ==
  \A n \in 1 .. Len(slots) :
    me < n /\ n <= r1[s] /\ ClosesGroup(slots[n]) => n = me + 1 /\ r2[s] = me

\* The matching engine is to know the symbol if the risk engine does.
Expected(s, pair) ==
  pair \in engines[s].symbols <=> IF me < r1[s] THEN Listed(slots[me + 1]) ELSE listed

\* What the risk engine has held for, it knows the symbol of.
Backed(s, pair) ==
  \A n \in 1 .. Len(slots) :
    /\ me < n /\ n <= r1[s] /\ slots[n].command = "PLACE_ORDER" /\ IsValid(slots[n])
    /\ UidForThisHandler(s, slots[n].uid)
    => pair \in engines[s].symbols

\* What it has to settle, too.
Known(s) ==
  \A n \in 1 .. Len(slots) :
    r2[s] < n /\ n <= me /\ slots[n].matcherEvent # <<>> =>
      slots[n].symbol \in engines[s].symbols

\* The symbols that engines know allow the commands they have let through.
Linked(pair) ==
  \A s \in RiskShards : Closers(s) /\ Expected(s, pair) /\ Backed(s, pair) /\ Known(s)

\* What R1 makes of the symbols, and of the code of a placement.
LEMMA R1Symbols ==
  ASSUME NEW pair, Inv(FALSE), Accounted(pair), NEW s \in RiskShards,
         NEW n, NEW cmd, NEW res, NEW x, R1Step(s, n, cmd, res, x)
  PROVE  /\ ~ ClosesGroup(cmd) => engines'[s].symbols = engines[s].symbols
         /\ pair \in engines'[s].symbols <=>
              CASE cmd.command = "BINARY_DATA_COMMAND" ->
                     pair \in engines[s].symbols \/ cmd.message.symbols # {}
                [] cmd.command = "RESET" -> FALSE
                [] OTHER -> pair \in engines[s].symbols
         /\ cmd.command = "PLACE_ORDER" /\ IsValid(x) =>
              IF UidForThisHandler(s, cmd.uid) THEN pair \in engines[s].symbols
              ELSE IsValid(cmd)
<1>1. /\ n \in 1 .. Len(slots) /\ n > me /\ cmd = slots[n] /\ Queued(cmd, FALSE)
      /\ res = PreProcessCommand(engines[s], s, cmd) /\ SameRequest(x, cmd)
      /\ x.resultCode = IF IsReport(cmd) THEN cmd.resultCode ELSE res.code
      /\ engines'[s] = res.engine
  BY DEF R1Step
<1>2. Payable(cmd, pair)
  BY <1>1 DEF Accounted
<1>3. PICK sound \in BOOLEAN : sound = FALSE
  OBVIOUS
<1>4. PICK e \in Engines(sound) : e = engines[s]
  BY <1>3 DEF Inv, EnginesKept
<1>5. IsSlot(cmd) /\ res = PreProcessCommand(e, s, cmd)
  BY <1>1, <1>4 DEF Queued
<1>6. CASE cmd.command \notin {"BINARY_DATA_COMMAND", "RESET"}
  <2>1. cmd.command = "BALANCE_ADJUSTMENT" =>
          cmd.symbol \in Currency /\ cmd.orderType \in BalanceAdjustmentType
    BY <1>1 DEF Queued
  <2>2. /\ res.engine.symbols = e.symbols
        /\ ~ UidForThisHandler(s, cmd.uid) => res.code = cmd.resultCode
        /\ cmd.command = "PLACE_ORDER" /\ UidForThisHandler(s, cmd.uid) =>
             (res.code = "VALID_FOR_MATCHING_ENGINE" => cmd.symbol \in e.symbols)
    BY <1>5, <1>6, <2>1, OtherSymbols
  <2>3. cmd.command = "PLACE_ORDER" => cmd.symbol = pair /\ x.resultCode = res.code
    BY <1>1, <1>2 DEF Payable, Accountable, IsMatchingCommand, IsReport
  <2>4. cmd.command = "PLACE_ORDER" /\ IsValid(x) =>
          IF UidForThisHandler(s, cmd.uid) THEN pair \in e.symbols ELSE IsValid(cmd)
    BY <2>2, <2>3 DEF IsValid
  <2> QED
    BY <1>1, <1>4, <1>6, <2>2, <2>4
<1>7. CASE cmd.command = "BINARY_DATA_COMMAND"
  <2>1. PICK message \in Messages : message = cmd.message
    BY <1>1 DEF Queued
  <2>2. res.engine = HandleBinaryMessage(e, message)
    BY <1>5, <1>7, <2>1 DEF PreProcessCommand
  <2>3. Joinable(message.users) /\ message.symbols \subseteq {pair}
    BY <1>2, <1>7, <2>1 DEF Payable, Accountable
  <2>4. PICK currency \in Currency : currency = "base"
    BY DEF Currency
  <2>5. pair \in res.engine.symbols <=> pair \in e.symbols \/ pair \in message.symbols
    <3>1. PICK u : MessageBrings(res.engine, e, message, u, currency)
      BY <2>2, <2>3, MessageBalance
    <3> QED
      BY <3>1 DEF MessageBrings
  <2>6. pair \in message.symbols <=> message.symbols # {}
    BY <2>3
  <2> QED
    BY <1>1, <1>4, <1>7, <2>1, <2>5, <2>6 DEF ClosesGroup
<1>8. CASE cmd.command = "RESET"
  <2>1. res.engine = Reset(e)
    BY <1>5, <1>8 DEF PreProcessCommand
  <2>2. PICK u, currency : u = 0 /\ currency = "base"
    OBVIOUS
  <2>3. res.engine.symbols = {}
    BY <2>1, ResetBalance
  <2> QED
    BY <1>1, <1>8, <2>3 DEF ClosesGroup
<1> QED
  BY <1>6, <1>7, <1>8

\* R1 of an engine keeps what ties the symbols to the commands.
LEMMA R1Linked ==
  ASSUME NEW pair, Inv(FALSE), Accounted(pair), Linked(pair), NEW s \in RiskShards,
         NEW n, NEW cmd, NEW res, NEW x, R1Step(s, n, cmd, res, x)
  PROVE  Linked(pair)'
<1>1. /\ n = r1[s] + 1 /\ n \in 1 .. Len(slots) /\ n > me /\ cmd = slots[n]
      /\ ClosesGroup(cmd) => r2[s] = n - 1 /\ me = n - 1
      /\ SameRequest(x, cmd)
      /\ Len(slots') = Len(slots) /\ slots'[n] = x
      /\ \A i \in 1 .. Len(slots) : i # n => slots'[i] = slots[i]
      /\ r1'[s] = n
      /\ \A t \in RiskShards : t # s => r1'[t] = r1[t] /\ engines'[t] = engines[t]
      /\ me' = me /\ r2' = r2 /\ listed' = listed
  BY DEF R1Step
<1>2. /\ ~ ClosesGroup(cmd) => engines'[s].symbols = engines[s].symbols
      /\ pair \in engines'[s].symbols <=>
           CASE cmd.command = "BINARY_DATA_COMMAND" ->
                  pair \in engines[s].symbols \/ cmd.message.symbols # {}
             [] cmd.command = "RESET" -> FALSE
             [] OTHER -> pair \in engines[s].symbols
      /\ cmd.command = "PLACE_ORDER" /\ IsValid(x) =>
           IF UidForThisHandler(s, cmd.uid) THEN pair \in engines[s].symbols
           ELSE IsValid(cmd)
  BY R1Symbols
<1>3. /\ Len(slots) \in Nat /\ me \in Int
      /\ \A t \in RiskShards : r1[t] \in me .. Len(slots) /\ r2[t] \in 0 .. me
      /\ \A t \in RiskShards : r1[t] \in Int /\ r2[t] \in Int
  BY AppendToSequence DEF Inv, Stages
<1>4. /\ x.command = cmd.command /\ x.uid = cmd.uid /\ x.message = cmd.message
      /\ ClosesGroup(x) <=> ClosesGroup(cmd)
  BY <1>1 DEF SameRequest, ClosesGroup, IsReport
<1>5. \A i \in 1 .. Len(slots) :
        /\ slots'[i].command = slots[i].command /\ slots'[i].uid = slots[i].uid
        /\ slots'[i].message = slots[i].message
        /\ ClosesGroup(slots'[i]) <=> ClosesGroup(slots[i])
  BY <1>1, <1>4
<1> SUFFICES ASSUME NEW t \in RiskShards
             PROVE  Closers(t)' /\ Expected(t, pair)' /\ Backed(t, pair)' /\ Known(t)'
  BY DEF Linked
<1>6. Closers(t) /\ Expected(t, pair) /\ Backed(t, pair) /\ Known(t)
  BY DEF Linked
<1>7. CASE t # s
  <2>1. r1'[t] = r1[t] /\ engines'[t] = engines[t]
    BY <1>1, <1>7
  <2>2. Closers(t)'
    BY <1>1, <1>3, <1>5, <1>6, <2>1 DEF Closers
  <2>3. Expected(t, pair)'
    <3>1. CASE me < r1[t]
      <4>1. PICK c, d : c = slots[me + 1] /\ d = slots'[me + 1]
        OBVIOUS
      <4>2. me + 1 \in 1 .. Len(slots)
        BY <1>3, <3>1
      <4>3. c.command = d.command /\ c.message = d.message
        BY <1>5, <4>1, <4>2
      <4>4. Listed(c) <=> Listed(d)'
        BY <1>1, <4>3 DEF Listed
      <4>5. Listed(slots[me + 1]) <=> Listed(slots[me + 1])'
        BY <1>1, <4>1, <4>4 DEF Listed
      <4> QED
        BY <1>1, <1>6, <2>1, <3>1, <4>5 DEF Expected
    <3>2. CASE ~ me < r1[t]
      BY <1>1, <1>6, <2>1, <3>2 DEF Expected
    <3> QED
      BY <3>1, <3>2
  <2>4. Backed(t, pair)'
    <3> SUFFICES ASSUME NEW i \in 1 .. Len(slots'), me' < i, i <= r1'[t],
                        slots'[i].command = "PLACE_ORDER", IsValid(slots'[i]),
                        UidForThisHandler(t, slots'[i].uid)
                 PROVE  pair \in engines'[t].symbols
      BY DEF Backed, IsValid
    <3>1. i \in 1 .. Len(slots) /\ me < i /\ i <= r1[t]
      BY <1>1, <2>1
    <3>2. slots[i].command = "PLACE_ORDER" /\ UidForThisHandler(t, slots[i].uid)
      BY <1>5, <3>1
    <3>3. IsValid(slots[i])
      <4>1. CASE i = n
        <5>1. ~ UidForThisHandler(s, cmd.uid)
          BY <1>1, <1>7, <3>2, <4>1, OneShard
        <5> QED
          BY <1>1, <1>2, <3>2, <4>1, <5>1
      <4>2. CASE i # n
        BY <1>1, <3>1, <4>2
      <4> QED
        BY <4>1, <4>2
    <3> QED
      BY <1>6, <2>1, <3>1, <3>2, <3>3 DEF Backed
  <2>5. Known(t)'
    <3> SUFFICES ASSUME NEW i \in 1 .. Len(slots'), r2'[t] < i, i <= me',
                        slots'[i].matcherEvent # <<>>
                 PROVE  slots'[i].symbol \in engines'[t].symbols
      BY DEF Known
    <3>1. i \in 1 .. Len(slots) /\ i # n /\ r2[t] < i /\ i <= me
      BY <1>1, <1>3
    <3> QED
      BY <1>1, <1>6, <2>1, <3>1 DEF Known
  <2> QED
    BY <2>2, <2>3, <2>4, <2>5
<1>8. CASE t = s
  <2>1. Closers(t)'
    <3> SUFFICES ASSUME NEW i \in 1 .. Len(slots'), me' < i, i <= r1'[s],
                        ClosesGroup(slots'[i])
                 PROVE  i = me' + 1 /\ r2'[s] = me'
      BY <1>8 DEF Closers, ClosesGroup, IsReport
    <3>1. i \in 1 .. Len(slots) /\ me < i /\ i <= n /\ ClosesGroup(slots[i])
      BY <1>1, <1>5
    <3>2. CASE i = n
      BY <1>1, <1>3, <3>1, <3>2
    <3>3. CASE i # n
      <4>1. i <= r1[s]
        BY <1>1, <1>3, <3>1, <3>3
      <4>2. i = me + 1 /\ r2[s] = me
        BY <1>6, <1>8, <3>1, <4>1 DEF Closers
      <4> QED
        BY <1>1, <4>2
    <3> QED
      BY <3>2, <3>3
  <2>2. Expected(t, pair)'
    <3>1. CASE me < r1[s]
      <4>1. ~ ClosesGroup(cmd)
        BY <1>1, <1>3, <3>1
      <4>2. engines'[s].symbols = engines[s].symbols
        BY <1>2, <4>1
      <4>3. me + 1 \in 1 .. Len(slots) /\ me + 1 # n /\ me' < r1'[s]
        BY <1>1, <1>3, <3>1
      <4>4. Listed(slots[me + 1]) <=> Listed(slots[me + 1])'
        BY <1>1, <4>3 DEF Listed
      <4> QED
        BY <1>6, <1>8, <3>1, <4>2, <4>3, <4>4 DEF Expected
    <3>2. CASE ~ me < r1[s]
      <4>1. me = r1[s] /\ n = me + 1 /\ me' < r1'[s]
        BY <1>1, <1>3, <3>2
      <4>2. pair \in engines[s].symbols <=> listed
        BY <1>6, <1>8, <3>2 DEF Expected
      <4>3. slots'[me' + 1] = x
        BY <1>1, <4>1
      <4>4. Listed(x)' <=>
              CASE cmd.command = "BINARY_DATA_COMMAND" ->
                     pair \in engines[s].symbols \/ cmd.message.symbols # {}
                [] cmd.command = "RESET" -> FALSE
                [] OTHER -> pair \in engines[s].symbols
        BY <1>1, <1>4, <4>2 DEF Listed
      <4>5. Listed(slots[me + 1])' <=> Listed(x)'
        BY <4>3 DEF Listed
      <4> QED
        BY <1>2, <1>8, <4>1, <4>4, <4>5 DEF Expected
    <3> QED
      BY <3>1, <3>2
  <2>3. Backed(t, pair)'
    <3> SUFFICES ASSUME NEW i \in 1 .. Len(slots'), me' < i, i <= r1'[s],
                        slots'[i].command = "PLACE_ORDER", IsValid(slots'[i]),
                        UidForThisHandler(s, slots'[i].uid)
                 PROVE  pair \in engines'[s].symbols
      BY <1>8 DEF Backed, IsValid
    <3>1. i \in 1 .. Len(slots) /\ me < i /\ i <= n
      BY <1>1
    <3>2. slots[i].command = "PLACE_ORDER" /\ UidForThisHandler(s, slots[i].uid)
      BY <1>5, <3>1
    <3>3. CASE i = n
      <4>1. ~ ClosesGroup(cmd)
        BY <1>1, <3>2, <3>3 DEF ClosesGroup, IsReport
      <4>2. pair \in engines[s].symbols
        BY <1>1, <1>2, <3>2, <3>3
      <4> QED
        BY <1>2, <4>1, <4>2
    <3>4. CASE i # n
      <4>1. i <= r1[s] /\ slots'[i] = slots[i] /\ ~ ClosesGroup(cmd)
        BY <1>1, <1>3, <3>1, <3>4
      <4>2. pair \in engines[s].symbols
        BY <1>6, <1>8, <3>1, <3>2, <4>1 DEF Backed
      <4> QED
        BY <1>2, <4>1, <4>2
    <3> QED
      BY <3>3, <3>4
  <2>4. Known(t)'
    <3> SUFFICES ASSUME NEW i \in 1 .. Len(slots'), r2'[s] < i, i <= me',
                        slots'[i].matcherEvent # <<>>
                 PROVE  slots'[i].symbol \in engines'[s].symbols
      BY <1>8 DEF Known
    <3>1. i \in 1 .. Len(slots) /\ i # n /\ r2[s] < i /\ i <= me
      BY <1>1, <1>3
    <3>2. ~ ClosesGroup(cmd)
      BY <1>1, <1>3, <3>1
    <3> QED
      BY <1>1, <1>2, <1>6, <1>8, <3>1, <3>2 DEF Known
  <2> QED
    BY <1>8, <2>1, <2>2, <2>3, <2>4
<1> QED
  BY <1>7, <1>8

\* An answer has the symbol of its command.
LEMMA EffectSymbol ==
  ASSUME NEW b, NEW c, NEW res, Effect(b, c, res), "symbol" \in DOMAIN c
  PROVE  res.cmd.symbol = c.symbol
<1>1. PICK answer : answer = res.cmd
  OBVIOUS
<1>2. SameFields(answer, c)
  <2>1. CASE Unchanged(b, c, res)
    BY <1>1, <2>1 DEF Unchanged, Answers
  <2>2. CASE Removed(b, c, res)
    BY <1>1, <2>2 DEF Removed, Answers
  <2>3. CASE Reduced(b, c, res)
    BY <1>1, <2>3 DEF Reduced, Answers
  <2>4. CASE Executed(b, c, res)
    <3>1. PICK a, taker, match, left : Leaves(c, a, taker, match, left, res)
      BY <2>4 DEF Executed
    <3>2. \E code, events : Answers(answer, c, code, events)
      BY <1>1, <3>1 DEF Leaves
    <3> QED
      BY <3>2 DEF Answers
  <2> QED
    BY <2>1, <2>2, <2>3, <2>4 DEF Effect
<1> QED
  BY <1>1, <1>2 DEF SameFields, Written

\* What the matching engine knows of the symbol.
LEMMA MeLinked ==
  ASSUME NEW pair, Inv(FALSE), Accounted(pair), Linked(pair),
         NEW n, NEW cmd, NEW res, NEW x, MeStep(n, cmd, res, x)
  PROVE  Linked(pair)'
<1>1. /\ n = me + 1 /\ n \in 1 .. Len(slots)
      /\ \A s \in RiskShards : n <= r1[s]
      /\ cmd = slots[n] /\ Queued(cmd, FALSE)
      /\ res = ProcessOrder(cmd)
      /\ IF IsReport(cmd) THEN SameRequest(x, cmd) ELSE x = res.cmd
      /\ Len(slots') = Len(slots) /\ slots'[n] = x
      /\ \A i \in 1 .. Len(slots) : i # n => slots'[i] = slots[i]
      /\ me' = n /\ listed' = Listed(cmd)
      /\ r1' = r1 /\ r2' = r2 /\ engines' = engines
  BY DEF MeStep
<1>2. /\ Len(slots) \in Nat /\ me \in Int
      /\ \A t \in RiskShards : r1[t] \in me .. Len(slots) /\ r2[t] \in 0 .. me
      /\ \A t \in RiskShards : r1[t] \in Int /\ r2[t] \in Int
  BY AppendToSequence DEF Inv, Stages
<1>3. Payable(cmd, pair) /\ IsBook(book)
  BY <1>1, <1>2 DEF Accounted
<1>4. x.matcherEvent # <<>> => IsMatchingCommand(cmd) /\ listed /\ x.symbol = pair
  <2> SUFFICES ASSUME x.matcherEvent # <<>>
               PROVE  IsMatchingCommand(cmd) /\ listed /\ x.symbol = pair
    OBVIOUS
  <2>1. ~ IsReport(cmd) /\ x = res.cmd
    BY <1>1 DEF Queued, SameRequest
  <2>2. /\ IsMatchingCommand(cmd) /\ listed => Effect(book, cmd, res)
        /\ ~ (IsMatchingCommand(cmd) /\ listed) => res.cmd.matcherEvent = <<>>
    BY <1>1, <1>3, MeOutcome
  <2>3. "symbol" \in DOMAIN cmd
    BY <1>1 DEF Queued, IsSlot
  <2>4. IsMatchingCommand(cmd) /\ listed /\ x.symbol = cmd.symbol
    BY <2>1, <2>2, <2>3, EffectSymbol
  <2>5. cmd.symbol = pair
    BY <1>3, <2>4 DEF Payable, Accountable
  <2> QED
    BY <2>4, <2>5
<1>5. \A i \in 1 .. Len(slots) : i > n => slots'[i] = slots[i]
  BY <1>1, <1>2
<1> SUFFICES ASSUME NEW t \in RiskShards
             PROVE  Closers(t)' /\ Expected(t, pair)' /\ Backed(t, pair)' /\ Known(t)'
  BY DEF Linked
<1>6. Closers(t) /\ Expected(t, pair) /\ Backed(t, pair) /\ Known(t)
  BY DEF Linked
<1>7. ASSUME NEW i \in 1 .. Len(slots), n < i, i <= r1[t] PROVE ~ ClosesGroup(slots[i])
  BY <1>1, <1>2, <1>6, <1>7 DEF Closers
<1>8. pair \in engines[t].symbols <=> Listed(cmd)
  <2>1. me < r1[t]
    BY <1>1, <1>2
  <2> QED
    BY <1>1, <1>6, <2>1 DEF Expected
<1>9. Closers(t)'
  <2> SUFFICES ASSUME NEW i \in 1 .. Len(slots'), me' < i, i <= r1'[t], ClosesGroup(slots'[i])
               PROVE  FALSE
    BY DEF Closers, ClosesGroup, IsReport
  <2> QED
    BY <1>1, <1>5, <1>7
<1>10. Expected(t, pair)'
  <2>1. CASE n < r1[t]
    <3>1. n + 1 \in 1 .. Len(slots) /\ n + 1 <= r1[t] /\ n < n + 1
      BY <1>1, <1>2, <2>1
    <3>2. ~ ClosesGroup(slots[n + 1]) /\ slots'[n + 1] = slots[n + 1]
      BY <1>5, <1>7, <3>1
    <3>3. Listed(slots[me + 1])' <=> listed'
      BY <1>1, <3>2 DEF Listed, ClosesGroup
    <3> QED
      BY <1>1, <1>8, <2>1, <3>3 DEF Expected
  <2>2. CASE ~ n < r1[t]
    BY <1>1, <1>8, <2>2 DEF Expected
  <2> QED
    BY <2>1, <2>2
<1>11. Backed(t, pair)'
  <2> SUFFICES ASSUME NEW i \in 1 .. Len(slots'), me' < i, i <= r1'[t],
                      slots'[i].command = "PLACE_ORDER", IsValid(slots'[i]),
                      UidForThisHandler(t, slots'[i].uid)
               PROVE  pair \in engines'[t].symbols
    BY DEF Backed, IsValid
  <2>1. i \in 1 .. Len(slots) /\ me < i /\ i <= r1[t] /\ slots'[i] = slots[i]
    BY <1>1, <1>2, <1>5
  <2> QED
    BY <1>1, <1>6, <2>1 DEF Backed
<1>12. Known(t)'
  <2> SUFFICES ASSUME NEW i \in 1 .. Len(slots'), r2'[t] < i, i <= me',
                      slots'[i].matcherEvent # <<>>
               PROVE  slots'[i].symbol \in engines'[t].symbols
    BY DEF Known
  <2>1. CASE i = n
    <3>1. IsMatchingCommand(cmd) /\ listed /\ x.symbol = pair
      BY <1>1, <1>4, <2>1
    <3>2. Listed(cmd)
      BY <3>1 DEF Listed, IsMatchingCommand
    <3> QED
      BY <1>1, <1>8, <2>1, <3>1, <3>2
  <2>2. CASE i # n
    <3>1. i \in 1 .. Len(slots) /\ i <= me /\ slots'[i] = slots[i]
      BY <1>1, <1>2, <2>2
    <3> QED
      BY <1>1, <1>6, <3>1 DEF Known
  <2> QED
    BY <2>1, <2>2
<1> QED
  BY <1>9, <1>10, <1>11, <1>12

\* What R2 does to the symbols.
LEMMA SettlementSymbols ==
  ASSUME NEW sound \in BOOLEAN, NEW e \in Engines(sound), NEW s, NEW cmd
  PROVE  PostProcessCommand(e, s, cmd).symbols = e.symbols
<1>1. PICK own : own = {c \in ToSet(Credits(cmd)) : UidForThisHandler(s, c.uid)}
  OBVIOUS
<1>2. PICK p, f : p = CreditAll(e.profiles, Kept(Credits(cmd), own)) /\ f = e.fees + FeesOf(s, cmd)
  OBVIOUS
<1>3. PICK x : x = [e EXCEPT !.profiles = p, !.fees = f]
  OBVIOUS
<1>4. PostProcessCommand(e, s, cmd) = e \/ PostProcessCommand(e, s, cmd) = x
  BY <1>1, <1>2, <1>3 DEF PostProcessCommand
<1>5. x.symbols = e.symbols
  BY <1>3 DEF Engines
<1> QED
  BY <1>4, <1>5

\* Settlement changes no symbols.
LEMMA PostLinked ==
  ASSUME NEW pair, Inv(FALSE), Linked(pair), NEW s \in RiskShards, PostProcessSlot(s)
  PROVE  Linked(pair)'
<1>1. PICK n : n = r2[s] + 1
  OBVIOUS
<1>2. PICK cmd : cmd = slots[n]
  OBVIOUS
<1>3. /\ n <= me
      /\ r2' = [r2 EXCEPT ![s] = n]
      /\ engines' = [engines EXCEPT ![s] = PostProcessCommand(@, s, cmd)]
      /\ slots' = slots /\ r1' = r1 /\ me' = me /\ listed' = listed
  BY <1>1, <1>2 DEF PostProcessSlot, router
<1>4. /\ Len(slots) \in Nat /\ me \in Int
      /\ \A t \in RiskShards : r1[t] \in me .. Len(slots) /\ r2[t] \in 0 .. me
      /\ \A t \in RiskShards : r1[t] \in Int /\ r2[t] \in Int
  BY AppendToSequence DEF Inv, Stages
<1>5. r2'[s] = r2[s] + 1 /\ \A t \in RiskShards : t # s => r2'[t] = r2[t]
  BY <1>1, <1>3 DEF Inv, Stages
<1>6. \A t \in RiskShards : engines'[t].symbols = engines[t].symbols
  <2> SUFFICES ASSUME NEW t \in RiskShards PROVE engines'[t].symbols = engines[t].symbols
    OBVIOUS
  <2>1. PICK sound \in BOOLEAN : sound = FALSE
    OBVIOUS
  <2>2. PICK e \in Engines(sound) : e = engines[t]
    BY <2>1 DEF Inv, EnginesKept
  <2>3. engines'[t] = IF t = s THEN PostProcessCommand(e, s, cmd) ELSE e
    BY <1>3, <2>2 DEF Inv, EnginesKept
  <2>4. PostProcessCommand(e, s, cmd).symbols = e.symbols
    BY SettlementSymbols
  <2> QED
    BY <2>2, <2>3, <2>4
<1> SUFFICES ASSUME NEW t \in RiskShards
             PROVE  Closers(t)' /\ Expected(t, pair)' /\ Backed(t, pair)' /\ Known(t)'
  BY DEF Linked
<1>7. Closers(t) /\ Expected(t, pair) /\ Backed(t, pair) /\ Known(t)
  BY DEF Linked
<1>8. r2[t] <= r2'[t] /\ (r2'[t] # r2[t] => r2[t] # me)
  BY <1>1, <1>3, <1>4, <1>5
<1>9. Closers(t)'
  BY <1>3, <1>7, <1>8 DEF Closers, ClosesGroup, IsReport
<1>10. Expected(t, pair)'
  BY <1>3, <1>6, <1>7 DEF Expected, Listed
<1>11. Backed(t, pair)'
  BY <1>3, <1>6, <1>7 DEF Backed, IsValid
<1>12. Known(t)'
  <2>1. r2'[t] \in Int
    BY <1>4, <1>5
  <2>2. \A i \in 1 .. Len(slots) : r2'[t] < i => r2[t] < i
    BY <1>4, <1>8, <2>1
  <2> QED
    BY <1>3, <1>6, <1>7, <2>2 DEF Known
<1> QED
  BY <1>9, <1>10, <1>11, <1>12

\* A command that comes is after those that R1 has handled.
LEMMA PublishLinked ==
  ASSUME NEW pair, Inv(FALSE), Linked(pair), Publish
  PROVE  Linked(pair)'
<1>1. PICK c \in Commands : slots' = Append(slots, c)
  BY DEF Publish
<1>2. /\ Len(slots) \in Nat /\ Len(slots') = Len(slots) + 1
      /\ \A i \in 1 .. Len(slots) : slots'[i] = slots[i]
  BY <1>1, AppendToSequence DEF Inv, Stages
<1>3. me' = me /\ r1' = r1 /\ r2' = r2 /\ engines' = engines /\ listed' = listed
  BY DEF Publish, stages, router, history
<1>4. /\ me \in Int
      /\ \A t \in RiskShards : r1[t] \in me .. Len(slots) /\ r2[t] \in 0 .. me
      /\ \A t \in RiskShards : r1[t] \in Int /\ r2[t] \in Int
  BY <1>2 DEF Inv, Stages
<1> SUFFICES ASSUME NEW t \in RiskShards
             PROVE  Closers(t)' /\ Expected(t, pair)' /\ Backed(t, pair)' /\ Known(t)'
  BY DEF Linked
<1>5. Closers(t) /\ Expected(t, pair) /\ Backed(t, pair) /\ Known(t)
  BY DEF Linked
<1>6. \A i \in 1 .. Len(slots') : i <= r1[t] \/ i <= me =>
        i \in 1 .. Len(slots) /\ slots'[i] = slots[i]
  BY <1>2, <1>4
<1>7. Closers(t)'
  BY <1>3, <1>5, <1>6 DEF Closers, ClosesGroup, IsReport
<1>8. Expected(t, pair)'
  <2>1. CASE me < r1[t]
    <3>1. me + 1 \in 1 .. Len(slots)
      BY <1>2, <1>4, <2>1
    <3>2. slots'[me + 1] = slots[me + 1]
      BY <1>2, <3>1
    <3> QED
      BY <1>3, <1>5, <2>1, <3>2 DEF Expected, Listed
  <2>2. CASE ~ me < r1[t]
    BY <1>3, <1>5, <2>2 DEF Expected
  <2> QED
    BY <2>1, <2>2
<1>9. Backed(t, pair)'
  BY <1>3, <1>5, <1>6 DEF Backed, IsValid
<1>10. Known(t)'
  BY <1>3, <1>5, <1>6 DEF Known
<1> QED
  BY <1>7, <1>8, <1>9, <1>10

\* The oldest command leaves when every stage has handled it.
LEMMA ReleaseLinked ==
  ASSUME NEW pair, Inv(FALSE), Linked(pair), Release
  PROVE  Linked(pair)'
<1>1. /\ slots # <<>> /\ slots' = Tail(slots) /\ me' = me - 1
      /\ \A s \in RiskShards : r2[s] >= 1 /\ r1'[s] = r1[s] - 1 /\ r2'[s] = r2[s] - 1
      /\ engines' = engines /\ listed' = listed
  BY DEF Release, router
<1>2. /\ Len(slots) \in Nat /\ Len(slots') = Len(slots) - 1
      /\ \A i \in 1 .. Len(slots') : slots'[i] = slots[i + 1]
  BY <1>1, TailOfSequence DEF Inv, Stages
<1>3. /\ me \in Int
      /\ \A t \in RiskShards : r1[t] \in me .. Len(slots) /\ r2[t] \in 0 .. me
      /\ \A t \in RiskShards : r1[t] \in Int /\ r2[t] \in Int
  BY <1>2 DEF Inv, Stages
<1> SUFFICES ASSUME NEW t \in RiskShards
             PROVE  Closers(t)' /\ Expected(t, pair)' /\ Backed(t, pair)' /\ Known(t)'
  BY DEF Linked
<1>4. Closers(t) /\ Expected(t, pair) /\ Backed(t, pair) /\ Known(t)
  BY DEF Linked
<1>5. r1'[t] = r1[t] - 1 /\ r2'[t] = r2[t] - 1
  BY <1>1
<1>6. \A i \in 1 .. Len(slots') : i + 1 \in 1 .. Len(slots) /\ slots'[i] = slots[i + 1]
  BY <1>2
<1>7. Closers(t)'
  <2> SUFFICES ASSUME NEW i \in 1 .. Len(slots'), me' < i, i <= r1'[t], ClosesGroup(slots'[i])
               PROVE  i = me' + 1 /\ r2'[t] = me'
    BY DEF Closers, ClosesGroup, IsReport
  <2>1. PICK j \in 1 .. Len(slots) : j = i + 1 /\ slots'[i] = slots[j]
    BY <1>6
  <2>2. me < j /\ j <= r1[t] /\ ClosesGroup(slots[j])
    BY <1>1, <1>2, <1>3, <1>5, <2>1
  <2>3. j = me + 1 /\ r2[t] = me
    BY <1>4, <2>2 DEF Closers
  <2> QED
    BY <1>1, <1>2, <1>3, <1>5, <2>1, <2>3
<1>8. Expected(t, pair)'
  <2>1. CASE me < r1[t]
    <3>1. me \in 1 .. Len(slots') /\ me' < r1'[t]
      BY <1>1, <1>2, <1>3, <1>5, <2>1
    <3>2. slots'[me' + 1] = slots[me + 1]
      BY <1>1, <1>3, <1>6, <3>1
    <3> QED
      BY <1>1, <1>4, <2>1, <3>1, <3>2 DEF Expected, Listed
  <2>2. CASE ~ me < r1[t]
    <3>1. ~ me' < r1'[t]
      BY <1>1, <1>3, <1>5, <2>2
    <3> QED
      BY <1>1, <1>4, <2>2, <3>1 DEF Expected
  <2> QED
    BY <2>1, <2>2
<1>9. Backed(t, pair)'
  <2> SUFFICES ASSUME NEW i \in 1 .. Len(slots'), me' < i, i <= r1'[t],
                      slots'[i].command = "PLACE_ORDER", IsValid(slots'[i]),
                      UidForThisHandler(t, slots'[i].uid)
               PROVE  pair \in engines'[t].symbols
    BY DEF Backed, IsValid
  <2>1. PICK j \in 1 .. Len(slots) : j = i + 1 /\ slots'[i] = slots[j]
    BY <1>6
  <2>2. me < j /\ j <= r1[t]
    BY <1>1, <1>2, <1>3, <1>5, <2>1
  <2> QED
    BY <1>1, <1>4, <2>1, <2>2 DEF Backed
<1>10. Known(t)'
  <2> SUFFICES ASSUME NEW i \in 1 .. Len(slots'), r2'[t] < i, i <= me',
                      slots'[i].matcherEvent # <<>>
               PROVE  slots'[i].symbol \in engines'[t].symbols
    BY DEF Known
  <2>1. PICK j \in 1 .. Len(slots) : j = i + 1 /\ slots'[i] = slots[j]
    BY <1>6
  <2>2. r2[t] < j /\ j <= me
    BY <1>1, <1>2, <1>3, <1>5, <2>1
  <2> QED
    BY <1>1, <1>4, <2>1, <2>2 DEF Known
<1> QED
  BY <1>7, <1>8, <1>9, <1>10

\* Init and every step keep what the engines know.
LEMMA InitLinked ==
  ASSUME NEW pair, Clients(pair), Init
  PROVE  Linked(pair)
<1>1. slots = <<>> /\ Len(slots) = 0
  BY EmptySeq DEF Init
<1>2. me = 0 /\ \A s \in RiskShards : r1[s] = 0 /\ r2[s] = 0
  BY DEF Init
<1>3. PICK start \in InitialStates : engines = start.engines /\ listed = start.listed
  BY DEF Init
<1>4. \A s \in RiskShards : listed <=> pair \in engines[s].symbols
  BY <1>3 DEF Clients, Agreeing
<1> SUFFICES ASSUME NEW s \in RiskShards
             PROVE  Closers(s) /\ Expected(s, pair) /\ Backed(s, pair) /\ Known(s)
  BY DEF Linked
<1>5. \A i \in 1 .. Len(slots) : FALSE
  BY <1>1
<1>6. Closers(s) /\ Backed(s, pair) /\ Known(s)
  BY <1>5 DEF Closers, Backed, Known
<1>7. Expected(s, pair)
  BY <1>2, <1>4 DEF Expected
<1> QED
  BY <1>6, <1>7

\* So every step keeps what ties the symbols to the commands.
LEMMA NextLinked ==
  ASSUME NEW pair, Inv(FALSE), Accounted(pair), Linked(pair), [Next]_vars
  PROVE  Linked(pair)'
<1>1. ASSUME NEW s \in RiskShards, PreProcessSlot(s) PROVE Linked(pair)'
  BY <1>1, R1Steps, R1Linked
<1>2. CASE MatchSlot
  BY <1>2, MeSteps, MeLinked
<1>3. ASSUME NEW s \in RiskShards, PostProcessSlot(s) PROVE Linked(pair)'
  BY <1>3, PostLinked
<1>4. CASE UNCHANGED vars
  BY <1>4 DEF vars, stages, router, history, Linked, Closers, Expected, Backed, Known,
              ClosesGroup, IsReport, Listed, IsValid
<1> QED
  BY <1>1, <1>2, <1>3, <1>4, PublishLinked, ReleaseLinked DEF Next

-----------------------------------------------------------------------------
(***************************************************************************)
(* The ledger.                                                             *)
(***************************************************************************)

\* What a user has in command n between a risk engine that is at i with its checks
\* and at j with its settlements, and the matching engine at m: the hold until the
\* command is matched, and then what it brings.
Claim(c, n, i, m, j, W, currency) ==
  IF n <= j THEN 0
  ELSE IF n <= m THEN Gained(c, W, currency)
  ELSE IF n <= i THEN HoldIn(c, W, currency)
  ELSE 0

\* The same for each command in flight.
Claims(q, i, m, j, W, currency) ==
  [n \in 1 .. Len(q) |-> Claim(q[n], n, i, m, j, W, currency)]

\* Slots of which the first m are matched.
Claimable(q, m) ==
  /\ IsSequence(q)
  /\ \A n \in 1 .. Len(q) : IF n <= m THEN Settles(q[n], FALSE) ELSE IsSlot(q[n])

\* A hold is a number.
LEMMA HoldInIsInt ==
  ASSUME NEW c, IsSlot(c), NEW W, NEW currency
  PROVE  HoldIn(c, W, currency) \in Int
<1>1. c.size \in Int /\ c.price \in Int /\ c.reserveBidPrice \in Int
  BY DEF IsSlot
<1>2. BaseScale \in Int /\ QuoteScale \in Int /\ TakerFee \in Int
  BY ScalesAreInt
<1>3. c.size * BaseScale \in Int
  BY <1>1, <1>2, ProductIsInt
<1>4. PICK a \in Int : a = c.price * QuoteScale
  BY <1>1, <1>2, ProductIsInt
<1>5. PICK b \in Int : b = c.size * TakerFee
  BY <1>1, <1>2, ProductIsInt
<1>6. PICK d \in Int : d = c.reserveBidPrice * QuoteScale
  BY <1>1, <1>2, ProductIsInt
<1>7. PICK f \in Int : f = d + TakerFee
  BY <1>2, <1>6
<1>8. c.size * f \in Int
  BY <1>1, <1>7, ProductIsInt
<1>9. OrderHoldAmount(c) \in Int
  BY <1>3, <1>4, <1>5, <1>6, <1>7, <1>8
     DEF OrderHoldAmount, AmountAsk, AmountBidTakerFeeForBudget, AmountBidTakerFee
<1> QED
  BY <1>9 DEF HoldIn

\* What a matched command brings is a number.
LEMMA GainedIsInt ==
  ASSUME NEW c, Settles(c, FALSE), NEW W, NEW currency \in Currency
  PROVE  Gained(c, W, currency) \in Int
<1>1. PICK trades : trades = Trades(c.matcherEvent)
  OBVIOUS
<1>2. PICK p : AreGains(c, trades, p, W, currency)
  BY <1>1, GainsAre
<1>3. /\ AreMakerParts(p, c, trades, W, currency)
      /\ Gained(c, W, currency)
           = ReturnedPart(c, W, currency) + TakerPart(c, trades, W, currency) + Total(p)
  BY <1>2 DEF AreGains
<1>4. ReturnedPart(c, W, currency) \in Int /\ TakerPart(c, trades, W, currency) \in Int
  BY <1>1, GainsAre
<1>5. Total(p) \in Int
  BY <1>3, TotalIsInt DEF AreMakerParts
<1> QED
  BY <1>3, <1>4, <1>5

\* The claims of the commands of q are the numbers in a.
AreClaims(a, q, i, m, j, W, currency) ==
  /\ a \in Seq(Int) /\ Len(a) = Len(q) /\ Len(q) \in Nat
  /\ \A n \in 1 .. Len(q) :
       /\ a[n] = Claim(q[n], n, i, m, j, W, currency)
       /\ Claim(q[n], n, i, m, j, W, currency) \in Int

\* So is every claim.
LEMMA ClaimsAre ==
  ASSUME NEW q, NEW i \in Int, NEW m \in Int, NEW j \in Int, NEW W, NEW currency \in Currency,
         Claimable(q, m)
  PROVE  AreClaims(Claims(q, i, m, j, W, currency), q, i, m, j, W, currency)
<1> DEFINE a == Claims(q, i, m, j, W, currency)
<1>1. PICK N \in Nat : N = Len(q)
  BY AppendToSequence DEF Claimable
<1>2. ASSUME NEW n \in 1 .. N PROVE Claim(q[n], n, i, m, j, W, currency) \in Int
  <2>1. PICK c : c = q[n]
    OBVIOUS
  <2>2. CASE n <= m
    <3>1. Settles(c, FALSE)
      BY <1>1, <2>1, <2>2 DEF Claimable
    <3>2. Gained(c, W, currency) \in Int
      BY <3>1, GainedIsInt
    <3> QED
      BY <2>1, <2>2, <3>2 DEF Claim
  <2>3. CASE ~ n <= m
    <3>1. IsSlot(c)
      BY <1>1, <2>1, <2>3 DEF Claimable
    <3>2. HoldIn(c, W, currency) \in Int
      BY <3>1, HoldInIsInt
    <3> QED
      BY <2>1, <2>3, <3>2 DEF Claim
  <2> QED
    BY <2>2, <2>3
<1>3. a = [n \in 1 .. N |-> Claim(q[n], n, i, m, j, W, currency)]
  BY <1>1 DEF Claims
<1>4. a \in [1 .. N -> Int] /\ \A n \in 1 .. N : a[n] = Claim(q[n], n, i, m, j, W, currency)
  BY <1>2, <1>3
<1> HIDE DEF a
<1>5. a \in Seq(Int) /\ Len(a) = N
  BY <1>4, FunctionIsSeq
<1>6. AreClaims(a, q, i, m, j, W, currency)
  BY <1>1, <1>2, <1>4, <1>5 DEF AreClaims
<1> QED
  BY <1>6 DEF a

\* Only the claim of the n-th command changes.
OnlyClaim(p, k, l, h, q, i, m, j, n, W, currency) ==
  \A o \in 1 .. Len(q) : o # n =>
    Claim(p[o], o, k, l, h, W, currency) = Claim(q[o], o, i, m, j, W, currency)

\* All claims change by as much as that one.
ClaimMoved(p, k, l, h, q, i, m, j, n, W, currency) ==
  /\ Total(Claims(p, k, l, h, W, currency)) + Claim(q[n], n, i, m, j, W, currency)
       = Total(Claims(q, i, m, j, W, currency)) + Claim(p[n], n, k, l, h, W, currency)
  /\ Total(Claims(p, k, l, h, W, currency)) \in Int
  /\ Total(Claims(q, i, m, j, W, currency)) \in Int
  /\ Claim(q[n], n, i, m, j, W, currency) \in Int
  /\ Claim(p[n], n, k, l, h, W, currency) \in Int

\* One claim changes.
LEMMA ClaimsChange ==
  ASSUME NEW q, NEW i \in Int, NEW m \in Int, NEW j \in Int,
         NEW p, NEW k \in Int, NEW l \in Int, NEW h \in Int,
         NEW W, NEW currency \in Currency, Claimable(q, m), Claimable(p, l), Len(p) = Len(q),
         NEW n, n \in 1 .. Len(q), OnlyClaim(p, k, l, h, q, i, m, j, n, W, currency)
  PROVE  ClaimMoved(p, k, l, h, q, i, m, j, n, W, currency)
<1>1. PICK a, b : a = Claims(q, i, m, j, W, currency) /\ b = Claims(p, k, l, h, W, currency)
  OBVIOUS
<1>2. /\ a \in Seq(Int) /\ Len(a) = Len(q) /\ Len(q) \in Nat
      /\ \A o \in 1 .. Len(q) :
           /\ a[o] = Claim(q[o], o, i, m, j, W, currency)
           /\ Claim(q[o], o, i, m, j, W, currency) \in Int
  <2>1. AreClaims(Claims(q, i, m, j, W, currency), q, i, m, j, W, currency)
    BY ClaimsAre
  <2>2. AreClaims(a, q, i, m, j, W, currency)
    BY <1>1, <2>1
  <2> QED
    BY <2>2 DEF AreClaims
<1>3. /\ b \in Seq(Int) /\ Len(b) = Len(q)
      /\ \A o \in 1 .. Len(q) :
           /\ b[o] = Claim(p[o], o, k, l, h, W, currency)
           /\ Claim(p[o], o, k, l, h, W, currency) \in Int
  <2>1. AreClaims(Claims(p, k, l, h, W, currency), p, k, l, h, W, currency)
    BY ClaimsAre
  <2>2. AreClaims(b, p, k, l, h, W, currency)
    BY <1>1, <2>1
  <2> QED
    BY <2>2 DEF AreClaims
<1>4. PICK x, y : x = a[n] /\ y = b[n]
  OBVIOUS
<1>5. x \in Int /\ y \in Int
  BY <1>2, <1>3, <1>4
<1>6. PICK r \in Int : r = y - x
  BY <1>5
<1>7. PICK N \in Nat : N = Len(q)
  BY <1>2
<1>8. PICK d : IsPoint(d, N, n, r) /\ Total(d) = r
  BY <1>7, OnePoint
<1>9. /\ d \in Seq(Int) /\ Len(d) = N
      /\ \A o \in 1 .. N : d[o] = IF o = n THEN r ELSE 0
  BY <1>8 DEF IsPoint
<1>10. \A o \in 1 .. N : b[o] = a[o] + d[o]
  <2> SUFFICES ASSUME NEW o \in 1 .. N PROVE b[o] = a[o] + d[o]
    OBVIOUS
  <2>1. CASE o = n
    BY <1>4, <1>5, <1>6, <1>9, <2>1
  <2>2. CASE o # n
    <3>1. b[o] = a[o] /\ a[o] \in Int /\ d[o] = 0
      BY <1>2, <1>3, <1>7, <1>9, <2>2 DEF OnlyClaim
    <3> QED
      BY <3>1
  <2> QED
    BY <2>1, <2>2
<1>11. Total(b) = Total(a) + Total(d)
  BY <1>2, <1>3, <1>7, <1>9, <1>10, TotalsAdd
<1>12. Total(a) \in Int /\ Total(b) \in Int
  BY <1>2, <1>3, TotalIsInt
<1>13. PICK f, g : f = Total(a) /\ g = Total(b)
  OBVIOUS
<1>14. f \in Int /\ g \in Int /\ g = f + r
  BY <1>8, <1>11, <1>12, <1>13
<1>15. g + x = f + y
  BY <1>5, <1>6, <1>14
<1>16. /\ x = Claim(q[n], n, i, m, j, W, currency)
       /\ y = Claim(p[n], n, k, l, h, W, currency)
  BY <1>2, <1>3, <1>4
<1>17. /\ f = Total(Claims(q, i, m, j, W, currency))
       /\ g = Total(Claims(p, k, l, h, W, currency))
  BY <1>1, <1>13
<1> QED
  BY <1>5, <1>14, <1>15, <1>16, <1>17 DEF ClaimMoved

\* No claims.
LEMMA NoClaims ==
  ASSUME NEW q, NEW i \in Int, NEW m \in Int, NEW j \in Int, NEW W, NEW currency \in Currency,
         Claimable(q, m),
         \A n \in 1 .. Len(q) : Claim(q[n], n, i, m, j, W, currency) = 0
  PROVE  Total(Claims(q, i, m, j, W, currency)) = 0
<1>1. PICK a : a = Claims(q, i, m, j, W, currency)
  OBVIOUS
<1>2. /\ a \in Seq(Int) /\ Len(a) = Len(q) /\ Len(q) \in Nat
      /\ \A n \in 1 .. Len(q) : a[n] = Claim(q[n], n, i, m, j, W, currency)
  <2>1. AreClaims(Claims(q, i, m, j, W, currency), q, i, m, j, W, currency)
    BY ClaimsAre
  <2>2. AreClaims(a, q, i, m, j, W, currency)
    BY <1>1, <2>1
  <2> QED
    BY <2>2 DEF AreClaims
<1>3. PICK e \in Seq(Int) : e = <<>> /\ Len(e) = 0
  BY EmptySeq
<1>4. \A n \in 1 .. Len(a) : a[n] = 0
  BY <1>2
<1>5. Total(a) = Total(e)
  <2>1. /\ Len(e) <= Len(a) /\ \A n \in 1 .. Len(e) : e[n] = a[n]
        /\ \A n \in 1 .. Len(a) : n > Len(e) => a[n] = 0
    BY <1>2, <1>3, <1>4
  <2> QED
    BY <1>2, <2>1, TotalOfPadded
<1>6. Total(e) = 0
  BY <1>3, TotalOfNone
<1> QED
  BY <1>1, <1>5, <1>6

\* RESET is between the risk engine, which has forgotten the money of its users,
\* and the matching engine, which has not forgotten their orders.
Wiped(s) == me < r1[s] /\ slots[me + 1].command = "RESET"

\* What the orders of the users hold, as far as their risk engine knows of it.
InBook(s, W, currency) == IF Wiped(s) THEN 0 ELSE Held(book, W, currency)

\* What is in the account of a user, in the orders of the book and in the commands
\* in flight is what is due.
Balanced(s, uid, W, currency) ==
  Balance(engines[s].profiles, uid, currency) + InBook(s, W, currency)
    + Total(Claims(slots, r1[s], me, r2[s], W, currency)) = due[uid][currency]

\* That, for all users, at the engine that has their account.
LedgerKept ==
  \A s \in RiskShards, uid \in Users, currency \in Currency :
    UidForThisHandler(s, uid) => Balanced(s, uid, {uid}, currency)

\* The terms are numbers.
LEMMA LedgerNumbers ==
  ASSUME NEW pair, Inv(FALSE), Accounted(pair), NEW s \in RiskShards,
         NEW uid, NEW W, NEW currency \in Currency
  PROVE  /\ Balance(engines[s].profiles, uid, currency) \in Int
         /\ Held(book, W, currency) \in Int
         /\ InBook(s, W, currency) \in Int
         /\ Len(slots) \in Nat /\ me \in 0 .. Len(slots) /\ r1[s] \in me .. Len(slots)
         /\ r2[s] \in 0 .. me
         /\ me \in Int /\ r1[s] \in Int /\ r2[s] \in Int
         /\ Claimable(slots, me)
         /\ Total(Claims(slots, r1[s], me, r2[s], W, currency)) \in Int
<1>1. PICK sound \in BOOLEAN : sound = FALSE
  OBVIOUS
<1>2. PICK e \in Engines(sound) : e = engines[s]
  BY <1>1 DEF Inv, EnginesKept
<1>3. Balance(e.profiles, uid, currency) \in Int
  BY EngineBalanceIsInt
<1>4. Held(book, W, currency) \in Int
  BY HeldIsInt DEF Accounted
<1>5. /\ Len(slots) \in Nat /\ me \in 0 .. Len(slots) /\ r1[s] \in me .. Len(slots)
      /\ r2[s] \in 0 .. me
      /\ me \in Int /\ r1[s] \in Int /\ r2[s] \in Int
  BY AppendToSequence DEF Inv, Stages
<1>6. Claimable(slots, me)
  <2>1. ASSUME NEW n \in 1 .. Len(slots)
        PROVE  IF n <= me THEN Settles(slots[n], FALSE) ELSE IsSlot(slots[n])
    <3>1. CASE n <= me
      BY <3>1 DEF Inv, SlotsKept
    <3>2. CASE ~ n <= me
      <4>1. n > me
        BY <1>5, <3>2
      <4>2. Queued(slots[n], FALSE)
        BY <4>1 DEF Inv, SlotsKept
      <4> QED
        BY <3>2, <4>2 DEF Queued
    <3> QED
      BY <3>1, <3>2
  <2> QED
    BY <2>1 DEF Inv, Stages, Claimable
<1>7. PICK a : a = Claims(slots, r1[s], me, r2[s], W, currency)
  OBVIOUS
<1>8. a \in Seq(Int)
  <2>1. AreClaims(Claims(slots, r1[s], me, r2[s], W, currency), slots, r1[s], me, r2[s], W, currency)
    BY <1>5, <1>6, ClaimsAre
  <2> QED
    BY <1>7, <2>1 DEF AreClaims
<1>9. Total(a) \in Int
  BY <1>8, TotalIsInt
<1> QED
  BY <1>2, <1>3, <1>4, <1>5, <1>6, <1>7, <1>9 DEF InBook

\* The same after a step.
LEMMA LedgerNumbersNext ==
  ASSUME NEW pair, NEW s \in RiskShards, NEW uid, NEW W, NEW currency \in Currency
  PROVE  (Inv(FALSE) /\ Accounted(pair) =>
            /\ Balance(engines[s].profiles, uid, currency) \in Int
            /\ InBook(s, W, currency) \in Int
            /\ Claimable(slots, me)
            /\ Total(Claims(slots, r1[s], me, r2[s], W, currency)) \in Int)'
<1>1. Inv(FALSE) /\ Accounted(pair) =>
        /\ Balance(engines[s].profiles, uid, currency) \in Int
        /\ InBook(s, W, currency) \in Int
        /\ Claimable(slots, me)
        /\ Total(Claims(slots, r1[s], me, r2[s], W, currency)) \in Int
  BY LedgerNumbers
<1> QED
  BY <1>1, PTL

\* What R1 makes of what is due.
LEMMA R1Due ==
  ASSUME NEW pair, Accounted(pair), NEW s \in RiskShards,
         NEW n, NEW cmd, NEW res, NEW x, R1Step(s, n, cmd, res, x),
         NEW uid \in Users, NEW currency \in Currency, due[uid][currency] \in Int
  PROVE  /\ ~ UidForThisHandler(s, uid) => due'[uid][currency] = due[uid][currency]
         /\ UidForThisHandler(s, uid) =>
              due'[uid][currency] =
                IF cmd.command = "RESET" THEN 0
                ELSE due[uid][currency] + Received(engines[s], cmd, res, uid, currency)
<1>1. n \in 1 .. Len(slots) /\ n > me /\ cmd = slots[n] /\ due' = DueAfter(s, cmd, res)
  BY DEF R1Step
<1>2. Payable(cmd, pair)
  BY <1>1 DEF Accounted
<1>3. CASE cmd.command = "RESET"
  <2>1. due' = [v \in Users |-> IF UidForThisHandler(s, v) THEN ZeroBalance ELSE due[v]]
    BY <1>1, <1>3 DEF DueAfter
  <2>2. ZeroBalance[currency] = 0
    BY DEF ZeroBalance
  <2> QED
    BY <1>3, <2>1, <2>2
<1>4. CASE cmd.command = "BINARY_DATA_COMMAND"
  <2>1. due' = [v \in Users |-> [k \in Currency |->
                  due[v][k] + Brought(s, cmd.message, v, k)]]
    BY <1>1, <1>4 DEF DueAfter
  <2>2. due'[uid][currency] = due[uid][currency] + Brought(s, cmd.message, uid, currency)
    BY <2>1
  <2>3. Brought(s, cmd.message, uid, currency) =
          IF ~ UidForThisHandler(s, uid) \/ uid \in DOMAIN engines[s].profiles THEN 0
          ELSE Total(BroughtBy(cmd.message.users, uid, currency))
    BY DEF Brought, BroughtBy, PaidIn, SumBy
  <2>4. UidForThisHandler(s, uid) =>
          Brought(s, cmd.message, uid, currency) = Received(engines[s], cmd, res, uid, currency)
    BY <1>4, <2>3 DEF Received
  <2>5. ~ UidForThisHandler(s, uid) => Brought(s, cmd.message, uid, currency) = 0
    BY <2>3
  <2> QED
    BY <1>4, <2>2, <2>4, <2>5
<1>5. CASE cmd.command \notin {"RESET", "BINARY_DATA_COMMAND"}
  <2>1. due' = IF Applied(s, cmd, res) THEN [due EXCEPT ![cmd.uid][cmd.symbol] = @ + cmd.price]
               ELSE due
    BY <1>1, <1>5 DEF DueAfter
  <2>2. CASE Applied(s, cmd, res)
    <3>1. /\ cmd.command = "BALANCE_ADJUSTMENT" /\ res.code = "SUCCESS"
          /\ UidForThisHandler(s, cmd.uid) /\ cmd.uid \in Users
      BY <1>2, <2>2 DEF Applied, Payable
    <3>2. due'[uid][currency] = IF uid = cmd.uid /\ currency = cmd.symbol
                                THEN due[uid][currency] + cmd.price ELSE due[uid][currency]
      BY <2>1, <2>2, <3>1 DEF Accounted
    <3>3. Received(engines[s], cmd, res, uid, currency) =
            IF uid = cmd.uid /\ currency = cmd.symbol THEN cmd.price ELSE 0
      BY <3>1 DEF Received
    <3>4. CASE uid = cmd.uid /\ currency = cmd.symbol
      BY <1>5, <3>1, <3>2, <3>3, <3>4
    <3>5. CASE ~ (uid = cmd.uid /\ currency = cmd.symbol)
      BY <1>5, <3>2, <3>3, <3>5
    <3> QED
      BY <3>4, <3>5
  <2>3. CASE ~ Applied(s, cmd, res)
    <3>1. UidForThisHandler(s, uid) => Received(engines[s], cmd, res, uid, currency) = 0
      BY <1>5, <2>3 DEF Applied, Received
    <3> QED
      BY <1>5, <2>1, <2>3, <3>1
  <2> QED
    BY <2>2, <2>3
<1> QED
  BY <1>3, <1>4, <1>5

\* R1 moves money of its own users.
LEMMA R1OwnBalanced ==
  ASSUME NEW pair, Inv(FALSE), Accounted(pair), Linked(pair), Inv(FALSE)', Accounted(pair)',
         NEW s \in RiskShards, NEW n, NEW cmd, NEW res, NEW x, R1Step(s, n, cmd, res, x),
         NEW uid \in Users, UidForThisHandler(s, uid), NEW W, IsOnly(W, uid),
         NEW currency \in Currency, Balanced(s, uid, W, currency)
  PROVE  Balanced(s, uid, W, currency)'
<1>1. /\ n = r1[s] + 1 /\ n \in 1 .. Len(slots) /\ n > me
      /\ cmd = slots[n] /\ Queued(cmd, FALSE)
      /\ ClosesGroup(cmd) => r2[s] = n - 1 /\ me = n - 1
      /\ res = PreProcessCommand(engines[s], s, cmd)
      /\ SameRequest(x, cmd)
      /\ x.resultCode = IF IsReport(cmd) THEN cmd.resultCode ELSE res.code
      /\ Len(slots') = Len(slots) /\ slots'[n] = x
      /\ \A i \in 1 .. Len(slots) : i # n => slots'[i] = slots[i]
      /\ r1'[s] = n /\ engines'[s] = res.engine
      /\ me' = me /\ r2' = r2 /\ book' = book
  BY DEF R1Step
<1>2. /\ Balance(engines[s].profiles, uid, currency) \in Int
      /\ Held(book, W, currency) \in Int
      /\ InBook(s, W, currency) \in Int
      /\ Len(slots) \in Nat /\ me \in 0 .. Len(slots) /\ r1[s] \in me .. Len(slots)
      /\ r2[s] \in 0 .. me
      /\ me \in Int /\ r1[s] \in Int /\ r2[s] \in Int
      /\ Claimable(slots, me)
      /\ Total(Claims(slots, r1[s], me, r2[s], W, currency)) \in Int
  BY LedgerNumbers
<1>3. /\ Balance(engines'[s].profiles, uid, currency) \in Int
      /\ Claimable(slots', me')
  BY LedgerNumbersNext
<1>4. PICK b, u, c, d : /\ b = Balance(engines[s].profiles, uid, currency)
                        /\ u = InBook(s, W, currency)
                        /\ c = Total(Claims(slots, r1[s], me, r2[s], W, currency))
                        /\ d = due[uid][currency]
  OBVIOUS
<1>5. b \in Int /\ u \in Int /\ c \in Int /\ b + u + c = d /\ d \in Int
  BY <1>2, <1>4 DEF Balanced
<1>6. Payable(cmd, pair)
  BY <1>1 DEF Accounted
<1>7. PICK sound \in BOOLEAN : sound = FALSE
  OBVIOUS
<1>8. PICK e \in Engines(sound) : e = engines[s]
  BY <1>7 DEF Inv, EnginesKept
<1>9. due'[uid][currency] = IF cmd.command = "RESET" THEN 0
                            ELSE d + Received(e, cmd, res, uid, currency)
  BY <1>4, <1>5, <1>8, R1Due
<1>10. x.command = cmd.command
  BY <1>1 DEF SameRequest
<1>11. PICK p, l : p = slots' /\ l = me'
  OBVIOUS
<1>12. PICK i, m, j, k, h : i = r1[s] /\ m = me /\ j = r2[s] /\ k = r1'[s] /\ h = r2'[s]
  OBVIOUS
<1>13. /\ i \in Int /\ m \in Int /\ j \in Int /\ k \in Int /\ l \in Int /\ h \in Int
       /\ k = n /\ n = i + 1 /\ l = m /\ h = j /\ j <= m /\ m <= i
       /\ Len(p) = Len(slots) /\ p[n] = x /\ n \in 1 .. Len(slots)
       /\ \A o \in 1 .. Len(slots) : o # n => p[o] = slots[o]
       /\ Claimable(slots, m) /\ Claimable(p, l)
  BY <1>1, <1>2, <1>3, <1>11, <1>12
<1>14. OnlyClaim(p, k, l, h, slots, i, m, j, n, W, currency)
  BY <1>13 DEF Claim, OnlyClaim
<1>15. /\ Claim(slots[n], n, i, m, j, W, currency) = 0
       /\ Claim(p[n], n, k, l, h, W, currency) = HoldIn(x, W, currency)
  BY <1>13 DEF Claim
<1>16. PICK z : z = Total(Claims(p, k, l, h, W, currency))
  OBVIOUS
<1>17. CASE cmd.command # "RESET"
  <2>1. cmd.command = "BINARY_DATA_COMMAND" => Joinable(cmd.message.users)
    BY <1>6 DEF Payable, Accountable
  <2>2. res = PreProcessCommand(e, s, cmd)
    BY <1>1, <1>8
  <2>3. /\ Balance(res.engine.profiles, uid, currency) + HoldIn(x, W, currency)
             = Balance(e.profiles, uid, currency) + Received(e, cmd, res, uid, currency)
        /\ HoldIn(x, W, currency) \in Int
        /\ Received(e, cmd, res, uid, currency) \in Int
    <3>1. Queued(cmd, FALSE) /\ SameRequest(x, cmd) /\ CodeAfter(x, cmd, res)
      BY <1>1 DEF CodeAfter
    <3>2. UidForThisHandler(s, uid) /\ IsOnly(W, uid)
      BY <1>1
    <3>3. HeldOrReceived(e, cmd, res, x, uid, W, currency)
      BY <1>17, <2>1, <2>2, <3>1, <3>2, PreProcessBalance
    <3> QED
      BY <3>3 DEF HeldOrReceived
  <2>4. PICK hold, got, a : /\ hold = HoldIn(x, W, currency)
                            /\ got = Received(e, cmd, res, uid, currency)
                            /\ a = Balance(engines'[s].profiles, uid, currency)
    OBVIOUS
  <2>5. hold \in Int /\ got \in Int /\ a \in Int /\ a + hold = b + got
    BY <1>1, <1>3, <1>4, <1>8, <2>3, <2>4
  <2>6. z = c + hold
    <3>1. ClaimMoved(p, k, l, h, slots, i, m, j, n, W, currency)
      <4>1. /\ Claimable(slots, m) /\ Claimable(p, l) /\ Len(p) = Len(slots)
            /\ n \in 1 .. Len(slots)
            /\ i \in Int /\ m \in Int /\ j \in Int /\ k \in Int /\ l \in Int /\ h \in Int
        BY <1>13
      <4> QED
        BY <1>14, <4>1, ClaimsChange
    <3>2. /\ z + 0 = Total(Claims(slots, i, m, j, W, currency)) + hold
          /\ z \in Int
      BY <1>15, <1>16, <2>4, <3>1 DEF ClaimMoved
    <3>3. c = Total(Claims(slots, i, m, j, W, currency))
      BY <1>4, <1>12
    <3>4. z + 0 = c + hold
      BY <3>2, <3>3
    <3> QED
      BY <1>5, <2>5, <3>2, <3>4
  <2>7. InBook(s, W, currency)' = u
    <3>1. Wiped(s)' <=> Wiped(s)
      <4>1. CASE me < r1[s]
        <5>1. me + 1 \in 1 .. Len(slots) /\ me + 1 # n
          BY <1>1, <1>2, <4>1
        <5>2. me < r1'[s]
          BY <1>1
        <5> QED
          BY <1>1, <4>1, <5>1, <5>2 DEF Wiped
      <4>2. CASE ~ me < r1[s]
        <5>1. n = me + 1
          BY <1>1, <1>2, <4>2
        <5>2. ~ Wiped(s)'
          BY <1>1, <1>10, <1>17, <5>1 DEF Wiped
        <5> QED
          BY <4>2, <5>2 DEF Wiped
      <4> QED
        BY <4>1, <4>2
    <3> QED
      BY <1>1, <1>4, <3>1 DEF InBook
  <2>8. due'[uid][currency] = d + got
    BY <1>9, <1>17, <2>4
  <2>9. a + u + z = d + got
    BY <1>5, <2>5, <2>6
  <2>10. z = Total(Claims(slots', r1'[s], me', r2'[s], W, currency))
    BY <1>11, <1>12, <1>16
  <2> QED
    BY <2>4, <2>7, <2>8, <2>9, <2>10 DEF Balanced
<1>18. CASE cmd.command = "RESET"
  <2>1. r2[s] = n - 1 /\ me = n - 1
    BY <1>1, <1>18 DEF ClosesGroup
  <2>2. res.engine = Reset(e)
    BY <1>1, <1>8, <1>18 DEF PreProcessCommand
  <2>3. Balance(engines'[s].profiles, uid, currency) = 0
    <3>1. Balance(Reset(e).profiles, uid, currency) = 0
      BY ResetBalance
    <3> QED
      BY <1>1, <2>2, <3>1
  <2>4. Wiped(s)'
    BY <1>1, <1>10, <1>18, <2>1 DEF Wiped
  <2>5. InBook(s, W, currency)' = 0
    BY <2>4 DEF InBook
  <2>6. HoldIn(x, W, currency) = 0
    BY <1>10, <1>18 DEF HoldIn
  <2>7. \A o \in 1 .. Len(p) : Claim(p[o], o, k, l, h, W, currency) = 0
    <3>1. h = n - 1 /\ l = n - 1
      BY <1>12, <1>13, <2>1
    <3> QED
      BY <1>13, <1>15, <2>6, <3>1 DEF Claim
  <2>8. z = 0
    BY <1>13, <1>16, <2>7, NoClaims
  <2>9. z = Total(Claims(slots', r1'[s], me', r2'[s], W, currency))
    BY <1>11, <1>12, <1>16
  <2> QED
    BY <1>9, <1>18, <2>3, <2>5, <2>8, <2>9 DEF Balanced
<1> QED
  BY <1>17, <1>18

\* R1 does nothing to users of other risk engines.
LEMMA R1OtherBalanced ==
  ASSUME NEW pair, Inv(FALSE), Accounted(pair), Inv(FALSE)', Accounted(pair)',
         NEW s \in RiskShards, NEW n, NEW cmd, NEW res, NEW x, R1Step(s, n, cmd, res, x),
         NEW t \in RiskShards, t # s,
         NEW uid \in Users, UidForThisHandler(t, uid), NEW W, IsOnly(W, uid),
         NEW currency \in Currency, Balanced(t, uid, W, currency)
  PROVE  Balanced(t, uid, W, currency)'
<1>1. /\ n \in 1 .. Len(slots) /\ n > me
      /\ cmd = slots[n] /\ Queued(cmd, FALSE)
      /\ res = PreProcessCommand(engines[s], s, cmd)
      /\ SameRequest(x, cmd)
      /\ x.resultCode = IF IsReport(cmd) THEN cmd.resultCode ELSE res.code
      /\ Len(slots') = Len(slots) /\ slots'[n] = x
      /\ \A i \in 1 .. Len(slots) : i # n => slots'[i] = slots[i]
      /\ r1'[t] = r1[t] /\ engines'[t] = engines[t]
      /\ me' = me /\ r2' = r2 /\ book' = book
  BY DEF R1Step
<1>2. /\ Balance(engines[t].profiles, uid, currency) \in Int
      /\ InBook(t, W, currency) \in Int
      /\ Len(slots) \in Nat /\ me \in 0 .. Len(slots) /\ r1[t] \in me .. Len(slots)
      /\ r2[t] \in 0 .. me
      /\ me \in Int /\ r1[t] \in Int /\ r2[t] \in Int
      /\ Claimable(slots, me)
      /\ Total(Claims(slots, r1[t], me, r2[t], W, currency)) \in Int
  BY LedgerNumbers
<1>3. Claimable(slots', me')
  BY LedgerNumbersNext
<1>4. PICK b, u, c, d : /\ b = Balance(engines[t].profiles, uid, currency)
                        /\ u = InBook(t, W, currency)
                        /\ c = Total(Claims(slots, r1[t], me, r2[t], W, currency))
                        /\ d = due[uid][currency]
  OBVIOUS
<1>5. b \in Int /\ u \in Int /\ c \in Int /\ b + u + c = d /\ d \in Int
  BY <1>2, <1>4 DEF Balanced
<1>6. due'[uid][currency] = d
  <2>1. ~ UidForThisHandler(s, uid)
    BY OneShard
  <2> QED
    BY <1>4, <1>5, <2>1, R1Due
<1>7. x.command = cmd.command /\ x.uid = cmd.uid
  BY <1>1 DEF SameRequest
<1>8. HoldIn(x, W, currency) = HoldIn(cmd, W, currency)
  <2>1. CASE cmd.command = "PLACE_ORDER" /\ cmd.uid \in W
    <3>1. ~ UidForThisHandler(s, cmd.uid)
      BY <2>1, OneShard DEF IsOnly
    <3>2. res.code = cmd.resultCode
      BY <1>1, <2>1, <3>1 DEF PreProcessCommand
    <3>3. x.resultCode = cmd.resultCode
      BY <1>1, <3>2
    <3>4. HoldCurrency(x) = HoldCurrency(cmd) /\ OrderHoldAmount(x) = OrderHoldAmount(cmd)
      BY <1>1 DEF SameRequest, HoldCurrency, OrderHoldAmount, IsBudget
    <3> QED
      BY <1>7, <3>3, <3>4 DEF HoldIn
  <2>2. CASE ~ (cmd.command = "PLACE_ORDER" /\ cmd.uid \in W)
    BY <1>7, <2>2 DEF HoldIn
  <2> QED
    BY <2>1, <2>2
<1>9. PICK p, l : p = slots' /\ l = me'
  OBVIOUS
<1>10. PICK i, m, j, k, h : i = r1[t] /\ m = me /\ j = r2[t] /\ k = r1'[t] /\ h = r2'[t]
  OBVIOUS
<1>11. /\ i \in Int /\ m \in Int /\ j \in Int /\ k \in Int /\ l \in Int /\ h \in Int
       /\ k = i /\ l = m /\ h = j /\ j <= m /\ m <= i
       /\ Len(p) = Len(slots) /\ p[n] = x /\ n \in 1 .. Len(slots) /\ n > m
       /\ \A o \in 1 .. Len(slots) : o # n => p[o] = slots[o]
       /\ Claimable(slots, m) /\ Claimable(p, l)
  BY <1>1, <1>2, <1>3, <1>9, <1>10
<1>12. OnlyClaim(p, k, l, h, slots, i, m, j, n, W, currency)
  BY <1>11 DEF Claim, OnlyClaim
<1>13. Claim(p[n], n, k, l, h, W, currency) = Claim(slots[n], n, i, m, j, W, currency)
  BY <1>1, <1>8, <1>11 DEF Claim
<1>14. PICK z : z = Total(Claims(p, k, l, h, W, currency))
  OBVIOUS
<1>15. z = c
  <2>1. ClaimMoved(p, k, l, h, slots, i, m, j, n, W, currency)
    <3>1. /\ Claimable(slots, m) /\ Claimable(p, l) /\ Len(p) = Len(slots)
          /\ n \in 1 .. Len(slots)
          /\ i \in Int /\ m \in Int /\ j \in Int /\ k \in Int /\ l \in Int /\ h \in Int
      BY <1>11
    <3> QED
      BY <1>12, <3>1, ClaimsChange
  <2>2. c = Total(Claims(slots, i, m, j, W, currency))
    BY <1>4, <1>10
  <2>3. PICK v : v = Claim(slots[n], n, i, m, j, W, currency)
    OBVIOUS
  <2>4. v \in Int /\ z \in Int /\ z + v = c + v
    BY <1>13, <1>14, <2>1, <2>2, <2>3 DEF ClaimMoved
  <2> QED
    BY <1>5, <2>4
<1>16. InBook(t, W, currency)' = u
  <2>1. Wiped(t)' <=> Wiped(t)
    <3>1. CASE me < r1[t]
      <4>1. me + 1 \in 1 .. Len(slots)
        BY <1>2, <3>1
      <4>2. slots'[me + 1].command = slots[me + 1].command
        BY <1>1, <1>7, <4>1
      <4> QED
        BY <1>1, <3>1, <4>2 DEF Wiped
    <3>2. CASE ~ me < r1[t]
      BY <1>1, <3>2 DEF Wiped
    <3> QED
      BY <3>1, <3>2
  <2> QED
    BY <1>1, <1>4, <2>1 DEF InBook
<1>17. z = Total(Claims(slots', r1'[t], me', r2'[t], W, currency))
  BY <1>9, <1>10, <1>14
<1>18. Balance(engines'[t].profiles, uid, currency) = b
  BY <1>1, <1>4
<1> QED
  BY <1>5, <1>6, <1>15, <1>16, <1>17, <1>18 DEF Balanced

\* The trades of a user are what the ledger takes them for.
LEMMA TradedForIs ==
  ASSUME NEW cmd, NEW uid, NEW W, IsOnly(W, uid), NEW currency
  PROVE  TradedFor(cmd, uid, currency) = TradedBy(cmd, W, currency)
<1>1. \A u : u \in W <=> u = uid
  BY DEF IsOnly
<1>2. PICK trades : trades = Trades(cmd.matcherEvent)
  OBVIOUS
<1>3. PICK a, b :
        /\ a = [i \in DOMAIN trades |->
                  (IF cmd.uid = uid THEN LotsOf(trades[i], cmd.action, TakerFee, currency) ELSE 0)
                  + (IF trades[i].matchedOrderUid = uid
                     THEN LotsOf(trades[i], Opposite(cmd.action), MakerFee, currency) ELSE 0)]
        /\ b = [i \in DOMAIN trades |-> TakerTraded(cmd, trades[i], W, currency)
                                        + MakerTraded(cmd, trades[i], W, currency)]
  OBVIOUS
<1>4. a = b
  <2>1. \A i \in DOMAIN trades :
          /\ (IF cmd.uid = uid THEN LotsOf(trades[i], cmd.action, TakerFee, currency) ELSE 0)
               = TakerTraded(cmd, trades[i], W, currency)
          /\ (IF trades[i].matchedOrderUid = uid
              THEN LotsOf(trades[i], Opposite(cmd.action), MakerFee, currency) ELSE 0)
               = MakerTraded(cmd, trades[i], W, currency)
    BY <1>1 DEF TakerTraded, MakerTraded
  <2> QED
    BY <1>3, <2>1
<1>5. TradedFor(cmd, uid, currency) = Total(a)
  BY <1>2, <1>3 DEF TradedFor, SumBy, LotsOf
<1>6. TradedBy(cmd, W, currency) = Total(b)
  BY <1>2, <1>3 DEF TradedBy
<1> QED
  BY <1>4, <1>5, <1>6

\* A command without events brings nothing.
LEMMA NothingGained ==
  ASSUME NEW cmd, Settles(cmd, FALSE), cmd.matcherEvent = <<>>,
         NEW W, NEW currency \in Currency
  PROVE  Gained(cmd, W, currency) = 0 /\ TradedBy(cmd, W, currency) = 0
<1>1. ~ Returned(cmd.matcherEvent) /\ Trades(cmd.matcherEvent) = <<>>
  BY NoEvent
<1>2. TradedBy(cmd, W, currency) = 0 /\ Gained(cmd, W, currency) = ReturnedPart(cmd, W, currency)
  BY <1>1, WithoutTrades
<1>3. ReturnedPart(cmd, W, currency) = 0
  BY <1>1 DEF ReturnedPart
<1> QED
  BY <1>2, <1>3

\* The matching engine turns holds into orders, and orders into what the command
\* brings and what is traded for.
LEMMA MeBalanced ==
  ASSUME NEW pair, Inv(FALSE), Accounted(pair), Linked(pair), Inv(FALSE)', Accounted(pair)',
         NEW n, NEW cmd, NEW res, NEW x, MeStep(n, cmd, res, x),
         NEW s \in RiskShards, NEW uid \in Users, UidForThisHandler(s, uid),
         NEW W, IsOnly(W, uid), NEW currency \in Currency, Balanced(s, uid, W, currency)
  PROVE  Balanced(s, uid, W, currency)'
<1>1. /\ n = me + 1 /\ n \in 1 .. Len(slots) /\ n <= r1[s]
      /\ cmd = slots[n] /\ Queued(cmd, FALSE)
      /\ res = ProcessOrder(cmd) /\ Settles(res.cmd, FALSE)
      /\ IF IsReport(cmd) THEN SameRequest(x, cmd) ELSE x = res.cmd
      /\ Len(slots') = Len(slots) /\ slots'[n] = x
      /\ \A i \in 1 .. Len(slots) : i # n => slots'[i] = slots[i]
      /\ me' = n /\ book' = res.book
      /\ due' = [v \in Users |-> [k \in Currency |->
                   due[v][k] + TradedFor(res.cmd, v, k)]]
      /\ r1' = r1 /\ r2' = r2 /\ engines' = engines
  BY DEF MeStep
<1>2. /\ Balance(engines[s].profiles, uid, currency) \in Int
      /\ Held(book, W, currency) \in Int
      /\ InBook(s, W, currency) \in Int
      /\ Len(slots) \in Nat /\ me \in 0 .. Len(slots) /\ r1[s] \in me .. Len(slots)
      /\ r2[s] \in 0 .. me
      /\ me \in Int /\ r1[s] \in Int /\ r2[s] \in Int
      /\ Claimable(slots, me)
      /\ Total(Claims(slots, r1[s], me, r2[s], W, currency)) \in Int
  BY LedgerNumbers
<1>3. Claimable(slots', me') /\ InBook(s, W, currency)' \in Int
  BY LedgerNumbersNext
<1>4. PICK b, u, c, d : /\ b = Balance(engines[s].profiles, uid, currency)
                        /\ u = InBook(s, W, currency)
                        /\ c = Total(Claims(slots, r1[s], me, r2[s], W, currency))
                        /\ d = due[uid][currency]
  OBVIOUS
<1>5. b \in Int /\ u \in Int /\ c \in Int /\ b + u + c = d /\ d \in Int
  BY <1>2, <1>4 DEF Balanced
<1>6. Closers(s) /\ Expected(s, pair) /\ Backed(s, pair)
  BY DEF Linked
<1>7. Payable(cmd, pair) /\ IsBook(book)
  BY <1>1, <1>2 DEF Accounted
<1>8. IsSlot(cmd) /\ cmd.matcherEvent = <<>>
  BY <1>1 DEF Queued
<1>9. PICK p, l : p = slots' /\ l = me'
  OBVIOUS
<1>10. PICK i, m, j, k, h : i = r1[s] /\ m = me /\ j = r2[s] /\ k = r1'[s] /\ h = r2'[s]
  OBVIOUS
<1>11. /\ i \in Int /\ m \in Int /\ j \in Int /\ k \in Int /\ l \in Int /\ h \in Int
       /\ k = i /\ l = n /\ n = m + 1 /\ h = j /\ j <= m /\ n <= i
       /\ Len(p) = Len(slots) /\ p[n] = x /\ n \in 1 .. Len(slots)
       /\ \A o \in 1 .. Len(slots) : o # n => p[o] = slots[o]
       /\ Claimable(slots, m) /\ Claimable(p, l)
  BY <1>1, <1>2, <1>3, <1>9, <1>10
<1>12. OnlyClaim(p, k, l, h, slots, i, m, j, n, W, currency)
  BY <1>11 DEF Claim, OnlyClaim
<1>13. /\ Claim(slots[n], n, i, m, j, W, currency) = HoldIn(cmd, W, currency)
       /\ Claim(p[n], n, k, l, h, W, currency) = Gained(x, W, currency)
  BY <1>1, <1>11 DEF Claim
<1>14. PICK z : z = Total(Claims(p, k, l, h, W, currency))
  OBVIOUS
<1>15. PICK hold, gain : hold = HoldIn(cmd, W, currency) /\ gain = Gained(x, W, currency)
  OBVIOUS
<1>16. z + hold = c + gain /\ z \in Int /\ hold \in Int /\ gain \in Int
  <2>1. ClaimMoved(p, k, l, h, slots, i, m, j, n, W, currency)
    <3>1. /\ Claimable(slots, m) /\ Claimable(p, l) /\ Len(p) = Len(slots)
          /\ n \in 1 .. Len(slots)
          /\ i \in Int /\ m \in Int /\ j \in Int /\ k \in Int /\ l \in Int /\ h \in Int
      BY <1>11
    <3> QED
      BY <1>12, <3>1, ClaimsChange
  <2>2. c = Total(Claims(slots, i, m, j, W, currency))
    BY <1>4, <1>10
  <2> QED
    BY <1>13, <1>14, <1>15, <2>1, <2>2 DEF ClaimMoved
<1>17. PICK y : y = TradedBy(res.cmd, W, currency)
  OBVIOUS
<1>18. due'[uid][currency] = d + y
  <2>1. TradedFor(res.cmd, uid, currency) = y
    BY <1>17, TradedForIs
  <2> QED
    BY <1>1, <1>4, <2>1
<1>19. PICK v : v = InBook(s, W, currency)'
  OBVIOUS
<1>20. v = Held(res.book, W, currency) /\ v \in Int
  <2>1. ~ Wiped(s)'
    <3> SUFFICES ASSUME Wiped(s)' PROVE FALSE
      OBVIOUS
    <3>1. n < r1[s] /\ slots'[n + 1].command = "RESET"
      BY <1>1 DEF Wiped
    <3>2. n + 1 \in 1 .. Len(slots) /\ n + 1 # n
      BY <1>1, <1>2, <3>1
    <3>3. ClosesGroup(slots[n + 1])
      BY <1>1, <3>1, <3>2 DEF ClosesGroup
    <3>4. n + 1 = me + 1
      BY <1>1, <1>2, <1>6, <3>1, <3>2, <3>3 DEF Closers
    <3> QED
      BY <1>1, <1>2, <3>4
  <2> QED
    BY <1>1, <1>3, <1>19, <2>1 DEF InBook
<1>21. me < r1[s]
  BY <1>1, <1>2
<1>22. u = IF cmd.command = "RESET" THEN 0 ELSE Held(book, W, currency)
  BY <1>1, <1>4, <1>21 DEF InBook, Wiped
<1>23. u + hold + y = v + gain /\ y \in Int
  <2>1. CASE IsMatchingCommand(cmd) /\ listed
    <3>1. BookSlot(cmd) /\ Placeable(cmd) /\ Effect(book, cmd, res)
      BY <1>1, <1>7, <2>1, MeOutcome
    <3>2. Conserved(book, cmd, res, W, currency)
      BY <1>1, <1>7, <3>1, CommandConserves
    <3>3. cmd.command # "RESET" /\ ~ IsReport(cmd)
      BY <2>1 DEF IsMatchingCommand, IsReport
    <3>4. u + hold + y = v + gain
      BY <1>1, <1>15, <1>17, <1>20, <1>22, <3>2, <3>3 DEF Conserved
    <3>5. y \in Int
      <4>1. PICK answer : answer = res.cmd
        OBVIOUS
      <4>2. PICK trades : trades = Trades(answer.matcherEvent)
        OBVIOUS
      <4>3. Settles(answer, FALSE)
        BY <1>1, <4>1
      <4>4. PICK f, g : AreTraded(answer, trades, f, g, W, currency)
        BY <4>2, <4>3, TradedIs
      <4>5. Total(f) \in Int /\ Total(g) \in Int
        BY <4>4, TotalIsInt DEF AreTraded, AreTakerTraded, AreMakerTraded
      <4>6. TradedBy(answer, W, currency) = Total(f) + Total(g)
        BY <4>4 DEF AreTraded
      <4> QED
        BY <1>17, <4>1, <4>5, <4>6
    <3> QED
      BY <3>4, <3>5
  <2>2. CASE ~ (IsMatchingCommand(cmd) /\ listed)
    <3>1. /\ res.cmd.matcherEvent = <<>>
          /\ res.book = IF cmd.command = "RESET" THEN EmptyBook ELSE book
      BY <1>1, <1>7, <2>2, MeOutcome
    <3>2. y = 0
      BY <1>1, <1>17, <3>1, NothingGained
    <3>3. gain = 0
      <4>1. x.matcherEvent = <<>>
        BY <1>1, <1>8, <3>1 DEF SameRequest
      <4>2. Settles(x, FALSE)
        <5>1. p[n] = x /\ n <= l /\ n \in 1 .. Len(p)
          BY <1>11
        <5>2. Claimable(p, l)
          BY <1>11
        <5>3. Settles(p[n], FALSE)
          BY <5>1, <5>2 DEF Claimable
        <5> QED
          BY <5>1, <5>3
      <4>3. Gained(x, W, currency) = 0
        BY <4>1, <4>2, NothingGained
      <4> QED
        BY <1>15, <4>3
    <3>4. hold = 0
      <4>1. CASE cmd.command = "PLACE_ORDER" /\ IsValid(cmd) /\ cmd.uid \in W
        <5>1. UidForThisHandler(s, cmd.uid)
          BY <4>1 DEF IsOnly
        <5>2. pair \in engines[s].symbols
          BY <1>1, <1>2, <1>6, <4>1, <5>1 DEF Backed
        <5>3. Listed(cmd)
          BY <1>1, <1>6, <1>21, <5>2 DEF Expected
        <5>4. IsMatchingCommand(cmd) /\ listed
          BY <4>1, <5>3 DEF Listed, IsMatchingCommand
        <5> QED
          BY <2>2, <5>4
      <4>2. CASE ~ (cmd.command = "PLACE_ORDER" /\ IsValid(cmd) /\ cmd.uid \in W)
        BY <1>15, <4>2 DEF HoldIn, IsValid
      <4> QED
        BY <4>1, <4>2
    <3>5. u = v
      <4>1. CASE cmd.command = "RESET"
        BY <1>20, <1>22, <3>1, <4>1, EmptyIsBook
      <4>2. CASE cmd.command # "RESET"
        BY <1>20, <1>22, <3>1, <4>2
      <4> QED
        BY <4>1, <4>2
    <3> QED
      BY <1>20, <3>2, <3>3, <3>4, <3>5
  <2> QED
    BY <2>1, <2>2
<1>24. b + v + z = d + y
  BY <1>5, <1>16, <1>20, <1>23
<1>25. z = Total(Claims(slots', r1'[s], me', r2'[s], W, currency))
  BY <1>9, <1>10, <1>14
<1>26. Balance(engines'[s].profiles, uid, currency) = b
  BY <1>1, <1>4
<1> QED
  BY <1>18, <1>19, <1>24, <1>25, <1>26 DEF Balanced

\* R2 pays out what a command brings.
LEMMA PostBalanced ==
  ASSUME NEW pair, Inv(FALSE), Accounted(pair), Linked(pair), Inv(FALSE)', Accounted(pair)',
         NEW t \in RiskShards, PostProcessSlot(t),
         NEW s \in RiskShards, NEW uid \in Users, UidForThisHandler(s, uid),
         NEW W, IsOnly(W, uid), NEW currency \in Currency, Balanced(s, uid, W, currency)
  PROVE  Balanced(s, uid, W, currency)'
<1>1. PICK n : n = r2[t] + 1
  OBVIOUS
<1>2. PICK cmd : cmd = slots[n]
  OBVIOUS
<1>3. /\ n <= me
      /\ r2' = [r2 EXCEPT ![t] = n]
      /\ engines' = [engines EXCEPT ![t] = PostProcessCommand(@, t, cmd)]
      /\ slots' = slots /\ r1' = r1 /\ me' = me /\ book' = book /\ due' = due
  BY <1>1, <1>2 DEF PostProcessSlot, router, history
<1>4. /\ Balance(engines[s].profiles, uid, currency) \in Int
      /\ InBook(s, W, currency) \in Int
      /\ Len(slots) \in Nat /\ me \in 0 .. Len(slots) /\ r1[s] \in me .. Len(slots)
      /\ r2[s] \in 0 .. me
      /\ me \in Int /\ r1[s] \in Int /\ r2[s] \in Int
      /\ Claimable(slots, me)
      /\ Total(Claims(slots, r1[s], me, r2[s], W, currency)) \in Int
  BY LedgerNumbers
<1>5. InBook(s, W, currency)' = InBook(s, W, currency)
  BY <1>3 DEF InBook, Wiped
<1>6. CASE t # s
  <2>1. engines'[s] = engines[s] /\ r2'[s] = r2[s]
    BY <1>3, <1>6 DEF Inv, Stages, EnginesKept
  <2> QED
    BY <1>3, <1>5, <2>1 DEF Balanced
<1>7. CASE t = s
  <2>1. PICK e \in Engines(FALSE) : e = engines[s]
    BY DEF Inv, EnginesKept
  <2>2. engines'[s] = PostProcessCommand(e, s, cmd) /\ r2'[s] = n
    BY <1>3, <1>7, <2>1 DEF Inv, Stages, EnginesKept
  <2>3. n \in 1 .. Len(slots) /\ r2[s] < n
    BY <1>1, <1>3, <1>4, <1>7
  <2>4. Settles(cmd, FALSE)
    BY <1>2, <1>3, <2>3 DEF Inv, SlotsKept
  <2>5. KnowsSymbol(e, cmd)
    <3>1. Known(s)
      BY DEF Linked
    <3> QED
      BY <1>2, <1>3, <2>1, <2>3, <3>1 DEF Known, KnowsSymbol
  <2>6. Balance(engines'[s].profiles, uid, currency)
          = Balance(e.profiles, uid, currency) + Gained(cmd, W, currency)
    <3>1. PaysOut(PostProcessCommand(e, s, cmd), e, cmd, uid, W, currency)
      BY <2>4, <2>5, SettlementBalance
    <3> QED
      BY <2>2, <3>1 DEF PaysOut
  <2>7. PICK i, m, j : i = r1[s] /\ m = me /\ j = r2[s]
    OBVIOUS
  <2>8. /\ i \in Int /\ m \in Int /\ j \in Int /\ n \in Int /\ n = j + 1 /\ n <= m
        /\ n \in 1 .. Len(slots) /\ Claimable(slots, m)
    BY <1>1, <1>3, <1>4, <1>7, <2>3, <2>7
  <2>9. OnlyClaim(slots, i, m, n, slots, i, m, j, n, W, currency)
    BY <2>8 DEF Claim, OnlyClaim
  <2>10. /\ Claim(slots[n], n, i, m, j, W, currency) = Gained(cmd, W, currency)
         /\ Claim(slots[n], n, i, m, n, W, currency) = 0
    BY <1>2, <2>8 DEF Claim
  <2>11. PICK q : q = slots
    OBVIOUS
  <2>12. PICK c, z, gain : /\ c = Total(Claims(q, i, m, j, W, currency))
                           /\ z = Total(Claims(q, i, m, n, W, currency))
                           /\ gain = Gained(cmd, W, currency)
    OBVIOUS
  <2>13. z + gain = c /\ z \in Int /\ c \in Int /\ gain \in Int
    <3>1. ClaimMoved(q, i, m, n, q, i, m, j, n, W, currency)
      <4>1. /\ Claimable(q, m) /\ n \in 1 .. Len(q)
            /\ i \in Int /\ m \in Int /\ j \in Int /\ n \in Int
        BY <2>8, <2>11
      <4>2. OnlyClaim(q, i, m, n, q, i, m, j, n, W, currency)
        BY <2>9, <2>11
      <4> QED
        BY <4>1, <4>2, ClaimsChange
    <3>2. /\ z + Claim(q[n], n, i, m, j, W, currency) = c + Claim(q[n], n, i, m, n, W, currency)
          /\ z \in Int /\ c \in Int /\ Claim(q[n], n, i, m, j, W, currency) \in Int
      BY <2>12, <3>1 DEF ClaimMoved
    <3>3. Claim(q[n], n, i, m, j, W, currency) = gain /\ Claim(q[n], n, i, m, n, W, currency) = 0
      BY <2>10, <2>11, <2>12
    <3> QED
      BY <3>2, <3>3
  <2>14. PICK b, u, a, d : /\ b = Balance(e.profiles, uid, currency)
                           /\ u = InBook(s, W, currency)
                           /\ a = Balance(engines'[s].profiles, uid, currency)
                           /\ d = due[uid][currency]
    OBVIOUS
  <2>15. b \in Int /\ u \in Int /\ b + u + c = d /\ a = b + gain
    BY <1>4, <2>1, <2>6, <2>7, <2>11, <2>12, <2>14 DEF Balanced
  <2>16. a + u + z = d
    BY <2>13, <2>15
  <2>17. z = Total(Claims(slots', r1'[s], me', r2'[s], W, currency))
    BY <1>3, <2>2, <2>7, <2>11, <2>12
  <2> QED
    BY <1>3, <1>5, <2>14, <2>16, <2>17 DEF Balanced
<1> QED
  BY <1>6, <1>7

\* A command that comes has nothing yet.
LEMMA PublishBalanced ==
  ASSUME NEW pair, Inv(FALSE), Accounted(pair), Inv(FALSE)', Accounted(pair)', Publish,
         NEW s \in RiskShards, NEW uid \in Users, NEW W, NEW currency \in Currency,
         Balanced(s, uid, W, currency)
  PROVE  Balanced(s, uid, W, currency)'
<1>1. PICK r \in Commands : slots' = Append(slots, r)
  BY DEF Publish
<1>2. /\ r1' = r1 /\ me' = me /\ r2' = r2 /\ engines' = engines /\ book' = book
      /\ due' = due
  BY DEF Publish, stages, router, history
<1>3. /\ Len(slots) \in Nat /\ Len(slots') = Len(slots) + 1
      /\ \A o \in 1 .. Len(slots) : slots'[o] = slots[o]
  BY <1>1, AppendToSequence DEF Inv, Stages
<1>4. /\ me \in 0 .. Len(slots) /\ r1[s] \in me .. Len(slots) /\ r2[s] \in 0 .. me
      /\ me \in Int /\ r1[s] \in Int /\ r2[s] \in Int
      /\ Claimable(slots, me)
  BY LedgerNumbers
<1>5. Claimable(slots', me')
  BY LedgerNumbersNext
<1>6. PICK q, p : q = slots /\ p = slots'
  OBVIOUS
<1>7. PICK i, m, j : i = r1[s] /\ m = me /\ j = r2[s]
  OBVIOUS
<1>8. PICK N \in Nat : N = Len(q)
  BY <1>3, <1>6
<1>9. /\ i \in Int /\ m \in Int /\ j \in Int /\ i <= N /\ m <= N /\ j <= N
      /\ Len(p) = N + 1 /\ \A o \in 1 .. N : p[o] = q[o]
      /\ Claimable(q, m) /\ Claimable(p, m)
  BY <1>2, <1>3, <1>4, <1>5, <1>6, <1>7, <1>8
<1>10. PICK a, b : a = Claims(q, i, m, j, W, currency) /\ b = Claims(p, i, m, j, W, currency)
  OBVIOUS
<1>11. /\ a \in Seq(Int) /\ Len(a) = N
       /\ \A o \in 1 .. N : a[o] = Claim(q[o], o, i, m, j, W, currency)
  <2>1. AreClaims(Claims(q, i, m, j, W, currency), q, i, m, j, W, currency)
    BY <1>9, ClaimsAre
  <2>2. AreClaims(a, q, i, m, j, W, currency)
    BY <1>10, <2>1
  <2> QED
    BY <1>8, <2>2 DEF AreClaims
<1>12. /\ b \in Seq(Int) /\ Len(b) = N + 1
       /\ \A o \in 1 .. N + 1 : b[o] = Claim(p[o], o, i, m, j, W, currency)
  <2>1. AreClaims(Claims(p, i, m, j, W, currency), p, i, m, j, W, currency)
    BY <1>9, ClaimsAre
  <2>2. AreClaims(b, p, i, m, j, W, currency)
    BY <1>10, <2>1
  <2> QED
    BY <1>9, <2>2 DEF AreClaims
<1>13. ASSUME NEW o \in 1 .. N PROVE a[o] = b[o]
  <2>1. p[o] = q[o] /\ o \in 1 .. N + 1
    BY <1>9
  <2>2. a[o] = Claim(q[o], o, i, m, j, W, currency) /\ b[o] = Claim(p[o], o, i, m, j, W, currency)
    BY <1>11, <1>12, <2>1
  <2> QED
    BY <2>1, <2>2
<1>14. \A o \in 1 .. Len(b) : o > N => b[o] = 0
  <2> SUFFICES ASSUME NEW o \in 1 .. N + 1, o > N PROVE b[o] = 0
    BY <1>12
  <2>1. ~ o <= j /\ ~ o <= m /\ ~ o <= i
    BY <1>9
  <2> QED
    BY <1>12, <2>1 DEF Claim
<1>15. Total(b) = Total(a)
  BY <1>11, <1>12, <1>13, <1>14, TotalOfPadded
<1>16. InBook(s, W, currency)' = InBook(s, W, currency)
  <2>1. Wiped(s)' <=> Wiped(s)
    <3>1. CASE me < r1[s]
      <4>1. me + 1 \in 1 .. Len(slots)
        BY <1>3, <1>4, <3>1
      <4> QED
        BY <1>2, <1>3, <3>1, <4>1 DEF Wiped
    <3>2. CASE ~ me < r1[s]
      BY <1>2, <3>2 DEF Wiped
    <3> QED
      BY <3>1, <3>2
  <2> QED
    BY <1>2, <2>1 DEF InBook
<1> QED
  BY <1>2, <1>6, <1>7, <1>10, <1>15, <1>16 DEF Balanced

\* A command that leaves has nothing any more.
LEMMA ReleaseBalanced ==
  ASSUME NEW pair, Inv(FALSE), Accounted(pair), Inv(FALSE)', Accounted(pair)', Release,
         NEW s \in RiskShards, NEW uid \in Users, NEW W, NEW currency \in Currency,
         Balanced(s, uid, W, currency)
  PROVE  Balanced(s, uid, W, currency)'
<1>1. /\ slots # <<>> /\ slots' = Tail(slots) /\ me' = me - 1
      /\ r2[s] >= 1 /\ r1'[s] = r1[s] - 1 /\ r2'[s] = r2[s] - 1
      /\ engines' = engines /\ book' = book /\ due' = due
  BY DEF Release, router, history
<1>2. /\ Len(slots) \in Nat /\ Len(slots') = Len(slots) - 1
      /\ \A o \in 1 .. Len(slots') : slots'[o] = slots[o + 1]
  BY <1>1, TailOfSequence DEF Inv, Stages
<1>3. /\ me \in 0 .. Len(slots) /\ r1[s] \in me .. Len(slots) /\ r2[s] \in 0 .. me
      /\ me \in Int /\ r1[s] \in Int /\ r2[s] \in Int
      /\ Claimable(slots, me)
  BY LedgerNumbers
<1>4. Claimable(slots', me')
  BY LedgerNumbersNext
<1>5. PICK q, p : q = slots /\ p = slots'
  OBVIOUS
<1>6. PICK i, m, j : i = r1[s] /\ m = me /\ j = r2[s]
  OBVIOUS
<1>7. PICK k, l, h : k = r1'[s] /\ l = me' /\ h = r2'[s]
  OBVIOUS
<1>8. PICK N \in Nat : N = Len(p)
  <2>1. 1 <= me /\ me <= Len(slots)
    BY <1>1, <1>3
  <2>2. Len(slots) - 1 \in Nat
    BY <1>2, <1>3, <2>1
  <2>3. Len(slots') \in Nat
    BY <1>2, <2>2
  <2> QED
    BY <1>5, <2>3
<1>9. /\ i \in Int /\ m \in Int /\ j \in Int /\ k \in Int /\ l \in Int /\ h \in Int
      /\ k = i - 1 /\ l = m - 1 /\ h = j - 1 /\ j >= 1
      /\ Len(q) = N + 1 /\ \A o \in 1 .. N : p[o] = q[o + 1]
      /\ Claimable(q, m) /\ Claimable(p, l)
  BY <1>1, <1>2, <1>3, <1>4, <1>5, <1>6, <1>7, <1>8
<1>10. PICK a, b : a = Claims(q, i, m, j, W, currency) /\ b = Claims(p, k, l, h, W, currency)
  OBVIOUS
<1>11. /\ a \in Seq(Int) /\ Len(a) = N + 1
       /\ \A o \in 1 .. N + 1 : a[o] = Claim(q[o], o, i, m, j, W, currency)
  <2>1. AreClaims(Claims(q, i, m, j, W, currency), q, i, m, j, W, currency)
    BY <1>9, ClaimsAre
  <2>2. AreClaims(a, q, i, m, j, W, currency)
    BY <1>10, <2>1
  <2> QED
    BY <1>9, <2>2 DEF AreClaims
<1>12. /\ b \in Seq(Int) /\ Len(b) = N
       /\ \A o \in 1 .. N : b[o] = Claim(p[o], o, k, l, h, W, currency)
  <2>1. AreClaims(Claims(p, k, l, h, W, currency), p, k, l, h, W, currency)
    BY <1>9, ClaimsAre
  <2>2. AreClaims(b, p, k, l, h, W, currency)
    BY <1>10, <2>1
  <2> QED
    BY <1>8, <2>2 DEF AreClaims
<1>13. ASSUME NEW o \in 1 .. N PROVE a[o + 1] = b[o]
  <2>1. /\ o + 1 \in 1 .. N + 1 /\ p[o] = q[o + 1]
        /\ (o + 1 <= i <=> o <= k) /\ (o + 1 <= m <=> o <= l) /\ (o + 1 <= j <=> o <= h)
    BY <1>9
  <2> QED
    BY <1>11, <1>12, <2>1 DEF Claim
<1>14. a[1] = 0
  <2>1. 1 \in 1 .. N + 1 /\ 1 <= j
    BY <1>9
  <2> QED
    BY <1>11, <2>1 DEF Claim
<1>15. PICK z \in Int : z = 0
  OBVIOUS
<1>16. PICK e : e = <<z>>
  OBVIOUS
<1>17. e \in Seq(Int) /\ Len(e) = 1 /\ e[1] = z
  BY <1>16
<1>18. Total(e) = 0
  <2>1. PICK o \in 1 .. Len(e) : o = 1
    BY <1>17
  <2>2. \A w \in 1 .. Len(e) : w # o => e[w] = 0
    BY <1>17, <2>1
  <2>3. Total(e) = e[o]
    BY <1>17, <2>2, TotalOfOne
  <2> QED
    BY <1>15, <1>17, <2>1, <2>3
<1>19. Total(a) = Total(e) + Total(b)
  <2>1. Len(a) = Len(e) + Len(b)
    BY <1>11, <1>12, <1>17
  <2>2. \A o \in 1 .. Len(e) : a[o] = e[o]
    BY <1>14, <1>15, <1>17
  <2>3. \A o \in 1 .. Len(b) : a[Len(e) + o] = b[o]
    BY <1>12, <1>13, <1>17
  <2> QED
    BY <1>11, <1>12, <1>17, <2>1, <2>2, <2>3, TotalOfConcat
<1>20. Total(a) = Total(b)
  <2>1. Total(b) \in Int
    BY <1>12, TotalIsInt
  <2> QED
    BY <1>18, <1>19, <2>1
<1>21. InBook(s, W, currency)' = InBook(s, W, currency)
  <2>1. Wiped(s)' <=> Wiped(s)
    <3>1. CASE me < r1[s]
      <4>1. me \in 1 .. Len(slots') /\ me' < r1'[s]
        BY <1>1, <1>2, <1>3, <3>1
      <4>2. slots'[me' + 1] = slots[me + 1]
        BY <1>1, <1>2, <1>3, <4>1
      <4> QED
        BY <3>1, <4>1, <4>2 DEF Wiped
    <3>2. CASE ~ me < r1[s]
      <4>1. ~ me' < r1'[s]
        BY <1>1, <1>3, <3>2
      <4> QED
        BY <3>2, <4>1 DEF Wiped
    <3> QED
      BY <3>1, <3>2
  <2> QED
    BY <1>1, <2>1 DEF InBook
<1> QED
  BY <1>1, <1>5, <1>6, <1>7, <1>10, <1>20, <1>21 DEF Balanced

\* The account of a user is that of its risk engine.
LEMMA AccountBalance ==
  ASSUME Inv(FALSE), NEW s \in RiskShards, NEW uid \in Users, UidForThisHandler(s, uid),
         NEW currency \in Currency
  PROVE  Accounts(uid)[currency] = Balance(engines[s].profiles, uid, currency)
<1>1. PICK t \in RiskShards : t = CHOOSE v \in RiskShards : UidForThisHandler(v, uid)
  OBVIOUS
<1>2. t = s
  BY <1>1, OneShard
<1>3. PICK e \in Engines(FALSE) : e = engines[s]
  BY DEF Inv, EnginesKept
<1>4. PICK p : p = e.profiles
  OBVIOUS
<1>5. Accounts(uid) = IF uid \in DOMAIN p THEN p[uid].accounts ELSE ZeroBalance
  BY <1>1, <1>2, <1>3, <1>4 DEF Accounts
<1>6. ZeroBalance[currency] = 0
  BY DEF ZeroBalance
<1> QED
  BY <1>3, <1>4, <1>5, <1>6 DEF Balance

\* A new exchange is balanced.
LEMMA InitBalanced ==
  ASSUME NEW pair, Init, Inv(FALSE), Accounted(pair),
         NEW s \in RiskShards, NEW uid \in Users, UidForThisHandler(s, uid), NEW W,
         NEW currency \in Currency
  PROVE  Balanced(s, uid, W, currency)
<1>1. slots = <<>> /\ Len(slots) = 0 /\ me = 0 /\ r1[s] = 0 /\ r2[s] = 0 /\ book = EmptyBook
  BY EmptySeq DEF Init
<1>2. due[uid][currency] = Balance(engines[s].profiles, uid, currency)
  BY AccountBalance DEF Init
<1>3. InBook(s, W, currency) = 0
  BY <1>1, EmptyIsBook DEF InBook, Wiped
<1>4. /\ me \in Int /\ r1[s] \in Int /\ r2[s] \in Int /\ Claimable(slots, me)
      /\ Balance(engines[s].profiles, uid, currency) \in Int
  BY LedgerNumbers
<1>5. Total(Claims(slots, r1[s], me, r2[s], W, currency)) = 0
  <2>1. \A n \in 1 .. Len(slots) : Claim(slots[n], n, r1[s], me, r2[s], W, currency) = 0
    BY <1>1
  <2> QED
    BY <1>4, <2>1, NoClaims
<1> QED
  BY <1>2, <1>3, <1>4, <1>5 DEF Balanced

\* The inductive invariant.
LedgerInv(pair) == Inv(FALSE) /\ Accounted(pair) /\ Linked(pair) /\ LedgerKept

\* The invariant holds at the start.
LEMMA InitLedger ==
  ASSUME NEW pair, Clients(pair), Init
  PROVE  LedgerInv(pair)
<1>1. Inv(FALSE)
  BY InitKept
<1>2. Accounted(pair) /\ Linked(pair)
  BY InitAccounted, InitLinked
<1>3. LedgerKept
  BY <1>1, <1>2, InitBalanced DEF LedgerKept
<1> QED
  BY <1>1, <1>2, <1>3 DEF LedgerInv

\* Every step keeps the invariant.
LEMMA NextLedger ==
  ASSUME NEW pair, Clients(pair), LedgerInv(pair), [Next]_vars
  PROVE  LedgerInv(pair)'
<1>1. Inv(FALSE) /\ Accounted(pair) /\ Linked(pair) /\ LedgerKept
  BY DEF LedgerInv
<1>2. Inv(FALSE)'
  <2>1. PICK sound \in BOOLEAN : sound = FALSE
    OBVIOUS
  <2>2. Inv(sound) /\ Sound(sound)
    BY <1>1, <2>1 DEF Sound
  <2>3. Inv(sound)'
    BY <2>2, NextKept
  <2> QED
    BY <2>1, <2>3
<1>3. Accounted(pair)'
  BY <1>1, NextAccounted
<1>4. Linked(pair)'
  BY <1>1, NextLinked
<1>5. ASSUME NEW s \in RiskShards, NEW uid \in Users, NEW currency \in Currency,
             UidForThisHandler(s, uid)
      PROVE  Balanced(s, uid, {uid}, currency)'
  <2>1. PICK W : W = {uid}
    OBVIOUS
  <2>2. IsOnly(W, uid)
    BY <2>1 DEF IsOnly
  <2>3. Balanced(s, uid, W, currency)
    BY <1>1, <1>5, <2>1 DEF LedgerKept
  <2>4. Balanced(s, uid, W, currency)'
    <3>1. CASE Publish
      BY <1>1, <1>2, <1>3, <2>3, <3>1, PublishBalanced
    <3>2. ASSUME NEW t \in RiskShards, PreProcessSlot(t)
          PROVE  Balanced(s, uid, W, currency)'
      <4>1. PICK n, cmd, res, x : R1Step(t, n, cmd, res, x)
        BY <1>1, <3>2, R1Steps
      <4>2. CASE t = s
        BY <1>1, <1>2, <1>3, <1>5, <2>2, <2>3, <4>1, <4>2, R1OwnBalanced
      <4>3. CASE t # s
        BY <1>1, <1>2, <1>3, <1>5, <2>2, <2>3, <4>1, <4>3, R1OtherBalanced
      <4> QED
        BY <4>2, <4>3
    <3>3. CASE MatchSlot
      <4>1. PICK n, cmd, res, x : MeStep(n, cmd, res, x)
        BY <1>1, <3>3, MeSteps
      <4> QED
        BY <1>1, <1>2, <1>3, <1>5, <2>2, <2>3, <4>1, MeBalanced
    <3>4. ASSUME NEW t \in RiskShards, PostProcessSlot(t)
          PROVE  Balanced(s, uid, W, currency)'
      BY <1>1, <1>2, <1>3, <1>5, <2>2, <2>3, <3>4, PostBalanced
    <3>5. CASE Release
      BY <1>1, <1>2, <1>3, <2>3, <3>5, ReleaseBalanced
    <3>6. CASE UNCHANGED vars
      BY <2>3, <3>6 DEF vars, stages, router, history, Balanced, InBook, Wiped
    <3> QED
      BY <3>1, <3>2, <3>3, <3>4, <3>5, <3>6 DEF Next
  <2> QED
    BY <2>1, <2>4
<1>6. LedgerKept'
  BY <1>5 DEF LedgerKept
<1> QED
  BY <1>2, <1>3, <1>4, <1>6 DEF LedgerInv

\* The orders of a book, and those of them that are of the user.
OwnedOrders(orders, own, b, uid) ==
  orders = b["ASK"] \o b["BID"] /\ own = {o \in ToSet(orders) : o.uid = uid}

\* The orders hold as much as the ledger says.
HoldAsMuch(kept, b, W, currency) == OrderBalances(kept)[currency] = Held(b, W, currency)

\* What is in the orders of a user is what the ledger takes it for.
LEMMA OwnOrders ==
  ASSUME NEW b, IsBook(b), NEW uid, NEW currency \in Currency, NEW W, IsOnly(W, uid),
         NEW orders, NEW own, OwnedOrders(orders, own, b, uid)
  PROVE  HoldAsMuch(Kept(orders, own), b, W, currency)
<1>1. orders = b["ASK"] \o b["BID"] /\ own = {o \in ToSet(orders) : o.uid = uid}
  BY DEF OwnedOrders
<1>2. PICK S : S = Order("ASK") \cup Order("BID")
  OBVIOUS
<1>3. PICK w : w = HoldWeights(W, currency)
  OBVIOUS
<1>4. ASSUME NEW o \in S
      PROVE  /\ w[o] \in Int
             /\ o.uid # uid => w[o] = 0
             /\ o.uid = uid => w[o] = OrderBalance(o)[currency]
  <2>1. PICK a \in OrderAction : o \in Order(a) /\ o.action = a
    BY <1>2 DEF Order, OrderAction
  <2>2. /\ w[o] = Remaining(o) * RateOf(o, W, currency)
        /\ w[o] \in Int /\ RateOf(o, W, currency) \in Int
    BY <1>3, <2>1, HoldWeightIs
  <2>3. PICK n \in Int : n = Remaining(o)
    BY <2>1, RemainingIsNat
  <2>4. CASE o.uid # uid
    <3>1. RateOf(o, W, currency) = 0
      BY <2>4 DEF RateOf, IsOnly
    <3> QED
      BY <2>2, <2>3, <2>4, <3>1
  <2>5. CASE o.uid = uid
    <3>1. RateOf(o, W, currency) = LotHold(o.action, o.reserveBidPrice, currency)
      BY <2>5 DEF RateOf, IsOnly
    <3>2. currency = "base" \/ currency = "quote"
      BY DEF Currency
    <3>3. CASE a = "ASK" /\ currency = "base"
      <4>1. OrderBalance(o)[currency] = n * BaseScale
        BY <2>1, <2>3, <3>3 DEF OrderBalance, Amount, ZeroBalance, AmountAsk
      <4>2. LotHold(o.action, o.reserveBidPrice, currency) = BaseScale
        BY <2>1, <3>3 DEF LotHold
      <4> QED
        BY <2>2, <2>3, <2>5, <3>1, <4>1, <4>2
    <3>4. CASE a = "BID" /\ currency = "quote"
      <4>1. OrderBalance(o)[currency] = n * (o.reserveBidPrice * QuoteScale + TakerFee)
        BY <2>1, <2>3, <3>4 DEF OrderBalance, Amount, ZeroBalance, AmountBidTakerFee
      <4>2. LotHold(o.action, o.reserveBidPrice, currency)
              = o.reserveBidPrice * QuoteScale + TakerFee
        BY <2>1, <3>4 DEF LotHold
      <4> QED
        BY <2>2, <2>3, <2>5, <3>1, <4>1, <4>2
    <3>5. CASE ~ (a = "ASK" /\ currency = "base") /\ ~ (a = "BID" /\ currency = "quote")
      <4>1. a = "ASK" \/ a = "BID"
        BY DEF OrderAction
      <4>2. OrderBalance(o)[currency] = 0
        BY <2>1, <3>2, <3>5, <4>1 DEF OrderBalance, Amount, ZeroBalance
      <4>3. LotHold(o.action, o.reserveBidPrice, currency) = 0
        BY <2>1, <3>2, <3>5, <4>1 DEF LotHold
      <4> QED
        BY <2>2, <2>3, <2>5, <3>1, <4>2, <4>3
    <3> QED
      BY <3>3, <3>4, <3>5
  <2> QED
    BY <2>2, <2>4, <2>5
<1>5. Weighs(w, S)
  BY <1>4 DEF Weighs
<1>6. orders \in Seq(S) /\ Worth(orders, w) = Held(b, W, currency)
  <2>1. PICK x, y : x = b["ASK"] /\ y = b["BID"]
    OBVIOUS
  <2>2. x \in Seq(S) /\ y \in Seq(S)
    <3>1. "ASK" \in OrderAction /\ "BID" \in OrderAction
      BY DEF OrderAction
    <3>2. x \in Seq(Order("ASK")) /\ y \in Seq(Order("BID"))
      BY <2>1, <3>1, SideOfOrders
    <3>3. PICK A, B : A = Order("ASK") /\ B = Order("BID")
      OBVIOUS
    <3>4. (\A o \in A : o \in S) /\ (\A o \in B : o \in S)
      BY <1>2, <3>3
    <3>5. x \in Seq(A) /\ y \in Seq(B)
      BY <3>2, <3>3
    <3> QED
      BY <3>4, <3>5, SeqOfSubset
  <2>3. IsConcat(orders, x, y)
    BY <1>1, <2>1 DEF IsConcat
  <2>4. orders \in Seq(S) /\ Worth(orders, w) = Worth(x, w) + Worth(y, w)
    BY <1>5, <2>2, <2>3, WorthConcat
  <2> QED
    BY <1>3, <2>1, <2>4 DEF Held, BookWorth
<1>7. PICK kept : kept = Kept(orders, own)
  OBVIOUS
<1>8. PICK p : p = Part(orders, own, w)
  OBVIOUS
<1>9. kept \in Seq(S) /\ Worth(kept, w) = Total(p)
  <2>1. orders \in Seq(S)
    BY <1>6
  <2> QED
    BY <1>5, <1>7, <1>8, <2>1, KeptWorth
<1>10. p = Weighed(orders, w)
  <2>1. ASSUME NEW i \in DOMAIN orders
        PROVE  (IF orders[i] \in own THEN w[orders[i]] ELSE 0) = w[orders[i]]
    <3>1. PICK o : o = orders[i]
      OBVIOUS
    <3>2. o \in S /\ o \in ToSet(orders)
      <4>1. DOMAIN orders = 1 .. Len(orders)
        BY <1>6, LenProperties
      <4>2. i \in 1 .. Len(orders)
        BY <4>1
      <4> QED
        BY <1>6, <3>1, <4>2, ElementOfSeq DEF ToSet
    <3>3. o \notin own => o.uid # uid
      BY <1>1, <3>2
    <3> QED
      BY <1>4, <3>1, <3>2, <3>3
  <2> QED
    BY <1>8, <2>1 DEF Part, Weighed
<1>11. Worth(kept, w) = Held(b, W, currency)
  BY <1>6, <1>9, <1>10 DEF Worth
<1>12. kept \in Seq(S \cap own)
  BY <1>6, <1>7, KeptElements
<1>13. PICK g : g = [i \in DOMAIN kept |-> OrderBalance(kept[i])[currency]]
  OBVIOUS
<1>14. g = Weighed(kept, w)
  <2>1. ASSUME NEW i \in DOMAIN kept PROVE OrderBalance(kept[i])[currency] = w[kept[i]]
    <3>1. PICK T : T = S \cap own
      OBVIOUS
    <3>2. kept \in Seq(T)
      BY <1>12, <3>1
    <3>3. i \in 1 .. Len(kept)
      BY <3>2, LenProperties
    <3>4. kept[i] \in T
      BY <3>2, <3>3, ElementOfSeq
    <3>5. PICK o : o = kept[i]
      OBVIOUS
    <3>6. o \in S /\ o.uid = uid
      BY <1>1, <3>1, <3>4, <3>5
    <3> QED
      BY <1>4, <3>5, <3>6
  <2> QED
    BY <1>13, <2>1 DEF Weighed
<1>15. OrderBalances(kept)[currency] = Total(g)
  BY <1>13 DEF OrderBalances, SumBy
<1> QED
  BY <1>7, <1>11, <1>14, <1>15 DEF Worth, HoldAsMuch

\* In every state, what a user has in the account, in the orders of the book and in
\* the commands in flight is what is due, and the matching engine is to know the
\* pair exactly when the risk engines do.
THEOREM LedgerInvariance ==
  ASSUME NEW pair, Clients(pair)
  PROVE  Spec => []LedgerInv(pair)
<1>1. Init => LedgerInv(pair)
  BY InitLedger
<1>2. LedgerInv(pair) /\ [Next]_vars => LedgerInv(pair)'
  BY NextLedger
<1> QED
  BY <1>1, <1>2, PTL DEF Spec

\* While nothing is in flight, what a user has in the account and in resting orders
\* is what was paid in and traded for, to the unit, for any number of risk engines
\* and commands and in whatever order the stages take them: holds, refunds and
\* corrections of fees cancel out.  The clients trade the one pair in natural
\* numbers, without IOC_BUDGET bids, and send no user whose accounts R1 refuses.
THEOREM MoneyIsKept ==
  ASSUME NEW pair, Clients(pair)
  PROVE  Spec => []AccountsSettled
<1>1. Spec => []LedgerInv(pair)
  BY LedgerInvariance
<1>2. LedgerInv(pair) => AccountsSettled
  <2> SUFFICES ASSUME LedgerInv(pair), slots = <<>>, NEW uid \in Users, NEW currency \in Currency,
                      NEW orders, orders = book["ASK"] \o book["BID"],
                      NEW held, held = OrderBalances(Kept(orders, {o \in ToSet(orders) : o.uid = uid}))
               PROVE  Accounts(uid)[currency] + held[currency] = due[uid][currency]
    BY DEF AccountsSettled
  <2>1. Inv(FALSE) /\ Accounted(pair) /\ LedgerKept
    BY DEF LedgerInv
  <2>2. PICK s \in RiskShards : UidForThisHandler(s, uid)
    BY ShardOf
  <2>3. PICK W : W = {uid}
    OBVIOUS
  <2>4. IsOnly(W, uid) /\ Balanced(s, uid, W, currency)
    BY <2>1, <2>2, <2>3 DEF IsOnly, LedgerKept
  <2>5. Accounts(uid)[currency] = Balance(engines[s].profiles, uid, currency)
    BY <2>1, <2>2, AccountBalance
  <2>6. PICK own : own = {o \in ToSet(orders) : o.uid = uid}
    OBVIOUS
  <2>7. held[currency] = Held(book, W, currency)
    <3>1. IsBook(book)
      BY <2>1 DEF Accounted
    <3>2. OwnedOrders(orders, own, book, uid)
      BY <2>6 DEF OwnedOrders
    <3>3. HoldAsMuch(Kept(orders, own), book, W, currency)
      BY <2>4, <3>1, <3>2, OwnOrders
    <3> QED
      BY <2>6, <3>3 DEF HoldAsMuch
  <2>8. /\ me \in 0 .. Len(slots) /\ r1[s] \in me .. Len(slots)
        /\ me \in Int /\ r1[s] \in Int /\ r2[s] \in Int /\ Claimable(slots, me)
        /\ Balance(engines[s].profiles, uid, currency) \in Int
        /\ Held(book, W, currency) \in Int
    BY <2>1, LedgerNumbers
  <2>9. Len(slots) = 0
    BY EmptySeq
  <2>10. InBook(s, W, currency) = Held(book, W, currency)
    BY <2>8, <2>9 DEF InBook, Wiped
  <2>11. Total(Claims(slots, r1[s], me, r2[s], W, currency)) = 0
    <3>1. \A n \in 1 .. Len(slots) : Claim(slots[n], n, r1[s], me, r2[s], W, currency) = 0
      BY <2>9
    <3> QED
      BY <2>8, <3>1, NoClaims
  <2> QED
    BY <2>4, <2>5, <2>7, <2>8, <2>10, <2>11 DEF Balanced
<1> QED
  BY <1>1, <1>2, PTL
=============================================================================
