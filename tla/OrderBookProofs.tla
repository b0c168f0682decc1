-------------------------- MODULE OrderBookProofs --------------------------
(***************************************************************************)
(* Proofs about module OrderBook: its books are consistent, makers trade   *)
(* in their order, orders keep theirs, no command creates or loses volume, *)
(* and what a client is told of a command is true of the book.             *)
(***************************************************************************)
EXTENDS OrderBook, PriceTimeBookProofs

-----------------------------------------------------------------------------
(***************************************************************************)
(* The invariant and what follows from it.                                 *)
(***************************************************************************)
Inv == IsBook(book) /\ cmd.matcherEvent \in Seq(Event)

OtherId(S) == {pq \in S \X S : pq[1].orderId # pq[2].orderId}

\* As many ids as elements when no id repeats.
LEMMA IdsOf ==
  ASSUME NEW S, NEW u \in Seq(S), Related(u, OtherId(S))
  PROVE  Cardinality({o.orderId : o \in ToSet(u)}) = Len(u)
<1>1. Len(u) \in Nat /\ DOMAIN u = 1 .. Len(u)
  BY LenProperties
<1>2. PICK T : T = {o.orderId : o \in ToSet(u)}
  OBVIOUS
<1>3. PICK g : g = [i \in 1 .. Len(u) |-> u[i].orderId]
  OBVIOUS
<1>4. T = {u[i].orderId : i \in 1 .. Len(u)}
  BY <1>1, <1>2 DEF ToSet
<1>5. g \in [1 .. Len(u) -> T] /\ \A x \in T : \E i \in 1 .. Len(u) : g[i] = x
  BY <1>3, <1>4
<1>6. ASSUME NEW i \in 1 .. Len(u), NEW j \in 1 .. Len(u), g[i] = g[j]
      PROVE  i = j
  <2>1. ~ (i < j)
    <3> SUFFICES ASSUME i < j PROVE FALSE
      OBVIOUS
    <3>1. <<u[i], u[j]>> \in OtherId(S)
      BY DEF Related
    <3> QED
      BY <1>3, <1>6, <3>1 DEF OtherId
  <2>2. ~ (j < i)
    <3> SUFFICES ASSUME j < i PROVE FALSE
      OBVIOUS
    <3>1. <<u[j], u[i]>> \in OtherId(S)
      BY DEF Related
    <3> QED
      BY <1>3, <1>6, <3>1 DEF OtherId
  <2> QED
    BY <1>1, <2>1, <2>2
<1>7. g \in Bijection(1 .. Len(u), T)
  BY <1>5, <1>6 DEF Bijection, Injection, Surjection, IsInjective
<1>8. ExistsBijection(1 .. Len(u), T)
  BY <1>7 DEF ExistsBijection
<1>9. IsFiniteSet(1 .. Len(u)) /\ Cardinality(1 .. Len(u)) = Len(u)
  BY <1>1, NumbersTo
<1> QED
  BY <1>2, <1>8, <1>9, FS_Bijection

\* A book in the words of the model.
LEMMA BookIs ==
  ASSUME Inv
  PROVE  TypeOK /\ BookConsistent
<1> DEFINE S == Resting("ASK") \cup Resting("BID")
<1>1. "ASK" \in OrderAction /\ "BID" \in OrderAction /\ Opposite("ASK") = "BID"
  BY DEF OrderAction, Opposite
<1>2. IsBook(book)
  BY DEF Inv
<1>3. /\ book["ASK"] \in Seq(Resting("ASK")) /\ Related(book["ASK"], Queue("ASK"))
      /\ book["BID"] \in Seq(Resting("BID")) /\ Related(book["BID"], Queue("BID"))
      /\ AllApart("ASK", book["ASK"], book["BID"])
      /\ DOMAIN book = OrderAction
  BY <1>1, <1>2, BookSides
<1>4. \A o : o \in Orders(book) <=> Has(book["ASK"], o) \/ Has(book["BID"], o)
  BY <1>2, OrdersOf DEF Orders
<1>5. TypeOK
  <2>1. ASSUME NEW o \in Orders(book)
        PROVE  /\ o.orderId \in Nat /\ o.uid \in Nat /\ o.price \in Nat
               /\ o.filled \in Nat /\ o.size \in Nat /\ o.filled < o.size
    <3>1. o \in Resting("ASK") \/ o \in Resting("BID")
      BY <1>3, <1>4, OfSide
    <3> QED
      BY <3>1 DEF Resting, Order
  <2>2. cmd.matcherEvent \in Seq([eventType : {"TRADE", "REDUCE", "REJECT"},
          matchedOrderId : Nat, matchedOrderUid : Nat, price : Int, size : Nat,
          matchedOrderCompleted : BOOLEAN, activeOrderCompleted : BOOLEAN,
          bidderHoldPrice : Int])
    BY DEF Inv, Event
  <2> QED
    BY <1>3, <2>1, <2>2 DEF TypeOK
<1>6. ASSUME NEW a \in ToSet(book["ASK"]), NEW b \in ToSet(book["BID"])
      PROVE  b.price < a.price
  <2>1. Has(book["ASK"], a) /\ Has(book["BID"], b)
    BY <1>3, LenProperties DEF ToSet, Has
  <2>2. Apart("ASK", a, b)
    BY <1>3, <2>1 DEF AllApart
  <2>3. a.price \in Nat /\ b.price \in Nat
    BY <1>3, <2>1, OfSide
  <2> QED
    BY <2>2, <2>3 DEF Apart, Within
<1>7. ASSUME NEW side \in OrderAction, NEW i \in DOMAIN book[side],
             NEW j \in DOMAIN book[side], i < j
      PROVE  ~ Better(side, book[side][j].price, book[side][i].price)
  <2>1. book[side] \in Seq(Resting(side)) /\ Related(book[side], Queue(side))
    BY <1>2, BookSides
  <2>2. i \in 1 .. Len(book[side]) /\ j \in 1 .. Len(book[side])
    BY <2>1, LenProperties
  <2>3. <<book[side][i], book[side][j]>> \in Queue(side)
    BY <1>7, <2>1, <2>2 DEF Related
  <2> QED
    BY <2>3 DEF Queue
<1>8. Cardinality({o.orderId : o \in Orders(book)}) = Len(book["ASK"]) + Len(book["BID"])
  <2>1. \A o \in Resting("ASK") : o \in S
    OBVIOUS
  <2>2. \A o \in Resting("BID") : o \in S
    OBVIOUS
  <2> HIDE DEF S
  <2>3. PICK s \in Seq(S) : s = book["ASK"]
    BY <1>3, <2>1, SeqOfSubset
  <2>4. PICK t \in Seq(S) : t = book["BID"]
    BY <1>3, <2>2, SeqOfSubset
  <2>5. PICK R : R = OtherId(S)
    OBVIOUS
  <2>6. Related(s, R)
    <3> SUFFICES ASSUME NEW i \in 1 .. Len(s), NEW j \in 1 .. Len(s), i < j
                 PROVE  <<s[i], s[j]>> \in R
      BY DEF Related
    <3>1. <<s[i], s[j]>> \in Queue("ASK")
      BY <1>3, <2>3 DEF Related
    <3>2. s[i] \in S /\ s[j] \in S
      BY ElementOfSeq
    <3> QED
      BY <2>5, <3>1, <3>2 DEF Queue, OtherId
  <2>7. Related(t, R)
    <3> SUFFICES ASSUME NEW i \in 1 .. Len(t), NEW j \in 1 .. Len(t), i < j
                 PROVE  <<t[i], t[j]>> \in R
      BY DEF Related
    <3>1. <<t[i], t[j]>> \in Queue("BID")
      BY <1>3, <2>4 DEF Related
    <3>2. t[i] \in S /\ t[j] \in S
      BY ElementOfSeq
    <3> QED
      BY <2>5, <3>1, <3>2 DEF Queue, OtherId
  <2>8. ASSUME NEW i \in 1 .. Len(s), NEW j \in 1 .. Len(t)
        PROVE  <<s[i], t[j]>> \in R
    <3>1. Has(book["ASK"], s[i]) /\ Has(book["BID"], t[j])
      BY <2>3, <2>4 DEF Has
    <3>2. Apart("ASK", s[i], t[j])
      BY <1>3, <3>1 DEF AllApart
    <3>3. s[i] \in S /\ t[j] \in S
      BY ElementOfSeq
    <3> QED
      BY <2>5, <3>2, <3>3 DEF Apart, OtherId
  <2>9. PICK u : u = s \o t
    OBVIOUS
  <2>10. Related(s \o t, R)
    BY <2>6, <2>7, <2>8, ConcatRelated
  <2>11. u \in Seq(S) /\ Len(u) = Len(s) + Len(t)
    BY <2>9, ConcatProperties
  <2>12. Related(u, OtherId(S))
    BY <2>5, <2>9, <2>10
  <2>13. Cardinality({o.orderId : o \in ToSet(u)}) = Len(u)
    BY <2>11, <2>12, IdsOf
  <2>14. ToSet(u) = Orders(book)
    BY <2>3, <2>4, <2>9 DEF Orders
  <2> QED
    BY <2>3, <2>4, <2>11, <2>13, <2>14
<1> QED
  BY <1>5, <1>6, <1>7, <1>8 DEF BookConsistent

\* The empty book.
LEMMA InitInv == Init => Inv
<1> SUFFICES ASSUME Init PROVE Inv
  OBVIOUS
<1>1. DOMAIN book = OrderAction /\ \A side \in OrderAction : book[side] = <<>>
  BY DEF Init, EmptyBook
<1>2. ASSUME NEW side \in OrderAction PROVE SideSound(book, side)
  <2>1. book[side] \in Seq(Resting(side)) /\ Len(book[side]) = 0
    BY <1>1, EmptySeq
  <2> QED
    BY <2>1 DEF SideSound, Related
<1>3. SidesApart(book)
  <2> SUFFICES ASSUME NEW side \in OrderAction, NEW o, Has(book[side], o) PROVE FALSE
    BY DEF SidesApart, AllApart
  <2>1. Len(book[side]) = 0
    BY <1>1, EmptySeq
  <2> QED
    BY <2>1 DEF Has
<1>4. cmd.matcherEvent \in Seq(Event)
  BY EmptySeq DEF Init, NoCommand
<1> QED
  BY <1>1, <1>2, <1>3, <1>4 DEF Inv, IsBook

\* A command that may reach the book.
LEMMA CommandIsSlot ==
  ASSUME NEW c \in Commands
  PROVE  /\ BookSlot(c)
         /\ c.command = "PLACE_ORDER" =>
              c.size \in Nat /\ c.size >= 0 /\ c.resultCode # "SUCCESS"
  BY CommandsAssumption DEF Slots, BookSlot

\* What a step does.
LEMMA StepIs ==
  ASSUME Next
  PROVE  \E c \in Commands :
           /\ c.command \in {"PLACE_ORDER", "CANCEL_ORDER", "REDUCE_ORDER",
                             "MOVE_ORDER", "ORDER_BOOK_REQUEST"}
           /\ book' = ProcessCommand(book, c).book
           /\ cmd' = ProcessCommand(book, c).cmd
  BY DEF Next, Process

\* Every command keeps the invariant.
LEMMA NextInv == Inv /\ [Next]_vars => Inv'
<1> SUFFICES ASSUME Inv, [Next]_vars PROVE Inv'
  OBVIOUS
<1>1. CASE Next
  <2>1. PICK c \in Commands :
          /\ c.command \in {"PLACE_ORDER", "CANCEL_ORDER", "REDUCE_ORDER",
                            "MOVE_ORDER", "ORDER_BOOK_REQUEST"}
          /\ book' = ProcessCommand(book, c).book
          /\ cmd' = ProcessCommand(book, c).cmd
    BY <1>1, StepIs
  <2>2. PICK res : res = ProcessCommand(book, c)
    OBVIOUS
  <2>3. IsBook(book)
    BY DEF Inv
  <2>4. Effect(book, c, res)
    BY <2>1, <2>2, <2>3, CommandIsSlot, CommandOutcome
  <2>5. BookSlot(c) /\ (c.command = "PLACE_ORDER" => c.size \in Nat)
    BY CommandIsSlot
  <2>6. IsBook(res.book) /\ res.cmd.matcherEvent \in Seq(Event)
    BY <2>3, <2>4, <2>5, OutcomeIsBook
  <2> QED
    BY <2>1, <2>2, <2>6 DEF Inv
<1>2. CASE UNCHANGED vars
  BY <1>2 DEF vars, Inv
<1> QED
  BY <1>1, <1>2

\* The invariant holds in every state.
THEOREM Invariance == Spec => []Inv
  BY InitInv, NextInv, PTL DEF Spec

\* The book and the slot are well formed.
THEOREM TypeCorrectness == Spec => []TypeOK
<1>1. Inv => TypeOK
  BY BookIs
<1> QED
  BY <1>1, Invariance, PTL

\* No bid meets an ask, the sides are in price order and no id rests twice,
\* whatever commands reach the book.
THEOREM BookConsistency == Spec => []BookConsistent
<1>1. Inv => BookConsistent
  BY BookIs
<1> QED
  BY <1>1, Invariance, PTL

-----------------------------------------------------------------------------
(***************************************************************************)
(* Makers trade in their order.                                            *)
(***************************************************************************)

\* There is a trade with this order.
Trades(events, id) ==
  \E n \in DOMAIN events : events[n].eventType = "TRADE" /\ events[n].matchedOrderId = id

Traded(events, id) == \E m \in 1 .. Len(events) : events[m].matchedOrderId = id

\* The trades that a slot holds are those that matching made.
LEMMA TradesOfSlot ==
  ASSUME NEW c, BookSlot(c), NEW a, NEW taker, NEW match, NEW left \in Nat, NEW res,
         Leaves(c, a, taker, match, left, res), match.events \in Seq(Event),
         NEW id, Trades(res.cmd.matcherEvent, id)
  PROVE  Traded(match.events, id)
<1>1. PICK n \in DOMAIN res.cmd.matcherEvent :
        /\ res.cmd.matcherEvent[n].eventType = "TRADE"
        /\ res.cmd.matcherEvent[n].matchedOrderId = id
  BY DEF Trades
<1>2. CASE res.cmd.matcherEvent = match.events
  <2>1. n \in 1 .. Len(match.events)
    BY <1>1, <1>2, LenProperties
  <2> QED
    BY <1>1, <1>2, <2>1 DEF Traded
<1>3. CASE res.cmd.matcherEvent = <<RejectEvent(c, left)>> \o match.events
  <2>1. PICK e \in Event : e = RejectEvent(c, left)
    BY RejectsAreEvents
  <2>2. PICK s \in Seq(Event) : s = <<e>>
    <3>1. <<e>> \in Seq(Event)
      OBVIOUS
    <3> QED
      BY <3>1
  <2>3. PICK t \in Seq(Event) : t = match.events
    OBVIOUS
  <2>4. PICK u : IsConcat(u, s, t)
    BY DEF IsConcat
  <2>5. u \in Seq(Event) /\ \A i \in 1 .. Len(u) : Has(s, u[i]) \/ Has(t, u[i])
    BY <2>4, ConcatElements
  <2>6. res.cmd.matcherEvent = u
    BY <1>3, <2>1, <2>2, <2>3, <2>4 DEF IsConcat
  <2>7. n \in 1 .. Len(u)
    BY <1>1, <2>5, <2>6, LenProperties
  <2>8. ~ Has(s, u[n])
    <3>1. Len(s) = 1 /\ s[1] = e
      BY <2>2
    <3>2. e.eventType = "REJECT"
      BY <2>1 DEF RejectEvent, SingleEvent
    <3> QED
      BY <1>1, <2>6, <3>1, <3>2 DEF Has
  <2> QED
    BY <1>1, <2>3, <2>5, <2>6, <2>7, <2>8 DEF Has, Traded
<1>4. \/ res.cmd.matcherEvent = match.events
      \/ res.cmd.matcherEvent = <<RejectEvent(c, left)>> \o match.events
  BY DEF Leaves, Answers
<1> QED
  BY <1>2, <1>3, <1>4

\* What a taker meets: the book without the taker.
LEMMA BaseIs ==
  ASSUME NEW b, IsBook(b), NEW c, NEW a, NEW base, NEW taker, NEW volume,
         Takes(b, c, a, base, taker, volume)
  PROVE  /\ a \in OrderAction /\ a = taker.action /\ taker.reserveBidPrice \in Int
         /\ volume \in Nat /\ IsBook(base) /\ base[Opposite(a)] = b[Opposite(a)]
         /\ \A x : Has(base[a], x) => Has(b[a], x)
         /\ \A R : Related(b[a], R) => Related(base[a], R)
<1>1. /\ a \in OrderAction /\ a = taker.action /\ taker.reserveBidPrice \in Int
      /\ volume \in Nat /\ IsBook(base) /\ base[Opposite(a)] = b[Opposite(a)]
      /\ \/ base = b
         \/ OwnOrder(b, c, a, taker) /\ base = Without(b, taker)
  BY DEF Takes
<1>2. CASE OwnOrder(b, c, a, taker) /\ base = Without(b, taker)
  <2>1. Has(b[a], taker)
    BY <1>2 DEF OwnOrder
  <2>2. WithoutOrder(base[a], b[a], taker)
    BY <1>1, <1>2, <2>1, WithoutBook
  <2>3. PICK q \in Seq(Resting(a)) : q = b[a] /\ Related(q, Queue(a))
    BY <1>1, BookSides
  <2>4. PICK t : t = base[a] /\ WithoutOrder(t, q, taker)
    BY <2>2, <2>3
  <2>5. ASSUME NEW R, Related(q, R) PROVE Related(t, R)
    BY <1>1, <2>4, <2>5, WithoutKept
  <2>6. \A i \in 1 .. Len(t) : Has(q, t[i])
    BY <1>1, <2>3, <2>4, WithoutKept
  <2>7. \A x : Has(t, x) => Has(q, x)
    BY <2>6 DEF Has
  <2> QED
    BY <1>1, <2>3, <2>4, <2>5, <2>7
<1>3. CASE base = b
  BY <1>1, <1>3
<1> QED
  BY <1>1, <1>2, <1>3

\* When a maker trades, those before it are gone.
LEMMA MakersGone ==
  ASSUME NEW b, IsBook(b), NEW taker, NEW a \in OrderAction, a = taker.action,
         NEW volume \in Nat,
         NEW makers \in Seq(Resting(Opposite(a))), First(makers, b[Opposite(a)]),
         NEW match, NEW f, IsMatch(match, b, taker, volume, makers, f),
         NEW m \in 1 .. Len(makers), Share(f, m, volume) > 0,
         NEW i \in 1 .. Len(makers), i < m
  PROVE  NoneHas(match.book, makers[i].orderId)
<1>1. PICK opp \in OrderAction : opp = Opposite(a) /\ opp # a
  BY Sides
<1>2. PICK d : d = match.book
  OBVIOUS
<1>3. IsBook(d) /\ d[a] = b[a]
  BY <1>2, MatchedBook
<1>4. \A k \in 1 .. Len(d[Opposite(a)]) : \E l \in 1 .. Len(b[Opposite(a)]) :
        /\ Same(d[Opposite(a)][k], b[Opposite(a)][l])
        /\ l \in 1 .. Len(makers) => Share(f, l, volume) < Remaining(b[Opposite(a)][l])
  <2>1. Survive(d[Opposite(a)], b[Opposite(a)], Len(makers), f, volume)
    BY <1>2, MatchedBook
  <2> QED
    BY <2>1 DEF Survive
<1>5. makers[i] = b[opp][i] /\ i \in 1 .. Len(b[opp])
  <2>1. Len(makers) \in Nat /\ Len(b[opp]) \in Nat /\ Len(makers) <= Len(b[opp])
    <3>1. b[opp] \in Seq(Resting(opp))
      BY BookSides
    <3> QED
      BY <1>1, <3>1, LenProperties DEF First
  <2>2. makers[i] = b[opp][i]
    BY <1>1 DEF First
  <2> QED
    BY <2>1, <2>2
<1>6. Share(f, i, volume) = Remaining(b[opp][i]) /\ Remaining(b[opp][i]) \in Nat
  <2>1. \A o \in Resting(opp) : o \in Order(opp)
    BY DEF Resting
  <2>2. makers \in Seq(Order(opp))
    BY <1>1, <2>1, SeqOfSubset
  <2>3. Volumes(f, makers) /\ Running(f, makers)
    BY DEF IsMatch
  <2>4. Share(f, i, volume) = Remaining(makers[i]) /\ Remaining(makers[i]) \in Nat
    BY <2>2, <2>3, SharesInOrder
  <2> QED
    BY <1>5, <2>4
<1>7. NoneHas(d, b[opp][i].orderId)
  <2> SUFFICES ASSUME NEW s \in OrderAction, NEW x, Has(d[s], x),
                      x.orderId = b[opp][i].orderId
               PROVE  FALSE
    BY DEF NoneHas
  <2>1. CASE s = a
    <3>1. PICK k \in 1 .. Len(b[a]) : x = b[a][k]
      BY <1>3, <2>1 DEF Has
    <3>2. a = opp
      BY <1>5, <3>1, OnePlace
    <3> QED
      BY <1>1, <3>2
  <2>2. CASE s = opp
    <3>1. PICK k \in 1 .. Len(d[opp]) : x = d[opp][k]
      BY <2>2 DEF Has
    <3>2. PICK l \in 1 .. Len(b[opp]) :
            /\ Same(x, b[opp][l])
            /\ l \in 1 .. Len(makers) => Share(f, l, volume) < Remaining(b[opp][l])
      BY <1>1, <1>4, <3>1
    <3>3. b[opp][l].orderId = b[opp][i].orderId
      BY <3>2 DEF Same
    <3>4. l = i
      BY <1>5, <3>3, OnePlace
    <3> QED
      BY <1>6, <3>2, <3>4
  <2> QED
    BY <1>1, <2>1, <2>2, Sides
<1> QED
  BY <1>2, <1>5, <1>7

\* A rest adds one order and takes none away.
LEMMA RestHas ==
  ASSUME NEW d, IsBook(d), NEW a \in OrderAction, NEW order, MayRest(d, a, order),
         NEW e, e = Rest(d, order)
  PROVE  /\ IsBook(e) /\ e[Opposite(a)] = d[Opposite(a)]
         /\ \A x : Has(e[a], x) <=> x = order \/ Has(d[a], x)
         /\ WithOrder(e[a], a, d[a], order)
<1>1. /\ order \in Resting(a)
      /\ \A s \in OrderAction : \A x : Has(d[s], x) => x.orderId # order.orderId
      /\ \A x : Has(d[Opposite(a)], x) => ~ Within(a, order.price, x.price)
  BY DEF MayRest, NoneHas
<1> QED
  BY <1>1, RestedBook

\* Only a command that is executed trades.
LEMMA TradeExecuted ==
  ASSUME NEW b, NEW c, NEW res, Effect(b, c, res),
         NEW id, Trades(res.cmd.matcherEvent, id)
  PROVE  Executed(b, c, res)
<1>1. PICK n \in DOMAIN res.cmd.matcherEvent : res.cmd.matcherEvent[n].eventType = "TRADE"
  BY DEF Trades
<1>2. ASSUME NEW e, res.cmd.matcherEvent = <<e>> PROVE e.eventType = "TRADE"
  BY <1>1, <1>2
<1>3. res.cmd.matcherEvent # <<>>
  BY <1>1
<1>4. \A size : RejectEvent(c, size).eventType = "REJECT"
  BY DEF RejectEvent, SingleEvent
<1>5. \A o, size, completed : ReduceEvent(o, size, completed).eventType = "REDUCE"
  BY DEF ReduceEvent, SingleEvent
<1>6. ~ Unchanged(b, c, res)
  BY <1>2, <1>3, <1>4 DEF Unchanged, Answers
<1>7. ~ Removed(b, c, res)
  BY <1>2, <1>5 DEF Removed, Answers
<1>8. ~ Reduced(b, c, res)
  BY <1>2, <1>5 DEF Reduced, Answers
<1> QED
  BY <1>6, <1>7, <1>8 DEF Effect

\* When a maker trades, no order before it is left, except one with the number
\* of the command.
LEMMA FirstGone ==
  ASSUME NEW b, IsBook(b), NEW c, BookSlot(c), NEW res, Effect(b, c, res),
         NEW side \in OrderAction, NEW i \in 1 .. Len(b[side]), NEW j \in 1 .. Len(b[side]),
         i < j, Trades(res.cmd.matcherEvent, b[side][j].orderId),
         c.orderId # b[side][i].orderId
  PROVE  NoneHas(res.book, b[side][i].orderId)
<1>1. Executed(b, c, res)
  BY TradeExecuted
<1>2. PICK a, base, taker, volume, makers, match, f :
        /\ Takes(b, c, a, base, taker, volume)
        /\ makers \in Seq(Resting(Opposite(a))) /\ First(makers, base[Opposite(a)])
        /\ IsMatch(match, base, taker, volume, makers, f)
        /\ Leaves(c, a, taker, match, volume - match.filled, res)
  BY <1>1 DEF Executed
<1>3. /\ a \in OrderAction /\ a = taker.action /\ taker.reserveBidPrice \in Int
      /\ volume \in Nat /\ IsBook(base) /\ base[Opposite(a)] = b[Opposite(a)]
  BY <1>2, BaseIs
<1>4. makers \in Seq(Resting(Opposite(a))) /\ First(makers, base[Opposite(a)])
  BY <1>2
<1>5. IsMatch(match, base, taker, volume, makers, f)
  BY <1>2
<1>6. PICK d : d = match.book
  OBVIOUS
<1>7. IsBook(d) /\ match.filled \in Nat /\ match.filled <= volume
  BY <1>3, <1>4, <1>5, <1>6, MatchedBook
<1>8. PICK opp \in OrderAction : opp = Opposite(a) /\ opp # a
  BY <1>3, Sides
<1>9. PICK left \in Nat : left = volume - match.filled
  BY <1>3, <1>7
<1>10. Leaves(c, a, taker, match, left, res)
  BY <1>2, <1>9
<1>11. match.events \in Seq(Event)
  BY <1>3, <1>4, <1>5, TradesAreEvents
<1>12. PICK m \in 1 .. Len(match.events) : match.events[m].matchedOrderId = b[side][j].orderId
  <2>1. PICK id : id = b[side][j].orderId
    OBVIOUS
  <2>2. Trades(res.cmd.matcherEvent, id)
    BY <2>1
  <2>3. Traded(match.events, id)
    BY <1>9, <1>10, <1>11, <2>2, TradesOfSlot
  <2> QED
    BY <2>1, <2>3 DEF Traded
<1>13. /\ m \in 1 .. Len(makers) /\ Share(f, m, volume) > 0
       /\ match.events[m].matchedOrderId = makers[m].orderId
  <2>1. Len(match.events) \in 0 .. Len(makers)
    BY <1>3, <1>4, <1>5, TradesAreEvents
  <2>2. Len(makers) \in Nat
    BY <1>4, LenProperties
  <2>3. Share(f, m, volume) > 0
    BY <1>5 DEF IsMatch
  <2>4. match.events[m].matchedOrderId = makers[m].orderId
    <3>1. match.events[m] = Trade(taker, makers[m], m, f, volume)
      BY <1>5 DEF IsMatch
    <3> QED
      BY <3>1 DEF Trade, TradeEvent
  <2> QED
    BY <2>1, <2>2, <2>3, <2>4
<1>14. b[opp] \in Seq(Resting(opp))
  BY BookSides
<1>15. \A k \in 1 .. Len(makers) : k \in 1 .. Len(b[opp]) /\ makers[k] = b[opp][k]
  <2>1. Len(makers) \in Nat /\ Len(b[opp]) \in Nat
    BY <1>4, <1>14, LenProperties
  <2> QED
    BY <1>3, <1>4, <1>8, <2>1 DEF First
<1>16. side = opp /\ j = m
  <2>1. b[opp][m].orderId = b[side][j].orderId /\ m \in 1 .. Len(b[opp])
    BY <1>12, <1>13, <1>15
  <2> QED
    BY <2>1, OnePlace
<1>17. i \in 1 .. Len(makers) /\ i < m /\ makers[i] = b[side][i]
  <2>1. i \in 1 .. Len(makers)
    <3>1. Len(makers) \in Nat
      BY <1>4, LenProperties
    <3> QED
      BY <1>13, <1>16, <3>1
  <2> QED
    BY <1>15, <1>16, <2>1
<1>18. NoneHas(d, b[side][i].orderId)
  <2>1. NoneHas(match.book, makers[i].orderId)
    BY <1>3, <1>4, <1>5, <1>13, <1>17, MakersGone
  <2> QED
    BY <1>6, <1>17, <2>1
<1>19. ASSUME NEW order, MayRest(d, a, order), order.orderId = c.orderId,
              res.book = Rest(d, order)
       PROVE  NoneHas(res.book, b[side][i].orderId)
  <2>1. PICK e : e = Rest(d, order)
    OBVIOUS
  <2>2. e[Opposite(a)] = d[Opposite(a)]
    BY <1>3, <1>7, <1>19, <2>1, RestHas
  <2>3. ASSUME NEW x, Has(e[a], x) PROVE x = order \/ Has(d[a], x)
    BY <1>3, <1>7, <1>19, <2>1, <2>3, RestHas
  <2>4. NoneHas(e, b[side][i].orderId)
    <3> SUFFICES ASSUME NEW s \in OrderAction, NEW x, Has(e[s], x)
                 PROVE  x.orderId # b[side][i].orderId
      BY DEF NoneHas
    <3>1. CASE s = a
      BY <1>3, <1>18, <1>19, <2>3, <3>1 DEF NoneHas
    <3>2. CASE s = opp
      BY <1>8, <1>18, <2>2, <3>2 DEF NoneHas
    <3> QED
      BY <1>3, <1>8, <3>1, <3>2, Sides
  <2> QED
    BY <1>19, <2>1, <2>4
<1>20. \/ res.book = d
       \/ \E order : /\ MayRest(d, a, order) /\ order.orderId = c.orderId
                     /\ res.book = Rest(d, order)
  BY <1>6, <1>10 DEF Leaves
<1> QED
  BY <1>18, <1>19, <1>20

-----------------------------------------------------------------------------
(***************************************************************************)
(* Orders keep their order.                                                *)
(***************************************************************************)

\* Matching keeps what the makers are to each other.
LEMMA MatchedRelated ==
  ASSUME NEW b, IsBook(b), NEW taker, NEW a \in OrderAction, a = taker.action,
         NEW volume \in Nat,
         NEW makers \in Seq(Resting(Opposite(a))), First(makers, b[Opposite(a)]),
         NEW match, NEW f, IsMatch(match, b, taker, volume, makers, f),
         NEW R, Blind(R, Order(Opposite(a))), Related(b[Opposite(a)], R)
  PROVE  Related(match.book[Opposite(a)], R)
<1>1. PICK opp \in OrderAction : opp = Opposite(a)
  BY Sides
<1>2. PICK q \in Seq(Resting(opp)) : q = b[opp] /\ DOMAIN b = OrderAction
  BY <1>1, BookSides
<1>3. PICK t : IsAfter(t, q, Len(makers), f, volume)
  BY DEF IsAfter
<1>4. match.book = [b EXCEPT ![opp] = t]
  BY <1>1, <1>2, <1>3 DEF IsMatch, IsAfter
<1>5. match.book[opp] = t
  BY <1>2, <1>4
<1>6. Volumes(f, makers) /\ Running(f, makers)
  BY DEF IsMatch
<1>7. makers \in Seq(Resting(opp)) /\ First(makers, q) /\ Related(q, R) /\ Blind(R, Order(opp))
  BY <1>1, <1>2
<1>8. Related(t, R)
  BY <1>3, <1>6, <1>7, AfterKept
<1> QED
  BY <1>1, <1>5, <1>8

\* Replacing an order by one with its id and price keeps what the orders are to
\* each other.
LEMMA ReplacedRelated ==
  ASSUME NEW b, IsBook(b), NEW a \in OrderAction, NEW order, order.action = a,
         Has(b[a], order), NEW new \in Resting(a), Same(order, new),
         NEW d, d = Replace(b, order, new),
         NEW R, Blind(R, Order(a)), Related(b[a], R)
  PROVE  Related(d[a], R)
<1>1. IsBook(d) /\ Len(d[a]) = Len(b[a])
  BY ReplacedBook
<1>2. \A i \in 1 .. Len(b[a]) : d[a][i] = IF b[a][i] = order THEN new ELSE b[a][i]
  BY ReplacedBook
<1>3. b[a] \in Seq(Resting(a)) /\ d[a] \in Seq(Resting(a))
  BY <1>1, BookSides
<1>4. \A o \in Resting(a) : o \in Order(a)
  BY DEF Resting
<1> SUFFICES ASSUME NEW i \in 1 .. Len(b[a]), NEW j \in 1 .. Len(b[a]), i < j
             PROVE  <<d[a][i], d[a][j]>> \in R
  BY <1>1 DEF Related
<1>5. <<b[a][i], b[a][j]>> \in R
  BY DEF Related
<1>6. Same(b[a][i], d[a][i]) /\ Same(b[a][j], d[a][j])
  BY <1>2 DEF Same
<1>7. b[a][i] \in Order(a) /\ b[a][j] \in Order(a)
  BY <1>3, <1>4, ElementOfSeq
<1>8. d[a][i] \in Order(a) /\ d[a][j] \in Order(a)
  BY <1>1, <1>3, <1>4, ElementOfSeq
<1> QED
  BY <1>5, <1>6, <1>7, <1>8 DEF Blind

\* Where a command may put an order: the orders that it finds are of the book,
\* and all of the book unless it has moved one.
Welcome(b, c, res, side, R) ==
  \A q, order :
    (/\ order \in Resting(side) /\ order.orderId = c.orderId
     /\ Has(res.book[side], order)
     /\ q \in Seq(Resting(side))
     /\ \A x : Has(q, x) => (Has(b[side], x) /\ x.orderId # order.orderId)
     /\ (c.command # "MOVE_ORDER" => q = b[side]))
    => Fits(side, q, order, R)

\* What is left of an executed command rests where it is welcome.
LEMMA ExecutedRelated ==
  ASSUME NEW b, IsBook(b), NEW c, NEW res, Executed(b, c, res),
         NEW side \in OrderAction, NEW R, Blind(R, Order(side)), Related(b[side], R),
         Welcome(b, c, res, side, R)
  PROVE  Related(res.book[side], R)
<1>1. PICK a, base, taker, volume, makers, match, f :
        /\ Takes(b, c, a, base, taker, volume)
        /\ makers \in Seq(Resting(Opposite(a))) /\ First(makers, base[Opposite(a)])
        /\ IsMatch(match, base, taker, volume, makers, f)
        /\ Leaves(c, a, taker, match, volume - match.filled, res)
  BY DEF Executed
<1>2. /\ a \in OrderAction /\ a = taker.action /\ volume \in Nat
      /\ IsBook(base) /\ base[Opposite(a)] = b[Opposite(a)]
      /\ \A x : Has(base[a], x) => Has(b[a], x)
  BY <1>1, BaseIs
<1>3. Related(b[a], R) => Related(base[a], R)
  BY <1>1, BaseIs
<1>4. makers \in Seq(Resting(Opposite(a))) /\ First(makers, base[Opposite(a)])
  BY <1>1
<1>5. IsMatch(match, base, taker, volume, makers, f)
  BY <1>1
<1>6. PICK d : d = match.book
  OBVIOUS
<1>7. IsBook(d) /\ d[a] = base[a]
  BY <1>2, <1>4, <1>5, <1>6, MatchedBook
<1>8. Related(d[side], R)
  <2>1. CASE side = a
    BY <1>3, <1>7, <2>1
  <2>2. CASE side = Opposite(a)
    <3>1. Blind(R, Order(Opposite(a))) /\ Related(base[Opposite(a)], R)
      BY <1>2, <2>2
    <3>2. Related(match.book[Opposite(a)], R)
      BY <1>2, <1>4, <1>5, <3>1, MatchedRelated
    <3> QED
      BY <1>6, <2>2, <3>2
  <2> QED
    BY <1>2, <2>1, <2>2, Sides
<1>9. ASSUME NEW order, MayRest(d, a, order), order.orderId = c.orderId,
              res.book = Rest(d, order)
       PROVE  Related(res.book[side], R)
  <2>1. PICK e : e = Rest(d, order)
    OBVIOUS
  <2>2. e[Opposite(a)] = d[Opposite(a)] /\ WithOrder(e[a], a, d[a], order)
    BY <1>2, <1>7, <1>9, <2>1, RestHas
  <2>3. \A x : Has(e[a], x) <=> x = order \/ Has(d[a], x)
    BY <1>2, <1>7, <1>9, <2>1, RestHas
  <2>4. CASE side = Opposite(a)
    BY <1>8, <1>9, <2>1, <2>2, <2>4
  <2>5. CASE side = a
    <3>1. PICK q \in Seq(Resting(a)) : q = d[a] /\ Related(q, Queue(a))
      BY <1>2, <1>7, BookSides
    <3>2. order \in Resting(a) /\ \A x : Has(q, x) => x.orderId # order.orderId
      BY <1>2, <1>9, <3>1 DEF MayRest, NoneHas
    <3>3. \A x : Has(q, x) => Has(b[a], x)
      BY <1>2, <1>7, <3>1
    <3>4. c.command # "MOVE_ORDER" => q = b[a]
      BY <1>1, <1>7, <3>1 DEF Takes
    <3>5. Has(res.book[a], order)
      BY <1>9, <2>1, <2>3
    <3>6. Fits(a, q, order, R)
      BY <1>9, <2>5, <3>2, <3>3, <3>4, <3>5 DEF Welcome
    <3>7. PICK t : t = e[a] /\ WithOrder(t, a, q, order)
      BY <2>2, <3>1
    <3>8. Related(q, R)
      BY <1>8, <2>5, <3>1
    <3>9. Related(t, R)
      BY <1>2, <3>1, <3>2, <3>6, <3>7, <3>8, RestKept
    <3> QED
      BY <1>9, <2>1, <2>5, <3>7, <3>9
  <2> QED
    BY <1>2, <2>4, <2>5, Sides
<1>10. \/ res.book = d
       \/ \E order : /\ MayRest(d, a, order) /\ order.orderId = c.orderId
                     /\ res.book = Rest(d, order)
  BY <1>1, <1>6 DEF Leaves
<1> QED
  BY <1>8, <1>9, <1>10

\* A command keeps what the orders of a side are to each other.
LEMMA OutcomeRelated ==
  ASSUME NEW b, IsBook(b), NEW c, NEW res, Effect(b, c, res),
         NEW side \in OrderAction, NEW R, Blind(R, Order(side)), Related(b[side], R),
         Welcome(b, c, res, side, R)
  PROVE  Related(res.book[side], R)
<1>1. CASE Unchanged(b, c, res)
  BY <1>1 DEF Unchanged
<1>2. CASE Removed(b, c, res)
  <2>1. PICK a, order : OwnOrder(b, c, a, order) /\ res.book = Without(b, order)
    BY <1>2 DEF Removed
  <2>2. a \in OrderAction /\ order.action = a /\ Has(b[a], order)
    BY <2>1 DEF OwnOrder
  <2>3. PICK d : d = Without(b, order)
    OBVIOUS
  <2>4. d[Opposite(a)] = b[Opposite(a)] /\ WithoutOrder(d[a], b[a], order)
    BY <2>2, <2>3, WithoutBook
  <2>5. CASE side = a
    <3>1. PICK q \in Seq(Resting(a)) : q = b[a]
      BY <2>2, BookSides
    <3>2. PICK t : t = d[a] /\ WithoutOrder(t, q, order)
      BY <2>4, <3>1
    <3>3. Related(q, R)
      BY <2>5, <3>1
    <3>4. Related(t, R)
      BY <2>2, <3>2, <3>3, WithoutKept
    <3> QED
      BY <2>1, <2>3, <2>5, <3>2, <3>4
  <2>6. CASE side = Opposite(a)
    BY <2>1, <2>3, <2>4, <2>6
  <2> QED
    BY <2>2, <2>5, <2>6, Sides
<1>3. CASE Reduced(b, c, res)
  <2>1. PICK a, order, new : /\ OwnOrder(b, c, a, order) /\ new \in Resting(a)
                             /\ Same(order, new) /\ res.book = Replace(b, order, new)
    BY <1>3 DEF Reduced
  <2>2. a \in OrderAction /\ order.action = a /\ Has(b[a], order)
    BY <2>1 DEF OwnOrder
  <2>3. PICK d : d = Replace(b, order, new)
    OBVIOUS
  <2>4. new \in Resting(a) /\ Same(order, new)
    BY <2>1
  <2>5. CASE side = a
    <3>1. Blind(R, Order(a)) /\ Related(b[a], R)
      BY <2>5
    <3>2. Related(d[a], R)
      BY <2>2, <2>3, <2>4, <3>1, ReplacedRelated
    <3> QED
      BY <2>1, <2>3, <2>5, <3>2
  <2>6. CASE side = Opposite(a)
    <3>1. d[Opposite(a)] = b[Opposite(a)]
      BY <2>2, <2>3, <2>4, ReplacedBook
    <3> QED
      BY <2>1, <2>3, <2>6, <3>1
  <2> QED
    BY <2>2, <2>5, <2>6, Sides
<1>4. CASE Executed(b, c, res)
  BY <1>4, ExecutedRelated
<1> QED
  BY <1>1, <1>2, <1>3, <1>4 DEF Effect

\* No order with the first id comes before one with the second.
NotBefore(side, x, y) ==
  {pq \in Order(side) \X Order(side) : ~ (pq[1].orderId = x /\ pq[2].orderId = y)}

\* Orders with this id have this price.
Priced(q, id, price) == \A x : Has(q, x) /\ x.orderId = id => x.price = price

Moves(c, id) == c.command = "MOVE_ORDER" /\ c.orderId = id

\* A relation of ids and of the places they have in a book.
LEMMA NotBeforeIs ==
  ASSUME NEW b, IsBook(b), NEW side \in OrderAction,
         NEW i \in 1 .. Len(b[side]), NEW j \in 1 .. Len(b[side]), i < j,
         NEW R, R = NotBefore(side, b[side][j].orderId, b[side][i].orderId)
  PROVE  Blind(R, Order(side)) /\ Related(b[side], R)
<1>1. Blind(R, Order(side))
  BY DEF Blind, NotBefore, Same
<1>2. b[side] \in Seq(Resting(side))
  BY BookSides
<1>3. \A o \in Resting(side) : o \in Order(side)
  BY DEF Resting
<1>4. Related(b[side], R)
  <2> SUFFICES ASSUME NEW m \in 1 .. Len(b[side]), NEW n \in 1 .. Len(b[side]), m < n
               PROVE  <<b[side][m], b[side][n]>> \in R
    BY DEF Related
  <2>1. b[side][m] \in Order(side) /\ b[side][n] \in Order(side)
    BY <1>2, <1>3, ElementOfSeq
  <2>2. ~ (b[side][m].orderId = b[side][j].orderId /\ b[side][n].orderId = b[side][i].orderId)
    <3> SUFFICES ASSUME b[side][m].orderId = b[side][j].orderId,
                        b[side][n].orderId = b[side][i].orderId
                 PROVE  FALSE
      OBVIOUS
    <3>1. m = j
      BY OnePlace
    <3>2. n = i
      BY OnePlace
    <3>3. m \in Int /\ n \in Int
      OBVIOUS
    <3> QED
      BY <3>1, <3>2, <3>3
  <2> QED
    BY <2>1, <2>2 DEF NotBefore
<1> QED
  BY <1>1, <1>4

\* A moved order is welcome behind the orders of its new price, and a new one
\* everywhere.
LEMMA WelcomeIs ==
  ASSUME NEW b, IsBook(b), NEW c, NEW res, NEW side \in OrderAction,
         NEW i \in 1 .. Len(b[side]), NEW j \in 1 .. Len(b[side]), i < j,
         ~ Moves(c, b[side][i].orderId),
         \/ ~ Moves(c, b[side][j].orderId)
         \/ Priced(res.book[side], b[side][j].orderId, b[side][i].price),
         NEW R, R = NotBefore(side, b[side][j].orderId, b[side][i].orderId)
  PROVE  Welcome(b, c, res, side, R)
<1>1. PICK x, y : x = b[side][i] /\ y = b[side][j] /\ R = NotBefore(side, y.orderId, x.orderId)
  OBVIOUS
<1>2. b[side] \in Seq(Resting(side)) /\ \A o \in Resting(side) : o \in Order(side)
  BY BookSides DEF Resting
<1>3. x \in Order(side) /\ Has(b[side], x) /\ Has(b[side], y)
  BY <1>1, <1>2, ElementOfSeq DEF Has
<1>4. ASSUME NEW z, Has(b[side], z), z.orderId = x.orderId PROVE z = x
  <2>1. PICK k \in 1 .. Len(b[side]) : z = b[side][k]
    BY <1>4 DEF Has
  <2>2. k = i
    BY <1>1, <1>4, <2>1, OnePlace
  <2> QED
    BY <1>1, <2>1, <2>2
<1> SUFFICES ASSUME NEW q, NEW order,
                    order \in Resting(side), order.orderId = c.orderId,
                    Has(res.book[side], order), q \in Seq(Resting(side)),
                    \A z : Has(q, z) => (Has(b[side], z) /\ z.orderId # order.orderId),
                    c.command # "MOVE_ORDER" => q = b[side],
                    NEW k \in 1 .. Len(q)
             PROVE  IF Better(side, order.price, q[k].price)
                    THEN <<order, q[k]>> \in R ELSE <<q[k], order>> \in R
  BY DEF Welcome, Fits
<1>5. PICK z : z = q[k] /\ Has(q, z)
  BY DEF Has
<1>6. Has(b[side], z) /\ z.orderId # order.orderId
  BY <1>5
<1>7. order \in Order(side) /\ z \in Order(side) /\ order.price \in Nat /\ z.price \in Nat
  <2>1. z \in Order(side) /\ z.price \in Nat
    BY <1>5, OfSide
  <2>2. order \in Order(side)
    BY <1>2
  <2> QED
    BY <2>1, <2>2 DEF Order
<1>8. order.orderId # x.orderId
  BY <1>1, <1>3 DEF Moves
<1>9. <<z, order>> \in R
  BY <1>1, <1>7, <1>8 DEF NotBefore
<1>10. ASSUME Better(side, order.price, z.price) PROVE <<order, z>> \in R
  <2> SUFFICES ASSUME order.orderId = y.orderId, z.orderId = x.orderId PROVE FALSE
    BY <1>1, <1>7 DEF NotBefore
  <2>1. c.command = "MOVE_ORDER"
    BY <1>3
  <2>2. order.price = x.price
    BY <1>1, <2>1 DEF Moves, Priced
  <2>3. z = x
    BY <1>4, <1>6
  <2> QED
    BY <1>7, <1>10, <2>2, <2>3 DEF Better, OrderAction
<1> QED
  BY <1>5, <1>9, <1>10

\* The command c leaves the orders at i and j of q the prices they have, or
\* gives the one behind the price of the one ahead; m and n are their places in t.
Stay(c, q, t, i, j, m, n) ==
  /\ i \in 1 .. Len(q) /\ j \in 1 .. Len(q) /\ i < j
  /\ ~ Moves(c, q[i].orderId)
  /\ ~ Moves(c, q[j].orderId) \/ Priced(t, q[j].orderId, q[i].price)
  /\ m \in 1 .. Len(t) /\ n \in 1 .. Len(t)
  /\ t[m].orderId = q[i].orderId /\ t[n].orderId = q[j].orderId

\* Two orders that stay keep their order.
LEMMA OrderStays ==
  ASSUME NEW b, IsBook(b), NEW c, NEW res, Effect(b, c, res), IsBook(res.book),
         NEW side \in OrderAction, NEW i, NEW j, NEW m, NEW n,
         Stay(c, b[side], res.book[side], i, j, m, n)
  PROVE  m < n
<1>1. /\ i \in 1 .. Len(b[side]) /\ j \in 1 .. Len(b[side]) /\ i < j
      /\ ~ Moves(c, b[side][i].orderId)
      /\ \/ ~ Moves(c, b[side][j].orderId)
         \/ Priced(res.book[side], b[side][j].orderId, b[side][i].price)
      /\ m \in 1 .. Len(res.book[side]) /\ n \in 1 .. Len(res.book[side])
      /\ res.book[side][m].orderId = b[side][i].orderId
      /\ res.book[side][n].orderId = b[side][j].orderId
  BY DEF Stay
<1>2. PICK R : R = NotBefore(side, b[side][j].orderId, b[side][i].orderId)
  OBVIOUS
<1>3. Blind(R, Order(side)) /\ Related(b[side], R)
  BY <1>1, <1>2, NotBeforeIs
<1>4. Welcome(b, c, res, side, R)
  BY <1>1, <1>2, WelcomeIs
<1>5. Related(res.book[side], R)
  BY <1>3, <1>4, OutcomeRelated
<1>6. ~ (n < m)
  <2> SUFFICES ASSUME n < m PROVE FALSE
    OBVIOUS
  <2>1. <<res.book[side][n], res.book[side][m]>> \in R
    BY <1>1, <1>5 DEF Related
  <2> QED
    BY <1>1, <1>2, <2>1 DEF NotBefore
<1>7. m # n
  <2> SUFFICES ASSUME m = n PROVE FALSE
    OBVIOUS
  <2>1. b[side][i].orderId = b[side][j].orderId
    BY <1>1
  <2>2. i = j
    BY <1>1, <2>1, OnePlace
  <2> QED
    BY <1>1, <2>2
<1> QED
  BY <1>1, <1>6, <1>7

\* What a slot asks is in it afterwards.
LEMMA OutcomeAnswers ==
  ASSUME NEW b, NEW c, NEW res, Effect(b, c, res)
  PROVE  /\ res.cmd.command = c.command /\ res.cmd.orderId = c.orderId
         /\ res.cmd.size = c.size /\ res.cmd.price = c.price
         /\ res.cmd.orderType = c.orderType
         /\ c.command = "PLACE_ORDER" => res.cmd.action = c.action
<1>1. \E code, events : Answers(res.cmd, c, code, events)
  <2>1. CASE Unchanged(b, c, res)
    BY <2>1 DEF Unchanged
  <2>2. CASE Removed(b, c, res)
    BY <2>2 DEF Removed
  <2>3. CASE Reduced(b, c, res)
    BY <2>3 DEF Reduced
  <2>4. CASE Executed(b, c, res)
    <3>1. PICK a, taker, match, left : Leaves(c, a, taker, match, left, res)
      BY <2>4 DEF Executed
    <3> QED
      BY <3>1 DEF Leaves
  <2> QED
    BY <2>1, <2>2, <2>3, <2>4 DEF Effect
<1> QED
  BY <1>1 DEF Answers, SameFields

\* A step in terms of its outcome.
LEMMA StepOutcome ==
  ASSUME Inv, Next
  PROVE  \E c : BookSlot(c) /\
           /\ c.command = "PLACE_ORDER" => c.size \in Nat
           /\ \E res :
                /\ Effect(book, c, res) /\ IsBook(book) /\ IsBook(res.book)
                /\ book' = res.book /\ cmd' = res.cmd
<1>1. PICK c \in Commands :
        /\ c.command \in {"PLACE_ORDER", "CANCEL_ORDER", "REDUCE_ORDER",
                          "MOVE_ORDER", "ORDER_BOOK_REQUEST"}
        /\ book' = ProcessCommand(book, c).book
        /\ cmd' = ProcessCommand(book, c).cmd
  BY StepIs
<1>2. PICK res : res = ProcessCommand(book, c)
  OBVIOUS
<1>3. IsBook(book)
  BY DEF Inv
<1>4. Effect(book, c, res)
  BY <1>1, <1>2, <1>3, CommandIsSlot, CommandOutcome
<1>5. BookSlot(c) /\ (c.command = "PLACE_ORDER" => c.size \in Nat)
  BY CommandIsSlot
<1>6. IsBook(res.book)
  BY <1>3, <1>4, <1>5, OutcomeIsBook
<1> QED
  BY <1>1, <1>2, <1>3, <1>4, <1>5, <1>6

\* No maker trades while an order ahead of it keeps something: neither a better
\* price nor a greater age is passed over, whatever the command.
THEOREM PriorityOfMakers == Spec => MakersInPriority
<1> DEFINE Priority ==
      \A side \in OrderAction : \A i, j \in DOMAIN book[side] :
       LET traded(k) == \E n \in DOMAIN cmd'.matcherEvent :
             /\ cmd'.matcherEvent[n].eventType = "TRADE"
             /\ cmd'.matcherEvent[n].matchedOrderId = book[side][k].orderId
       IN (i < j /\ traded(j) /\ cmd'.orderId # book[side][i].orderId) =>
            \A o \in Orders(book') : o.orderId # book[side][i].orderId
<1>1. Inv /\ [Next]_vars => [Priority]_vars
  <2> SUFFICES ASSUME Inv, Next PROVE Priority
    OBVIOUS
  <2>1. PICK c : BookSlot(c) /\ \E res :
          /\ Effect(book, c, res) /\ IsBook(book) /\ IsBook(res.book)
          /\ book' = res.book /\ cmd' = res.cmd
    BY StepOutcome
  <2>2. PICK res : /\ Effect(book, c, res) /\ IsBook(book) /\ IsBook(res.book)
                   /\ book' = res.book /\ cmd' = res.cmd
    BY <2>1
  <2>3. ASSUME NEW side \in OrderAction, NEW i \in DOMAIN book[side],
               NEW j \in DOMAIN book[side], i < j,
               Trades(res.cmd.matcherEvent, book[side][j].orderId),
               res.cmd.orderId # book[side][i].orderId,
               NEW o \in Orders(res.book)
        PROVE  o.orderId # book[side][i].orderId
    <3>1. DOMAIN book[side] = 1 .. Len(book[side])
      BY <2>2, BookSides, LenProperties
    <3>2. i \in 1 .. Len(book[side]) /\ j \in 1 .. Len(book[side])
      BY <3>1
    <3>3. c.orderId # book[side][i].orderId
      BY <2>2, <2>3, OutcomeAnswers
    <3>4. NoneHas(res.book, book[side][i].orderId)
      BY <2>1, <2>2, <2>3, <3>2, <3>3, FirstGone
    <3>5. Has(res.book["ASK"], o) \/ Has(res.book["BID"], o)
      BY <2>2, OrdersOf DEF Orders
    <3> QED
      BY <3>4, <3>5 DEF NoneHas, OrderAction
  <2> QED
    BY <2>2, <2>3 DEF Trades
<1> QED
  BY <1>1, Invariance, PTL DEF MakersInPriority, Spec

\* Two orders that keep their prices keep their order, also when one of them is
\* reduced or partly filled, whatever the command.
THEOREM QueuesKept == Spec => QueueKept
<1> DEFINE Kept2 ==
      \A side \in OrderAction : \A i, j \in DOMAIN book[side] :
       LET place(k) == {n \in DOMAIN book'[side] :
                          book'[side][n].orderId = book[side][k].orderId}
           stays(k) == \/ cmd'.command # "MOVE_ORDER"
                       \/ cmd'.orderId # book[side][k].orderId
       IN (i < j /\ stays(i) /\ (stays(j) \/ \A n \in place(j) :
              book'[side][n].price = book[side][i].price))
            => \A m \in place(i), n \in place(j) : m < n
<1>1. Inv /\ [Next]_vars => [Kept2]_vars
  <2> SUFFICES ASSUME Inv, Next PROVE Kept2
    OBVIOUS
  <2>1. PICK c : BookSlot(c) /\ \E res :
          /\ Effect(book, c, res) /\ IsBook(book) /\ IsBook(res.book)
          /\ book' = res.book /\ cmd' = res.cmd
    BY StepOutcome
  <2>2. PICK res : /\ Effect(book, c, res) /\ IsBook(book) /\ IsBook(res.book)
                   /\ book' = res.book /\ cmd' = res.cmd
    BY <2>1
  <2>3. \A id : Moves(c, id) <=> ~ (res.cmd.command # "MOVE_ORDER" \/ res.cmd.orderId # id)
    BY <2>2, OutcomeAnswers DEF Moves
  <2>4. \A side \in OrderAction :
          /\ DOMAIN book[side] = 1 .. Len(book[side])
          /\ DOMAIN res.book[side] = 1 .. Len(res.book[side])
    BY <2>2, BookSides, LenProperties
  <2>5. ASSUME NEW side \in OrderAction, NEW i \in DOMAIN book[side],
               NEW j \in DOMAIN book[side], i < j,
               ~ Moves(c, book[side][i].orderId),
               \/ ~ Moves(c, book[side][j].orderId)
               \/ \A n \in DOMAIN res.book[side] :
                    res.book[side][n].orderId = book[side][j].orderId =>
                      res.book[side][n].price = book[side][i].price,
               NEW m \in DOMAIN res.book[side], NEW n \in DOMAIN res.book[side],
               res.book[side][m].orderId = book[side][i].orderId,
               res.book[side][n].orderId = book[side][j].orderId
        PROVE  m < n
    <3>1. /\ i \in 1 .. Len(book[side]) /\ j \in 1 .. Len(book[side])
          /\ m \in 1 .. Len(res.book[side]) /\ n \in 1 .. Len(res.book[side])
      BY <2>4
    <3>2. \/ ~ Moves(c, book[side][j].orderId)
          \/ Priced(res.book[side], book[side][j].orderId, book[side][i].price)
      BY <2>4, <2>5 DEF Priced, Has
    <3>3. Stay(c, book[side], res.book[side], i, j, m, n)
      BY <2>5, <3>1, <3>2 DEF Stay
    <3> QED
      BY <2>2, <2>5, <3>3, OrderStays
  <2> QED
    BY <2>2, <2>3, <2>5
<1> QED
  BY <1>1, Invariance, PTL DEF QueueKept, Spec

-----------------------------------------------------------------------------
(***************************************************************************)
(* Sizes of events.                                                        *)
(***************************************************************************)

\* The sizes of the events of some types, at their places.
Sizes(events, types) ==
  [i \in DOMAIN events |-> IF events[i].eventType \in types THEN events[i].size ELSE 0]

\* The places of a chain of events.
LEMMA SizesAre ==
  ASSUME NEW events \in Seq(Event), NEW types, NEW s, s = Sizes(events, types)
  PROVE  /\ Points(s, events) /\ Len(events) \in Nat
         /\ \A i \in 1 .. Len(events) :
              s[i] = IF events[i].eventType \in types THEN events[i].size ELSE 0
         /\ SizeOf(events, types) = Total(s)
         /\ Total(s) \in Int
<1>1. Len(events) \in Nat /\ DOMAIN events = 1 .. Len(events)
  BY LenProperties
<1>2. \A i \in 1 .. Len(events) : events[i] \in Event
  BY ElementOfSeq
<1>3. \A i \in 1 .. Len(events) : events[i].size \in Int
  <2>1. \A e \in Event : e.size \in Int
    BY DEF Event
  <2> QED
    BY <1>2, <2>1
<1>4. \A i \in 1 .. Len(events) :
        s[i] = IF events[i].eventType \in types THEN events[i].size ELSE 0
  BY <1>1 DEF Sizes
<1>5. s \in [1 .. Len(events) -> Int]
  BY <1>1, <1>3 DEF Sizes
<1>6. s \in Seq(Int) /\ Len(s) = Len(events)
  BY <1>1, <1>5, FunctionIsSeq
<1>7. SizeOf(events, types) = Total(s)
  BY DEF SizeOf, Sizes
<1>8. Total(s) \in Int
  BY <1>6, TotalIsInt
<1> QED
  BY <1>1, <1>4, <1>6, <1>7, <1>8 DEF Points

\* One chain after the other.
LEMMA SizeOfConcat ==
  ASSUME NEW s \in Seq(Event), NEW t \in Seq(Event), NEW u, IsConcat(u, s, t), NEW types
  PROVE  SizeOf(u, types) = SizeOf(s, types) + SizeOf(t, types)
<1>1. /\ u \in Seq(Event) /\ Len(u) = Len(s) + Len(t)
      /\ Len(s) \in Nat /\ Len(t) \in Nat
      /\ \A i \in 1 .. Len(s) : i \in 1 .. Len(u) /\ u[i] = s[i]
      /\ \A j \in 1 .. Len(t) : Len(s) + j \in 1 .. Len(u) /\ u[Len(s) + j] = t[j]
  BY ConcatElements
<1>2. PICK a : a = Sizes(s, types)
  OBVIOUS
<1>3. PICK b : b = Sizes(t, types)
  OBVIOUS
<1>4. PICK c : c = Sizes(u, types)
  OBVIOUS
<1>5. /\ Points(a, s)
      /\ \A i \in 1 .. Len(s) :
           a[i] = IF s[i].eventType \in types THEN s[i].size ELSE 0
      /\ SizeOf(s, types) = Total(a)
  BY <1>2, SizesAre
<1>6. /\ Points(b, t)
      /\ \A i \in 1 .. Len(t) :
           b[i] = IF t[i].eventType \in types THEN t[i].size ELSE 0
      /\ SizeOf(t, types) = Total(b)
  BY <1>3, SizesAre
<1>7. /\ Points(c, u)
      /\ \A i \in 1 .. Len(u) :
           c[i] = IF u[i].eventType \in types THEN u[i].size ELSE 0
      /\ SizeOf(u, types) = Total(c)
  BY <1>1, <1>4, SizesAre
<1>8. /\ a \in Seq(Int) /\ b \in Seq(Int) /\ c \in Seq(Int)
      /\ Len(a) = Len(s) /\ Len(b) = Len(t) /\ Len(c) = Len(u)
  BY <1>5, <1>6, <1>7 DEF Points
<1>9. Len(c) = Len(a) + Len(b)
  BY <1>1, <1>8
<1>10. \A i \in 1 .. Len(a) : c[i] = a[i]
  BY <1>1, <1>5, <1>7, <1>8
<1>11. \A j \in 1 .. Len(b) : c[Len(a) + j] = b[j]
  BY <1>1, <1>6, <1>7, <1>8
<1>12. Total(c) = Total(a) + Total(b)
  BY <1>8, <1>9, <1>10, <1>11, TotalOfConcat
<1> QED
  BY <1>5, <1>6, <1>7, <1>12

IsSingle(s, e) == s = <<e>>

\* One event.
LEMMA SizeOfOne ==
  ASSUME NEW e \in Event, NEW s, IsSingle(s, e), NEW types
  PROVE  /\ s \in Seq(Event)
         /\ SizeOf(s, types) = IF e.eventType \in types THEN e.size ELSE 0
<1>1. s \in Seq(Event) /\ Len(s) = 1 /\ s[1] = e
  BY DEF IsSingle
<1>2. PICK a : a = Sizes(s, types)
  OBVIOUS
<1>3. /\ Points(a, s)
      /\ \A i \in 1 .. Len(s) :
           a[i] = IF s[i].eventType \in types THEN s[i].size ELSE 0
      /\ SizeOf(s, types) = Total(a)
  BY <1>1, <1>2, SizesAre
<1>4. a \in Seq(Int) /\ Len(a) = 1
  BY <1>1, <1>3 DEF Points
<1>5. a[1] = IF e.eventType \in types THEN e.size ELSE 0
  BY <1>1, <1>3
<1>6. PICK l \in 1 .. Len(a) : l = 1
  BY <1>4
<1>7. \A i \in 1 .. Len(a) : i # l => a[i] = 0
  BY <1>4, <1>6
<1>8. Total(a) = a[l]
  BY <1>4, <1>7, TotalOfOne
<1> QED
  BY <1>1, <1>3, <1>5, <1>6, <1>8

\* No events of these types.
LEMMA SizeOfNone ==
  ASSUME NEW s \in Seq(Event), NEW types,
         \A i \in 1 .. Len(s) : s[i].eventType \notin types
  PROVE  SizeOf(s, types) = 0
<1>1. PICK a : a = Sizes(s, types)
  OBVIOUS
<1>2. /\ Points(a, s) /\ Len(s) \in Nat
      /\ \A i \in 1 .. Len(s) :
           a[i] = IF s[i].eventType \in types THEN s[i].size ELSE 0
      /\ SizeOf(s, types) = Total(a)
  BY <1>1, SizesAre
<1>3. a \in Seq(Int) /\ Len(a) = Len(s) /\ Len(a) \in Nat
  BY <1>2 DEF Points
<1>4. PICK b \in Seq(Int) : b = <<>> /\ Len(b) = 0
  BY EmptySeq
<1>5. Total(a) = Total(b)
  <2>1. Len(b) <= Len(a) /\ \A i \in 1 .. Len(b) : b[i] = a[i]
    BY <1>3, <1>4
  <2>2. \A i \in 1 .. Len(a) : i > Len(b) => a[i] = 0
    BY <1>2, <1>3
  <2> QED
    BY <1>3, <2>1, <2>2, TotalOfPadded
<1> QED
  BY <1>2, <1>4, <1>5, TotalOfNone

\* Matching trades what it fills, and returns nothing.
LEMMA TradedIs ==
  ASSUME NEW b, NEW taker, taker.reserveBidPrice \in Int, NEW volume \in Nat,
         NEW a, NEW makers \in Seq(Resting(a)),
         NEW match, NEW f, IsMatch(match, b, taker, volume, makers, f)
  PROVE  /\ match.events \in Seq(Event)
         /\ TradedSize(match.events) = match.filled /\ ReturnedSize(match.events) = 0
<1>1. /\ match.events \in Seq(Event)
      /\ Len(match.events) \in 0 .. Len(makers)
      /\ \A i \in 1 .. Len(match.events) :
           /\ Share(f, i, volume) > 0
           /\ match.events[i].eventType = "TRADE"
           /\ match.events[i].matchedOrderId = makers[i].orderId
           /\ match.events[i].size = Share(f, i, volume)
      /\ \A i \in 1 .. Len(makers) : i > Len(match.events) => Share(f, i, volume) = 0
  <2>1. match.events \in Seq(Event)
    BY TradesAreEvents
  <2>2. Len(match.events) \in 0 .. Len(makers)
    BY TradesAreEvents
  <2>3. ASSUME NEW i \in 1 .. Len(match.events)
        PROVE  /\ Share(f, i, volume) > 0
               /\ match.events[i].eventType = "TRADE"
               /\ match.events[i].matchedOrderId = makers[i].orderId
               /\ match.events[i].size = Share(f, i, volume)
    BY TradesAreEvents
  <2>4. ASSUME NEW i \in 1 .. Len(makers), i > Len(match.events)
        PROVE  Share(f, i, volume) = 0
    BY <2>4 DEF IsMatch
  <2> QED
    BY <2>1, <2>2, <2>3, <2>4
<1> DEFINE events == match.events
<1>2. /\ events \in Seq(Event)
      /\ Len(events) \in 0 .. Len(makers)
      /\ \A i \in 1 .. Len(events) :
           /\ events[i].eventType = "TRADE"
           /\ events[i].size = Share(f, i, volume)
      /\ \A i \in 1 .. Len(makers) : i > Len(events) => Share(f, i, volume) = 0
  BY <1>1
<1> HIDE DEF events
<1>3. ReturnedSize(events) = 0
  <2>1. PICK types : types = {"REDUCE", "REJECT"}
    OBVIOUS
  <2>2. \A i \in 1 .. Len(events) : events[i].eventType \notin types
    BY <1>2, <2>1
  <2>3. SizeOf(events, types) = 0
    BY <1>2, <2>2, SizeOfNone
  <2> QED
    BY <2>1, <2>3 DEF ReturnedSize
<1>4. PICK n \in Nat : n = Len(makers)
  BY LenProperties
<1>5. /\ Volumes(f, makers) /\ Running(f, makers)
      /\ match.filled = IF volume <= f[n] THEN volume ELSE f[n]
  BY <1>4 DEF IsMatch
<1>6. makers \in Seq(Order(a))
  <2>1. \A o \in Resting(a) : o \in Order(a)
    BY DEF Resting
  <2> QED
    BY <2>1, SeqOfSubset
<1>7. PICK g : /\ AreShares(g, n, f, volume)
               /\ Total(g) = IF volume <= f[n] THEN volume ELSE f[n]
  BY <1>4, <1>5, <1>6, SharesTotal
<1>8. g \in Seq(Int) /\ Len(g) = n /\ \A i \in 1 .. n : g[i] = Share(f, i, volume)
  BY <1>7 DEF AreShares
<1>9. PICK types : types = {"TRADE"}
  OBVIOUS
<1>10. PICK s : s = Sizes(events, types)
  OBVIOUS
<1>11. /\ Points(s, events) /\ Len(events) \in Nat
       /\ \A i \in 1 .. Len(events) :
            s[i] = IF events[i].eventType \in types THEN events[i].size ELSE 0
       /\ SizeOf(events, types) = Total(s)
  BY <1>2, <1>10, SizesAre
<1>12. s \in Seq(Int) /\ Len(s) = Len(events)
  BY <1>11 DEF Points
<1>13. Total(g) = Total(s)
  <2>1. Len(s) <= Len(g) /\ \A i \in 1 .. Len(s) : i \in 1 .. n
    BY <1>2, <1>4, <1>8, <1>12
  <2>2. \A i \in 1 .. Len(s) : s[i] = g[i]
    BY <1>2, <1>8, <1>9, <1>11, <1>12, <2>1
  <2>3. \A i \in 1 .. Len(g) : i > Len(s) => g[i] = 0
    BY <1>2, <1>4, <1>8, <1>12
  <2> QED
    BY <1>8, <1>12, <2>1, <2>2, <2>3, TotalOfPadded
<1> QED
  BY <1>2, <1>3, <1>5, <1>7, <1>9, <1>11, <1>13 DEF TradedSize, events

-----------------------------------------------------------------------------
(***************************************************************************)
(* Volumes of books.                                                       *)
(***************************************************************************)
BookVolume(b) == Volume(b["ASK"]) + Volume(b["BID"])

\* A lot is worth one.
LotWeights == [o \in Order("ASK") \cup Order("BID") |-> Remaining(o)]

LotRates == [o \in Order("ASK") \cup Order("BID") |-> 1]

\* These weights are what is left of an order times one.
LEMMA LotsWeigh == Weighing(LotWeights, LotRates)
<1>1. ASSUME NEW side \in OrderAction, NEW o \in Order(side)
      PROVE  /\ LotWeights[o] = Remaining(o) /\ LotRates[o] = 1
             /\ LotWeights[o] \in Int /\ LotRates[o] \in Int
             /\ LotWeights[o] = Remaining(o) * LotRates[o]
  <2>1. o \in Order("ASK") \cup Order("BID")
    BY DEF OrderAction
  <2>2. LotWeights[o] = Remaining(o) /\ LotRates[o] = 1
    BY <2>1 DEF LotWeights, LotRates
  <2>3. Remaining(o) \in Nat
    BY RemainingIsNat
  <2> QED
    BY <2>2, <2>3
<1>2. ASSUME NEW side \in OrderAction PROVE PerLot(LotWeights, LotRates, Order(side))
  BY <1>1 DEF PerLot
<1> QED
  BY <1>2 DEF Weighing

\* So the volume of a book is what it is worth.
LEMMA BookVolumeIsWorth ==
  ASSUME NEW b, IsBook(b)
  PROVE  BookVolume(b) = BookWorth(b, LotWeights) /\ BookVolume(b) \in Int
<1>1. ASSUME NEW side \in OrderAction
      PROVE  Volume(b[side]) = Worth(b[side], LotWeights)
  <2>1. PICK q : q = b[side]
    OBVIOUS
  <2>2. q \in Seq(Order(side))
    BY <2>1, SideOfOrders
  <2>3. ASSUME NEW i \in DOMAIN q PROVE LotWeights[q[i]] = Remaining(q[i])
    <3>1. q[i] \in Order("ASK") \cup Order("BID")
      BY <2>2, LenProperties, ElementOfSeq DEF OrderAction
    <3> QED
      BY <3>1 DEF LotWeights
  <2>4. [i \in DOMAIN q |-> LotWeights[q[i]]] = [i \in DOMAIN q |-> Remaining(q[i])]
    BY <2>3
  <2> QED
    BY <2>1, <2>4 DEF Volume, Worth, Weighed
<1>2. BookVolume(b) = BookWorth(b, LotWeights)
  BY <1>1 DEF BookVolume, BookWorth, OrderAction
<1>3. /\ BookWorth(b, LotWeights) = Worth(b["ASK"], LotWeights) + Worth(b[Opposite("ASK")], LotWeights)
      /\ Worth(b["ASK"], LotWeights) \in Int /\ Worth(b[Opposite("ASK")], LotWeights) \in Int
  BY LotsWeigh, WorthBySide DEF OrderAction
<1> QED
  BY <1>2, <1>3

\* What an order of a side is worth.
LEMMA LotWeightIs ==
  ASSUME NEW a \in OrderAction, NEW o \in Order(a)
  PROVE  LotWeights[o] = Remaining(o)
<1>1. o \in Order("ASK") \cup Order("BID")
  BY DEF OrderAction
<1> QED
  BY <1>1 DEF LotWeights

\* A book without an order.
LEMMA WithoutBookVolume ==
  ASSUME NEW b, IsBook(b), NEW a \in OrderAction, NEW order \in Order(a), order.action = a,
         Has(b[a], order), NEW c, c = Without(b, order)
  PROVE  BookVolume(b) = BookVolume(c) + Remaining(order) /\ BookVolume(c) \in Int
<1>1. IsBook(c)
  BY WithoutBook
<1>2. BookWorth(b, LotWeights) = BookWorth(c, LotWeights) + LotWeights[order]
  BY LotsWeigh, WithoutBookWorth
<1>3. LotWeights[order] = Remaining(order)
  BY LotWeightIs
<1>4. /\ BookVolume(b) = BookWorth(b, LotWeights)
      /\ BookVolume(c) = BookWorth(c, LotWeights) /\ BookVolume(c) \in Int
  BY <1>1, BookVolumeIsWorth
<1> QED
  BY <1>2, <1>3, <1>4

\* A book with an order in the place of another one.
LEMMA ReplacedBookVolume ==
  ASSUME NEW b, IsBook(b), NEW a \in OrderAction, NEW order, order.action = a,
         Has(b[a], order), NEW new \in Resting(a), Same(order, new),
         NEW by \in Nat, Remaining(new) = Remaining(order) - by,
         NEW c, c = Replace(b, order, new)
  PROVE  BookVolume(b) = BookVolume(c) + by /\ BookVolume(c) \in Int
<1>1. IsBook(c)
  BY ReplacedBook
<1>2. LotWeights[new] = LotWeights[order] - by
  <2>1. b[a] \in Seq(Resting(a))
    BY BookSides
  <2>2. order \in Order(a) /\ new \in Order(a)
    BY <2>1, OfSide DEF Resting
  <2> QED
    BY <2>2, LotWeightIs
<1>3. by \in Int
  OBVIOUS
<1>4. BookWorth(b, LotWeights) = BookWorth(c, LotWeights) + by
  BY <1>2, <1>3, LotsWeigh, ReplacedBookWorth
<1>5. /\ BookVolume(b) = BookWorth(b, LotWeights)
      /\ BookVolume(c) = BookWorth(c, LotWeights) /\ BookVolume(c) \in Int
  BY <1>1, BookVolumeIsWorth
<1> QED
  BY <1>4, <1>5

\* A book with an order more.
LEMMA RestedBookVolume ==
  ASSUME NEW b, IsBook(b), NEW a \in OrderAction, NEW order, MayRest(b, a, order),
         NEW c, c = Rest(b, order)
  PROVE  BookVolume(c) = BookVolume(b) + Remaining(order) /\ BookVolume(b) \in Int
<1>1. /\ order \in Resting(a) /\ order \in Order(a)
      /\ \A side \in OrderAction : \A x : Has(b[side], x) => x.orderId # order.orderId
      /\ \A x : Has(b[Opposite(a)], x) => ~ Within(a, order.price, x.price)
  BY DEF MayRest, NoneHas, Resting
<1>2. IsBook(c)
  BY <1>1, RestedBook
<1>3. BookWorth(c, LotWeights) = BookWorth(b, LotWeights) + LotWeights[order]
  BY LotsWeigh, RestedBookWorth
<1>4. LotWeights[order] = Remaining(order)
  BY <1>1, LotWeightIs
<1>5. /\ BookVolume(b) = BookWorth(b, LotWeights) /\ BookVolume(b) \in Int
      /\ BookVolume(c) = BookWorth(c, LotWeights)
  BY <1>2, BookVolumeIsWorth
<1> QED
  BY <1>3, <1>4, <1>5

\* A matched book.
LEMMA MatchedBookVolume ==
  ASSUME NEW b, IsBook(b), NEW taker, NEW a \in OrderAction, a = taker.action,
         NEW volume \in Nat,
         NEW makers \in Seq(Resting(Opposite(a))), First(makers, b[Opposite(a)]),
         NEW match, NEW f, IsMatch(match, b, taker, volume, makers, f),
         NEW c, c = match.book
  PROVE  /\ BookVolume(b) = BookVolume(c) + match.filled
         /\ BookVolume(c) \in Int /\ match.filled \in Nat /\ match.filled <= volume
<1>1. IsBook(c) /\ match.filled \in Nat /\ match.filled <= volume
  BY MatchedBook
<1>2. PICK g, y : /\ AreShares(g, Len(makers), f, volume) /\ Total(g) = match.filled
                  /\ Given(y, makers, LotRates, Len(makers), f, volume)
                  /\ BookWorth(b, LotWeights) = BookWorth(c, LotWeights) + Total(y)
  BY LotsWeigh, MatchedBookWorth
<1>3. y = g
  <2>1. /\ g \in Seq(Int) /\ Len(g) = Len(makers)
        /\ \A i \in 1 .. Len(makers) : g[i] = Share(f, i, volume)
    BY <1>2 DEF AreShares
  <2>2. /\ y \in Seq(Int) /\ Len(y) = Len(makers)
        /\ \A i \in 1 .. Len(makers) : y[i] = Share(f, i, volume) * LotRates[makers[i]]
    BY <1>2 DEF Given
  <2>3. ASSUME NEW i \in 1 .. Len(g) PROVE y[i] = g[i]
    <3>1. PICK o : o = makers[i]
      OBVIOUS
    <3>2. o \in Resting(Opposite(a)) /\ Opposite(a) \in OrderAction
      BY <2>1, <3>1, ElementOfSeq, Sides
    <3>3. LotRates[o] = 1
      BY <3>2 DEF LotRates, Resting, OrderAction
    <3>4. g[i] \in Int /\ y[i] = g[i] * LotRates[o]
      BY <2>1, <2>2, <3>1, ElementOfSeq
    <3> QED
      BY <3>3, <3>4
  <2> QED
    BY <2>1, <2>2, <2>3, SeqEqual
<1>4. /\ BookVolume(b) = BookWorth(b, LotWeights)
      /\ BookVolume(c) = BookWorth(c, LotWeights) /\ BookVolume(c) \in Int
  BY <1>1, BookVolumeIsWorth
<1> QED
  BY <1>1, <1>2, <1>3, <1>4

\* An event of one type.
LEMMA SizesOfOne ==
  ASSUME NEW e \in Event, NEW s, IsSingle(s, e)
  PROVE  /\ s \in Seq(Event)
         /\ e.eventType = "TRADE" => TradedSize(s) = e.size /\ ReturnedSize(s) = 0
         /\ e.eventType \in {"REDUCE", "REJECT"} => TradedSize(s) = 0 /\ ReturnedSize(s) = e.size
<1>1. PICK traded : traded = {"TRADE"}
  OBVIOUS
<1>2. PICK returned : returned = {"REDUCE", "REJECT"}
  OBVIOUS
<1>3. /\ s \in Seq(Event)
      /\ SizeOf(s, traded) = IF e.eventType \in traded THEN e.size ELSE 0
  BY SizeOfOne
<1>4. SizeOf(s, returned) = IF e.eventType \in returned THEN e.size ELSE 0
  BY SizeOfOne
<1>5. TradedSize(s) = SizeOf(s, traded) /\ ReturnedSize(s) = SizeOf(s, returned)
  BY <1>1, <1>2 DEF TradedSize, ReturnedSize
<1> QED
  BY <1>1, <1>2, <1>3, <1>4, <1>5

\* No events.
LEMMA SizesOfNone ==
  ASSUME NEW s, s = <<>>
  PROVE  TradedSize(s) = 0 /\ ReturnedSize(s) = 0
<1>1. PICK none \in Seq(Event) : none = <<>> /\ Len(none) = 0
  BY EmptySeq
<1>2. \A types : SizeOf(none, types) = 0
  <2> SUFFICES ASSUME NEW types PROVE SizeOf(none, types) = 0
    OBVIOUS
  <2>1. \A i \in 1 .. Len(none) : none[i].eventType \notin types
    BY <1>1
  <2> QED
    BY <2>1, SizeOfNone
<1> QED
  BY <1>1, <1>2 DEF TradedSize, ReturnedSize

\* A rejection by itself, and before the trades.
LEMMA SizesOfReject ==
  ASSUME NEW c, BookSlot(c), NEW size \in Nat, NEW events \in Seq(Event)
  PROVE  /\ TradedSize(<<RejectEvent(c, size)>>) = 0
         /\ ReturnedSize(<<RejectEvent(c, size)>>) = size
         /\ TradedSize(<<RejectEvent(c, size)>> \o events) = TradedSize(events)
         /\ ReturnedSize(<<RejectEvent(c, size)>> \o events) = size + ReturnedSize(events)
<1>1. PICK e \in Event : e = RejectEvent(c, size)
  BY RejectsAreEvents
<1>2. e.eventType = "REJECT" /\ e.size = size
  BY <1>1 DEF RejectEvent, SingleEvent
<1>3. PICK s : IsSingle(s, e)
  BY DEF IsSingle
<1>4. s \in Seq(Event) /\ TradedSize(s) = 0 /\ ReturnedSize(s) = size
  BY <1>2, <1>3, SizesOfOne
<1>5. PICK u : IsConcat(u, s, events)
  BY DEF IsConcat
<1>6. \A types : SizeOf(u, types) = SizeOf(s, types) + SizeOf(events, types)
  BY <1>4, <1>5, SizeOfConcat
<1>7. \A types : SizeOf(events, types) \in Int
  <2> SUFFICES ASSUME NEW types PROVE SizeOf(events, types) \in Int
    OBVIOUS
  <2>1. PICK x : x = Sizes(events, types)
    OBVIOUS
  <2> QED
    BY <2>1, SizesAre
<1>8. /\ TradedSize(u) = TradedSize(s) + TradedSize(events)
      /\ ReturnedSize(u) = ReturnedSize(s) + ReturnedSize(events)
  BY <1>6 DEF TradedSize, ReturnedSize
<1>9. TradedSize(events) \in Int /\ ReturnedSize(events) \in Int
  BY <1>7 DEF TradedSize, ReturnedSize
<1>10. TradedSize(u) = TradedSize(events) /\ ReturnedSize(u) = size + ReturnedSize(events)
  BY <1>4, <1>8, <1>9
<1>11. s = <<RejectEvent(c, size)>> /\ u = <<RejectEvent(c, size)>> \o events
  BY <1>1, <1>3, <1>5 DEF IsSingle, IsConcat
<1> QED
  BY <1>4, <1>10, <1>11

\* A reduction by itself.
LEMMA SizesOfReduce ==
  ASSUME NEW a, NEW order \in Order(a), NEW size \in Nat, NEW completed \in BOOLEAN
  PROVE  /\ TradedSize(<<ReduceEvent(order, size, completed)>>) = 0
         /\ ReturnedSize(<<ReduceEvent(order, size, completed)>>) = size
<1>1. order.price \in Int /\ order.reserveBidPrice \in Int
  BY DEF Order
<1>2. PICK e \in Event : e = ReduceEvent(order, size, completed)
  BY <1>1, SingleIsEvent DEF ReduceEvent
<1>3. e.eventType = "REDUCE" /\ e.size = size
  BY <1>2 DEF ReduceEvent, SingleEvent
<1>4. PICK s : IsSingle(s, e)
  BY DEF IsSingle
<1>5. TradedSize(s) = 0 /\ ReturnedSize(s) = size
  BY <1>3, <1>4, SizesOfOne
<1>6. s = <<ReduceEvent(order, size, completed)>>
  BY <1>2, <1>4 DEF IsSingle
<1> QED
  BY <1>5, <1>6

-----------------------------------------------------------------------------
(***************************************************************************)
(* No command creates or loses volume.                                     *)
(***************************************************************************)
Placed(answer) ==
  IF answer.command = "PLACE_ORDER" /\ answer.resultCode = "SUCCESS" THEN answer.size ELSE 0

Conserved(b, res) ==
  BookVolume(b) + Placed(res.cmd)
    = BookVolume(res.book) + 2 * TradedSize(res.cmd.matcherEvent)
      + ReturnedSize(res.cmd.matcherEvent)

\* The book stays as it is.
LEMMA UnchangedVolume ==
  ASSUME NEW b, IsBook(b), NEW c, BookSlot(c), c.command = "PLACE_ORDER" => c.size \in Nat,
         NEW res, Unchanged(b, c, res)
  PROVE  Conserved(b, res)
<1>1. PICK v \in Int : v = BookVolume(b)
  <2>1. PICK a \in OrderAction : a = "ASK"
    BY DEF OrderAction
  <2> QED
    BY BookVolumeIsWorth
<1>2. res.book = b
  BY DEF Unchanged
<1>3. CASE \E code : /\ Answers(res.cmd, c, code, <<>>)
                     /\ (c.command = "PLACE_ORDER" => code # "SUCCESS")
  <2>1. PICK events : events = <<>>
    OBVIOUS
  <2>2. res.cmd.matcherEvent = events /\ Placed(res.cmd) = 0
    BY <1>3, <2>1 DEF Answers, SameFields, Placed
  <2>3. TradedSize(events) = 0 /\ ReturnedSize(events) = 0
    BY <2>1, SizesOfNone
  <2> QED
    BY <1>1, <1>2, <2>2, <2>3 DEF Conserved
<1>4. CASE /\ c.command = "PLACE_ORDER"
           /\ Answers(res.cmd, c, "SUCCESS", <<RejectEvent(c, c.size)>>)
  <2>1. PICK n \in Nat : n = c.size
    BY <1>4
  <2>2. PICK events : events = <<RejectEvent(c, n)>>
    OBVIOUS
  <2>3. res.cmd.matcherEvent = events /\ Placed(res.cmd) = n
    BY <1>4, <2>1, <2>2 DEF Answers, SameFields, Placed
  <2>4. PICK none \in Seq(Event) : none = <<>>
    BY EmptySeq
  <2>5. TradedSize(<<RejectEvent(c, n)>>) = 0 /\ ReturnedSize(<<RejectEvent(c, n)>>) = n
    BY <2>4, SizesOfReject
  <2>6. TradedSize(events) = 0 /\ ReturnedSize(events) = n
    BY <2>2, <2>5
  <2> QED
    BY <1>1, <1>2, <2>3, <2>6 DEF Conserved
<1> QED
  BY <1>3, <1>4 DEF Unchanged

\* An order leaves.
LEMMA RemovedVolume ==
  ASSUME NEW b, IsBook(b), NEW c, NEW res, Removed(b, c, res)
  PROVE  Conserved(b, res)
<1>1. PICK a, order :
        /\ OwnOrder(b, c, a, order)
        /\ c.command # "PLACE_ORDER"
        /\ res.book = Without(b, order)
        /\ Answers(res.cmd, c, "SUCCESS", <<ReduceEvent(order, Remaining(order), TRUE)>>)
  BY DEF Removed
<1>2. /\ a \in OrderAction /\ order.action = a /\ Has(b[a], order)
      /\ order \in Order(a) /\ Remaining(order) \in Nat
  BY <1>1, RemainingIsNat DEF OwnOrder, Resting
<1>3. PICK d : d = Without(b, order)
  OBVIOUS
<1>4. BookVolume(b) = BookVolume(d) + Remaining(order) /\ BookVolume(d) \in Int
  BY <1>2, <1>3, WithoutBookVolume
<1>5. PICK r \in Nat, t \in BOOLEAN : r = Remaining(order) /\ t = TRUE
  BY <1>2
<1>6. PICK events : events = <<ReduceEvent(order, r, t)>>
  OBVIOUS
<1>7. TradedSize(<<ReduceEvent(order, r, t)>>) = 0 /\ ReturnedSize(<<ReduceEvent(order, r, t)>>) = r
  BY <1>2, SizesOfReduce
<1>8. TradedSize(events) = 0 /\ ReturnedSize(events) = r
  BY <1>6, <1>7
<1>9. res.book = d /\ res.cmd.matcherEvent = events /\ Placed(res.cmd) = 0
  BY <1>1, <1>3, <1>5, <1>6 DEF Answers, SameFields, Placed
<1>10. PICK v \in Int : v = BookVolume(d)
  BY <1>4
<1>11. BookVolume(b) = v + r
  BY <1>4, <1>5, <1>10
<1>12. (v + r) + 0 = v + 2 * 0 + r
  OBVIOUS
<1> QED
  BY <1>8, <1>9, <1>10, <1>11, <1>12 DEF Conserved

\* An order is reduced.
LEMMA ReducedVolume ==
  ASSUME NEW b, IsBook(b), NEW c, NEW res, Reduced(b, c, res)
  PROVE  Conserved(b, res)
<1>1. PICK a, order, new, by :
        /\ OwnOrder(b, c, a, order)
        /\ c.command # "PLACE_ORDER"
        /\ new \in Resting(a) /\ Same(order, new)
        /\ by \in Nat /\ Remaining(new) = Remaining(order) - by
        /\ res.book = Replace(b, order, new)
        /\ Answers(res.cmd, c, "SUCCESS", <<ReduceEvent(order, by, FALSE)>>)
  BY DEF Reduced
<1>2. /\ a \in OrderAction /\ order.action = a /\ Has(b[a], order) /\ order \in Order(a)
      /\ new \in Resting(a) /\ Same(order, new)
      /\ by \in Nat /\ Remaining(new) = Remaining(order) - by
  BY <1>1 DEF OwnOrder, Resting
<1>3. PICK d : d = Replace(b, order, new)
  OBVIOUS
<1>4. BookVolume(b) = BookVolume(d) + by /\ BookVolume(d) \in Int
  BY <1>2, <1>3, ReplacedBookVolume
<1>5. PICK r \in Nat, t \in BOOLEAN : r = by /\ t = FALSE
  BY <1>2
<1>6. PICK events : events = <<ReduceEvent(order, r, t)>>
  OBVIOUS
<1>7. TradedSize(<<ReduceEvent(order, r, t)>>) = 0 /\ ReturnedSize(<<ReduceEvent(order, r, t)>>) = r
  BY <1>2, SizesOfReduce
<1>8. TradedSize(events) = 0 /\ ReturnedSize(events) = r
  BY <1>6, <1>7
<1>9. res.book = d /\ res.cmd.matcherEvent = events /\ Placed(res.cmd) = 0
  BY <1>1, <1>3, <1>5, <1>6 DEF Answers, SameFields, Placed
<1>10. PICK v \in Int : v = BookVolume(d)
  BY <1>4
<1>11. BookVolume(b) = v + r
  BY <1>4, <1>5, <1>10
<1>12. (v + r) + 0 = v + 2 * 0 + r
  OBVIOUS
<1> QED
  BY <1>8, <1>9, <1>10, <1>11, <1>12 DEF Conserved

\* What a taker brings is the size of a placement, or out of the book.
LEMMA TakenVolume ==
  ASSUME NEW b, IsBook(b), NEW c, NEW a, NEW base, NEW taker, NEW volume,
         Takes(b, c, a, base, taker, volume),
         NEW answer, NEW events, Answers(answer, c, "SUCCESS", events)
  PROVE  BookVolume(b) + Placed(answer) = BookVolume(base) + volume
<1>1. CASE c.command = "PLACE_ORDER" /\ base = b /\ taker = c /\ volume = c.size
  <2>1. Placed(answer) = volume
    BY <1>1 DEF Answers, SameFields, Placed
  <2> QED
    BY <1>1, <2>1
<1>2. CASE /\ c.command = "MOVE_ORDER" /\ OwnOrder(b, c, a, taker)
           /\ base = Without(b, taker) /\ volume = Remaining(taker)
  <2>1. Placed(answer) = 0
    BY <1>2 DEF Answers, SameFields, Placed
  <2>2. a \in OrderAction /\ taker.action = a /\ Has(b[a], taker) /\ taker \in Order(a)
    BY <1>2 DEF OwnOrder, Resting
  <2>3. PICK d : d = Without(b, taker)
    OBVIOUS
  <2>4. BookVolume(b) = BookVolume(d) + Remaining(taker) /\ BookVolume(d) \in Int
    BY <2>2, <2>3, WithoutBookVolume
  <2>5. Remaining(taker) \in Nat
    BY <2>2, RemainingIsNat
  <2>6. PICK v \in Int, r \in Nat : v = BookVolume(d) /\ r = Remaining(taker)
    BY <2>4, <2>5
  <2>7. BookVolume(b) = v + r /\ BookVolume(base) = v /\ volume = r
    BY <1>2, <2>3, <2>4, <2>6
  <2>8. (v + r) + 0 = v + r
    BY <2>6
  <2> QED
    BY <2>1, <2>7, <2>8
<1> QED
  BY <1>1, <1>2 DEF Takes

\* What a match has traded and left in the book.
Amounts(match, filled, v) ==
  /\ IsBook(match.book) /\ v = BookVolume(match.book)
  /\ match.events \in Seq(Event)
  /\ TradedSize(match.events) = filled /\ ReturnedSize(match.events) = 0

\* What is left of a taker is returned, or rests.
LEMMA LeftVolume ==
  ASSUME NEW c, BookSlot(c), NEW a \in OrderAction, NEW taker, NEW match,
         NEW filled \in Nat, NEW v \in Int, Amounts(match, filled, v),
         NEW left \in Nat, NEW res, Leaves(c, a, taker, match, left, res)
  PROVE  BookVolume(res.book) + 2 * TradedSize(res.cmd.matcherEvent)
           + ReturnedSize(res.cmd.matcherEvent) = v + 2 * filled + left
<1>1. /\ IsBook(match.book) /\ v = BookVolume(match.book)
      /\ match.events \in Seq(Event)
      /\ TradedSize(match.events) = filled /\ ReturnedSize(match.events) = 0
  BY DEF Amounts
<1>2. CASE left = 0 /\ res.book = match.book /\ Answers(res.cmd, c, "SUCCESS", match.events)
  <2>1. /\ TradedSize(res.cmd.matcherEvent) = filled
        /\ ReturnedSize(res.cmd.matcherEvent) = 0
        /\ BookVolume(res.book) = v
    BY <1>1, <1>2 DEF Answers
  <2> QED
    BY <1>1, <1>2, <2>1
<1>3. CASE /\ res.book = match.book
           /\ Answers(res.cmd, c, "SUCCESS", <<RejectEvent(c, left)>> \o match.events)
  <2>1. PICK e \in Seq(Event) : e = match.events
    BY <1>1
  <2>2. PICK s : s = <<RejectEvent(c, left)>> \o e
    BY <1>1
  <2>3. /\ TradedSize(<<RejectEvent(c, left)>> \o e) = TradedSize(e)
        /\ ReturnedSize(<<RejectEvent(c, left)>> \o e) = left + ReturnedSize(e)
    BY <1>1, SizesOfReject
  <2>4. TradedSize(s) = filled /\ ReturnedSize(s) = left + 0
    BY <1>1, <2>1, <2>2, <2>3
  <2>5. res.cmd.matcherEvent = s /\ BookVolume(res.book) = v
    BY <1>1, <1>3, <2>1, <2>2 DEF Answers
  <2>6. v + 2 * filled + (left + 0) = v + 2 * filled + left
    BY <1>1
  <2> QED
    BY <1>1, <2>4, <2>5, <2>6
<1>4. CASE \E order : /\ MayRest(match.book, a, order) /\ Remaining(order) = left
                      /\ res.book = Rest(match.book, order)
                      /\ Answers(res.cmd, c, "SUCCESS", match.events)
  <2>1. PICK order : /\ MayRest(match.book, a, order) /\ Remaining(order) = left
                     /\ res.book = Rest(match.book, order)
                     /\ Answers(res.cmd, c, "SUCCESS", match.events)
    BY <1>1, <1>4
  <2>2. PICK d : d = match.book
    BY <1>1
  <2>3. PICK e : e = Rest(d, order)
    BY <1>1
  <2>4. IsBook(d) /\ MayRest(d, a, order)
    BY <1>1, <2>1, <2>2
  <2>5. BookVolume(e) = BookVolume(d) + Remaining(order)
    BY <1>1, <2>3, <2>4, RestedBookVolume
  <2>6. BookVolume(res.book) = v + left
    BY <1>1, <2>1, <2>2, <2>3, <2>5
  <2>7. /\ TradedSize(res.cmd.matcherEvent) = filled
        /\ ReturnedSize(res.cmd.matcherEvent) = 0
    BY <1>1, <2>1 DEF Answers
  <2>8. (v + left) + 2 * filled + 0 = v + 2 * filled + left
    BY <1>1
  <2> QED
    BY <1>1, <2>6, <2>7, <2>8
<1> QED
  BY <1>1, <1>2, <1>3, <1>4 DEF Leaves

\* A taker trades.
LEMMA ExecutedVolume ==
  ASSUME NEW b, IsBook(b), NEW c, BookSlot(c), NEW res, Executed(b, c, res)
  PROVE  Conserved(b, res)
<1>1. PICK a, base, taker, volume, makers, match, f :
        /\ Takes(b, c, a, base, taker, volume)
        /\ makers \in Seq(Resting(Opposite(a))) /\ First(makers, base[Opposite(a)])
        /\ IsMatch(match, base, taker, volume, makers, f)
        /\ Leaves(c, a, taker, match, volume - match.filled, res)
  BY DEF Executed
<1>2. /\ a \in OrderAction /\ a = taker.action /\ taker.reserveBidPrice \in Int
      /\ volume \in Nat /\ IsBook(base)
  BY <1>1 DEF Takes
<1>3. makers \in Seq(Resting(Opposite(a))) /\ First(makers, base[Opposite(a)])
  BY <1>1
<1>4. IsMatch(match, base, taker, volume, makers, f)
  BY <1>1
<1>5. PICK d : d = match.book
  OBVIOUS
<1>6. IsBook(d)
  BY <1>2, <1>3, <1>4, <1>5, MatchedBook
<1>7. /\ BookVolume(base) = BookVolume(d) + match.filled
      /\ BookVolume(d) \in Int /\ match.filled \in Nat /\ match.filled <= volume
  BY <1>2, <1>3, <1>4, <1>5, MatchedBookVolume
<1>8. /\ match.events \in Seq(Event)
      /\ TradedSize(match.events) = match.filled /\ ReturnedSize(match.events) = 0
  BY <1>2, <1>3, <1>4, TradedIs
<1>9. PICK filled \in Nat, left \in Nat, v \in Int :
        filled = match.filled /\ left = volume - match.filled /\ v = BookVolume(d)
  BY <1>2, <1>7
<1>10. Leaves(c, a, taker, match, left, res)
  BY <1>1, <1>9
<1>11. BookVolume(res.book) + 2 * TradedSize(res.cmd.matcherEvent)
         + ReturnedSize(res.cmd.matcherEvent) = v + 2 * filled + left
  <2>1. IsBook(match.book) /\ v = BookVolume(match.book)
    BY <1>5, <1>6, <1>9
  <2>2. TradedSize(match.events) = filled
    BY <1>8, <1>9
  <2> QED
    <3>1. a \in OrderAction
      BY <1>2
    <3>2. match.events \in Seq(Event) /\ ReturnedSize(match.events) = 0
      BY <1>8
    <3> QED
      <4>1. Amounts(match, filled, v)
        BY <2>1, <2>2, <3>2 DEF Amounts
      <4> QED
        BY <1>10, <3>1, <4>1, LeftVolume
<1>12. PICK events : Answers(res.cmd, c, "SUCCESS", events)
  BY <1>10 DEF Leaves
<1>13. BookVolume(b) + Placed(res.cmd) = BookVolume(base) + volume
  BY <1>1, <1>12, TakenVolume
<1>14. BookVolume(base) + volume = v + 2 * filled + left
  BY <1>2, <1>7, <1>9
<1> QED
  BY <1>11, <1>13, <1>14 DEF Conserved

\* No command creates or loses volume: whatever a placement brings is traded,
\* rejected or rests, and what leaves the book is reported.
THEOREM VolumesConserved == Spec => VolumeConserved
<1> DEFINE Volumes2 ==
      LET placed == IF /\ cmd'.command = "PLACE_ORDER"
                       /\ cmd'.resultCode = "SUCCESS"
                    THEN cmd'.size ELSE 0
      IN Volume(book["ASK"]) + Volume(book["BID"]) + placed
           = Volume(book'["ASK"]) + Volume(book'["BID"])
             + 2 * TradedSize(cmd'.matcherEvent)
             + ReturnedSize(cmd'.matcherEvent)
<1>1. Inv /\ [Next]_vars => [Volumes2]_vars
  <2> SUFFICES ASSUME Inv, Next PROVE Volumes2
    OBVIOUS
  <2>1. PICK c : BookSlot(c) /\
          /\ c.command = "PLACE_ORDER" => c.size \in Nat
          /\ \E res :
               /\ Effect(book, c, res) /\ IsBook(book) /\ IsBook(res.book)
               /\ book' = res.book /\ cmd' = res.cmd
    BY StepOutcome
  <2>2. PICK res : /\ Effect(book, c, res) /\ IsBook(book) /\ IsBook(res.book)
                   /\ book' = res.book /\ cmd' = res.cmd
    BY <2>1
  <2>3. Conserved(book, res)
    <3>1. CASE Unchanged(book, c, res)
      BY <2>1, <2>2, <3>1, UnchangedVolume
    <3>2. CASE Removed(book, c, res)
      BY <2>1, <2>2, <3>2, RemovedVolume
    <3>3. CASE Reduced(book, c, res)
      BY <2>1, <2>2, <3>3, ReducedVolume
    <3>4. CASE Executed(book, c, res)
      BY <2>1, <2>2, <3>4, ExecutedVolume
    <3> QED
      BY <2>2, <3>1, <3>2, <3>3, <3>4 DEF Effect
  <2> QED
    BY <2>2, <2>3 DEF Conserved, BookVolume, Placed
<1> QED
  BY <1>1, Invariance, PTL DEF VolumeConserved, Spec

-----------------------------------------------------------------------------
(***************************************************************************)
(* Budget orders.                                                          *)
(***************************************************************************)
FilledWhole(answer) ==
  /\ TradedSize(answer.matcherEvent) = answer.size /\ ReturnedSize(answer.matcherEvent) = 0
  /\ IF answer.action = "BID" THEN Cost(answer.matcherEvent) <= answer.price
     ELSE Cost(answer.matcherEvent) >= answer.price

ReturnedWhole(answer) ==
  ReturnedSize(answer.matcherEvent) = answer.size /\ TradedSize(answer.matcherEvent) = 0

\* A budget order that is not returned trades its whole size within the budget.
LEMMA BudgetFilled ==
  ASSUME NEW b, IsBook(b), NEW c, BookSlot(c), c.command = "PLACE_ORDER",
         c.orderType = "FOK_BUDGET", NEW res, Executed(b, c, res)
  PROVE  FilledWhole(res.cmd)
<1>1. PICK a, base, taker, volume, makers, match, f :
        /\ Takes(b, c, a, base, taker, volume)
        /\ makers \in Seq(Resting(Opposite(a))) /\ First(makers, base[Opposite(a)])
        /\ IsMatch(match, base, taker, volume, makers, f)
        /\ Leaves(c, a, taker, match, volume - match.filled, res)
        /\ BudgetLimitSatisfied(c.action, Cost(match.events), c.price)
  BY DEF Executed
<1>2. /\ a \in OrderAction /\ a = taker.action /\ taker.reserveBidPrice \in Int
      /\ volume \in Nat /\ IsBook(base) /\ volume = c.size
  BY <1>1 DEF Takes
<1>3. makers \in Seq(Resting(Opposite(a))) /\ First(makers, base[Opposite(a)])
  BY <1>1
<1>4. IsMatch(match, base, taker, volume, makers, f)
  BY <1>1
<1>5. PICK d : d = match.book
  OBVIOUS
<1>6. match.filled \in Nat
  BY <1>2, <1>3, <1>4, <1>5, MatchedBook
<1>7. TradedSize(match.events) = match.filled /\ ReturnedSize(match.events) = 0
  BY <1>2, <1>3, <1>4, TradedIs
<1>8. volume - match.filled = 0 /\ Answers(res.cmd, c, "SUCCESS", match.events)
  BY <1>1 DEF Leaves
<1>9. match.filled = c.size
  BY <1>2, <1>6, <1>8
<1>10. /\ res.cmd.matcherEvent = match.events /\ res.cmd.size = c.size
       /\ res.cmd.action = c.action /\ res.cmd.price = c.price
  BY <1>8 DEF Answers, SameFields
<1> QED
  BY <1>1, <1>7, <1>9, <1>10 DEF FilledWhole, BudgetLimitSatisfied

\* A budget order that leaves the book as it is, is returned whole.
LEMMA BudgetReturned ==
  ASSUME NEW b, NEW c, BookSlot(c), c.command = "PLACE_ORDER", c.size \in Nat,
         NEW res, Unchanged(b, c, res), res.cmd.resultCode = "SUCCESS"
  PROVE  ReturnedWhole(res.cmd) /\ res.book = b
<1>1. res.book = b
  BY DEF Unchanged
<1>2. Answers(res.cmd, c, "SUCCESS", <<RejectEvent(c, c.size)>>)
  BY DEF Unchanged, Answers
<1>3. PICK n \in Nat : n = c.size
  OBVIOUS
<1>4. PICK none \in Seq(Event) : none = <<>>
  BY EmptySeq
<1>5. TradedSize(<<RejectEvent(c, n)>>) = 0 /\ ReturnedSize(<<RejectEvent(c, n)>>) = n
  BY <1>4, SizesOfReject
<1>6. res.cmd.matcherEvent = <<RejectEvent(c, n)>> /\ res.cmd.size = n
  BY <1>2, <1>3 DEF Answers, SameFields
<1> QED
  BY <1>1, <1>5, <1>6 DEF ReturnedWhole

\* A budget order trades whole within its budget, or is returned whole and
\* leaves the book untouched.
THEOREM FilledOrKilled == Spec => FillOrKill
<1> DEFINE Budget ==
      (cmd'.command = "PLACE_ORDER" /\ cmd'.orderType = "FOK_BUDGET"
      /\ cmd'.resultCode = "SUCCESS") =>
       LET events == cmd'.matcherEvent
       IN \/ /\ TradedSize(events) = cmd'.size /\ ReturnedSize(events) = 0
             /\ IF cmd'.action = "BID" THEN Cost(events) <= cmd'.price
                ELSE Cost(events) >= cmd'.price
          \/ /\ ReturnedSize(events) = cmd'.size /\ TradedSize(events) = 0
             /\ book' = book
<1>1. Inv /\ [Next]_vars => [Budget]_vars
  <2> SUFFICES ASSUME Inv, Next PROVE Budget
    OBVIOUS
  <2>1. PICK c : BookSlot(c) /\
          /\ c.command = "PLACE_ORDER" => c.size \in Nat
          /\ \E res :
               /\ Effect(book, c, res) /\ IsBook(book) /\ IsBook(res.book)
               /\ book' = res.book /\ cmd' = res.cmd
    BY StepOutcome
  <2>2. PICK res : /\ Effect(book, c, res) /\ IsBook(book) /\ IsBook(res.book)
                   /\ book' = res.book /\ cmd' = res.cmd
    BY <2>1
  <2>3. ASSUME res.cmd.command = "PLACE_ORDER", res.cmd.orderType = "FOK_BUDGET",
               res.cmd.resultCode = "SUCCESS"
        PROVE  FilledWhole(res.cmd) \/ (ReturnedWhole(res.cmd) /\ res.book = book)
    <3>1. c.command = "PLACE_ORDER" /\ c.orderType = "FOK_BUDGET"
      BY <2>2, <2>3, OutcomeAnswers
    <3>2. CASE Unchanged(book, c, res)
      BY <2>1, <2>3, <3>1, <3>2, BudgetReturned
    <3>3. CASE Executed(book, c, res)
      BY <2>1, <2>2, <3>1, <3>3, BudgetFilled
    <3>4. ~ Removed(book, c, res) /\ ~ Reduced(book, c, res)
      BY <3>1 DEF Removed, Reduced
    <3> QED
      BY <2>2, <3>2, <3>3, <3>4 DEF Effect
  <2> QED
    BY <2>2, <2>3 DEF FilledWhole, ReturnedWhole
<1> QED
  BY <1>1, Invariance, PTL DEF FillOrKill, Spec
-----------------------------------------------------------------------------
(***************************************************************************)
(* What a client is told.                                                  *)
(***************************************************************************)
IsTrades(t) == t \in Seq(Event) /\ \A i \in 1 .. Len(t) : t[i].eventType = "TRADE"

\* One event before others.
IsBefore(u, e, t) == u = <<e>> \o t

\* What is in it.
LEMMA BeforeIs ==
  ASSUME NEW S, NEW e \in S, NEW t \in Seq(S), NEW u, IsBefore(u, e, t)
  PROVE  /\ u \in Seq(S) /\ u # <<>> /\ Len(t) \in Nat /\ Len(u) = Len(t) + 1 /\ u[1] = e
         /\ \A i \in 1 .. Len(t) : u[i + 1] = t[i]
<1>1. PICK s \in Seq(S) : s = <<e>> /\ Len(s) = 1 /\ s[1] = e
  <2>1. <<e>> \in Seq(S) /\ Len(<<e>>) = 1 /\ <<e>>[1] = e
    OBVIOUS
  <2> QED
    BY <2>1
<1>2. IsConcat(u, s, t)
  BY <1>1 DEF IsBefore, IsConcat
<1>3. /\ u \in Seq(S) /\ Len(u) = Len(s) + Len(t) /\ Len(t) \in Nat
      /\ \A i \in 1 .. Len(s) : i \in 1 .. Len(u) /\ u[i] = s[i]
      /\ \A j \in 1 .. Len(t) : Len(s) + j \in 1 .. Len(u) /\ u[Len(s) + j] = t[j]
  BY <1>2, ConcatElements
<1>4. u[1] = e /\ Len(u) = Len(t) + 1
  BY <1>1, <1>3
<1>5. ASSUME NEW i \in 1 .. Len(t) PROVE u[i + 1] = t[i]
  <2>1. u[1 + i] = t[i]
    BY <1>1, <1>3
  <2> QED
    BY <1>3, <2>1
<1>6. u # <<>>
  BY <1>3, <1>4
<1> QED
  BY <1>3, <1>4, <1>5, <1>6

\* The trades of a chain and its rejection.
LEMMA TypesOf ==
  ASSUME NEW t, IsTrades(t)
  PROVE  /\ OfType(t, "TRADE") = t /\ OfType(t, "REJECT") = <<>>
         /\ \A e \in Event : \A u : (e.eventType = "REJECT" /\ IsBefore(u, e, t)) =>
              OfType(u, "TRADE") = t /\ OfType(u, "REJECT") = <<e>>
<1>1. /\ t \in Seq(Event) /\ Len(t) \in Nat /\ DOMAIN t = 1 .. Len(t)
      /\ \A i \in 1 .. Len(t) : t[i].eventType = "TRADE" /\ t[i] \in Event
  BY LenProperties, ElementOfSeq DEF IsTrades
<1> DEFINE K(u, type) == {e \in ToSet(u) : e.eventType = type}
<1>2. ASSUME NEW u \in Seq(Event), NEW i \in 1 .. Len(u), NEW type
      PROVE  u[i] \in K(u, type) <=> u[i].eventType = type
  <2>1. DOMAIN u = 1 .. Len(u)
    BY LenProperties
  <2>2. u[i] \in ToSet(u)
    BY <2>1 DEF ToSet
  <2> QED
    BY <2>2
<1>3. OfType(t, "TRADE") = t
  <2>1. PICK C : C = K(t, "TRADE")
    OBVIOUS
  <2>2. PICK k : k = Kept(t, C)
    OBVIOUS
  <2>3. \A i \in 1 .. Len(t) : t[i] \in C
    BY <1>1, <1>2, <2>1
  <2>4. /\ k \in Seq(Event) /\ Len(k) \in 0 .. Len(t) /\ \A i \in 1 .. Len(k) : k[i] = t[i]
        /\ \A i \in 1 .. Len(t) : i > Len(k) => t[i] \notin C
    BY <1>1, <2>2, <2>3, KeptPrefix
  <2>5. Len(k) = Len(t)
    BY <1>1, <2>3, <2>4
  <2>6. k = t
    BY <1>1, <2>4, <2>5, SeqEqual
  <2> QED
    BY <2>1, <2>2, <2>6 DEF OfType
<1>4. OfType(t, "REJECT") = <<>>
  <2>1. PICK C : C = K(t, "REJECT")
    OBVIOUS
  <2>2. PICK k : k = Kept(t, C)
    OBVIOUS
  <2>3. \A i \in 1 .. Len(t) : t[i] \notin C
    BY <1>1, <1>2, <2>1
  <2>4. k \in Seq(Event) /\ Len(k) \in 0 .. Len(t) /\ \A i \in 1 .. Len(k) : t[i] \in C
    BY <1>1, <2>2, <2>3, KeptPrefix
  <2>5. Len(k) = 0
    BY <1>1, <2>3, <2>4
  <2>6. k = <<>>
    BY <2>4, <2>5, EmptySeq
  <2> QED
    BY <2>1, <2>2, <2>6 DEF OfType
<1>5. ASSUME NEW e \in Event, NEW u, e.eventType = "REJECT", IsBefore(u, e, t)
      PROVE  OfType(u, "TRADE") = t /\ OfType(u, "REJECT") = <<e>>
  <2>1. /\ u \in Seq(Event) /\ u # <<>> /\ Len(u) = Len(t) + 1 /\ u[1] = e
        /\ \A i \in 1 .. Len(t) : u[i + 1] = t[i]
    BY <1>1, <1>5, BeforeIs
  <2>2. \A i \in 2 .. Len(u) : u[i].eventType = "TRADE" /\ i \in 1 .. Len(u)
    <3> SUFFICES ASSUME NEW i \in 2 .. Len(u)
                 PROVE  u[i].eventType = "TRADE" /\ i \in 1 .. Len(u)
      OBVIOUS
    <3>1. PICK j \in 1 .. Len(t) : i = j + 1
      <4>1. i - 1 \in 1 .. Len(t) /\ i = (i - 1) + 1
        BY <1>1, <2>1
      <4> QED
        BY <4>1
    <3> QED
      BY <1>1, <2>1, <3>1
  <2>3. 1 \in 1 .. Len(u)
    BY <1>1, <2>1
  <2>4. OfType(u, "TRADE") = t
    <3>1. PICK C : C = K(u, "TRADE")
      OBVIOUS
    <3>2. PICK k : KeptFrom(k, u, C)
      BY DEF KeptFrom
    <3>3. u[1] \notin C /\ \A i \in 2 .. Len(u) : u[i] \in C
      BY <1>2, <1>5, <2>1, <2>2, <2>3, <3>1
    <3>4. k \in Seq(Event) /\ Len(k) = Len(u) - 1 /\ \A i \in 1 .. Len(k) : k[i] = u[i + 1]
      BY <2>1, <3>2, <3>3, KeptButFirst
    <3>5. Len(k) = Len(t) /\ \A i \in 1 .. Len(k) : k[i] = t[i]
      BY <1>1, <2>1, <3>4
    <3>6. k = t
      BY <1>1, <3>4, <3>5, SeqEqual
    <3> QED
      BY <3>1, <3>2, <3>6 DEF OfType, KeptFrom
  <2>5. OfType(u, "REJECT") = <<e>>
    <3>1. PICK C : C = K(u, "REJECT")
      OBVIOUS
    <3>2. PICK k : k = Kept(u, C)
      OBVIOUS
    <3>3. u[1] \in C /\ \A i \in 2 .. Len(u) : u[i] \notin C
      BY <1>2, <1>5, <2>1, <2>2, <2>3, <3>1
    <3>4. \A i, j \in 1 .. Len(u) : i < j /\ u[j] \in C => u[i] \in C
      <4> SUFFICES ASSUME NEW i \in 1 .. Len(u), NEW j \in 1 .. Len(u), i < j PROVE u[j] \notin C
        OBVIOUS
      <4>1. j \in 2 .. Len(u)
        BY <1>1, <2>1
      <4> QED
        BY <3>3, <4>1
    <3>5. /\ k \in Seq(Event) /\ Len(k) \in 0 .. Len(u)
          /\ \A i \in 1 .. Len(k) : k[i] = u[i] /\ u[i] \in C
          /\ \A i \in 1 .. Len(u) : i > Len(k) => u[i] \notin C
      BY <2>1, <3>2, <3>4, KeptPrefix
    <3>6. Len(k) = 1
      <4>1. Len(k) >= 1
        BY <2>3, <3>3, <3>5
      <4>2. Len(k) < 2
        <5> SUFFICES ASSUME Len(k) >= 2 PROVE FALSE
          BY <3>5
        <5>1. 2 \in 1 .. Len(k) /\ 2 \in 2 .. Len(u)
          BY <1>1, <2>1, <3>5
        <5> QED
          BY <3>3, <3>5, <5>1
      <4>3. Len(k) \in Nat
        BY <3>5, LenProperties
      <4> QED
        BY <4>1, <4>2, <4>3
    <3>7. k[1] = e
      BY <2>1, <3>5, <3>6
    <3>8. PICK s \in Seq(Event) : s = <<e>> /\ Len(s) = 1 /\ s[1] = e
      <4>1. <<e>> \in Seq(Event) /\ Len(<<e>>) = 1 /\ <<e>>[1] = e
        OBVIOUS
      <4> QED
        BY <4>1
    <3>9. k = s
      BY <3>5, <3>6, <3>7, <3>8, SeqEqual
    <3> QED
      BY <3>1, <3>2, <3>8, <3>9 DEF OfType
  <2> QED
    BY <2>4, <2>5
<1> QED
  BY <1>3, <1>4, <1>5

\* The lots of reports, one by one.
LotsOf(reports) == [i \in DOMAIN reports |-> LotsTold(reports[i])]

\* The reports account for n lots.
Counted(s, n) == IsSequence(s) /\ LotsOf(s) \in Seq(Int) /\ Total(LotsOf(s)) = n

\* No report.
LEMMA CountedNone == \A s : s = <<>> => Counted(s, 0)
<1> SUFFICES ASSUME NEW s, s = <<>> PROVE Counted(s, 0)
  OBVIOUS
<1>1. s \in Seq(Int) /\ Len(s) = 0
  BY EmptySeq
<1>2. LotsOf(s) = s
  <2>1. DOMAIN s = {}
    OBVIOUS
  <2>2. LotsOf(s) = <<>>
    BY <2>1 DEF LotsOf
  <2> QED
    BY <2>2
<1>3. PICK a \in Seq(Int) : a = LotsOf(s) /\ Len(a) = 0
  BY <1>1, <1>2
<1>4. Total(a) = 0
  BY <1>3, TotalOfNone
<1> QED
  BY <1>1, <1>3, <1>4 DEF Counted, IsSequence

IsReport(s, r) == s = <<r>>

\* One report.
LEMMA CountedOne ==
  ASSUME NEW r, NEW n \in Int, LotsTold(r) = n, NEW s, IsReport(s, r)
  PROVE  Counted(s, n) /\ \A x : Has(s, x) <=> x = r
<1>1. s \in Seq({r}) /\ Len(s) = 1 /\ s[1] = r /\ DOMAIN s = 1 .. 1
  BY DEF IsReport
<1>2. PICK a : a = LotsOf(s)
  OBVIOUS
<1>3. a \in [1 .. 1 -> Int] /\ a[1] = n
  BY <1>1, <1>2 DEF LotsOf
<1>4. PICK one \in Nat : one = 1
  OBVIOUS
<1>5. a \in Seq(Int) /\ Len(a) = 1
  <2>1. a \in [1 .. one -> Int]
    BY <1>3, <1>4
  <2> QED
    BY <1>4, <2>1, FunctionIsSeq
<1>6. Total(a) = n
  <2>1. PICK l \in 1 .. Len(a) : l = 1
    BY <1>5
  <2>2. \A i \in 1 .. Len(a) : i # l => a[i] = 0
    BY <1>5, <2>1
  <2>3. Total(a) = a[l]
    BY <1>5, <2>2, TotalOfOne
  <2> QED
    BY <1>3, <2>1, <2>3
<1>7. Counted(s, n)
  BY <1>1, <1>2, <1>5, <1>6 DEF Counted, IsSequence
<1>8. \A x : Has(s, x) <=> x = r
  BY <1>1 DEF Has
<1> QED
  BY <1>7, <1>8

\* Reports and further ones.
LEMMA CountedConcat ==
  ASSUME NEW m \in Int, NEW s, Counted(s, m), NEW n \in Int, NEW t, Counted(t, n),
         NEW u, IsConcat(u, s, t)
  PROVE  Counted(u, m + n) /\ \A x : Has(u, x) <=> Has(s, x) \/ Has(t, x)
<1>1. PICK S, T : s \in Seq(S) /\ t \in Seq(T)
  BY DEF Counted, IsSequence
<1>2. PICK U : U = S \cup T
  OBVIOUS
<1>3. s \in Seq(U) /\ t \in Seq(U)
  <2>1. \A x \in S : x \in U
    BY <1>2
  <2>2. \A x \in T : x \in U
    BY <1>2
  <2> QED
    BY <1>1, <2>1, <2>2, SeqOfSubset
<1>4. /\ u \in Seq(U) /\ Len(u) = Len(s) + Len(t) /\ Len(s) \in Nat /\ Len(t) \in Nat
      /\ \A i \in 1 .. Len(s) : i \in 1 .. Len(u) /\ u[i] = s[i]
      /\ \A j \in 1 .. Len(t) : Len(s) + j \in 1 .. Len(u) /\ u[Len(s) + j] = t[j]
      /\ \A i \in 1 .. Len(u) : Has(s, u[i]) \/ Has(t, u[i])
  BY <1>3, ConcatElements
<1>5. DOMAIN s = 1 .. Len(s) /\ DOMAIN t = 1 .. Len(t) /\ DOMAIN u = 1 .. Len(u)
  BY <1>3, <1>4, LenProperties
<1>6. PICK a, b, c : a = LotsOf(s) /\ b = LotsOf(t) /\ c = LotsOf(u)
  OBVIOUS
<1>7. a \in Seq(Int) /\ b \in Seq(Int) /\ Total(a) = m /\ Total(b) = n
  BY <1>6 DEF Counted
<1>8. /\ DOMAIN a = 1 .. Len(s) /\ \A i \in 1 .. Len(s) : a[i] = LotsTold(s[i])
      /\ DOMAIN b = 1 .. Len(t) /\ \A i \in 1 .. Len(t) : b[i] = LotsTold(t[i])
      /\ DOMAIN c = 1 .. Len(u) /\ \A i \in 1 .. Len(u) : c[i] = LotsTold(u[i])
  BY <1>5, <1>6 DEF LotsOf
<1>9. Len(a) = Len(s) /\ Len(b) = Len(t)
  BY <1>4, <1>7, <1>8, LenProperties
<1>10. \A i \in 1 .. Len(a) : c[i] = a[i] /\ a[i] \in Int
  BY <1>4, <1>7, <1>8, <1>9, ElementOfSeq
<1>11. \A j \in 1 .. Len(b) : c[Len(a) + j] = b[j] /\ b[j] \in Int
  BY <1>4, <1>7, <1>8, <1>9, ElementOfSeq
<1>12. c \in Seq(Int) /\ Len(c) = Len(a) + Len(b)
  <2>1. PICK l \in Nat : l = Len(u)
    BY <1>4
  <2>2. ASSUME NEW i \in 1 .. l PROVE c[i] \in Int
    <3>1. CASE i <= Len(a)
      BY <1>4, <1>9, <1>10, <3>1
    <3>2. CASE i > Len(a)
      <4>1. PICK j \in 1 .. Len(b) : i = Len(a) + j
        <5>1. i - Len(a) \in 1 .. Len(b) /\ i = Len(a) + (i - Len(a))
          BY <1>4, <1>9, <2>1, <3>2
        <5> QED
          BY <5>1
      <4> QED
        BY <1>11, <4>1
    <3> QED
      BY <1>4, <1>9, <3>1, <3>2
  <2>3. c = [i \in 1 .. l |-> c[i]]
    BY <1>6, <1>8, <2>1 DEF LotsOf
  <2>4. c \in [1 .. l -> Int]
    BY <2>2, <2>3
  <2> QED
    BY <1>4, <1>9, <2>1, <2>4, FunctionIsSeq
<1>13. Total(c) = m + n
  BY <1>7, <1>10, <1>11, <1>12, TotalOfConcat
<1>14. \A x : Has(u, x) <=> Has(s, x) \/ Has(t, x)
  BY <1>4 DEF Has
<1> QED
  BY <1>4, <1>6, <1>12, <1>13, <1>14 DEF Counted, IsSequence

Told(x, type) == {r \in ToSet(Accept(x)) : r.report = type}

\* The reports other than the result and the market data are those of the events.
LEMMA AcceptIs ==
  ASSUME NEW x, NEW n \in Int, NEW sent, sent = SendTradeEvents(x), Counted(sent, n)
  PROVE  /\ Total(LotsOf(Accept(x))) = n
         /\ \A type \in {"tradeEvent", "rejectEvent", "reduceEvent", "exception"} : \A r :
              r \in Told(x, type) <=> Has(sent, r) /\ r.report = type
<1>1. PICK zero \in Int : zero = 0
  OBVIOUS
<1>2. PICK result : result = CommandResult(x)
  OBVIOUS
<1>3. PICK s : IsReport(s, result)
  BY DEF IsReport
<1>4. result.report = "commandResult"
  BY <1>2 DEF CommandResult
<1>5. LotsTold(result) = zero
  BY <1>1, <1>4 DEF LotsTold
<1>6. Counted(s, zero) /\ \A r : Has(s, r) <=> r = result
  BY <1>3, <1>5, CountedOne
<1>7. PICK t : t = SendMarketData(x)
  OBVIOUS
<1>8. Counted(t, zero) /\ \A r : Has(t, r) => r.report = "orderBook"
  <2>1. CASE x.command # "ORDER_BOOK_REQUEST"
    <3>1. t = <<>>
      BY <1>7, <2>1 DEF SendMarketData
    <3>2. Counted(t, zero)
      BY <1>1, <3>1, CountedNone
    <3>3. \A r : ~ Has(t, r)
      BY <3>1 DEF Has
    <3> QED
      BY <3>2, <3>3
  <2>2. CASE x.command = "ORDER_BOOK_REQUEST"
    <3>1. PICK data : /\ IsReport(t, data) /\ data.report = "orderBook"
      BY <1>7, <2>2 DEF SendMarketData, IsReport
    <3>2. LotsTold(data) = zero
      BY <1>1, <3>1 DEF LotsTold
    <3>3. Counted(t, zero) /\ \A r : Has(t, r) <=> r = data
      BY <3>1, <3>2, CountedOne
    <3> QED
      BY <3>1, <3>3
  <2> QED
    BY <2>1, <2>2
<1>9. PICK u, v : IsConcat(u, s, sent) /\ IsConcat(v, u, t)
  BY DEF IsConcat
<1>10. Counted(u, zero + n) /\ \A r : Has(u, r) <=> Has(s, r) \/ Has(sent, r)
  BY <1>6, <1>9, CountedConcat
<1>11. Counted(u, n)
  <2>1. zero + n = n
    BY <1>1
  <2> QED
    BY <1>10, <2>1
<1>12. Counted(v, n + zero) /\ \A r : Has(v, r) <=> Has(u, r) \/ Has(t, r)
  BY <1>8, <1>9, <1>11, CountedConcat
<1>13. v = Accept(x)
  BY <1>2, <1>3, <1>7, <1>9 DEF Accept, SendCommandResult, IsConcat, IsReport
<1>14. Total(LotsOf(v)) = n
  <2>1. n + zero = n
    BY <1>1
  <2> QED
    BY <1>12, <2>1 DEF Counted
<1>15. \A r : r \in ToSet(v) <=> Has(v, r)
  <2>1. PICK S : v \in Seq(S)
    BY <1>12 DEF Counted, IsSequence
  <2>2. DOMAIN v = 1 .. Len(v)
    BY <2>1, LenProperties
  <2> QED
    BY <2>2 DEF ToSet, Has
<1>16. ASSUME NEW type \in {"tradeEvent", "rejectEvent", "reduceEvent", "exception"}, NEW r
       PROVE  r \in Told(x, type) <=> Has(sent, r) /\ r.report = type
  <2>1. r \in Told(x, type) <=> r \in ToSet(v) /\ r.report = type
    BY <1>13 DEF Told
  <2>2. Has(s, r) => r.report # type
    BY <1>4, <1>6
  <2>3. Has(t, r) => r.report # type
    BY <1>8
  <2> QED
    BY <1>10, <1>12, <1>15, <2>1, <2>2, <2>3
<1> QED
  BY <1>13, <1>14, <1>16

\* What the reports say: these of trades, rejections and reductions, no exception,
\* and so many lots.
Tells(x, trades, rejects, reduces, n) ==
  /\ Told(x, "tradeEvent") = trades /\ Told(x, "rejectEvent") = rejects
  /\ Told(x, "reduceEvent") = reduces /\ Told(x, "exception") = {}
  /\ Total(LotsOf(Accept(x))) = n

\* They are the reports that are sent.
LEMMA TellsSent ==
  ASSUME NEW x, NEW n \in Int, NEW sent, sent = SendTradeEvents(x), Counted(sent, n),
         NEW T, NEW J, NEW D,
         \A r : Has(sent, r) <=> r \in T \/ r \in J \/ r \in D,
         \A r \in T : r.report = "tradeEvent", \A r \in J : r.report = "rejectEvent",
         \A r \in D : r.report = "reduceEvent"
  PROVE  Tells(x, T, J, D, n)
<1>1. /\ Total(LotsOf(Accept(x))) = n
      /\ \A type \in {"tradeEvent", "rejectEvent", "reduceEvent", "exception"} : \A r :
           r \in Told(x, type) <=> Has(sent, r) /\ r.report = type
  BY AcceptIs
<1>2. Told(x, "tradeEvent") = T
  BY <1>1
<1>3. Told(x, "rejectEvent") = J
  BY <1>1
<1>4. Told(x, "reduceEvent") = D
  BY <1>1
<1>5. Told(x, "exception") = {}
  BY <1>1
<1> QED
  BY <1>1, <1>2, <1>3, <1>4, <1>5 DEF Tells

\* The report of trades, when there are any.
TradesTold(x, t) == IF t = <<>> THEN {} ELSE {TradeReport(x, t)}

TradesSent(x, t) == IF t = <<>> THEN <<>> ELSE <<TradeReport(x, t)>>

\* It tells of the lots that are traded.
LEMMA TradesCounted ==
  ASSUME NEW x, NEW t, IsTrades(t), NEW s, s = TradesSent(x, t)
  PROVE  /\ TradedSize(t) \in Int /\ Counted(s, TradedSize(t))
         /\ \A r : Has(s, r) <=> r \in TradesTold(x, t)
<1>1. /\ t \in Seq(Event) /\ DOMAIN t = 1 .. Len(t)
      /\ \A i \in 1 .. Len(t) : t[i].eventType = "TRADE"
  BY LenProperties DEF IsTrades
<1>2. PICK types : types = {"TRADE"}
  OBVIOUS
<1>3. PICK z : z = Sizes(t, types)
  OBVIOUS
<1>4. SizeOf(t, types) = Total(z) /\ Total(z) \in Int
  BY <1>1, <1>3, SizesAre
<1>5. TradedSize(t) = Total(z) /\ TradedSize(t) \in Int
  BY <1>2, <1>4 DEF TradedSize
<1>6. CASE t = <<>>
  <2>1. TradedSize(t) = 0
    BY <1>6, SizesOfNone
  <2>2. s = <<>>
    BY <1>6 DEF TradesSent
  <2>3. Counted(s, 0)
    BY <2>2, CountedNone
  <2>4. \A r : ~ Has(s, r)
    BY <2>2 DEF Has
  <2> QED
    BY <1>5, <1>6, <2>1, <2>3, <2>4 DEF TradesTold
<1>7. CASE t # <<>>
  <2>1. PICK r : r = TradeReport(x, t)
    OBVIOUS
  <2>2. IsReport(s, r)
    BY <1>7, <2>1 DEF TradesSent, IsReport
  <2>3. z = [i \in DOMAIN t |-> t[i].size]
    BY <1>1, <1>2, <1>3 DEF Sizes
  <2>4. r.report = "tradeEvent" /\ r.totalVolume = Total(z)
    BY <2>1, <2>3 DEF TradeReport
  <2>5. LotsTold(r) = Total(z)
    BY <2>4 DEF LotsTold
  <2>6. PICK n \in Int : n = TradedSize(t)
    BY <1>5
  <2>7. LotsTold(r) = n
    BY <1>5, <2>5, <2>6
  <2>8. Counted(s, n) /\ \A y : Has(s, y) <=> y = r
    BY <2>2, <2>7, CountedOne
  <2>9. \A y : y \in TradesTold(x, t) <=> y = r
    BY <1>7, <2>1 DEF TradesTold
  <2> QED
    BY <1>5, <2>6, <2>8, <2>9
<1> QED
  BY <1>6, <1>7

\* A report of trades is one.
LEMMA TradesToldAre ==
  ASSUME NEW x, NEW t
  PROVE  \A r \in TradesTold(x, t) : r.report = "tradeEvent"
  BY DEF TradesTold, TradeReport

\* What is told of trades.
LEMMA TellsTrades ==
  ASSUME NEW x, NEW t, IsTrades(t), x.matcherEvent = t
  PROVE  Tells(x, TradesTold(x, t), {}, {}, TradedSize(t))
<1>1. /\ OfType(t, "TRADE") = t /\ OfType(t, "REJECT") = <<>>
  BY TypesOf
<1>2. PICK s : s = TradesSent(x, t)
  OBVIOUS
<1>3. PICK n : n = TradedSize(t)
  OBVIOUS
<1>4. /\ n \in Int /\ Counted(s, n)
      /\ \A r : Has(s, r) <=> r \in TradesTold(x, t)
  BY <1>2, <1>3, TradesCounted
<1>5. s = SendTradeEvents(x)
  <2>1. SendTradeEvent(x) = s \o <<>>
    BY <1>1, <1>2 DEF SendTradeEvent, TradesSent
  <2>2. PICK S : s \in Seq(S)
    BY <1>4 DEF Counted, IsSequence
  <2>3. SendTradeEvent(x) = s
    BY <2>1, <2>2, ConcatProperties
  <2>4. CASE t = <<>>
    BY <1>2, <2>4 DEF SendTradeEvents, TradesSent
  <2>5. CASE t # <<>>
    <3>1. Len(t) \in Nat /\ 1 \in 1 .. Len(t)
      BY <2>5 DEF IsTrades
    <3>2. t[1].eventType # "REDUCE"
      BY <3>1 DEF IsTrades
    <3> QED
      BY <2>3, <2>5, <3>2 DEF SendTradeEvents
  <2> QED
    BY <2>4, <2>5
<1>6. PICK T, N : T = TradesTold(x, t) /\ N = {}
  OBVIOUS
<1>7. \A r \in T : r.report = "tradeEvent"
  BY <1>6, TradesToldAre
<1>8. \A r : Has(s, r) <=> r \in T \/ r \in N \/ r \in N
  BY <1>4, <1>6
<1>9. /\ \A r \in N : r.report = "rejectEvent"
      /\ \A r \in N : r.report = "reduceEvent"
  BY <1>6
<1>10. Tells(x, T, N, N, n)
  BY <1>4, <1>5, <1>7, <1>8, <1>9, TellsSent
<1> QED
  BY <1>3, <1>6, <1>10

\* What is told of a rejection and the trades before it.
LEMMA TellsReject ==
  ASSUME NEW x, NEW t, IsTrades(t), NEW e \in Event, e.eventType = "REJECT",
         NEW u, IsBefore(u, e, t), x.matcherEvent = u
  PROVE  Tells(x, TradesTold(x, t), {RejectReport(x, e)}, {}, TradedSize(t) + e.size)
<1>1. OfType(u, "TRADE") = t /\ OfType(u, "REJECT") = <<e>>
  BY TypesOf
<1>2. PICK s : s = TradesSent(x, t)
  OBVIOUS
<1>3. PICK n : n = TradedSize(t)
  OBVIOUS
<1>4. n \in Int /\ Counted(s, n) /\ \A r : Has(s, r) <=> r \in TradesTold(x, t)
  BY <1>2, <1>3, TradesCounted
<1>5. PICK j : j = RejectReport(x, e)
  OBVIOUS
<1>6. PICK m \in Int : m = e.size
  BY DEF Event
<1>7. j.report = "rejectEvent" /\ j.rejectedVolume = m
  BY <1>5, <1>6 DEF RejectReport
<1>8. LotsTold(j) = m
  BY <1>7 DEF LotsTold
<1>9. PICK k, v : IsReport(k, j) /\ IsConcat(v, s, k)
  BY DEF IsReport, IsConcat
<1>10. Counted(k, m) /\ \A r : Has(k, r) <=> r = j
  BY <1>8, <1>9, CountedOne
<1>11. Counted(v, n + m) /\ \A r : Has(v, r) <=> Has(s, r) \/ Has(k, r)
  BY <1>4, <1>9, <1>10, CountedConcat
<1>12. v = SendTradeEvents(x)
  <2>1. PICK one : one = <<e>>
    OBVIOUS
  <2>2. one # <<>> /\ one[Len(one)] = e
    BY <2>1
  <2>3. SendTradeEvent(x) = s \o <<j>>
    BY <1>1, <1>2, <1>5, <2>1, <2>2 DEF SendTradeEvent, TradesSent
  <2>4. SendTradeEvent(x) = v
    BY <1>9, <2>3 DEF IsReport, IsConcat
  <2>5. u # <<>> /\ u[1] = e
    BY BeforeIs DEF IsTrades
  <2> QED
    BY <2>4, <2>5 DEF SendTradeEvents
<1>13. PICK T, J, N : T = TradesTold(x, t) /\ J = {j} /\ N = {}
  OBVIOUS
<1>14. \A r : Has(v, r) <=> r \in T \/ r \in J \/ r \in N
  BY <1>4, <1>10, <1>11, <1>13
<1>15. /\ \A r \in T : r.report = "tradeEvent"
       /\ \A r \in J : r.report = "rejectEvent"
       /\ \A r \in N : r.report = "reduceEvent"
  BY <1>7, <1>13, TradesToldAre
<1>16. PICK lots \in Int : lots = n + m
  BY <1>4
<1>17. Tells(x, T, J, N, lots)
  BY <1>11, <1>12, <1>14, <1>15, <1>16, TellsSent
<1> QED
  BY <1>3, <1>5, <1>6, <1>13, <1>16, <1>17

\* What is told of a reduction.
LEMMA TellsReduce ==
  ASSUME NEW x, NEW e, e.eventType = "REDUCE", x.matcherEvent = <<e>>
  PROVE  Tells(x, {}, {}, {ReduceReport(x, e)}, 0)
<1>1. PICK d : d = ReduceReport(x, e)
  OBVIOUS
<1>2. PICK zero \in Int : zero = 0
  OBVIOUS
<1>3. d.report = "reduceEvent"
  BY <1>1 DEF ReduceReport
<1>4. LotsTold(d) = zero
  BY <1>2, <1>3 DEF LotsTold
<1>5. PICK s : IsReport(s, d)
  BY DEF IsReport
<1>6. Counted(s, zero) /\ \A r : Has(s, r) <=> r = d
  BY <1>4, <1>5, CountedOne
<1>7. s = SendTradeEvents(x)
  <2>1. PICK u : u = <<e>>
    OBVIOUS
  <2>2. u # <<>> /\ Len(u) = 1 /\ u[1] = e
    BY <2>1
  <2>3. SendTradeEvents(x) = <<d>> \o <<>>
    BY <1>1, <2>1, <2>2 DEF SendTradeEvents
  <2>4. <<d>> \in Seq({d})
    OBVIOUS
  <2>5. <<d>> \o <<>> = <<d>>
    BY <2>4, ConcatProperties
  <2> QED
    BY <1>5, <2>3, <2>5 DEF IsReport
<1>8. PICK N, D : N = {} /\ D = {d}
  OBVIOUS
<1>9. /\ \A r : Has(s, r) <=> r \in N \/ r \in N \/ r \in D
      /\ \A r \in N : r.report = "tradeEvent"
      /\ \A r \in N : r.report = "rejectEvent"
      /\ \A r \in D : r.report = "reduceEvent"
  BY <1>3, <1>6, <1>8
<1>10. Tells(x, N, N, D, zero)
  BY <1>6, <1>7, <1>9, TellsSent
<1> QED
  BY <1>1, <1>2, <1>8, <1>10

-----------------------------------------------------------------------------
(***************************************************************************)
(* What matching tells of makers and takers.                               *)
(***************************************************************************)

\* What a trade says of its maker and its taker.
LEMMA FlagsOfTrade ==
  ASSUME NEW taker, NEW maker, NEW i, NEW f, NEW volume,
         NEW e, e = Trade(taker, maker, i, f, volume)
  PROVE  /\ e.matchedOrderId = maker.orderId
         /\ e.matchedOrderCompleted <=> Share(f, i, volume) = Remaining(maker)
         /\ e.activeOrderCompleted <=> volume = f[i - 1] + Share(f, i, volume)
<1>1. PICK made \in BOOLEAN : made <=> Share(f, i, volume) = Remaining(maker)
  OBVIOUS
<1>2. PICK taken \in BOOLEAN : taken <=> volume = f[i - 1] + Share(f, i, volume)
  OBVIOUS
<1>3. PICK size : size = Share(f, i, volume)
  OBVIOUS
<1>4. e = TradeEvent(taker, maker, size, made, taken)
  BY <1>1, <1>2, <1>3 DEF Trade
<1>5. /\ e.matchedOrderId = maker.orderId /\ e.matchedOrderCompleted = made
      /\ e.activeOrderCompleted = taken
  BY <1>4 DEF TradeEvent
<1> QED
  BY <1>1, <1>2, <1>5

\* A trade says that its taker is completed.
TakerSeen(t) == \E i \in 1 .. Len(t) : t[i].activeOrderCompleted

\* The last trade says that the taker is completed, when it is.
LEMMA TakerCompleted ==
  ASSUME NEW b, NEW taker, NEW volume \in Nat, NEW a, NEW makers \in Seq(Resting(a)),
         NEW match, NEW f, IsMatch(match, b, taker, volume, makers, f)
  PROVE  TakerSeen(match.events) <=> match.events # <<>> /\ match.filled = volume
<1>1. PICK h : h = Len(match.events)
  OBVIOUS
<1>2. PICK n \in Nat : n = Len(makers)
  BY LenProperties
<1>3. /\ Running(f, makers) /\ f[n] \in Nat /\ h \in 0 .. n
      /\ match.filled = IF volume <= f[n] THEN volume ELSE f[n]
      /\ DOMAIN match.events = 1 .. h
      /\ \A i \in 1 .. h : /\ Share(f, i, volume) > 0
                           /\ match.events[i] = Trade(taker, makers[i], i, f, volume)
      /\ \A i \in 1 .. n : i > h => Share(f, i, volume) = 0
  BY <1>1, <1>2 DEF IsMatch
<1>4. \A i \in 1 .. n : /\ f[i - 1] \in Nat /\ f[i] \in Nat /\ f[i] <= f[n]
                        /\ f[i] = f[i - 1] + Remaining(makers[i])
  BY <1>2, <1>3 DEF Running
<1>5. \A i \in 1 .. h : i \in 1 .. n /\ (match.events[i].activeOrderCompleted
                           <=> volume = f[i - 1] + Share(f, i, volume))
  <2>1. \A i \in 1 .. h : i \in 1 .. n
    BY <1>3
  <2>2. ASSUME NEW i \in 1 .. h
        PROVE  match.events[i].activeOrderCompleted <=> volume = f[i - 1] + Share(f, i, volume)
    <3>1. PICK m, e : m = makers[i] /\ e = match.events[i]
      OBVIOUS
    <3>2. e = Trade(taker, m, i, f, volume)
      BY <1>3, <3>1
    <3> QED
      BY <3>1, <3>2, FlagsOfTrade
  <2> QED
    BY <2>1, <2>2
<1>6. ASSUME NEW i \in 1 .. h
      PROVE  /\ match.events[i].activeOrderCompleted <=> volume <= f[i]
             /\ f[i] <= f[n]
  <2>1. PICK p \in Nat, q \in Nat : p = f[i - 1] /\ q = f[i]
    BY <1>4, <1>5
  <2>2. PICK s : s = Share(f, i, volume)
    OBVIOUS
  <2>3. s > 0 /\ s = IF volume <= p THEN 0 ELSE IF volume >= q THEN q - p ELSE volume - p
    BY <1>3, <2>1, <2>2 DEF Share
  <2>4. volume = p + s <=> volume <= q
    BY <2>3
  <2> QED
    BY <1>4, <1>5, <2>1, <2>2, <2>4
<1>7. match.events # <<>> <=> h # 0
  <2>1. match.events = <<>> => h = 0
    BY <1>1
  <2>2. match.events # <<>> => h # 0
    <3> SUFFICES ASSUME h = 0 PROVE match.events = <<>>
      OBVIOUS
    <3>1. PICK S : match.events \in Seq(S)
      BY DEF IsMatch, IsSequence
    <3> QED
      BY <1>1, <3>1
  <2> QED
    BY <2>1, <2>2
<1>8. match.filled = volume <=> volume <= f[n]
  BY <1>3
<1>9. ASSUME NEW i \in 1 .. h, match.events[i].activeOrderCompleted
      PROVE  h # 0 /\ volume <= f[n]
  <2>1. volume <= f[i] /\ f[i] <= f[n] /\ f[i] \in Nat
    BY <1>4, <1>5, <1>6, <1>9
  <2> QED
    BY <1>3, <2>1
<1>10. ASSUME h # 0, volume <= f[n]
       PROVE  h \in 1 .. h /\ match.events[h].activeOrderCompleted
  <2>1. h \in 1 .. h
    BY <1>3, <1>10
  <2>2. volume <= f[h]
    <3>1. CASE h = n
      BY <1>10, <3>1
    <3>2. CASE h # n
      <4>1. PICK k \in 1 .. n : k = h + 1 /\ k - 1 = h
        BY <1>3, <3>2
      <4>2. k > h
        BY <1>3, <4>1
      <4>3. Remaining(makers[k]) > 0 /\ Remaining(makers[k]) \in Nat
        <5>1. makers[k] \in Resting(a)
          BY <1>2, ElementOfSeq
        <5>2. makers[k] \in Order(a)
          BY <5>1 DEF Resting
        <5> QED
          BY <5>1, <5>2, RemainingIsNat
      <4>4. PICK p \in Nat, q \in Nat, m \in Nat :
              p = f[k - 1] /\ q = f[k] /\ m = Remaining(makers[k])
        BY <1>4, <4>3
      <4>5. q = p + m /\ m > 0
        BY <1>4, <4>3, <4>4
      <4>6. Share(f, k, volume) = 0
        BY <1>3, <4>2
      <4>7. 0 = IF volume <= p THEN 0 ELSE IF volume >= q THEN q - p ELSE volume - p
        BY <4>4, <4>6 DEF Share
      <4>8. volume <= p
        BY <4>5, <4>7
      <4> QED
        BY <4>1, <4>4, <4>8
    <3> QED
      BY <3>1, <3>2
  <2> QED
    BY <1>6, <2>1, <2>2
<1> QED
  BY <1>1, <1>7, <1>8, <1>9, <1>10 DEF TakerSeen

\* No order of a side has this id.
Gone(q, id) == \A x : Has(q, x) => x.orderId # id

\* An order has left its side when it has given all it had.
LEMMA MakerGone ==
  ASSUME NEW b, IsBook(b), NEW taker, NEW a \in OrderAction, a = taker.action,
         NEW volume \in Nat,
         NEW makers \in Seq(Resting(Opposite(a))), First(makers, b[Opposite(a)]),
         NEW match, NEW f, IsMatch(match, b, taker, volume, makers, f),
         NEW i \in 1 .. Len(makers)
  PROVE  Gone(match.book[Opposite(a)], makers[i].orderId)
           <=> Share(f, i, volume) = Remaining(makers[i])
<1>1. PICK opp \in OrderAction : opp = Opposite(a) /\ Opposite(opp) = a /\ opp # a
  BY Sides
<1>2. PICK q \in Seq(Resting(opp)) : q = b[opp] /\ Related(q, Queue(opp))
  BY <1>1, BookSides
<1>3. PICK t : IsAfter(t, q, Len(makers), f, volume)
  BY DEF IsAfter
<1>4. /\ Volumes(f, makers) /\ Running(f, makers)
      /\ match.book = [b EXCEPT ![opp] = t]
  BY <1>1, <1>2, <1>3 DEF IsMatch, IsAfter
<1>5. match.book[opp] = t
  BY <1>4 DEF IsBook
<1>6. makers \in Seq(Resting(opp)) /\ First(makers, q)
  BY <1>1, <1>2
<1>7. /\ \A k \in 1 .. Len(t) : \E l \in 1 .. Len(q) :
           /\ Same(t[k], q[l])
           /\ l \in 1 .. Len(makers) => Share(f, l, volume) < Remaining(q[l])
      /\ \A l \in 1 .. Len(q) :
           (l \in 1 .. Len(makers) => Share(f, l, volume) < Remaining(q[l]))
             => \E k \in 1 .. Len(t) : Same(t[k], q[l])
  <2>1. PICK R : R = Queue(opp)
    OBVIOUS
  <2>2. Blind(R, Order(opp)) /\ Related(q, R)
    BY <1>2, <2>1, QueueIsBlind
  <2>3. /\ Related(t, R)
        /\ \A k \in 1 .. Len(t) : \E l \in 1 .. Len(q) :
             /\ Same(t[k], q[l])
             /\ l \in 1 .. Len(makers) => Share(f, l, volume) < Remaining(q[l])
    BY <1>3, <1>4, <1>6, <2>2, AfterKept
  <2>4. /\ Related(t, R)
        /\ \A l \in 1 .. Len(q) :
             (l \in 1 .. Len(makers) => Share(f, l, volume) < Remaining(q[l]))
               => \E k \in 1 .. Len(t) : Same(t[k], q[l])
    BY <1>3, <1>4, <1>6, <2>2, AfterKept
  <2> QED
    BY <2>3, <2>4
<1>8. makers[i] = q[i] /\ i \in 1 .. Len(q)
  <2>1. Len(makers) \in Nat /\ Len(q) \in Nat
    BY LenProperties
  <2> QED
    BY <1>6, <2>1 DEF First
<1>9. /\ Share(f, i, volume) \in Nat /\ Remaining(makers[i]) \in Nat
      /\ Share(f, i, volume) <= Remaining(makers[i])
  <2>1. \A o \in Resting(opp) : o \in Order(opp)
    BY DEF Resting
  <2>2. makers \in Seq(Order(opp))
    BY <1>6, <2>1, SeqOfSubset
  <2> QED
    BY <1>4, <2>2, SharesInOrder
<1>10. ASSUME Share(f, i, volume) = Remaining(makers[i]), NEW x, Has(t, x),
              x.orderId = makers[i].orderId
       PROVE  FALSE
  <2>1. PICK k \in 1 .. Len(t) : x = t[k]
    BY <1>10 DEF Has
  <2>2. PICK l \in 1 .. Len(q) :
          /\ Same(t[k], q[l])
          /\ l \in 1 .. Len(makers) => Share(f, l, volume) < Remaining(q[l])
    BY <1>7
  <2>3. b[opp][l].orderId = b[opp][i].orderId
    BY <1>2, <1>8, <1>10, <2>1, <2>2 DEF Same
  <2>4. l = i
    BY <1>2, <1>8, <2>3, OnePlace
  <2> QED
    BY <1>8, <1>9, <1>10, <2>2, <2>4
<1>11. ASSUME Share(f, i, volume) # Remaining(makers[i])
       PROVE  ~ Gone(t, makers[i].orderId)
  <2>1. Share(f, i, volume) < Remaining(q[i])
    BY <1>8, <1>9, <1>11
  <2>2. PICK k \in 1 .. Len(t) : Same(t[k], q[i])
    BY <1>7, <1>8, <2>1
  <2> QED
    BY <1>8, <2>2 DEF Gone, Has, Same
<1> QED
  BY <1>1, <1>5, <1>10, <1>11 DEF Gone

\* A trade says that its maker is completed exactly when the maker has left.
LEMMA MakersCompleted ==
  ASSUME NEW b, IsBook(b), NEW taker, NEW a \in OrderAction, a = taker.action,
         NEW volume \in Nat,
         NEW makers \in Seq(Resting(Opposite(a))), First(makers, b[Opposite(a)]),
         NEW match, NEW f, IsMatch(match, b, taker, volume, makers, f),
         NEW i \in 1 .. Len(match.events)
  PROVE  match.events[i].matchedOrderCompleted
           <=> Gone(match.book[Opposite(a)], match.events[i].matchedOrderId)
<1>1. /\ Len(match.events) \in 0 .. Len(makers)
      /\ match.events[i] = Trade(taker, makers[i], i, f, volume)
  BY DEF IsMatch
<1>2. i \in 1 .. Len(makers)
  <2>1. Len(makers) \in Nat
    BY LenProperties
  <2> QED
    BY <1>1, <2>1
<1>3. /\ match.events[i].matchedOrderId = makers[i].orderId
      /\ match.events[i].matchedOrderCompleted
           <=> Share(f, i, volume) = Remaining(makers[i])
  <2>1. PICK m, e : m = makers[i] /\ e = match.events[i]
    OBVIOUS
  <2>2. e = Trade(taker, m, i, f, volume)
    BY <1>1, <2>1
  <2> QED
    BY <2>1, <2>2, FlagsOfTrade
<1> QED
  BY <1>2, <1>3, MakerGone

\* Matching brings no id into a book.
LEMMA MatchedNone ==
  ASSUME NEW b, IsBook(b), NEW taker, NEW a \in OrderAction, a = taker.action,
         NEW volume \in Nat,
         NEW makers \in Seq(Resting(Opposite(a))), First(makers, b[Opposite(a)]),
         NEW match, NEW f, IsMatch(match, b, taker, volume, makers, f),
         NEW id, NoneHas(b, id)
  PROVE  NoneHas(match.book, id)
<1>1. PICK opp \in OrderAction : opp = Opposite(a) /\ opp # a
  BY Sides
<1>2. PICK d : d = match.book
  OBVIOUS
<1>3. d[a] = b[a] /\ Survive(d[Opposite(a)], b[Opposite(a)], Len(makers), f, volume)
  <2>1. IsBook(d) /\ d[a] = b[a]
    BY <1>2, MatchedBook
  <2>2. Survive(d[Opposite(a)], b[Opposite(a)], Len(makers), f, volume)
    BY <1>2, MatchedBook
  <2> QED
    BY <2>1, <2>2
<1>4. ASSUME NEW x, Has(d[opp], x) PROVE x.orderId # id
  <2>1. PICK k \in 1 .. Len(d[opp]) : x = d[opp][k]
    BY <1>4 DEF Has
  <2>2. PICK l \in 1 .. Len(b[opp]) : Same(d[opp][k], b[opp][l])
    BY <1>1, <1>3 DEF Survive
  <2>3. Has(b[opp], b[opp][l])
    BY DEF Has
  <2> QED
    BY <2>1, <2>2, <2>3 DEF NoneHas, Same
<1>5. \A x : Has(d[a], x) => x.orderId # id
  BY <1>3 DEF NoneHas
<1> QED
  BY <1>1, <1>2, <1>4, <1>5, Sides DEF NoneHas

-----------------------------------------------------------------------------
(***************************************************************************)
(* What is told of a command is true of the book.                          *)
(***************************************************************************)
OwnOf(b, id) == {o \in Orders(b) : o.orderId = id}

\* The reports by which the order of the command is completed.
Completed(x) ==
  Told(x, "rejectEvent")
    \cup {r \in Told(x, "tradeEvent") : r.takeOrderCompleted}
    \cup {r \in Told(x, "reduceEvent") : r.orderCompleted}

MakersTold(x, d) ==
  \A r \in Told(x, "tradeEvent") : \A i \in DOMAIN r.trades :
    r.trades[i].makerOrderCompleted <=>
      \A o \in Orders(d) : \/ o.orderId # r.trades[i].makerOrderId
                           \/ o.action = x.action

OnceTold(x) == Cardinality(Completed(x)) <= 1

CompletionTold(b, x, d) ==
  (Told(x, "tradeEvent") \cup Told(x, "rejectEvent") \cup Told(x, "reduceEvent") # {}
   /\ (OwnOf(b, x.orderId) = {} \/ x.command # "PLACE_ORDER"))
  => ((OwnOf(d, x.orderId) = {}) <=> Completed(x) # {})

LotsAdd(b, x, d) ==
  (OwnOf(b, x.orderId) = {} /\ x.command = "PLACE_ORDER" /\ x.resultCode = "SUCCESS") =>
    \A left \in IF OwnOf(d, x.orderId) = {} THEN {0}
                ELSE {Remaining(o) : o \in OwnOf(d, x.orderId)} :
      x.size = left + Total(LotsOf(Accept(x)))

ToldTruly(b, x, d) ==
  /\ Told(x, "exception") = {} /\ MakersTold(x, d) /\ OnceTold(x)
  /\ CompletionTold(b, x, d) /\ LotsAdd(b, x, d)

\* The orders of a book with an id.
LEMMA OwnOfIs ==
  ASSUME NEW b, IsBook(b), NEW id
  PROVE  /\ OwnOf(b, id) = {} <=> NoneHas(b, id)
         /\ \A o : o \in OwnOf(b, id) <=>
              (Has(b["ASK"], o) \/ Has(b["BID"], o)) /\ o.orderId = id
<1>1. \A o : o \in Orders(b) <=> Has(b["ASK"], o) \/ Has(b["BID"], o)
  BY OrdersOf DEF Orders
<1>2. \A o : o \in OwnOf(b, id) <=>
        (Has(b["ASK"], o) \/ Has(b["BID"], o)) /\ o.orderId = id
  BY <1>1 DEF OwnOf
<1>3. NoneHas(b, id) <=>
        \A o : Has(b["ASK"], o) \/ Has(b["BID"], o) => o.orderId # id
  BY DEF NoneHas, OrderAction
<1> QED
  BY <1>2, <1>3

\* A set of one thing at most.
LEMMA AtMostOne ==
  ASSUME NEW S, NEW z, \A r \in S : r = z
  PROVE  Cardinality(S) <= 1
<1>1. CASE S = {}
  BY <1>1, FS_EmptySet
<1>2. CASE S # {}
  <2>1. S = {z}
    BY <1>2
  <2> QED
    BY <2>1, FS_Singleton
<1> QED
  BY <1>1, <1>2

\* What is completed by what is told.
LEMMA CompletedIs ==
  ASSUME NEW x, NEW T, NEW J, NEW D, NEW n, Tells(x, T, J, D, n)
  PROVE  \A r : r \in Completed(x) <=> \/ r \in J
                                       \/ r \in T /\ r.takeOrderCompleted
                                       \/ r \in D /\ r.orderCompleted
  BY DEF Tells, Completed

\* Of no trade is told, and this completes the order, or nothing does.
Quietly(x, z) ==
  /\ Told(x, "tradeEvent") = {} /\ Told(x, "exception") = {}
  /\ \A r : r \in Completed(x) => r = z

\* Then the makers are told of truly.
LEMMA ToldQuietly ==
  ASSUME NEW x, NEW z, Quietly(x, z), NEW b, NEW d,
         CompletionTold(b, x, d), LotsAdd(b, x, d)
  PROVE  ToldTruly(b, x, d)
<1>1. OnceTold(x)
  BY AtMostOne DEF OnceTold, Quietly
<1>2. Told(x, "exception") = {} /\ Told(x, "tradeEvent") = {}
  BY DEF Quietly
<1>3. MakersTold(x, d)
  BY <1>2 DEF MakersTold
<1> QED
  BY <1>1, <1>2, <1>3 DEF ToldTruly

\* The book stays as it is.
LEMMA ToldUnchanged ==
  ASSUME NEW b, IsBook(b), NEW c, BookSlot(c), c.command = "PLACE_ORDER" => c.size \in Nat,
         NEW res, Unchanged(b, c, res)
  PROVE  ToldTruly(b, res.cmd, res.book)
<1>1. PICK x, t : x = res.cmd /\ t = <<>>
  OBVIOUS
<1>2. res.book = b
  BY DEF Unchanged
<1>3. IsTrades(t) /\ TradesTold(x, t) = {} /\ TradedSize(t) = 0
  BY <1>1, SizesOfNone DEF IsTrades, TradesTold
<1>4. ASSUME NEW code, Answers(x, c, code, <<>>),
             c.command = "PLACE_ORDER" => code # "SUCCESS"
      PROVE  ToldTruly(b, x, b)
  <2>1. x.matcherEvent = t
    BY <1>1, <1>4 DEF Answers
  <2>2. Tells(x, TradesTold(x, t), {}, {}, TradedSize(t))
    BY <1>3, <2>1, TellsTrades
  <2>3. Tells(x, {}, {}, {}, 0)
    BY <1>3, <2>2
  <2>4. \A r : r \notin Completed(x)
    BY <2>3, CompletedIs
  <2>5. CompletionTold(b, x, b)
    BY <2>3 DEF CompletionTold, Tells
  <2>6. LotsAdd(b, x, b)
    BY <1>4 DEF LotsAdd, Answers, SameFields
  <2>7. Quietly(x, t)
    BY <2>3, <2>4 DEF Tells, Quietly
  <2> QED
    BY <2>5, <2>6, <2>7, ToldQuietly
<1>5. ASSUME c.command = "PLACE_ORDER", Answers(x, c, "SUCCESS", <<RejectEvent(c, c.size)>>)
      PROVE  ToldTruly(b, x, b)
  <2>1. PICK e \in Event : e = RejectEvent(c, c.size)
    <3>1. PICK size \in Nat : size = c.size
      BY <1>5
    <3>2. t \in Seq(Event)
      BY <1>1
    <3> QED
      BY <3>1, <3>2, RejectsAreEvents
  <2>2. e.eventType = "REJECT" /\ e.size = c.size
    BY <2>1 DEF RejectEvent, SingleEvent
  <2>3. PICK u : IsBefore(u, e, t)
    BY DEF IsBefore
  <2>4. u = <<e>>
    <3>1. <<e>> \in Seq(Event)
      OBVIOUS
    <3> QED
      BY <1>1, <2>3, <3>1, ConcatProperties DEF IsBefore
  <2>5. x.matcherEvent = u
    BY <1>5, <2>1, <2>4 DEF Answers
  <2>6. PICK J, j : J = {j} /\ j = RejectReport(x, e)
    OBVIOUS
  <2>7. Tells(x, TradesTold(x, t), {RejectReport(x, e)}, {}, TradedSize(t) + e.size)
    BY <1>3, <2>2, <2>3, <2>5, TellsReject
  <2>8. 0 + e.size = c.size
    BY <1>5, <2>2
  <2>9. Tells(x, {}, J, {}, c.size)
    BY <1>3, <2>6, <2>7, <2>8
  <2>10. \A r : r \in Completed(x) <=> r = j
    BY <2>6, <2>9, CompletedIs
  <2>11. x.command = c.command /\ x.size = c.size /\ x.orderId = c.orderId
    BY <1>5 DEF Answers, SameFields
  <2>12. CompletionTold(b, x, b)
    BY <1>5, <2>10, <2>11 DEF CompletionTold
  <2>13. LotsAdd(b, x, b)
    <3> SUFFICES ASSUME OwnOf(b, x.orderId) = {}
                 PROVE  x.size = 0 + Total(LotsOf(Accept(x)))
      BY DEF LotsAdd
    <3>1. Total(LotsOf(Accept(x))) = c.size
      BY <2>9 DEF Tells
    <3> QED
      BY <1>5, <2>11, <3>1
  <2>14. Quietly(x, j)
    BY <2>9, <2>10 DEF Tells, Quietly
  <2> QED
    BY <2>12, <2>13, <2>14, ToldQuietly
<1> QED
  BY <1>1, <1>2, <1>4, <1>5 DEF Unchanged

\* An order leaves.
LEMMA ToldRemoved ==
  ASSUME NEW b, IsBook(b), NEW c, NEW res, Removed(b, c, res)
  PROVE  ToldTruly(b, res.cmd, res.book)
<1>1. PICK a, order :
        /\ OwnOrder(b, c, a, order) /\ c.command # "PLACE_ORDER"
        /\ res.book = Without(b, order)
        /\ Answers(res.cmd, c, "SUCCESS", <<ReduceEvent(order, Remaining(order), TRUE)>>)
  BY DEF Removed
<1>2. PICK x, d, e : x = res.cmd /\ d = res.book /\ e = ReduceEvent(order, Remaining(order), TRUE)
  OBVIOUS
<1>3. e.eventType = "REDUCE" /\ e.activeOrderCompleted = TRUE
  BY <1>2 DEF ReduceEvent, SingleEvent
<1>4. x.matcherEvent = <<e>> /\ x.orderId = c.orderId /\ x.command = c.command
  BY <1>1, <1>2 DEF Answers, SameFields
<1>5. PICK r : r = ReduceReport(x, e)
  OBVIOUS
<1>6. Tells(x, {}, {}, {r}, 0)
  BY <1>3, <1>4, <1>5, TellsReduce
<1>7. r.orderCompleted = TRUE
  BY <1>3, <1>5 DEF ReduceReport
<1>8. \A y : y \in Completed(x) <=> y = r
  BY <1>6, <1>7, CompletedIs
<1>9. a \in OrderAction /\ order.action = a /\ Has(b[a], order) /\ order.orderId = c.orderId
  BY <1>1 DEF OwnOrder
<1>10. IsBook(d) /\ NoneHas(d, order.orderId)
  BY <1>1, <1>2, <1>9, WithoutBook DEF NoneHas
<1>11. OwnOf(d, x.orderId) = {}
  BY <1>4, <1>9, <1>10, OwnOfIs
<1>12. CompletionTold(b, x, d)
  BY <1>8, <1>11 DEF CompletionTold
<1>13. LotsAdd(b, x, d)
  BY <1>1, <1>4 DEF LotsAdd
<1>14. Quietly(x, r)
  BY <1>6, <1>8 DEF Tells, Quietly
<1> QED
  BY <1>2, <1>12, <1>13, <1>14, ToldQuietly

\* An order is reduced.
LEMMA ToldReduced ==
  ASSUME NEW b, IsBook(b), NEW c, NEW res, Reduced(b, c, res)
  PROVE  ToldTruly(b, res.cmd, res.book)
<1>1. PICK a, order, new, by :
        /\ OwnOrder(b, c, a, order) /\ c.command # "PLACE_ORDER"
        /\ new \in Resting(a) /\ Same(order, new)
        /\ res.book = Replace(b, order, new)
        /\ Answers(res.cmd, c, "SUCCESS", <<ReduceEvent(order, by, FALSE)>>)
  BY DEF Reduced
<1>2. PICK x, d, e : x = res.cmd /\ d = res.book /\ e = ReduceEvent(order, by, FALSE)
  OBVIOUS
<1>3. e.eventType = "REDUCE" /\ e.activeOrderCompleted = FALSE
  BY <1>2 DEF ReduceEvent, SingleEvent
<1>4. x.matcherEvent = <<e>> /\ x.orderId = c.orderId /\ x.command = c.command
  BY <1>1, <1>2 DEF Answers, SameFields
<1>5. PICK r : r = ReduceReport(x, e)
  OBVIOUS
<1>6. Tells(x, {}, {}, {r}, 0)
  BY <1>3, <1>4, <1>5, TellsReduce
<1>7. r.orderCompleted = FALSE
  BY <1>3, <1>5 DEF ReduceReport
<1>8. \A y : y \notin Completed(x)
  BY <1>6, <1>7, CompletedIs
<1>9. a \in OrderAction /\ order.action = a /\ Has(b[a], order) /\ order.orderId = c.orderId
  BY <1>1 DEF OwnOrder
<1>10. IsBook(d) /\ \E y : Has(d[a], y) /\ y.orderId = c.orderId
  <2>1. /\ IsBook(d) /\ Len(d[a]) = Len(b[a])
        /\ \A i \in 1 .. Len(b[a]) : d[a][i] = IF b[a][i] = order THEN new ELSE b[a][i]
    BY <1>1, <1>2, <1>9, ReplacedBook
  <2>2. PICK i \in 1 .. Len(b[a]) : order = b[a][i]
    BY <1>9 DEF Has
  <2>3. Has(d[a], new)
    BY <2>1, <2>2 DEF Has
  <2> QED
    BY <1>1, <1>9, <2>1, <2>3 DEF Same
<1>11. OwnOf(d, x.orderId) # {}
  <2>1. ~ NoneHas(d, x.orderId)
    BY <1>4, <1>9, <1>10 DEF NoneHas
  <2> QED
    BY <1>10, <2>1, OwnOfIs
<1>12. CompletionTold(b, x, d)
  BY <1>8, <1>11 DEF CompletionTold
<1>13. LotsAdd(b, x, d)
  BY <1>1, <1>4 DEF LotsAdd
<1>14. Quietly(x, r)
  BY <1>6, <1>8 DEF Tells, Quietly
<1> QED
  BY <1>2, <1>12, <1>13, <1>14, ToldQuietly

\* Every trade says so when its maker has left this side.
MakersSeen(t, q) ==
  \A i \in 1 .. Len(t) : t[i].matchedOrderCompleted <=> Gone(q, t[i].matchedOrderId)

\* Then the report of the trades says so.
LEMMA MakersToldIs ==
  ASSUME NEW d, IsBook(d), NEW a \in OrderAction, NEW x, x.action = a,
         NEW t, IsTrades(t), Told(x, "tradeEvent") = TradesTold(x, t),
         MakersSeen(t, d[Opposite(a)])
  PROVE  MakersTold(x, d)
<1>1. PICK opp \in OrderAction : opp = Opposite(a) /\ opp # a
  BY Sides
<1>2. DOMAIN t = 1 .. Len(t)
  BY LenProperties DEF IsTrades
<1>3. \A o : o \in Orders(d) <=> Has(d[a], o) \/ Has(d[opp], o)
  <2>1. \A o : o \in Orders(d) <=> Has(d["ASK"], o) \/ Has(d["BID"], o)
    BY OrdersOf DEF Orders
  <2> QED
    BY <1>1, <2>1 DEF OrderAction
<1>4. d[a] \in Seq(Resting(a)) /\ d[opp] \in Seq(Resting(opp))
  BY BookSides
<1>5. \A o : Has(d[a], o) => o.action = a
  <2>1. \A o : Has(d[a], o) => o \in Order(a)
    BY <1>4, OfSide
  <2> QED
    BY <2>1 DEF Order
<1>6. \A o : Has(d[opp], o) => o.action # a
  <2>1. \A o : Has(d[opp], o) => o \in Order(opp)
    BY <1>4, OfSide
  <2> QED
    BY <1>1, <2>1 DEF Order
<1>7. \A id : Gone(d[opp], id) <=> \A o \in Orders(d) : o.orderId # id \/ o.action = a
  BY <1>3, <1>5, <1>6 DEF Gone
<1>8. ASSUME NEW r \in Told(x, "tradeEvent"), NEW i \in DOMAIN r.trades
      PROVE  /\ i \in 1 .. Len(t)
             /\ r.trades[i].makerOrderId = t[i].matchedOrderId
             /\ r.trades[i].makerOrderCompleted = t[i].matchedOrderCompleted
  <2>1. r = TradeReport(x, t)
    BY <1>8 DEF TradesTold
  <2>2. r.trades = [k \in DOMAIN t |->
          [makerOrderId |-> t[k].matchedOrderId, makerUid |-> t[k].matchedOrderUid,
           makerOrderCompleted |-> t[k].matchedOrderCompleted,
           price |-> t[k].price, volume |-> t[k].size]]
    BY <2>1 DEF TradeReport
  <2>3. i \in 1 .. Len(t)
    BY <1>2, <1>8, <2>2
  <2> QED
    BY <1>2, <2>2, <2>3
<1>9. ASSUME NEW r \in Told(x, "tradeEvent"), NEW i \in DOMAIN r.trades
      PROVE  r.trades[i].makerOrderCompleted <=> Gone(d[opp], r.trades[i].makerOrderId)
  <2>1. t[i].matchedOrderCompleted <=> Gone(d[opp], t[i].matchedOrderId)
    BY <1>1, <1>8, <1>9 DEF MakersSeen
  <2> QED
    BY <1>8, <1>9, <2>1
<1> QED
  BY <1>7, <1>9 DEF MakersTold

\* When a trade says that its taker is completed, the report of the trades does.
LEMMA TakerToldIs ==
  ASSUME NEW x, NEW t, IsTrades(t), NEW J, NEW n, Tells(x, TradesTold(x, t), J, {}, n)
  PROVE  \A r : r \in Completed(x) <=>
           r \in J \/ (r = TradeReport(x, t) /\ TakerSeen(t))
<1>1. DOMAIN t = 1 .. Len(t)
  BY LenProperties DEF IsTrades
<1>2. TradeReport(x, t).takeOrderCompleted <=> TakerSeen(t)
  <2>1. PICK taken \in BOOLEAN : taken <=> \E i \in DOMAIN t : t[i].activeOrderCompleted
    OBVIOUS
  <2>2. TradeReport(x, t).takeOrderCompleted = (\E i \in DOMAIN t : t[i].activeOrderCompleted)
    BY DEF TradeReport
  <2> QED
    BY <1>1, <2>2 DEF TakerSeen
<1>3. TakerSeen(t) => t # <<>>
  BY DEF TakerSeen
<1>4. \A r : r \in Completed(x) <=>
        r \in J \/ (r \in TradesTold(x, t) /\ r.takeOrderCompleted)
  BY CompletedIs
<1> QED
  BY <1>2, <1>3, <1>4 DEF TradesTold

\* A command that has been executed: the trades t have filled so much of what it
\* brings, and left the book d, in which an order with a new number is not yet.
IsFilled(b, c, x, a, t, filled, volume, d) ==
  /\ IsBook(b) /\ IsBook(d) /\ a \in OrderAction /\ x.action = a
  /\ IsTrades(t) /\ TradedSize(t) = filled
  /\ filled \in Nat /\ volume \in Nat /\ filled <= volume
  /\ TakerSeen(t) <=> t # <<>> /\ filled = volume
  /\ MakersSeen(t, d[Opposite(a)])
  /\ OwnOf(b, c.orderId) = {} \/ c.command # "PLACE_ORDER" => NoneHas(d, c.orderId)
  /\ c.command = "PLACE_ORDER" => volume = c.size
  /\ x.command = c.command /\ x.orderId = c.orderId /\ x.size = c.size

\* Its trades have filled it.
LEMMA ToldFilled ==
  ASSUME NEW b, NEW c, NEW x, NEW a, NEW t, NEW filled, NEW volume, NEW d,
         IsFilled(b, c, x, a, t, filled, volume, d), filled = volume, x.matcherEvent = t
  PROVE  ToldTruly(b, x, d)
<1>1. IsTrades(t) /\ IsBook(b) /\ IsBook(d) /\ a \in OrderAction /\ x.action = a
  BY DEF IsFilled
<1>2. /\ TradedSize(t) = filled /\ filled \in Nat
      /\ TakerSeen(t) <=> t # <<>>
      /\ OwnOf(b, x.orderId) = {} \/ x.command # "PLACE_ORDER" => NoneHas(d, x.orderId)
      /\ x.command = "PLACE_ORDER" => filled = x.size
  BY DEF IsFilled
<1>3. Tells(x, TradesTold(x, t), {}, {}, TradedSize(t))
  BY <1>1, TellsTrades
<1>4. \A r : r \in Completed(x) <=> r = TradeReport(x, t) /\ TakerSeen(t)
  <2>1. PICK J : J = {}
    OBVIOUS
  <2>2. Tells(x, TradesTold(x, t), J, {}, TradedSize(t))
    BY <1>3, <2>1
  <2>3. \A r : r \in Completed(x) <=> r \in J \/ (r = TradeReport(x, t) /\ TakerSeen(t))
    BY <1>1, <2>2, TakerToldIs
  <2> QED
    BY <2>1, <2>3
<1>5. OnceTold(x)
  BY <1>4, AtMostOne DEF OnceTold
<1>6. /\ Told(x, "tradeEvent") = TradesTold(x, t) /\ Told(x, "exception") = {}
      /\ Told(x, "rejectEvent") = {} /\ Told(x, "reduceEvent") = {}
      /\ Total(LotsOf(Accept(x))) = filled
  BY <1>2, <1>3 DEF Tells
<1>7. MakersTold(x, d)
  <2>1. MakersSeen(t, d[Opposite(a)])
    BY DEF IsFilled
  <2> QED
    BY <1>1, <1>6, <2>1, MakersToldIs
<1>8. OwnOf(b, x.orderId) = {} \/ x.command # "PLACE_ORDER" => OwnOf(d, x.orderId) = {}
  BY <1>1, <1>2, OwnOfIs
<1>9. CompletionTold(b, x, d)
  <2>1. Told(x, "tradeEvent") # {} => t # <<>>
    BY <1>6 DEF TradesTold
  <2>2. Told(x, "tradeEvent") # {} => Completed(x) # {}
    BY <1>2, <1>4, <2>1
  <2> QED
    BY <1>6, <1>8, <2>2 DEF CompletionTold
<1>10. LotsAdd(b, x, d)
  <2> SUFFICES ASSUME OwnOf(b, x.orderId) = {}, x.command = "PLACE_ORDER"
               PROVE  OwnOf(d, x.orderId) = {} /\ x.size = 0 + Total(LotsOf(Accept(x)))
    BY DEF LotsAdd
  <2> QED
    BY <1>2, <1>6, <1>8
<1> QED
  BY <1>5, <1>6, <1>7, <1>9, <1>10 DEF ToldTruly

\* What is left of it is rejected.
LEMMA ToldRejected ==
  ASSUME NEW b, NEW c, NEW x, NEW a, NEW t, NEW filled, NEW volume, NEW d,
         IsFilled(b, c, x, a, t, filled, volume, d), filled < volume,
         c.command = "PLACE_ORDER",
         NEW e \in Event, e.eventType = "REJECT", e.size = volume - filled,
         NEW u, IsBefore(u, e, t), x.matcherEvent = u
  PROVE  ToldTruly(b, x, d)
<1>1. IsTrades(t) /\ IsBook(b) /\ IsBook(d) /\ a \in OrderAction /\ x.action = a
  BY DEF IsFilled
<1>2. /\ TradedSize(t) = filled /\ filled \in Nat /\ volume \in Nat
      /\ ~ TakerSeen(t)
      /\ OwnOf(b, x.orderId) = {} => NoneHas(d, x.orderId)
      /\ volume = x.size /\ x.command = "PLACE_ORDER"
  BY DEF IsFilled
<1>3. PICK j, J : j = RejectReport(x, e) /\ J = {j}
  OBVIOUS
<1>4. PICK n : n = TradedSize(t) + e.size
  OBVIOUS
<1>5. n = volume
  BY <1>2, <1>4
<1>6. Tells(x, TradesTold(x, t), J, {}, n)
  BY <1>1, <1>3, <1>4, TellsReject
<1>7. \A r : r \in Completed(x) <=> r = j
  <2>1. \A r : r \in Completed(x) <=> r \in J \/ (r = TradeReport(x, t) /\ TakerSeen(t))
    BY <1>1, <1>6, TakerToldIs
  <2> QED
    BY <1>2, <1>3, <2>1
<1>8. OnceTold(x)
  BY <1>7, AtMostOne DEF OnceTold
<1>9. /\ Told(x, "tradeEvent") = TradesTold(x, t) /\ Told(x, "exception") = {}
      /\ Total(LotsOf(Accept(x))) = volume
  BY <1>5, <1>6 DEF Tells
<1>10. MakersTold(x, d)
  <2>1. MakersSeen(t, d[Opposite(a)])
    BY DEF IsFilled
  <2> QED
    BY <1>1, <1>9, <2>1, MakersToldIs
<1>11. OwnOf(b, x.orderId) = {} => OwnOf(d, x.orderId) = {}
  BY <1>1, <1>2, OwnOfIs
<1>12. CompletionTold(b, x, d)
  BY <1>2, <1>7, <1>11 DEF CompletionTold
<1>13. LotsAdd(b, x, d)
  <2> SUFFICES ASSUME OwnOf(b, x.orderId) = {}
               PROVE  OwnOf(d, x.orderId) = {} /\ x.size = 0 + Total(LotsOf(Accept(x)))
    BY DEF LotsAdd
  <2> QED
    BY <1>2, <1>9, <1>11
<1> QED
  BY <1>8, <1>9, <1>10, <1>12, <1>13 DEF ToldTruly

\* What is left of it rests.
LEMMA ToldRested ==
  ASSUME NEW b, NEW c, NEW x, NEW a, NEW t, NEW filled, NEW volume, NEW d,
         IsFilled(b, c, x, a, t, filled, volume, d), filled < volume, x.matcherEvent = t,
         NEW order, MayRest(d, a, order), order.orderId = c.orderId,
         Remaining(order) = volume - filled, NEW e, e = Rest(d, order)
  PROVE  ToldTruly(b, x, e)
<1>1. IsTrades(t) /\ IsBook(b) /\ IsBook(d) /\ a \in OrderAction /\ x.action = a
  BY DEF IsFilled
<1>2. /\ TradedSize(t) = filled /\ filled \in Nat /\ volume \in Nat
      /\ ~ TakerSeen(t)
      /\ x.command = "PLACE_ORDER" => volume = x.size
      /\ order.orderId = x.orderId
  BY DEF IsFilled
<1>3. /\ IsBook(e) /\ e[Opposite(a)] = d[Opposite(a)]
      /\ \A y : Has(e[a], y) <=> y = order \/ Has(d[a], y)
  BY <1>1, RestHas
<1>4. Tells(x, TradesTold(x, t), {}, {}, TradedSize(t))
  BY <1>1, TellsTrades
<1>5. \A r : r \notin Completed(x)
  <2>1. PICK J : J = {}
    OBVIOUS
  <2>2. Tells(x, TradesTold(x, t), J, {}, TradedSize(t))
    BY <1>4, <2>1
  <2>3. \A r : r \in Completed(x) <=> r \in J \/ (r = TradeReport(x, t) /\ TakerSeen(t))
    BY <1>1, <2>2, TakerToldIs
  <2> QED
    BY <1>2, <2>1, <2>3
<1>6. OnceTold(x)
  BY <1>5, AtMostOne DEF OnceTold
<1>7. /\ Told(x, "tradeEvent") = TradesTold(x, t) /\ Told(x, "exception") = {}
      /\ Total(LotsOf(Accept(x))) = filled
  BY <1>2, <1>4 DEF Tells
<1>8. MakersTold(x, e)
  <2>1. MakersSeen(t, e[Opposite(a)])
    BY <1>3 DEF IsFilled
  <2> QED
    BY <1>1, <1>3, <1>7, <2>1, MakersToldIs
<1>9. \A o : o \in OwnOf(e, x.orderId) <=> o = order
  <2>1. PICK opp \in OrderAction : opp = Opposite(a) /\ opp # a
    BY <1>1, Sides
  <2>2. \A o : o \in OwnOf(e, x.orderId) <=>
          (Has(e["ASK"], o) \/ Has(e["BID"], o)) /\ o.orderId = x.orderId
    BY <1>3, OwnOfIs
  <2>3. \A o : o \in OwnOf(e, x.orderId) <=>
          (Has(e[a], o) \/ Has(e[opp], o)) /\ o.orderId = x.orderId
    BY <1>1, <2>1, <2>2 DEF OrderAction
  <2>4. \A o : Has(d[a], o) \/ Has(d[opp], o) => o.orderId # x.orderId
    BY <1>1, <1>2, <2>1 DEF MayRest, NoneHas
  <2> QED
    BY <1>2, <1>3, <2>1, <2>3, <2>4
<1>10. CompletionTold(b, x, e)
  BY <1>5, <1>9 DEF CompletionTold
<1>11. LotsAdd(b, x, e)
  <2> SUFFICES ASSUME x.command = "PLACE_ORDER",
                      NEW o \in OwnOf(e, x.orderId)
               PROVE  x.size = Remaining(o) + Total(LotsOf(Accept(x)))
    BY <1>9 DEF LotsAdd
  <2>1. Remaining(o) = volume - filled
    BY <1>9
  <2> QED
    BY <1>2, <1>7, <2>1
<1> QED
  BY <1>6, <1>7, <1>8, <1>10, <1>11 DEF ToldTruly

\* What a command takes to the makers has no order with its number in the book,
\* when that is new or the order is the one that it moves.
LEMMA TakenNone ==
  ASSUME NEW b, IsBook(b), NEW c, NEW a, NEW base, NEW taker, NEW volume,
         Takes(b, c, a, base, taker, volume)
  PROVE  /\ OwnOf(b, c.orderId) = {} \/ c.command # "PLACE_ORDER" => NoneHas(base, c.orderId)
         /\ c.command = "PLACE_ORDER" => volume = c.size
<1>1. CASE c.command = "PLACE_ORDER" /\ base = b /\ volume = c.size
  BY <1>1, OwnOfIs
<1>2. CASE /\ c.command = "MOVE_ORDER" /\ OwnOrder(b, c, a, taker)
           /\ base = Without(b, taker)
  <2>1. a \in OrderAction /\ taker.action = a /\ Has(b[a], taker) /\ taker.orderId = c.orderId
    BY <1>2 DEF OwnOrder
  <2>2. NoneHas(base, taker.orderId)
    BY <1>2, <2>1, WithoutBook DEF NoneHas
  <2> QED
    BY <1>2, <2>1, <2>2
<1> QED
  BY <1>1, <1>2 DEF Takes

\* Matching makes trades, and the last of them says that the taker is completed.
LEMMA MatchTells ==
  ASSUME NEW b, NEW taker, taker.reserveBidPrice \in Int, NEW volume \in Nat,
         NEW a, NEW makers \in Seq(Resting(a)),
         NEW match, NEW f, IsMatch(match, b, taker, volume, makers, f)
  PROVE  /\ IsTrades(match.events)
         /\ TakerSeen(match.events) <=> match.events # <<>> /\ match.filled = volume
<1>1. match.events \in Seq(Event)
  BY TradesAreEvents
<1>2. ASSUME NEW i \in 1 .. Len(match.events) PROVE match.events[i].eventType = "TRADE"
  <2>1. match.events[i] = Trade(taker, makers[i], i, f, volume)
    BY DEF IsMatch
  <2> QED
    BY <2>1 DEF Trade, TradeEvent
<1>3. TakerSeen(match.events) <=> match.events # <<>> /\ match.filled = volume
  BY TakerCompleted
<1> QED
  BY <1>1, <1>2, <1>3 DEF IsTrades

\* A taker trades.
LEMMA ToldExecuted ==
  ASSUME NEW b, IsBook(b), NEW c, BookSlot(c), NEW res, Executed(b, c, res)
  PROVE  ToldTruly(b, res.cmd, res.book)
<1>1. PICK a, base, taker, volume, makers, match, f :
        /\ Takes(b, c, a, base, taker, volume)
        /\ makers \in Seq(Resting(Opposite(a))) /\ First(makers, base[Opposite(a)])
        /\ IsMatch(match, base, taker, volume, makers, f)
        /\ Leaves(c, a, taker, match, volume - match.filled, res) /\ res.cmd.action = a
  BY DEF Executed
<1>2. /\ a \in OrderAction /\ a = taker.action /\ taker.reserveBidPrice \in Int
      /\ volume \in Nat /\ IsBook(base)
  BY <1>1, BaseIs
<1>3. makers \in Seq(Resting(Opposite(a))) /\ First(makers, base[Opposite(a)])
  BY <1>1
<1>4. IsMatch(match, base, taker, volume, makers, f)
  BY <1>1
<1>5. PICK x, d, t, filled :
        x = res.cmd /\ d = match.book /\ t = match.events /\ filled = match.filled
  OBVIOUS
<1>6. IsBook(d) /\ filled \in Nat /\ filled <= volume
  BY <1>2, <1>3, <1>4, <1>5, MatchedBook
<1>7. IsTrades(t) /\ TradedSize(t) = filled
  <2>1. IsTrades(match.events)
    BY <1>2, <1>3, <1>4, MatchTells
  <2>2. TradedSize(match.events) = match.filled
    BY <1>2, <1>3, <1>4, TradedIs
  <2> QED
    BY <1>5, <2>1, <2>2
<1>8. TakerSeen(t) <=> t # <<>> /\ filled = volume
  <2>1. TakerSeen(match.events) <=> match.events # <<>> /\ match.filled = volume
    BY <1>2, <1>3, <1>4, MatchTells
  <2> QED
    BY <1>5, <2>1
<1>9. MakersSeen(t, d[Opposite(a)])
  <2>1. \A i \in 1 .. Len(match.events) :
          match.events[i].matchedOrderCompleted
            <=> Gone(match.book[Opposite(a)], match.events[i].matchedOrderId)
    BY <1>2, <1>3, <1>4, MakersCompleted
  <2> QED
    BY <1>5, <2>1 DEF MakersSeen
<1>10. /\ OwnOf(b, c.orderId) = {} \/ c.command # "PLACE_ORDER" => NoneHas(d, c.orderId)
       /\ c.command = "PLACE_ORDER" => volume = c.size
  <2>1. PICK id : id = c.orderId
    OBVIOUS
  <2>2. NoneHas(base, id) => NoneHas(match.book, id)
    BY <1>2, <1>3, <1>4, MatchedNone
  <2>3. /\ OwnOf(b, c.orderId) = {} \/ c.command # "PLACE_ORDER" => NoneHas(base, c.orderId)
        /\ c.command = "PLACE_ORDER" => volume = c.size
    BY <1>1, TakenNone
  <2> QED
    BY <1>5, <2>1, <2>2, <2>3
<1>11. PICK left \in Nat : left = volume - filled
  BY <1>2, <1>6
<1>12. Leaves(c, a, taker, match, left, res)
  BY <1>1, <1>5, <1>11
<1>13. x.action = a /\ x.command = c.command /\ x.orderId = c.orderId /\ x.size = c.size
  BY <1>1, <1>5, <1>12 DEF Leaves, Answers, SameFields
<1>14. IsFilled(b, c, x, a, t, filled, volume, d)
  BY <1>2, <1>6, <1>7, <1>8, <1>9, <1>10, <1>13 DEF IsFilled
<1>15. CASE left = 0 /\ res.book = match.book /\ Answers(res.cmd, c, "SUCCESS", match.events)
  <2>1. filled = volume
    BY <1>2, <1>6, <1>11, <1>15
  <2>2. x.matcherEvent = t /\ res.book = d
    BY <1>5, <1>15 DEF Answers
  <2>3. ToldTruly(b, x, d)
    BY <1>14, <2>1, <2>2, ToldFilled
  <2> QED
    BY <1>5, <2>2, <2>3
<1>16. CASE /\ left > 0 /\ c.command = "PLACE_ORDER"
            /\ res.book = match.book
            /\ Answers(res.cmd, c, "SUCCESS", <<RejectEvent(c, left)>> \o match.events)
  <2>1. filled < volume
    BY <1>2, <1>6, <1>11, <1>16
  <2>2. PICK e \in Event : e = RejectEvent(c, left)
    <3>1. t \in Seq(Event)
      BY <1>7 DEF IsTrades
    <3> QED
      BY <3>1, RejectsAreEvents
  <2>3. e.eventType = "REJECT" /\ e.size = volume - filled
    BY <1>11, <2>2 DEF RejectEvent, SingleEvent
  <2>4. PICK u : IsBefore(u, e, t)
    BY DEF IsBefore
  <2>5. x.matcherEvent = u /\ res.book = d
    BY <1>5, <1>16, <2>2, <2>4 DEF Answers, IsBefore
  <2>6. ToldTruly(b, x, d)
    BY <1>14, <1>16, <2>1, <2>3, <2>4, <2>5, ToldRejected
  <2> QED
    BY <1>5, <2>5, <2>6
<1>17. ASSUME NEW order, left > 0, MayRest(match.book, a, order), order.orderId = c.orderId,
              Remaining(order) = left, res.book = Rest(match.book, order),
              Answers(res.cmd, c, "SUCCESS", match.events)
       PROVE  ToldTruly(b, res.cmd, res.book)
  <2>1. filled < volume
    BY <1>2, <1>6, <1>11, <1>17
  <2>2. MayRest(d, a, order) /\ Remaining(order) = volume - filled
    BY <1>5, <1>11, <1>17
  <2>3. PICK e : e = Rest(d, order)
    OBVIOUS
  <2>4. x.matcherEvent = t /\ res.book = e
    BY <1>5, <1>17, <2>3 DEF Answers
  <2>5. ToldTruly(b, x, e)
    BY <1>14, <1>17, <2>1, <2>2, <2>3, <2>4, ToldRested
  <2> QED
    BY <1>5, <2>4, <2>5
<1> QED
  BY <1>12, <1>15, <1>16, <1>17 DEF Leaves

\* What a client is told of a command is true of the book, whatever the command:
\* which makers have left, that its own order has, and how many lots it is owed.
THEOREM CompletionsReported == Spec => CompletionReported
<1> DEFINE Reported ==
      LET reports == Accept(cmd')
          told(type) == {r \in ToSet(reports) : r.report = type}
          trades == told("tradeEvent")
          rejects == told("rejectEvent")
          reduces == told("reduceEvent")
          own(b) == {o \in Orders(b) : o.orderId = cmd'.orderId}
          fresh == own(book) = {}
          completed == rejects
                         \cup {r \in trades : r.takeOrderCompleted}
                         \cup {r \in reduces : r.orderCompleted}
      IN /\ told("exception") = {}
         /\ \A r \in trades : \A i \in DOMAIN r.trades :
              r.trades[i].makerOrderCompleted <=>
                \A o \in Orders(book') : \/ o.orderId # r.trades[i].makerOrderId
                                         \/ o.action = cmd'.action
         /\ Cardinality(completed) <= 1
         /\ (trades \cup rejects \cup reduces # {}
             /\ (fresh \/ cmd'.command # "PLACE_ORDER")) =>
              ((own(book') = {}) <=> completed # {})
         /\ (fresh /\ cmd'.command = "PLACE_ORDER" /\ cmd'.resultCode = "SUCCESS") =>
              \A left \in IF own(book') = {} THEN {0}
                          ELSE {Remaining(o) : o \in own(book')} :
                cmd'.size = left + Total([i \in DOMAIN reports |-> LotsTold(reports[i])])
<1>1. Inv /\ [Next]_vars => [Reported]_vars
  <2> SUFFICES ASSUME Inv, Next PROVE Reported
    OBVIOUS
  <2>1. PICK c : BookSlot(c) /\ (c.command = "PLACE_ORDER" => c.size \in Nat) /\ \E res :
          /\ Effect(book, c, res) /\ IsBook(book) /\ IsBook(res.book)
          /\ book' = res.book /\ cmd' = res.cmd
    BY StepOutcome
  <2>2. PICK res : /\ Effect(book, c, res) /\ IsBook(book) /\ IsBook(res.book)
                   /\ book' = res.book /\ cmd' = res.cmd
    BY <2>1
  <2>3. PICK b : b = book /\ IsBook(b)
    BY <2>2
  <2>4. ToldTruly(b, res.cmd, res.book)
    <3>1. CASE Unchanged(b, c, res)
      BY <2>1, <2>3, <3>1, ToldUnchanged
    <3>2. CASE Removed(b, c, res)
      BY <2>3, <3>2, ToldRemoved
    <3>3. CASE Reduced(b, c, res)
      BY <2>3, <3>3, ToldReduced
    <3>4. CASE Executed(b, c, res)
      BY <2>1, <2>3, <3>4, ToldExecuted
    <3> QED
      BY <2>2, <2>3, <3>1, <3>2, <3>3, <3>4 DEF Effect
  <2>5. ToldTruly(book, cmd', book')
    BY <2>2, <2>3, <2>4
  <2> QED
    BY <2>5 DEF ToldTruly, Told, MakersTold, OnceTold, CompletionTold, LotsAdd, Completed,
                OwnOf, LotsOf
<1> QED
  BY <1>1, Invariance, PTL DEF CompletionReported, Spec
=============================================================================
