------------------------- MODULE PriceTimeBookProofs -------------------------
(***************************************************************************)
(* What a command does to a book, for the proofs about the modules that    *)
(* process commands.  A command changes a side of the book in three ways:  *)
(* matching fills the first orders and drops those of which nothing is     *)
(* left, Without takes an order out, and Rest puts one in.  For each of    *)
(* them the lemmas say what becomes of a relation between the orders of a  *)
(* side and their places.                                                  *)
(***************************************************************************)
EXTENDS PriceTimeBook, Induction

-----------------------------------------------------------------------------
(***************************************************************************)
(* Orders and sides.                                                       *)
(***************************************************************************)
Order(side) ==
  {o \in [orderId : Nat, uid : Nat, action : {side}, price : Nat, size : Nat,
          filled : Nat, reserveBidPrice : Int] : o.filled <= o.size}

Resting(side) == {o \in Order(side) : o.filled < o.size}

Same(p, q) == p.orderId = q.orderId /\ p.price = q.price

\* A relation that looks at ids and prices only.
Blind(R, S) ==
  \A p, q, x, y \in S : <<p, q>> \in R /\ Same(p, x) /\ Same(q, y) => <<x, y>> \in R

\* The order of a queue: no order behind one with a worse price, and none twice.
Queue(side) ==
  {pq \in Order(side) \X Order(side) :
     /\ pq[1].orderId # pq[2].orderId
     /\ ~ Better(side, pq[2].price, pq[1].price)}

\* What is left of an order is a number, and more than none of a resting one.
LEMMA RemainingIsNat ==
  ASSUME NEW side, NEW o \in Order(side)
  PROVE  Remaining(o) \in Nat /\ (o \in Resting(side) <=> Remaining(o) > 0)
  BY DEF Order, Resting, Remaining

\* The order of a queue depends on ids and prices only.
LEMMA QueueIsBlind ==
  ASSUME NEW side \in OrderAction
  PROVE  Blind(Queue(side), Order(side))
<1> SUFFICES ASSUME NEW p \in Order(side), NEW q \in Order(side),
                    NEW x \in Order(side), NEW y \in Order(side),
                    <<p, q>> \in Queue(side), Same(p, x), Same(q, y)
             PROVE  <<x, y>> \in Queue(side)
  BY DEF Blind
<1> QED
  BY DEF Queue, Same

-----------------------------------------------------------------------------
(***************************************************************************)
(* Filling makers.                                                         *)
(***************************************************************************)

\* The lots that are left of the orders of a sequence.
Lots(orders) == [i \in DOMAIN orders |-> Remaining(orders[i])]

\* f[i] is the volume of the first i makers.
Volumes(f, makers) == Sums(f, Lots(makers), Len(makers))

\* What maker i gives of a volume when those before it have f[i - 1].
Share(f, i, volume) ==
  IF volume <= f[i - 1] THEN 0
  ELSE IF volume >= f[i] THEN f[i] - f[i - 1] ELSE volume - f[i - 1]

\* The smaller of two numbers, and the greater of it and none.
LEMMA MinIs ==
  ASSUME NEW a \in Int, NEW b \in Int
  PROVE  Min({a, b}) = IF a <= b THEN a ELSE b
<1>1. \A m \in {a, b} : (\A y \in {a, b} : m <= y) => m = IF a <= b THEN a ELSE b
  OBVIOUS
<1>2. \E m \in {a, b} : \A y \in {a, b} : m <= y
  OBVIOUS
<1> QED
  BY <1>1, <1>2 DEF Min

\* None and a number.
LEMMA MaxIs ==
  ASSUME NEW a \in Int
  PROVE  Max({0, a}) = IF a <= 0 THEN 0 ELSE a
<1>1. \A m \in {0, a} : (\A y \in {0, a} : m >= y) => m = IF a <= 0 THEN 0 ELSE a
  OBVIOUS
<1>2. \E m \in {0, a} : \A y \in {0, a} : m >= y
  OBVIOUS
<1> QED
  BY <1>1, <1>2 DEF Max

\* The lots of a sequence of orders.
LEMMA LotsAreNat ==
  ASSUME NEW side, NEW orders \in Seq(Order(side))
  PROVE  /\ Lots(orders) \in Seq(Int) /\ Len(Lots(orders)) = Len(orders)
         /\ Len(orders) \in Nat /\ DOMAIN orders = 1 .. Len(orders)
         /\ \A i \in 1 .. Len(orders) :
              /\ orders[i] \in Order(side)
              /\ Lots(orders)[i] = Remaining(orders[i]) /\ Lots(orders)[i] \in Nat
         /\ Volume(orders) = Total(Lots(orders))
<1>1. Len(orders) \in Nat /\ DOMAIN orders = 1 .. Len(orders)
  BY LenProperties
<1>2. \A i \in 1 .. Len(orders) : orders[i] \in Order(side)
  BY ElementOfSeq
<1>3. \A i \in 1 .. Len(orders) :
        Lots(orders)[i] = Remaining(orders[i]) /\ Lots(orders)[i] \in Nat
  BY <1>1, <1>2, RemainingIsNat DEF Lots
<1>4. Lots(orders) \in [1 .. Len(orders) -> Int]
  BY <1>1, <1>2, RemainingIsNat DEF Lots
<1>5. Lots(orders) \in Seq(Int) /\ Len(Lots(orders)) = Len(orders)
  BY <1>1, <1>4, FunctionIsSeq
<1> QED
  BY <1>1, <1>2, <1>3, <1>5 DEF Volume, Lots

\* What matching takes of each maker.
LEMMA FillIs ==
  ASSUME NEW side, NEW makers \in Seq(Order(side)), NEW volume \in Nat
  PROVE  \E f : /\ Volumes(f, makers)
                /\ Volume(makers) = f[Len(makers)]
                /\ \A i \in 1 .. Len(makers) :
                     /\ f[i - 1] \in Nat /\ f[i] \in Nat
                     /\ f[i] = f[i - 1] + Remaining(makers[i])
                     /\ Remaining(makers[i]) \in Nat
                     /\ f[i] <= f[Len(makers)]
                     /\ Volume(SubSeq(makers, 1, i - 1)) = f[i - 1]
                     /\ Fill(makers, i, volume) = Share(f, i, volume)
<1> DEFINE n == Len(makers)
<1>1. /\ Lots(makers) \in Seq(Int) /\ Len(Lots(makers)) = n
      /\ n \in Nat /\ DOMAIN makers = 1 .. n
      /\ \A i \in 1 .. n :
           /\ makers[i] \in Order(side)
           /\ Lots(makers)[i] = Remaining(makers[i]) /\ Lots(makers)[i] \in Nat
      /\ Volume(makers) = Total(Lots(makers))
  BY LotsAreNat
<1> HIDE DEF n
<1>2. PICK a : a = Lots(makers)
  OBVIOUS
<1>3. PICK f : Sums(f, a, n)
  BY <1>1, <1>2, SumsOf
<1>4. Volume(makers) = f[n]
  <2>1. n <= n
    BY <1>1
  <2> QED
    BY <1>1, <1>2, <1>3, <2>1, TotalOfFirst
<1>5. ASSUME NEW i \in 1 .. n
      PROVE  /\ f[i - 1] \in Nat /\ f[i] \in Nat
             /\ f[i] = f[i - 1] + Remaining(makers[i])
             /\ Remaining(makers[i]) \in Nat
             /\ f[i] <= f[n]
             /\ Volume(SubSeq(makers, 1, i - 1)) = f[i - 1]
             /\ Fill(makers, i, volume) = Share(f, i, volume)
  <2>1. i \in 0 .. n /\ i - 1 \in 0 .. n /\ n \in 0 .. n /\ i <= n /\ i \in Nat /\ i - 1 \in Nat
    BY <1>1
  <2>2. f[i] \in Nat /\ f[i] <= f[n]
    BY <1>1, <1>2, <1>3, <2>1, SumsIncrease
  <2>3. f[i - 1] \in Nat
    <3>1. i - 1 <= n
      BY <1>1, <2>1
    <3> QED
      BY <1>1, <1>2, <1>3, <2>1, <3>1, SumsIncrease
  <2>4. Remaining(makers[i]) \in Nat /\ a[i] = Remaining(makers[i])
    BY <1>1, <1>2
  <2>5. f[i] = f[i - 1] + Remaining(makers[i])
    BY <1>3, <2>4 DEF Sums
  <2>6. PICK before : before = SubSeq(makers, 1, i - 1)
    OBVIOUS
  <2>7. before \in Seq(Order(side)) /\ Len(before) = i - 1
        /\ \A l \in 1 .. i - 1 : before[l] = makers[l]
    <3>1. PICK one \in Int : one = 1
      OBVIOUS
    <3>2. \A l \in one .. i - 1 : makers[l] \in Order(side)
      BY <1>1, <2>1, <3>1
    <3>3. before = SubSeq(makers, one, i - 1)
      BY <2>6, <3>1
    <3>4. /\ before \in Seq(Order(side))
          /\ Len(before) = IF one <= i - 1 THEN (i - 1) - one + 1 ELSE 0
          /\ \A l \in 1 .. (i - 1) - one + 1 : before[l] = makers[one + l - 1]
      BY <2>1, <3>2, <3>3, SubSeqProperties
    <3>5. Len(before) = i - 1
      BY <2>1, <3>1, <3>4
    <3>6. ASSUME NEW l \in 1 .. i - 1 PROVE before[l] = makers[l]
      <4>1. l \in 1 .. (i - 1) - one + 1 /\ one + l - 1 = l
        BY <2>1, <3>1
      <4> QED
        BY <3>4, <4>1
    <3> QED
      BY <3>4, <3>5, <3>6
  <2>8. Volume(before) = f[i - 1]
    <3>1. PICK b : b = Lots(before)
      OBVIOUS
    <3>2. /\ b \in Seq(Int) /\ Len(b) = i - 1 /\ Volume(before) = Total(b)
          /\ \A l \in 1 .. i - 1 : b[l] = Remaining(before[l])
      BY <2>7, <3>1, LotsAreNat
    <3>3. \A l \in 1 .. Len(b) : b[l] = a[l]
      <4> SUFFICES ASSUME NEW l \in 1 .. i - 1 PROVE b[l] = a[l]
        BY <3>2
      <4>1. l \in 1 .. n
        BY <1>1
      <4> QED
        BY <1>1, <1>2, <2>7, <3>2, <4>1
    <3>4. Len(b) <= n
      BY <1>1, <3>2
    <3>5. Total(b) = f[Len(b)]
      BY <1>1, <1>3, <3>2, <3>3, <3>4, TotalOfFirst
    <3> QED
      BY <3>2, <3>5
  <2>9. Fill(makers, i, volume) = Share(f, i, volume)
    <3>1. PICK r \in Nat, s \in Nat : r = Remaining(makers[i]) /\ s = f[i - 1]
      BY <2>3, <2>4
    <3>2. PICK v \in Int : v = volume - s
      OBVIOUS
    <3>3. PICK m : m = IF r <= v THEN r ELSE v
      OBVIOUS
    <3>4. m \in Int /\ Min({r, v}) = m
      BY <3>3, MinIs
    <3>5. Max({0, m}) = IF m <= 0 THEN 0 ELSE m
      BY <3>4, MaxIs
    <3>6. Fill(makers, i, volume) = Max({0, m})
      BY <2>6, <2>8, <3>1, <3>2, <3>4 DEF Fill
    <3>7. PICK h \in Nat : h = f[i] /\ h = s + r
      BY <2>5, <3>1
    <3>8. PICK fill \in Int : fill = IF m <= 0 THEN 0 ELSE m
      BY <3>4
    <3>9. PICK share \in Int : share = IF volume <= s THEN 0
                                      ELSE IF volume >= h THEN h - s ELSE volume - s
      BY <3>1, <3>7
    <3>10. fill = share
      <4>1. CASE volume <= s
        <5>1. v <= 0 /\ m <= 0
          BY <3>1, <3>2, <3>3, <4>1
        <5> QED
          BY <3>8, <3>9, <4>1, <5>1
      <4>2. CASE volume > s /\ volume >= h
        <5>1. r <= v /\ m = r
          BY <3>2, <3>3, <3>7, <4>2
        <5>2. fill = r
          BY <3>1, <3>8, <5>1
        <5>3. share = r
          BY <3>7, <3>9, <4>2
        <5> QED
          BY <5>2, <5>3
      <4>3. CASE volume > s /\ volume < h
        <5>1. m = v /\ v > 0
          BY <3>2, <3>3, <3>7, <4>3
        <5> QED
          BY <3>2, <3>8, <3>9, <4>3, <5>1
      <4> QED
        BY <4>1, <4>2, <4>3
    <3>11. Share(f, i, volume) = share
      BY <3>1, <3>7, <3>9 DEF Share
    <3> QED
      BY <3>5, <3>6, <3>8, <3>10, <3>11
  <2> QED
    BY <2>2, <2>3, <2>4, <2>5, <2>6, <2>8, <2>9
<1>6. Volumes(f, makers)
  BY <1>2, <1>3 DEF Volumes, n
<1> QED
  BY <1>4, <1>5, <1>6 DEF n

-----------------------------------------------------------------------------
(***************************************************************************)
(* Matching.                                                               *)
(***************************************************************************)

\* The makers are the first orders of a side.
First(makers, side) ==
  Len(makers) <= Len(side) /\ \A i \in 1 .. Len(makers) : makers[i] = side[i]

Filled(o, n) == [o EXCEPT !.filled = @ + n]

\* The side after its first n orders have given their shares.
After(side, n, f, volume) ==
  [i \in DOMAIN side |->
     IF i \in 1 .. n /\ Share(f, i, volume) > 0
     THEN Filled(side[i], Share(f, i, volume)) ELSE side[i]]

Trade(taker, maker, i, f, volume) ==
  TradeEvent(taker, maker, Share(f, i, volume), Share(f, i, volume) = Remaining(maker),
             volume = f[i - 1] + Share(f, i, volume))

\* The running volumes of makers.
Running(f, makers) ==
  \A i \in 1 .. Len(makers) :
    /\ f[i - 1] \in Nat /\ f[i] \in Nat
    /\ f[i] = f[i - 1] + Remaining(makers[i])
    /\ f[i] <= f[Len(makers)]

\* What Match does, with the running volumes f of the makers.
IsMatch(match, b, taker, volume, makers, f) ==
  LET opp == Opposite(taker.action)
      n == Len(makers)
      h == Len(match.events)
  IN /\ Volumes(f, makers) /\ Running(f, makers)
     /\ f[n] \in Nat
     /\ match.filled = IF volume <= f[n] THEN volume ELSE f[n]
     /\ match.book = [b EXCEPT ![opp] = Unfilled(After(b[opp], n, f, volume))]
     /\ IsSequence(match.events)
     /\ DOMAIN match.events = 1 .. h /\ h \in 0 .. n
     /\ \A i \in 1 .. h : /\ Share(f, i, volume) > 0
                          /\ match.events[i] = Trade(taker, makers[i], i, f, volume)
     /\ \A i \in 1 .. n : i > h => Share(f, i, volume) = 0

\* A maker gives a number of lots, at most those it has; when a later one gives
\* any it gives all.
LEMMA SharesInOrder ==
  ASSUME NEW side, NEW makers \in Seq(Order(side)), NEW volume \in Nat,
         NEW f, Volumes(f, makers), Running(f, makers), NEW i \in 1 .. Len(makers)
  PROVE  /\ Share(f, i, volume) \in Nat /\ Remaining(makers[i]) \in Nat
         /\ Share(f, i, volume) <= Remaining(makers[i])
         /\ \A j \in 1 .. Len(makers) :
              i < j /\ Share(f, j, volume) > 0 => Share(f, i, volume) = Remaining(makers[i])
         /\ volume >= f[Len(makers)] => Share(f, i, volume) = Remaining(makers[i])
<1> DEFINE n == Len(makers)
<1>1. n \in Nat /\ \A j \in 1 .. n : Lots(makers)[j] \in Nat /\ makers[j] \in Order(side)
  BY LotsAreNat
<1>2. /\ f[i - 1] \in Nat /\ f[i] \in Nat /\ f[i] = f[i - 1] + Remaining(makers[i])
      /\ f[i] <= f[n]
  BY DEF Running
<1>3. Remaining(makers[i]) \in Nat
  BY <1>1, RemainingIsNat
<1>4. f[n] \in Nat
  <2>1. n \in 1 .. n
    BY <1>1
  <2> QED
    BY <2>1 DEF Running
<1>5. ASSUME NEW j \in 1 .. n, i < j, Share(f, j, volume) > 0
      PROVE  Share(f, i, volume) = Remaining(makers[i])
  <2>1. i \in 0 .. n /\ j - 1 \in 0 .. n /\ i <= j - 1
    BY <1>1, <1>5
  <2>2. Sums(f, Lots(makers), n)
    BY DEF Volumes
  <2>3. f[i] <= f[j - 1]
    <3> HIDE DEF n
    <3> QED
      BY <1>1, <2>1, <2>2, SumsIncrease
  <2>4. f[j - 1] \in Nat
    BY DEF Running
  <2>5. ~ (volume <= f[j - 1])
    BY <1>5 DEF Share
  <2> HIDE DEF n
  <2>6. volume >= f[i] /\ ~ (volume <= f[i]) /\ ~ (volume <= f[i - 1])
    BY <1>2, <1>3, <2>3, <2>4, <2>5
  <2> QED
    BY <1>2, <1>3, <2>6 DEF Share
<1> HIDE DEF n
<1>6. Share(f, i, volume) \in Nat /\ Share(f, i, volume) <= Remaining(makers[i])
  BY <1>2, <1>3 DEF Share
<1>7. volume >= f[n] => Share(f, i, volume) = Remaining(makers[i])
  BY <1>2, <1>3, <1>4 DEF Share
<1> QED
  BY <1>3, <1>5, <1>6, <1>7 DEF n

\* Matching with the first orders of a side.
LEMMA MatchIs ==
  ASSUME NEW b, DOMAIN b = OrderAction, NEW taker, taker.action \in OrderAction,
         NEW volume \in Nat, NEW side, NEW makers \in Seq(Resting(side)),
         First(makers, b[Opposite(taker.action)]),
         Len(b[Opposite(taker.action)]) \in Nat,
         DOMAIN b[Opposite(taker.action)] = 1 .. Len(b[Opposite(taker.action)]),
         NEW match, match = Match(b, taker, volume, makers)
  PROVE  \E f : IsMatch(match, b, taker, volume, makers, f)
<1> DEFINE n == Len(makers)
           opp == Opposite(taker.action)
           queue == b[opp]
<1>1. makers \in Seq(Order(side))
  <2>1. \A o \in Resting(side) : o \in Order(side)
    BY DEF Resting
  <2> QED
    BY <2>1, SeqOfSubset
<1>2. /\ n \in Nat /\ DOMAIN makers = 1 .. n
      /\ \A i \in 1 .. n : makers[i] \in Resting(side) /\ Remaining(makers[i]) > 0
  <2>1. n \in Nat /\ DOMAIN makers = 1 .. n /\ \A i \in 1 .. n : makers[i] \in Resting(side)
    BY LenProperties, ElementOfSeq
  <2>2. \A o \in Resting(side) : o \in Order(side) /\ Remaining(o) > 0
    BY RemainingIsNat DEF Resting
  <2> QED
    BY <2>1, <2>2
<1>3. PICK f : /\ Volumes(f, makers)
               /\ Volume(makers) = f[n]
               /\ \A i \in 1 .. n :
                    /\ f[i - 1] \in Nat /\ f[i] \in Nat
                    /\ f[i] = f[i - 1] + Remaining(makers[i])
                    /\ Remaining(makers[i]) \in Nat
                    /\ f[i] <= f[n]
                    /\ Volume(SubSeq(makers, 1, i - 1)) = f[i - 1]
                    /\ Fill(makers, i, volume) = Share(f, i, volume)
  BY <1>1, FillIs
<1>4. Running(f, makers)
  BY <1>3 DEF Running
<1>5. f[n] \in Nat
  <2>1. CASE n = 0
    BY <1>3, <2>1 DEF Volumes, Sums
  <2>2. CASE n # 0
    BY <1>2, <1>3, <2>2
  <2> QED
    BY <2>1, <2>2
<1> DEFINE hit == {i \in DOMAIN makers : Fill(makers, i, volume) > 0}
           event(i) ==
             LET size == Fill(makers, i, volume)
             IN TradeEvent(taker, makers[i], size, size = Remaining(makers[i]),
                           volume = Volume(SubSeq(makers, 1, i - 1)) + size)
           after == [i \in DOMAIN queue |->
                       IF i \in hit THEN [queue[i] EXCEPT !.filled = @ + Fill(makers, i, volume)]
                       ELSE queue[i]]
           events == [i \in 1 .. Cardinality(hit) |-> event(i)]
<1>6. match = [filled |-> Min({volume, Volume(makers)}), events |-> events,
               book |-> [b EXCEPT ![opp] = Unfilled(after)]]
  BY DEF Match
<1>7. PICK h : h = Cardinality(hit)
  OBVIOUS
<1>8. h \in 0 .. n /\ hit = 1 .. h
  <2>1. hit \in SUBSET (1 .. n)
    BY <1>2
  <2>2. ASSUME NEW i \in 1 .. n, NEW j \in hit, i < j PROVE i \in hit
    <3>1. j \in 1 .. n /\ Share(f, j, volume) > 0
      BY <1>2, <1>3
    <3>2. Share(f, i, volume) = Remaining(makers[i])
      BY <1>1, <1>3, <1>4, <2>2, <3>1, SharesInOrder
    <3> QED
      BY <1>2, <1>3, <3>2
  <2> HIDE DEF hit, n
  <2> QED
    BY <1>2, <1>7, <2>1, <2>2, InitialSegment
<1>9. \A i \in 1 .. n : i \in hit <=> Share(f, i, volume) > 0
  BY <1>2, <1>3
<1>10. after = After(queue, n, f, volume)
  <2>1. ASSUME NEW i \in DOMAIN queue
        PROVE  (IF i \in hit THEN [queue[i] EXCEPT !.filled = @ + Fill(makers, i, volume)]
                ELSE queue[i])
               = IF i \in 1 .. n /\ Share(f, i, volume) > 0
                 THEN Filled(queue[i], Share(f, i, volume)) ELSE queue[i]
    <3>1. CASE i \in hit
      <4>1. i \in 1 .. n /\ Share(f, i, volume) > 0 /\ Fill(makers, i, volume) = Share(f, i, volume)
        BY <1>2, <1>3, <3>1
      <4> HIDE DEF hit, n, queue
      <4> QED
        BY <3>1, <4>1 DEF Filled
    <3>2. CASE i \notin hit
      <4>1. ~ (i \in 1 .. n /\ Share(f, i, volume) > 0)
        BY <1>9, <3>2
      <4> HIDE DEF hit, n, queue
      <4> QED
        BY <3>2, <4>1
    <3> QED
      BY <3>1, <3>2
  <2> HIDE DEF hit, n, queue
  <2> QED
    BY <2>1 DEF After
<1>11. ASSUME NEW i \in 1 .. h
       PROVE  Share(f, i, volume) > 0 /\ event(i) = Trade(taker, makers[i], i, f, volume)
  <2>1. i \in 1 .. n /\ i \in hit
    BY <1>2, <1>8
  <2>2. Fill(makers, i, volume) = Share(f, i, volume) /\ Volume(SubSeq(makers, 1, i - 1)) = f[i - 1]
    BY <1>3, <2>1
  <2>3. event(i) = Trade(taker, makers[i], i, f, volume)
    BY <2>2 DEF Trade
  <2> QED
    BY <1>9, <2>1, <2>3
<1>12. /\ IsSequence(events)
       /\ DOMAIN events = 1 .. h /\ Len(events) = h /\ \A i \in 1 .. h : events[i] = event(i)
  <2> HIDE DEF hit, event
  <2>1. PICK V : V = {event(i) : i \in 1 .. h}
    OBVIOUS
  <2>2. events \in [1 .. h -> V] /\ \A i \in 1 .. h : events[i] = event(i)
    BY <1>7, <2>1
  <2>3. h \in Nat
    BY <1>2, <1>8
  <2> HIDE DEF events
  <2> QED
    BY <2>2, <2>3, FunctionIsSeq DEF IsSequence
<1>13. match.filled = IF volume <= f[n] THEN volume ELSE f[n]
  <2>1. PICK m \in Int : m = f[n]
    BY <1>5
  <2>2. Min({volume, m}) = IF volume <= m THEN volume ELSE m
    BY MinIs
  <2> QED
    BY <1>3, <1>6, <2>1, <2>2
<1>14. ASSUME NEW i \in 1 .. n, i > h PROVE Share(f, i, volume) = 0
  <2>1. i \notin hit
    BY <1>2, <1>8, <1>14
  <2>2. Share(f, i, volume) \in Nat
    BY <1>1, <1>3, <1>4, SharesInOrder
  <2> QED
    BY <1>9, <2>1, <2>2
<1> HIDE DEF hit, event, after, events, queue
<1>15. match.book = [b EXCEPT ![opp] = Unfilled(After(b[opp], n, f, volume))]
  BY <1>6, <1>10 DEF queue
<1>16. match.events = events
  BY <1>6
<1> HIDE DEF n, opp
<1> QED
  BY <1>3, <1>4, <1>5, <1>8, <1>11, <1>12, <1>13, <1>14, <1>15, <1>16 DEF IsMatch, n, opp

-----------------------------------------------------------------------------
(***************************************************************************)
(* The three changes of a side.                                            *)
(***************************************************************************)

\* An order that is filled further.
LEMMA FilledIs ==
  ASSUME NEW side, NEW o \in Order(side), NEW n \in Nat, n <= Remaining(o),
         NEW p, p = Filled(o, n)
  PROVE  /\ p \in Order(side) /\ Same(o, p) /\ Remaining(p) = Remaining(o) - n
         /\ p.uid = o.uid /\ p.action = o.action
<1>1. p \in Order(side)
  BY DEF Order, Filled, Remaining
<1>2. Same(o, p) /\ p.uid = o.uid /\ p.action = o.action
  BY DEF Order, Filled, Same
<1>3. Remaining(p) = Remaining(o) - n
  BY DEF Order, Filled, Remaining
<1> QED
  BY <1>1, <1>2, <1>3

IsAfter(t, q, n, f, volume) == t = Unfilled(After(q, n, f, volume))

\* A side after matching has the orders of which something is left.
LEMMA AfterKept ==
  ASSUME NEW side, NEW q \in Seq(Resting(side)), NEW R, Blind(R, Order(side)),
         Related(q, R),
         NEW makers \in Seq(Resting(side)), First(makers, q), NEW volume \in Nat,
         NEW f, Volumes(f, makers), Running(f, makers),
         NEW t, IsAfter(t, q, Len(makers), f, volume)
  PROVE  /\ t \in Seq(Resting(side)) /\ Related(t, R)
         /\ \A i \in 1 .. Len(t) : \E l \in 1 .. Len(q) :
              /\ Same(t[i], q[l])
              /\ l \in 1 .. Len(makers) => Share(f, l, volume) < Remaining(q[l])
         /\ \A l \in 1 .. Len(q) :
              (l \in 1 .. Len(makers) => Share(f, l, volume) < Remaining(q[l]))
                => \E i \in 1 .. Len(t) : Same(t[i], q[l])
<1> DEFINE n == Len(makers)
           after == After(q, n, f, volume)
           K == {o \in ToSet(after) : Remaining(o) > 0}
<1>1. \A o \in Resting(side) : o \in Order(side) /\ Remaining(o) > 0 /\ Remaining(o) \in Nat
  BY RemainingIsNat DEF Resting
<1>2. makers \in Seq(Order(side)) /\ q \in Seq(Order(side))
  BY <1>1, SeqOfSubset
<1>3. /\ Len(q) \in Nat /\ DOMAIN q = 1 .. Len(q)
      /\ \A i \in 1 .. Len(q) : q[i] \in Resting(side)
  BY LenProperties, ElementOfSeq
<1>4. n \in Nat /\ n <= Len(q)
  BY LenProperties DEF First
<1>5. ASSUME NEW i \in 1 .. Len(q)
      PROVE  /\ after[i] \in Order(side) /\ Same(after[i], q[i]) /\ Same(q[i], after[i])
             /\ Remaining(after[i]) > 0
                  <=> (i \in 1 .. n => Share(f, i, volume) < Remaining(q[i]))
  <2>1. q[i] \in Order(side) /\ Remaining(q[i]) > 0 /\ Remaining(q[i]) \in Nat
    BY <1>1, <1>3
  <2>2. CASE i \in 1 .. n /\ Share(f, i, volume) > 0
    <3>1. PICK s \in Nat : s = Share(f, i, volume) /\ s <= Remaining(q[i])
      <4>1. q[i] = makers[i]
        BY <2>2 DEF First
      <4> QED
        BY <1>2, <2>2, <4>1, SharesInOrder
    <3>2. PICK p : p = Filled(q[i], s)
      OBVIOUS
    <3>3. p \in Order(side) /\ Same(q[i], p) /\ Remaining(p) = Remaining(q[i]) - s
      BY <2>1, <3>1, <3>2, FilledIs
    <3>4. after[i] = p
      BY <1>3, <2>2, <3>1, <3>2 DEF After
    <3>5. Same(p, q[i])
      BY <3>3 DEF Same
    <3>6. Remaining(p) > 0 <=> s < Remaining(q[i])
      BY <2>1, <3>1, <3>3
    <3> HIDE DEF after
    <3> QED
      BY <2>2, <3>1, <3>3, <3>4, <3>5, <3>6
  <2>3. CASE i \notin 1 .. n \/ ~ (Share(f, i, volume) > 0)
    <3>1. after[i] = q[i]
      BY <1>3, <2>3 DEF After
    <3>2. i \in 1 .. n => Share(f, i, volume) \in Nat
      BY <1>2, SharesInOrder
    <3>3. i \in 1 .. n => Share(f, i, volume) < Remaining(q[i])
      BY <2>1, <2>3, <3>2
    <3> HIDE DEF after, n
    <3> QED
      BY <2>1, <3>1, <3>3 DEF Same
  <2> QED
    BY <2>2, <2>3
<1>6. DOMAIN after = 1 .. Len(q)
  BY <1>3 DEF After
<1>7. after \in [1 .. Len(q) -> Order(side)]
  <2>1. after = [i \in 1 .. Len(q) |-> after[i]]
    BY <1>3 DEF After
  <2> HIDE DEF after
  <2> QED
    BY <1>5, <2>1
<1> HIDE DEF after, n
<1>8. after \in Seq(Order(side)) /\ Len(after) = Len(q)
  BY <1>3, <1>7, FunctionIsSeq
<1>9. Related(after, R)
  <2> SUFFICES ASSUME NEW i \in 1 .. Len(q), NEW j \in 1 .. Len(q), i < j
               PROVE  <<after[i], after[j]>> \in R
    BY <1>8 DEF Related
  <2>1. <<q[i], q[j]>> \in R
    BY DEF Related
  <2>2. q[i] \in Order(side) /\ q[j] \in Order(side)
    BY <1>1, <1>3
  <2> QED
    BY <1>5, <2>1, <2>2 DEF Blind
<1>10. t = Kept(after, K)
  BY DEF IsAfter, Unfilled, after, n
<1> HIDE DEF K
<1>11. /\ t \in Seq(Order(side)) /\ Related(t, R)
       /\ \A i \in 1 .. Len(t) : t[i] \in K /\ \E l \in 1 .. Len(after) : t[i] = after[l]
       /\ \A l \in 1 .. Len(after) : after[l] \in K => \E i \in 1 .. Len(t) : t[i] = after[l]
  <2>1. KeptFrom(t, after, K)
    BY <1>10 DEF KeptFrom
  <2>2. IsSelection(t, after, Order(side), K, R)
    BY <1>8, <1>9, <2>1, KeptRelated
  <2> QED
    BY <2>2 DEF IsSelection
<1>12. t \in Seq(Resting(side))
  <2>1. t \in Seq(Order(side) \cap K)
    BY <1>8, <1>10, KeptElements
  <2>2. \A o \in Order(side) \cap K : o \in Resting(side)
    BY RemainingIsNat DEF K
  <2> QED
    BY <2>1, <2>2, SeqOfSubset
<1>13. ASSUME NEW i \in 1 .. Len(t)
       PROVE  \E l \in 1 .. Len(q) :
                /\ Same(t[i], q[l])
                /\ l \in 1 .. n => Share(f, l, volume) < Remaining(q[l])
  <2>1. PICK l \in 1 .. Len(q) : t[i] = after[l]
    BY <1>8, <1>11
  <2>2. Remaining(after[l]) > 0
    BY <1>11, <2>1 DEF K
  <2> QED
    BY <1>5, <2>1, <2>2
<1>14. ASSUME NEW l \in 1 .. Len(q), l \in 1 .. n => Share(f, l, volume) < Remaining(q[l])
       PROVE  \E i \in 1 .. Len(t) : Same(t[i], q[l])
  <2>1. Remaining(after[l]) > 0
    BY <1>5, <1>14
  <2>2. after[l] \in ToSet(after)
    BY <1>6 DEF ToSet
  <2>3. PICK i \in 1 .. Len(t) : t[i] = after[l]
    BY <1>8, <1>11, <2>1, <2>2 DEF K
  <2> QED
    BY <1>5, <2>3
<1> QED
  BY <1>11, <1>12, <1>13, <1>14 DEF n

WithoutOrder(t, q, order) == t = Kept(q, ToSet(q) \ {order})

\* A side without an order.
LEMMA WithoutKept ==
  ASSUME NEW side \in OrderAction, NEW q \in Seq(Resting(side)),
         NEW R, Related(q, R), NEW order,
         NEW t, WithoutOrder(t, q, order)
  PROVE  /\ t \in Seq(Resting(side)) /\ Related(t, R)
         /\ \A i \in 1 .. Len(t) : t[i] # order /\ Has(q, t[i])
         /\ \A l \in 1 .. Len(q) : q[l] # order => Has(t, q[l])
<1>1. PICK K : K = ToSet(q) \ {order}
  OBVIOUS
<1>2. t = Kept(q, K)
  BY <1>1 DEF WithoutOrder
<1>3. \A l \in 1 .. Len(q) : q[l] \in K <=> q[l] # order
  BY <1>1, LenProperties DEF ToSet
<1>4. /\ t \in Seq(Resting(side)) /\ Related(t, R)
      /\ \A i \in 1 .. Len(t) : t[i] \in K /\ \E l \in 1 .. Len(q) : t[i] = q[l]
      /\ \A l \in 1 .. Len(q) : q[l] \in K => \E i \in 1 .. Len(t) : t[i] = q[l]
  <2>1. KeptFrom(t, q, K)
    BY <1>2 DEF KeptFrom
  <2>2. IsSelection(t, q, Resting(side), K, R)
    BY <2>1, KeptRelated
  <2> QED
    BY <2>2 DEF IsSelection
<1> QED
  BY <1>4, <1>3 DEF Has

\* What a new order is to those of a side.
Fits(side, q, order, R) ==
  \A i \in 1 .. Len(q) : IF Better(side, order.price, q[i].price)
                        THEN <<order, q[i]>> \in R ELSE <<q[i], order>> \in R

\* A side with a new order, behind its price.
WithOrder(t, side, q, order) ==
  LET behind == {o \in ToSet(q) : Better(side, order.price, o.price)}
  IN t = Kept(q, ToSet(q) \ behind) \o <<order>> \o Kept(q, behind)

\* An order with a number that is not in the book comes after all of its price
\* and before all of a worse one.
LEMMA RestKept ==
  ASSUME NEW side \in OrderAction, NEW q \in Seq(Resting(side)), Related(q, Queue(side)),
         NEW order \in Resting(side), NEW R, Related(q, R),
         Fits(side, q, order, R),
         NEW t, WithOrder(t, side, q, order)
  PROVE  /\ t \in Seq(Resting(side)) /\ Related(t, R)
         /\ \A i \in 1 .. Len(t) : t[i] = order \/ Has(q, t[i])
         /\ \A l \in 1 .. Len(q) : Has(t, q[l])
         /\ Has(t, order)
<1>1. Len(q) \in Nat /\ DOMAIN q = 1 .. Len(q) /\ \A i \in 1 .. Len(q) : q[i] \in Resting(side)
  BY LenProperties, ElementOfSeq
<1>2. PICK behind : behind = {o \in ToSet(q) : Better(side, order.price, o.price)}
  OBVIOUS
<1>3. PICK front : front = ToSet(q) \ behind
  OBVIOUS
<1>4. \A l \in 1 .. Len(q) : /\ q[l] \in behind <=> Better(side, order.price, q[l].price)
                             /\ q[l] \in front <=> ~ Better(side, order.price, q[l].price)
  BY <1>1, <1>2, <1>3 DEF ToSet
<1>5. PICK a : KeptFrom(a, q, front)
  BY DEF KeptFrom
<1>6. PICK b : KeptFrom(b, q, behind)
  BY DEF KeptFrom
<1>7. /\ a \in Seq(Resting(side)) /\ Related(a, R)
      /\ \A i \in 1 .. Len(a) : a[i] \in front /\ \E l \in 1 .. Len(q) : a[i] = q[l]
      /\ \A l \in 1 .. Len(q) : q[l] \in front => \E i \in 1 .. Len(a) : a[i] = q[l]
  <2>1. IsSelection(a, q, Resting(side), front, R)
    BY <1>5, KeptRelated
  <2> QED
    BY <2>1 DEF IsSelection
<1>8. /\ b \in Seq(Resting(side)) /\ Related(b, R)
      /\ \A i \in 1 .. Len(b) : b[i] \in behind /\ \E l \in 1 .. Len(q) : b[i] = q[l]
      /\ \A l \in 1 .. Len(q) : q[l] \in behind => \E i \in 1 .. Len(b) : b[i] = q[l]
  <2>1. IsSelection(b, q, Resting(side), behind, R)
    BY <1>6, KeptRelated
  <2> QED
    BY <2>1 DEF IsSelection
<1>9. ASSUME NEW i \in 1 .. Len(a) PROVE <<a[i], order>> \in R
  BY <1>4, <1>7 DEF Fits
<1>10. ASSUME NEW j \in 1 .. Len(b) PROVE <<order, b[j]>> \in R
  BY <1>4, <1>8 DEF Fits
<1>11. ASSUME NEW i \in 1 .. Len(a), NEW j \in 1 .. Len(b) PROVE <<a[i], b[j]>> \in R
  <2>1. PICK l \in 1 .. Len(q) : a[i] = q[l] /\ q[l] \in front
    BY <1>7
  <2>2. PICK m \in 1 .. Len(q) : b[j] = q[m] /\ q[m] \in behind
    BY <1>8
  <2>3. PICK o \in Nat, x \in Nat, y \in Nat :
          o = order.price /\ x = q[l].price /\ y = q[m].price
    BY <1>1 DEF Resting, Order
  <2>4. ~ Better(side, o, x) /\ Better(side, o, y)
    BY <1>4, <2>1, <2>2, <2>3
  <2>5. Better(side, x, y) /\ x # y
    BY <2>4 DEF Better, OrderAction
  <2>6. ~ (m < l)
    <3> SUFFICES ASSUME m < l PROVE FALSE
      OBVIOUS
    <3>1. <<q[m], q[l]>> \in Queue(side)
      BY DEF Related
    <3>2. ~ Better(side, q[l].price, q[m].price)
      BY <3>1 DEF Queue
    <3> QED
      BY <2>3, <2>5, <3>2
  <2>7. l < m
    BY <1>1, <2>3, <2>5, <2>6
  <2> QED
    BY <2>1, <2>2, <2>7 DEF Related
<1>12. PICK u : /\ u = a \o <<order>> \o b
                /\ u \in Seq(Resting(side)) /\ Related(u, R)
                /\ \A i \in 1 .. Len(u) : u[i] = order \/ Has(a, u[i]) \/ Has(b, u[i])
                /\ \A l \in 1 .. Len(a) : Has(u, a[l])
                /\ \A l \in 1 .. Len(b) : Has(u, b[l])
                /\ Has(u, order)
  BY <1>7, <1>8, <1>9, <1>10, <1>11, Inserted
<1>13. t = u
  BY <1>2, <1>3, <1>5, <1>6, <1>12 DEF WithOrder, KeptFrom
<1>14. \A i \in 1 .. Len(u) : u[i] = order \/ Has(q, u[i])
  BY <1>7, <1>8, <1>12 DEF Has
<1>15. ASSUME NEW l \in 1 .. Len(q) PROVE Has(u, q[l])
  <2>1. CASE q[l] \in front
    <3>1. PICK i \in 1 .. Len(a) : a[i] = q[l]
      BY <1>7, <2>1
    <3> QED
      BY <1>12, <3>1
  <2>2. CASE q[l] \in behind
    <3>1. PICK i \in 1 .. Len(b) : b[i] = q[l]
      BY <1>8, <2>2
    <3> QED
      BY <1>12, <3>1
  <2> QED
    BY <1>4, <2>1, <2>2
<1> QED
  BY <1>12, <1>13, <1>14, <1>15

-----------------------------------------------------------------------------
(***************************************************************************)
(* Books.                                                                  *)
(***************************************************************************)
SideSound(b, side) == b[side] \in Seq(Resting(side)) /\ Related(b[side], Queue(side))

\* An order of a side and one of the other side do not trade, and are not one.
Apart(side, o, x) == ~ Within(side, o.price, x.price) /\ o.orderId # x.orderId

AllApart(side, q, r) == \A o, x : Has(q, o) /\ Has(r, x) => Apart(side, o, x)

SidesApart(b) == \A side \in OrderAction : AllApart(side, b[side], b[Opposite(side)])

\* What every book of the matching engine is: sorted sides that do not cross.
IsBook(b) ==
  /\ DOMAIN b = OrderAction
  /\ \A side \in OrderAction : SideSound(b, side)
  /\ SidesApart(b)

\* The two sides, and which is the other one.
LEMMA Sides ==
  ASSUME NEW a \in OrderAction
  PROVE  /\ Opposite(a) \in OrderAction /\ Opposite(a) # a /\ Opposite(Opposite(a)) = a
         /\ \A b \in OrderAction : b = a \/ b = Opposite(a)
  BY DEF OrderAction, Opposite

\* An order of a side has its type.
LEMMA OfSide ==
  ASSUME NEW side, NEW q \in Seq(Resting(side)), NEW o, Has(q, o)
  PROVE  o \in Resting(side) /\ o \in Order(side) /\ o.orderId \in Nat /\ o.price \in Nat
<1>1. PICK i \in 1 .. Len(q) : o = q[i]
  BY DEF Has
<1>2. o \in Resting(side)
  BY <1>1, ElementOfSeq
<1> QED
  BY <1>2 DEF Resting, Order

\* Which of the two orders is looked at first makes no difference.
LEMMA ApartBothWays ==
  ASSUME NEW a \in OrderAction, NEW o, NEW x, o.price \in Nat, x.price \in Nat,
         Apart(a, o, x)
  PROVE  Apart(Opposite(a), x, o)
  BY DEF Apart, Within, Opposite, OrderAction

WithSide(c, b, a, t) == c = [b EXCEPT ![a] = t]

\* A book with another sequence of orders on a side.
LEMMA SideReplaced ==
  ASSUME NEW b, IsBook(b), NEW a \in OrderAction,
         NEW t \in Seq(Resting(a)), Related(t, Queue(a)),
         AllApart(a, t, b[Opposite(a)]),
         NEW c, WithSide(c, b, a, t)
  PROVE  IsBook(c) /\ c[a] = t /\ c[Opposite(a)] = b[Opposite(a)]
<1>1. DOMAIN b = OrderAction /\ \A side \in OrderAction : SideSound(b, side)
  BY DEF IsBook
<1>2. Opposite(a) \in OrderAction /\ Opposite(a) # a /\ Opposite(Opposite(a)) = a
  BY Sides
<1>3. DOMAIN c = OrderAction /\ c[a] = t /\ c[Opposite(a)] = b[Opposite(a)]
  BY <1>1, <1>2 DEF WithSide
<1>4. ASSUME NEW side \in OrderAction PROVE SideSound(c, side)
  <2>1. CASE side = a
    BY <1>3, <2>1 DEF SideSound
  <2>2. CASE side = Opposite(a)
    BY <1>1, <1>3, <2>2 DEF SideSound
  <2> QED
    BY <2>1, <2>2, Sides
<1>5. ASSUME NEW side \in OrderAction, NEW o, NEW x,
             Has(c[side], o), Has(c[Opposite(side)], x)
      PROVE  Apart(side, o, x)
  <2>1. CASE side = a
    BY <1>3, <1>5, <2>1 DEF AllApart
  <2>2. CASE side = Opposite(a)
    <3>1. Has(b[Opposite(a)], o) /\ Has(t, x)
      BY <1>2, <1>3, <1>5, <2>2
    <3>2. Apart(a, x, o)
      BY <3>1 DEF AllApart
    <3>3. b[Opposite(a)] \in Seq(Resting(Opposite(a)))
      BY <1>1, <1>2 DEF SideSound
    <3>4. o.price \in Nat /\ x.price \in Nat
      BY <3>1, <3>3, OfSide
    <3> QED
      BY <2>2, <3>2, <3>4, ApartBothWays
  <2> QED
    BY <2>1, <2>2, Sides
<1>6. SidesApart(c)
  BY <1>5 DEF SidesApart, AllApart
<1> QED
  BY <1>3, <1>4, <1>6 DEF IsBook

\* The parts of a book that a taker or an order of side a sees.
LEMMA BookSides ==
  ASSUME NEW b, IsBook(b), NEW a \in OrderAction
  PROVE  /\ DOMAIN b = OrderAction
         /\ b[a] \in Seq(Resting(a)) /\ Related(b[a], Queue(a))
         /\ Opposite(a) \in OrderAction
         /\ b[Opposite(a)] \in Seq(Resting(Opposite(a)))
         /\ Related(b[Opposite(a)], Queue(Opposite(a)))
         /\ AllApart(a, b[a], b[Opposite(a)])
<1>1. Opposite(a) \in OrderAction
  BY Sides
<1> QED
  BY <1>1 DEF IsBook, SideSound, SidesApart

\* The makers within a limit are the first orders of their side, and no order
\* behind them is within it.
LEMMA MakersAreFirst ==
  ASSUME NEW b, IsBook(b), NEW a \in OrderAction, NEW limit \in Nat,
         NEW makers, makers = MakersWithin(b, a, limit)
  PROVE  /\ makers \in Seq(Resting(Opposite(a))) /\ First(makers, b[Opposite(a)])
         /\ \A l \in 1 .. Len(b[Opposite(a)]) :
              l > Len(makers) => ~ Within(a, limit, b[Opposite(a)][l].price)
<1>1. PICK opp \in OrderAction : opp = Opposite(a)
  BY Sides
<1>2. PICK q \in Seq(Resting(opp)) : q = b[opp] /\ Related(q, Queue(opp))
  BY <1>1, BookSides
<1>3. PICK K : K = {o \in ToSet(q) : Within(a, limit, o.price)}
  OBVIOUS
<1>4. makers = Kept(q, K)
  BY <1>1, <1>2, <1>3 DEF MakersWithin
<1>5. Len(q) \in Nat /\ DOMAIN q = 1 .. Len(q) /\ \A l \in 1 .. Len(q) : q[l].price \in Nat
  <2>1. Len(q) \in Nat /\ DOMAIN q = 1 .. Len(q) /\ \A l \in 1 .. Len(q) : q[l] \in Resting(opp)
    BY LenProperties, ElementOfSeq
  <2> QED
    BY <2>1 DEF Resting, Order
<1>6. \A l \in 1 .. Len(q) : q[l] \in K <=> Within(a, limit, q[l].price)
  BY <1>3, <1>5 DEF ToSet
<1>7. ASSUME NEW i \in 1 .. Len(q), NEW j \in 1 .. Len(q), i < j, q[j] \in K
      PROVE  q[i] \in K
  <2>1. <<q[i], q[j]>> \in Queue(opp)
    BY <1>2, <1>7 DEF Related
  <2>2. ~ Better(opp, q[j].price, q[i].price)
    BY <2>1 DEF Queue
  <2>3. PICK x \in Nat, y \in Nat : x = q[i].price /\ y = q[j].price
    BY <1>5
  <2>4. Within(a, limit, y)
    BY <1>6, <1>7, <2>3
  <2>5. Within(a, limit, x)
    BY <1>1, <2>2, <2>3, <2>4 DEF Within, Better, Opposite, OrderAction
  <2> QED
    BY <1>6, <2>3, <2>5
<1>8. /\ makers \in Seq(Resting(opp)) /\ Len(makers) \in 0 .. Len(q)
      /\ \A i \in 1 .. Len(makers) : makers[i] = q[i] /\ q[i] \in K
      /\ \A i \in 1 .. Len(q) : i > Len(makers) => q[i] \notin K
  BY <1>4, <1>7, KeptPrefix
<1>9. First(makers, q)
  BY <1>5, <1>8 DEF First
<1> QED
  BY <1>1, <1>2, <1>6, <1>8, <1>9

\* All orders of a side are its first ones.
LEMMA AllAreFirst ==
  ASSUME NEW b, IsBook(b), NEW a \in OrderAction, NEW makers, makers = b[Opposite(a)]
  PROVE  makers \in Seq(Resting(Opposite(a))) /\ First(makers, b[Opposite(a)])
<1>1. makers \in Seq(Resting(Opposite(a)))
  BY BookSides
<1>2. Len(makers) \in Nat
  BY <1>1, LenProperties
<1>3. First(makers, b[Opposite(a)])
  BY <1>2 DEF First
<1> QED
  BY <1>1, <1>3

\* The orders of t are those of q that keep something of what they had, or only
\* those after the first n.
Survive(t, q, n, f, volume) ==
  \A i \in 1 .. Len(t) : \E l \in 1 .. Len(q) :
    /\ Same(t[i], q[l])
    /\ l \in 1 .. n => Share(f, l, volume) < Remaining(q[l])

Behind(t, q, n) ==
  \A i \in 1 .. Len(t) : \E l \in 1 .. Len(q) : l > n /\ Same(t[i], q[l])

\* What makes a matched book out of one: the other side after the makers have
\* given their shares.
LEMMA MatchedBook ==
  ASSUME NEW b, IsBook(b), NEW taker, NEW a \in OrderAction, a = taker.action,
         NEW volume \in Nat,
         NEW makers \in Seq(Resting(Opposite(a))), First(makers, b[Opposite(a)]),
         NEW match, NEW f, IsMatch(match, b, taker, volume, makers, f),
         NEW c, c = match.book
  PROVE  /\ IsBook(c) /\ c[a] = b[a]
         /\ Survive(c[Opposite(a)], b[Opposite(a)], Len(makers), f, volume)
         /\ match.filled \in Nat /\ match.filled <= volume
         /\ match.filled < volume =>
              Behind(c[Opposite(a)], b[Opposite(a)], Len(makers))
<1>1. PICK opp \in OrderAction : opp = Opposite(a) /\ Opposite(opp) = a /\ opp # a
  BY Sides
<1>2. PICK q \in Seq(Resting(opp)) : q = b[opp] /\ Related(q, Queue(opp))
  BY <1>1, BookSides
<1>3. PICK t : IsAfter(t, q, Len(makers), f, volume)
  BY DEF IsAfter
<1>4. /\ Volumes(f, makers) /\ Running(f, makers) /\ f[Len(makers)] \in Nat
      /\ match.filled = IF volume <= f[Len(makers)] THEN volume ELSE f[Len(makers)]
      /\ WithSide(c, b, opp, t)
  BY <1>1, <1>2, <1>3 DEF IsMatch, IsAfter, WithSide
<1>5. makers \in Seq(Resting(opp)) /\ First(makers, q)
  BY <1>1, <1>2
<1>6. /\ t \in Seq(Resting(opp)) /\ Related(t, Queue(opp))
      /\ \A i \in 1 .. Len(t) : \E l \in 1 .. Len(q) :
           /\ Same(t[i], q[l])
           /\ l \in 1 .. Len(makers) => Share(f, l, volume) < Remaining(q[l])
  BY <1>2, <1>3, <1>4, <1>5, QueueIsBlind, AfterKept
<1>7. AllApart(opp, t, b[a])
  <2> SUFFICES ASSUME NEW o, NEW x, Has(t, o), Has(b[a], x) PROVE Apart(opp, o, x)
    BY DEF AllApart
  <2>1. PICK l \in 1 .. Len(q) : Same(o, q[l])
    BY <1>6 DEF Has
  <2>2. Has(b[opp], q[l])
    BY <1>2 DEF Has
  <2>3. Apart(opp, q[l], x)
    BY <1>1, <2>2, BookSides DEF AllApart
  <2> QED
    BY <2>1, <2>3 DEF Apart, Same
<1>8. IsBook(c) /\ c[opp] = t /\ c[a] = b[a]
  BY <1>1, <1>4, <1>6, <1>7, SideReplaced
<1>9. Len(makers) \in Nat /\ Len(q) \in Nat
  BY LenProperties
<1>10. ASSUME match.filled < volume, NEW i \in 1 .. Len(t)
       PROVE  \E l \in 1 .. Len(q) : l > Len(makers) /\ Same(t[i], q[l])
  <2>1. PICK l \in 1 .. Len(q) :
          /\ Same(t[i], q[l])
          /\ l \in 1 .. Len(makers) => Share(f, l, volume) < Remaining(q[l])
    BY <1>6
  <2>2. volume >= f[Len(makers)]
    BY <1>4, <1>10
  <2>3. l \notin 1 .. Len(makers)
    <3> SUFFICES ASSUME l \in 1 .. Len(makers) PROVE FALSE
      OBVIOUS
    <3>1. makers \in Seq(Order(opp))
      <4>1. \A o \in Resting(opp) : o \in Order(opp)
        BY DEF Resting
      <4> QED
        BY <1>5, <4>1, SeqOfSubset
    <3>2. /\ Share(f, l, volume) = Remaining(makers[l]) /\ Remaining(makers[l]) \in Nat
      BY <1>4, <2>2, <3>1, SharesInOrder
    <3>3. makers[l] = q[l]
      BY <1>5 DEF First
    <3> QED
      BY <2>1, <3>2, <3>3
  <2> QED
    BY <1>9, <2>1, <2>3
<1>11. match.filled \in Nat /\ match.filled <= volume
  BY <1>4
<1>12. Survive(t, q, Len(makers), f, volume)
  BY <1>6 DEF Survive
<1>13. match.filled < volume => Behind(t, q, Len(makers))
  BY <1>10 DEF Behind
<1> QED
  BY <1>1, <1>2, <1>8, <1>11, <1>12, <1>13

\* An order with an id that no order of the book has, and that trades with none
\* of them, may rest.
LEMMA RestedBook ==
  ASSUME NEW b, IsBook(b), NEW a \in OrderAction, NEW order \in Resting(a),
         \A side \in OrderAction : \A x : Has(b[side], x) => x.orderId # order.orderId,
         \A x : Has(b[Opposite(a)], x) => ~ Within(a, order.price, x.price),
         NEW c, c = Rest(b, order)
  PROVE  /\ IsBook(c) /\ c[Opposite(a)] = b[Opposite(a)]
         /\ WithOrder(c[a], a, b[a], order)
         /\ \A x : Has(c[a], x) <=> x = order \/ Has(b[a], x)
<1>1. order.action = a /\ order.orderId \in Nat /\ order.price \in Nat /\ order \in Order(a)
  BY DEF Resting, Order
<1>2. PICK opp \in OrderAction : opp = Opposite(a)
  BY Sides
<1>3. PICK q \in Seq(Resting(a)) : q = b[a] /\ Related(q, Queue(a))
  BY BookSides
<1>4. PICK t : WithOrder(t, a, q, order)
  BY DEF WithOrder
<1>5. WithSide(c, b, a, t)
  BY <1>1, <1>3, <1>4 DEF Rest, WithOrder, WithSide
<1>6. Fits(a, q, order, Queue(a))
  <2> SUFFICES ASSUME NEW i \in 1 .. Len(q)
               PROVE  IF Better(a, order.price, q[i].price)
                      THEN <<order, q[i]>> \in Queue(a) ELSE <<q[i], order>> \in Queue(a)
    BY DEF Fits
  <2>1. Has(q, q[i])
    BY DEF Has
  <2>2. q[i] \in Order(a) /\ q[i].price \in Nat /\ q[i].orderId # order.orderId
    BY <1>3, <2>1, OfSide
  <2>3. CASE Better(a, order.price, q[i].price)
    <3>1. ~ Better(a, q[i].price, order.price)
      BY <1>1, <2>2, <2>3 DEF Better, OrderAction
    <3>2. <<order, q[i]>> \in Queue(a)
      BY <1>1, <2>2, <3>1 DEF Queue
    <3> QED
      BY <2>3, <3>2
  <2>4. CASE ~ Better(a, order.price, q[i].price)
    <3>1. <<q[i], order>> \in Queue(a)
      BY <1>1, <2>2, <2>4 DEF Queue
    <3> QED
      BY <2>4, <3>1
  <2> QED
    BY <2>3, <2>4
<1>7. /\ t \in Seq(Resting(a)) /\ Related(t, Queue(a))
      /\ \A i \in 1 .. Len(t) : t[i] = order \/ Has(q, t[i])
      /\ \A l \in 1 .. Len(q) : Has(t, q[l])
      /\ Has(t, order)
  BY <1>3, <1>4, <1>6, RestKept
<1>8. AllApart(a, t, b[opp])
  <2> SUFFICES ASSUME NEW o, NEW x, Has(t, o), Has(b[opp], x) PROVE Apart(a, o, x)
    BY DEF AllApart
  <2>1. CASE o = order
    <3>1. ~ Within(a, order.price, x.price) /\ order.orderId # x.orderId
      BY <1>2
    <3> QED
      BY <2>1, <3>1 DEF Apart
  <2>2. CASE o # order
    <3>1. Has(q, o)
      BY <1>7, <2>2 DEF Has
    <3> QED
      BY <1>2, <1>3, <3>1, BookSides DEF AllApart
  <2> QED
    BY <2>1, <2>2
<1>9. IsBook(c) /\ c[a] = t /\ c[opp] = b[opp]
  BY <1>2, <1>5, <1>7, <1>8, SideReplaced
<1>10. \A x : Has(t, x) <=> x = order \/ Has(q, x)
  <2>1. ASSUME NEW x, Has(t, x) PROVE x = order \/ Has(q, x)
    <3>1. PICK l \in 1 .. Len(t) : x = t[l]
      BY <2>1 DEF Has
    <3> QED
      BY <1>7, <3>1
  <2>2. ASSUME NEW x, Has(q, x) PROVE Has(t, x)
    <3>1. PICK l \in 1 .. Len(q) : x = q[l]
      BY <2>2 DEF Has
    <3> QED
      BY <1>7, <3>1
  <2> QED
    BY <1>7, <2>1, <2>2
<1> QED
  BY <1>2, <1>3, <1>4, <1>9, <1>10

\* An order may be taken out, and no order with its id is left.
LEMMA WithoutBook ==
  ASSUME NEW b, IsBook(b), NEW a \in OrderAction, NEW order, order.action = a,
         Has(b[a], order), NEW c, c = Without(b, order)
  PROVE  /\ IsBook(c) /\ c[Opposite(a)] = b[Opposite(a)]
         /\ WithoutOrder(c[a], b[a], order)
         /\ \A side \in OrderAction : \A x : Has(c[side], x) => x.orderId # order.orderId
<1>1. PICK opp \in OrderAction : opp = Opposite(a)
  BY Sides
<1>2. PICK q \in Seq(Resting(a)) : q = b[a] /\ Related(q, Queue(a))
  BY BookSides
<1>3. PICK t : WithoutOrder(t, q, order)
  BY DEF WithoutOrder
<1>4. WithSide(c, b, a, t)
  BY <1>2, <1>3 DEF Without, WithoutOrder, WithSide
<1>5. /\ t \in Seq(Resting(a)) /\ Related(t, Queue(a))
      /\ \A i \in 1 .. Len(t) : t[i] # order /\ Has(q, t[i])
  BY <1>2, <1>3, WithoutKept
<1>6. AllApart(a, t, b[opp])
  <2> SUFFICES ASSUME NEW o, NEW x, Has(t, o), Has(b[opp], x) PROVE Apart(a, o, x)
    BY DEF AllApart
  <2>1. Has(q, o)
    BY <1>5 DEF Has
  <2> QED
    BY <1>1, <1>2, <2>1, BookSides DEF AllApart
<1>7. IsBook(c) /\ c[a] = t /\ c[opp] = b[opp]
  BY <1>1, <1>4, <1>5, <1>6, SideReplaced
<1>8. ASSUME NEW x, Has(t, x) PROVE x.orderId # order.orderId
  <2>1. Has(q, x) /\ x # order
    BY <1>5, <1>8 DEF Has
  <2>2. PICK i \in 1 .. Len(q) : x = q[i]
    BY <2>1 DEF Has
  <2>3. PICK j \in 1 .. Len(q) : order = q[j]
    BY <1>2 DEF Has
  <2>4. i \in Int /\ j \in Int /\ i # j
    BY <2>1, <2>2, <2>3
  <2>5. CASE i < j
    <3>1. <<q[i], q[j]>> \in Queue(a)
      BY <1>2, <2>5 DEF Related
    <3> QED
      BY <2>2, <2>3, <3>1 DEF Queue
  <2>6. CASE j < i
    <3>1. <<q[j], q[i]>> \in Queue(a)
      BY <1>2, <2>6 DEF Related
    <3> QED
      BY <2>2, <2>3, <3>1 DEF Queue
  <2> QED
    BY <2>4, <2>5, <2>6
<1>9. ASSUME NEW x, Has(b[opp], x) PROVE x.orderId # order.orderId
  <2>1. Apart(a, order, x)
    BY <1>1, <1>9, BookSides DEF AllApart
  <2> QED
    BY <2>1 DEF Apart
<1>10. \A side \in OrderAction : \A x : Has(c[side], x) => x.orderId # order.orderId
  BY <1>1, <1>7, <1>8, <1>9, Sides
<1> QED
  BY <1>1, <1>2, <1>3, <1>7, <1>10

\* An order may take the place of one with its id and price.
LEMMA ReplacedBook ==
  ASSUME NEW b, IsBook(b), NEW a \in OrderAction, NEW order, order.action = a,
         Has(b[a], order), NEW new \in Resting(a), Same(order, new),
         NEW c, c = Replace(b, order, new)
  PROVE  /\ IsBook(c) /\ c[Opposite(a)] = b[Opposite(a)]
         /\ Len(c[a]) = Len(b[a])
         /\ \A i \in 1 .. Len(b[a]) :
              c[a][i] = IF b[a][i] = order THEN new ELSE b[a][i]
<1>1. PICK opp \in OrderAction : opp = Opposite(a)
  BY Sides
<1>2. PICK q \in Seq(Resting(a)) : q = b[a] /\ Related(q, Queue(a))
  BY BookSides
<1>3. PICK t : t = [i \in DOMAIN q |-> IF q[i] = order THEN new ELSE q[i]]
  OBVIOUS
<1>4. WithSide(c, b, a, t)
  BY <1>2, <1>3 DEF Replace, WithSide
<1>5. Len(q) \in Nat /\ DOMAIN q = 1 .. Len(q) /\ \A i \in 1 .. Len(q) : q[i] \in Resting(a)
  BY LenProperties, ElementOfSeq
<1>6. \A i \in 1 .. Len(q) : t[i] = IF q[i] = order THEN new ELSE q[i]
  BY <1>3, <1>5
<1>7. t \in [1 .. Len(q) -> Resting(a)]
  BY <1>3, <1>5
<1>8. t \in Seq(Resting(a)) /\ Len(t) = Len(q)
  BY <1>5, <1>7, FunctionIsSeq
<1>9. \A i \in 1 .. Len(q) : Same(q[i], t[i])
  BY <1>6 DEF Same
<1>10. \A o \in Resting(a) : o \in Order(a)
  BY DEF Resting
<1>11. Related(t, Queue(a))
  <2> SUFFICES ASSUME NEW i \in 1 .. Len(q), NEW j \in 1 .. Len(q), i < j
               PROVE  <<t[i], t[j]>> \in Queue(a)
    BY <1>8 DEF Related
  <2>1. <<q[i], q[j]>> \in Queue(a)
    BY <1>2 DEF Related
  <2>2. t[i] \in Order(a) /\ t[j] \in Order(a) /\ q[i] \in Order(a) /\ q[j] \in Order(a)
    BY <1>5, <1>7, <1>10
  <2> QED
    BY <1>9, <2>1, <2>2, QueueIsBlind DEF Blind
<1>12. AllApart(a, t, b[opp])
  <2> SUFFICES ASSUME NEW o, NEW x, Has(t, o), Has(b[opp], x) PROVE Apart(a, o, x)
    BY DEF AllApart
  <2>1. PICK i \in 1 .. Len(q) : Same(q[i], o)
    BY <1>8, <1>9 DEF Has
  <2>2. Has(q, q[i])
    BY DEF Has
  <2>3. Apart(a, q[i], x)
    BY <1>1, <1>2, <2>2, BookSides DEF AllApart
  <2> QED
    BY <2>1, <2>3 DEF Apart, Same
<1>13. IsBook(c) /\ c[a] = t /\ c[opp] = b[opp]
  BY <1>1, <1>4, <1>8, <1>11, <1>12, SideReplaced
<1> QED
  BY <1>1, <1>2, <1>6, <1>8, <1>13

\* What is looked up in both sides.
LEMMA OrdersOf ==
  ASSUME NEW b, IsBook(b), NEW o
  PROVE  o \in ToSet(b["ASK"] \o b["BID"]) <=> Has(b["ASK"], o) \/ Has(b["BID"], o)
<1> DEFINE S == Resting("ASK") \cup Resting("BID")
<1>1. b["ASK"] \in Seq(Resting("ASK")) /\ b["BID"] \in Seq(Resting("BID"))
  <2>1. "ASK" \in OrderAction /\ "BID" \in OrderAction
    BY DEF OrderAction
  <2> QED
    BY <2>1, BookSides
<1>2. /\ \A x \in Resting("ASK") : x \in S
      /\ \A x \in Resting("BID") : x \in S
  OBVIOUS
<1> HIDE DEF S
<1>3. PICK s \in Seq(S) : s = b["ASK"]
  BY <1>1, <1>2, SeqOfSubset
<1>4. PICK t \in Seq(S) : t = b["BID"]
  BY <1>1, <1>2, SeqOfSubset
<1>5. PICK u : IsConcat(u, s, t)
  BY DEF IsConcat
<1>6. /\ u \in Seq(S)
      /\ \A i \in 1 .. Len(s) : i \in 1 .. Len(u) /\ u[i] = s[i]
      /\ \A j \in 1 .. Len(t) : Len(s) + j \in 1 .. Len(u) /\ u[Len(s) + j] = t[j]
      /\ \A i \in 1 .. Len(u) : Has(s, u[i]) \/ Has(t, u[i])
  BY <1>5, ConcatElements
<1>7. u = b["ASK"] \o b["BID"]
  BY <1>3, <1>4, <1>5 DEF IsConcat
<1>8. o \in ToSet(u) <=> Has(u, o)
  <2>1. DOMAIN u = 1 .. Len(u)
    BY <1>6, LenProperties
  <2> QED
    BY <2>1 DEF ToSet, Has
<1>9. Has(u, o) <=> Has(s, o) \/ Has(t, o)
  BY <1>6 DEF Has
<1> QED
  BY <1>3, <1>4, <1>7, <1>8, <1>9

-----------------------------------------------------------------------------
(***************************************************************************)
(* What a command may do to a book.                                        *)
(***************************************************************************)
Event ==
  [eventType : {"TRADE", "REDUCE", "REJECT"}, matchedOrderId : Nat,
   matchedOrderUid : Nat, price : Int, size : Nat, matchedOrderCompleted : BOOLEAN,
   activeOrderCompleted : BOOLEAN, bidderHoldPrice : Int]

\* A slot in which a client has placed an order or names one.
BookSlot(c) ==
  /\ {"command", "orderId", "uid", "action", "orderType", "price", "size",
      "reserveBidPrice", "resultCode", "matcherEvent", "marketData"} \subseteq DOMAIN c
  /\ c.orderId \in Nat /\ c.uid \in Nat /\ c.action \in OrderAction /\ c.price \in Nat
  /\ c.size \in Int /\ c.reserveBidPrice \in Int /\ c.matcherEvent = <<>>

\* What an order book writes into a slot.
Written == {"action", "resultCode", "matcherEvent", "marketData"}

\* A slot with the request of another one.
SameFields(answer, slot) ==
  /\ \A x \in DOMAIN slot : x \notin Written => x \in DOMAIN answer /\ answer[x] = slot[x]
  /\ answer.command = slot.command /\ answer.orderId = slot.orderId
  /\ answer.uid = slot.uid
  /\ answer.size = slot.size /\ answer.price = slot.price
  /\ answer.orderType = slot.orderType
  /\ slot.command = "PLACE_ORDER" => answer.action = slot.action

\* A slot with this result and these events and the request of another one.
Answers(answer, slot, code, events) ==
  answer.matcherEvent = events /\ answer.resultCode = code /\ SameFields(answer, slot)

NoneHas(b, id) == \A side \in OrderAction : \A x : Has(b[side], x) => x.orderId # id

\* The order may rest in this book.
MayRest(b, a, order) ==
  /\ order \in Resting(a)
  /\ NoneHas(b, order.orderId)
  /\ \A x : Has(b[Opposite(a)], x) => ~ Within(a, order.price, x.price)

\* A command that the risk engines let pass.
IsValid(c) == c.resultCode = "VALID_FOR_MATCHING_ENGINE"

Unchanged(b, c, res) ==
  /\ res.book = b
  /\ \/ \E code : /\ Answers(res.cmd, c, code, <<>>)
                  /\ c.command = "PLACE_ORDER" => code # "SUCCESS" /\ ~ IsValid(c)
     \/ /\ c.command = "PLACE_ORDER" /\ IsValid(c)
        /\ Answers(res.cmd, c, "SUCCESS", <<RejectEvent(c, c.size)>>)

OwnOrder(b, c, a, order) ==
  /\ a \in OrderAction /\ order \in Resting(a) /\ order.action = a
  /\ Has(b[a], order) /\ order.orderId = c.orderId /\ order.uid = c.uid

Removed(b, c, res) ==
  \E a, order :
    /\ OwnOrder(b, c, a, order)
    /\ c.command # "PLACE_ORDER" /\ c.command # "MOVE_ORDER"
    /\ res.book = Without(b, order) /\ res.cmd.action = a
    /\ Answers(res.cmd, c, "SUCCESS", <<ReduceEvent(order, Remaining(order), TRUE)>>)

Reduced(b, c, res) ==
  \E a, order, new, by :
    /\ OwnOrder(b, c, a, order)
    /\ c.command # "PLACE_ORDER" /\ c.command # "MOVE_ORDER"
    /\ new \in Resting(a) /\ Same(order, new)
    /\ new.uid = order.uid /\ new.reserveBidPrice = order.reserveBidPrice
    /\ by \in Nat /\ Remaining(new) = Remaining(order) - by
    /\ res.book = Replace(b, order, new) /\ res.cmd.action = a
    /\ Answers(res.cmd, c, "SUCCESS", <<ReduceEvent(order, by, FALSE)>>)

\* What a command takes to the makers: the order that it places, or one that it
\* moves and that is out of the book meanwhile.
Takes(b, c, a, base, taker, volume) ==
  /\ a \in OrderAction /\ taker.action = a /\ taker.reserveBidPrice \in Int
  /\ volume \in Nat
  /\ IsBook(base) /\ base[Opposite(a)] = b[Opposite(a)]
  /\ \/ c.command = "PLACE_ORDER" /\ base = b /\ taker = c /\ volume = c.size
     \/ /\ c.command = "MOVE_ORDER" /\ OwnOrder(b, c, a, taker)
        /\ base = Without(b, taker) /\ volume = Remaining(taker)

\* Where what is left goes: nothing is, it is rejected, or it rests.
Leaves(c, a, taker, match, left, res) ==
  \/ /\ left = 0
     /\ res.book = match.book
     /\ Answers(res.cmd, c, "SUCCESS", match.events)
  \/ /\ left > 0 /\ c.command = "PLACE_ORDER" /\ c.orderType # "FOK_BUDGET"
     /\ res.book = match.book
     /\ Answers(res.cmd, c, "SUCCESS", <<RejectEvent(c, left)>> \o match.events)
  \/ \E order :
       /\ left > 0
       /\ (c.command = "PLACE_ORDER" => c.orderType # "FOK_BUDGET")
       /\ MayRest(match.book, a, order) /\ order.orderId = c.orderId
       /\ Remaining(order) = left /\ order.uid = c.uid
       /\ order.reserveBidPrice = taker.reserveBidPrice
       /\ res.book = Rest(match.book, order)
       /\ Answers(res.cmd, c, "SUCCESS", match.events)

Executed(b, c, res) ==
  \E a, base, taker, volume, makers, match, f :
    /\ Takes(b, c, a, base, taker, volume)
    /\ makers \in Seq(Resting(Opposite(a))) /\ First(makers, base[Opposite(a)])
    /\ IsMatch(match, base, taker, volume, makers, f)
    /\ Leaves(c, a, taker, match, volume - match.filled, res) /\ res.cmd.action = a
    /\ c.command = "PLACE_ORDER" => IsValid(c)
    /\ (c.command = "PLACE_ORDER" /\ c.orderType = "FOK_BUDGET") =>
         BudgetLimitSatisfied(c.action, Cost(match.events), c.price)

Effect(b, c, res) ==
  Unchanged(b, c, res) \/ Removed(b, c, res) \/ Reduced(b, c, res) \/ Executed(b, c, res)

\* A slot that asks the same as another one.
Asks(s, c) ==
  /\ {"command", "orderId", "uid", "action", "size", "price", "orderType", "resultCode",
      "matcherEvent"} \subseteq DOMAIN s
  /\ SameFields(s, c)

\* Filling in the market data, or the action of a command other than a placement,
\* leaves what a slot asks.
LEMMA SlotAsks ==
  ASSUME NEW c, BookSlot(c)
  PROVE  /\ Asks(c, c)
         /\ c.command # "PLACE_ORDER" => \A a : Asks([c EXCEPT !.action = a], c)
         /\ \A m : Asks([c EXCEPT !.marketData = m], c)
<1>1. {"command", "orderId", "uid", "action", "orderType", "price", "size",
       "reserveBidPrice", "resultCode", "matcherEvent", "marketData"} \subseteq DOMAIN c
  BY DEF BookSlot
<1>2. Asks(c, c)
  BY <1>1 DEF Asks, SameFields
<1>3. ASSUME c.command # "PLACE_ORDER", NEW a PROVE Asks([c EXCEPT !.action = a], c)
  BY <1>1, <1>3 DEF Asks, SameFields, Written
<1>4. ASSUME NEW m PROVE Asks([c EXCEPT !.marketData = m], c)
  BY <1>1 DEF Asks, SameFields, Written
<1> QED
  BY <1>2, <1>3, <1>4

\* What a command is done with.
LEMMA DoneIs ==
  ASSUME NEW b, NEW s, NEW c, Asks(s, c), NEW code, NEW events,
         NEW res, res = Done(b, s, code, events)
  PROVE  res.book = b /\ Answers(res.cmd, c, code, events) /\ res.cmd.action = s.action
<1>1. res.book = b /\ res.cmd = [s EXCEPT !.resultCode = code, !.matcherEvent = events]
  BY DEF Done
<1>2. res.cmd.matcherEvent = events /\ res.cmd.resultCode = code /\ res.cmd.action = s.action
  BY <1>1 DEF Asks
<1>3. SameFields(res.cmd, c)
  BY <1>1 DEF Asks, SameFields, Written
<1> QED
  BY <1>1, <1>2, <1>3 DEF Answers

\* The order that a command names rests in the book.
LEMMA OwnIs ==
  ASSUME NEW b, IsBook(b), NEW c, NEW order \in Own(b, c)
  PROVE  OwnOrder(b, c, order.action, order)
<1>1. /\ order.orderId = c.orderId /\ order.uid = c.uid
      /\ order \in ToSet(b["ASK"] \o b["BID"])
  BY DEF Own, Find
<1>2. Has(b["ASK"], order) \/ Has(b["BID"], order)
  BY <1>1, OrdersOf
<1>3. PICK a \in OrderAction : Has(b[a], order)
  BY <1>2 DEF OrderAction
<1>4. b[a] \in Seq(Resting(a))
  BY BookSides
<1>5. order \in Resting(a)
  BY <1>3, <1>4, OfSide
<1>6. order.action = a
  BY <1>5 DEF Resting, Order
<1> QED
  BY <1>1, <1>3, <1>5, <1>6 DEF OwnOrder

\* A number that is not found is not there.
LEMMA FindNone ==
  ASSUME NEW b, IsBook(b), NEW id, Find(b, id) = {}
  PROVE  NoneHas(b, id)
<1> SUFFICES ASSUME NEW side \in OrderAction, NEW x, Has(b[side], x), x.orderId = id
             PROVE  FALSE
  BY DEF NoneHas
<1>1. Has(b["ASK"], x) \/ Has(b["BID"], x)
  BY DEF OrderAction
<1>2. x \in ToSet(b["ASK"] \o b["BID"])
  BY <1>1, OrdersOf
<1> QED
  BY <1>2 DEF Find

\* A sequence of events.
LEMMA SeqByElements ==
  ASSUME NEW s, IsSequence(s), NEW T, \A i \in 1 .. Len(s) : s[i] \in T
  PROVE  s \in Seq(T) /\ Len(s) \in Nat /\ DOMAIN s = 1 .. Len(s)
<1>1. PICK S : s \in Seq(S)
  BY DEF IsSequence
<1>2. Len(s) \in Nat /\ DOMAIN s = 1 .. Len(s)
  BY <1>1, LenProperties
<1>3. \E n \in Nat : s \in [1 .. n -> S]
  BY <1>1, SeqDef
<1>4. s = [i \in 1 .. Len(s) |-> s[i]]
  BY <1>2, <1>3
<1>5. s \in [1 .. Len(s) -> T]
  BY <1>4
<1> QED
  BY <1>2, <1>5, SeqDef

\* Matching makes trades, one with each of the first makers.
LEMMA TradesAreEvents ==
  ASSUME NEW b, NEW taker, taker.reserveBidPrice \in Int, NEW volume \in Nat,
         NEW a, NEW makers \in Seq(Resting(a)),
         NEW match, NEW f, IsMatch(match, b, taker, volume, makers, f)
  PROVE  /\ match.events \in Seq(Event)
         /\ Len(match.events) \in 0 .. Len(makers)
         /\ \A i \in 1 .. Len(match.events) :
              /\ Share(f, i, volume) > 0
              /\ match.events[i].eventType = "TRADE"
              /\ match.events[i].matchedOrderId = makers[i].orderId
              /\ match.events[i].size = Share(f, i, volume)
         /\ \A i \in 1 .. Len(makers) : i > Len(match.events) => Share(f, i, volume) = 0
<1> DEFINE h == Len(match.events)
<1>1. /\ Volumes(f, makers) /\ Running(f, makers) /\ IsSequence(match.events)
      /\ DOMAIN match.events = 1 .. h /\ h \in 0 .. Len(makers)
      /\ \A i \in 1 .. h : /\ Share(f, i, volume) > 0
                           /\ match.events[i] = Trade(taker, makers[i], i, f, volume)
      /\ \A i \in 1 .. Len(makers) : i > h => Share(f, i, volume) = 0
  BY DEF IsMatch
<1>2. \A o \in Resting(a) : o \in Order(a)
  BY DEF Resting
<1>3. makers \in Seq(Order(a)) /\ Len(makers) \in Nat
  BY <1>2, SeqOfSubset, LenProperties
<1>4. ASSUME NEW i \in 1 .. h
      PROVE  /\ match.events[i] \in Event
             /\ match.events[i].eventType = "TRADE"
             /\ match.events[i].matchedOrderId = makers[i].orderId
             /\ match.events[i].size = Share(f, i, volume)
  <2>1. i \in 1 .. Len(makers)
    BY <1>1, <1>3
  <2>2. makers[i] \in Order(a)
    BY <1>3, <2>1, ElementOfSeq
  <2>3. PICK s \in Nat : s = Share(f, i, volume)
    BY <1>1, <1>3, <2>1, SharesInOrder
  <2>4. PICK m : m = makers[i] /\ m \in Order(a)
    BY <2>2
  <2>5. m.orderId \in Nat /\ m.uid \in Nat /\ m.price \in Int /\ m.reserveBidPrice \in Int
    BY <2>4 DEF Order
  <2>6. PICK x \in BOOLEAN, y \in BOOLEAN : match.events[i] = TradeEvent(taker, m, s, x, y)
    BY <1>1, <2>3, <2>4 DEF Trade
  <2>7. TradeEvent(taker, m, s, x, y) \in Event
    BY <2>5 DEF TradeEvent, Event
  <2>8. /\ TradeEvent(taker, m, s, x, y).eventType = "TRADE"
        /\ TradeEvent(taker, m, s, x, y).matchedOrderId = m.orderId
        /\ TradeEvent(taker, m, s, x, y).size = s
    BY DEF TradeEvent
  <2> QED
    BY <2>3, <2>4, <2>6, <2>7, <2>8
<1> HIDE DEF h
<1>5. \A i \in 1 .. h : match.events[i] \in Event
  BY <1>4
<1>6. match.events \in Seq(Event)
  BY <1>1, <1>5, SeqByElements DEF h
<1> QED
  BY <1>1, <1>4, <1>6 DEF h

AreMakers(makers, b, a, limit) == makers = MakersWithin(b, a, limit)

Matching(match, b, taker, volume, makers) == match = Match(b, taker, volume, makers)

\* Matching against the makers within a limit, and against all makers.
LEMMA Crossing ==
  ASSUME NEW b, IsBook(b), NEW taker, NEW a \in OrderAction, a = taker.action,
         NEW volume \in Nat,
         NEW makers \in Seq(Resting(Opposite(a))), First(makers, b[Opposite(a)]),
         NEW match, Matching(match, b, taker, volume, makers)
  PROVE  \E f : IsMatch(match, b, taker, volume, makers, f)
<1>1. b[Opposite(a)] \in Seq(Resting(Opposite(a))) /\ DOMAIN b = OrderAction
  BY BookSides
<1>2. /\ Len(b[Opposite(a)]) \in Nat
      /\ DOMAIN b[Opposite(a)] = 1 .. Len(b[Opposite(a)])
  BY <1>1, LenProperties
<1> QED
  BY <1>1, <1>2, MatchIs DEF Matching

\* When something of a taker is left, no order is left that is within its limit.
LEMMA NothingWithin ==
  ASSUME NEW b, IsBook(b), NEW taker, NEW a \in OrderAction, a = taker.action,
         NEW limit \in Nat, NEW volume \in Nat,
         NEW makers, AreMakers(makers, b, a, limit),
         NEW match, Matching(match, b, taker, volume, makers)
  PROVE  /\ makers \in Seq(Resting(Opposite(a))) /\ First(makers, b[Opposite(a)])
         /\ \E f : IsMatch(match, b, taker, volume, makers, f)
         /\ match.filled \in Nat /\ match.filled <= volume
         /\ IsBook(match.book) /\ match.book[a] = b[a]
         /\ \A id : NoneHas(b, id) => NoneHas(match.book, id)
         /\ match.filled < volume =>
              \A x : Has(match.book[Opposite(a)], x) => ~ Within(a, limit, x.price)
<1>1. /\ makers \in Seq(Resting(Opposite(a))) /\ First(makers, b[Opposite(a)])
      /\ \A l \in 1 .. Len(b[Opposite(a)]) :
           l > Len(makers) => ~ Within(a, limit, b[Opposite(a)][l].price)
  BY MakersAreFirst DEF AreMakers
<1>2. PICK f : IsMatch(match, b, taker, volume, makers, f)
  BY <1>1, Crossing
<1>3. PICK d : d = match.book
  OBVIOUS
<1>4. /\ IsBook(d) /\ d[a] = b[a]
      /\ match.filled \in Nat /\ match.filled <= volume
  BY <1>1, <1>2, <1>3, MatchedBook
<1>5. \A i \in 1 .. Len(d[Opposite(a)]) : \E l \in 1 .. Len(b[Opposite(a)]) :
        Same(d[Opposite(a)][i], b[Opposite(a)][l])
  <2>1. Survive(d[Opposite(a)], b[Opposite(a)], Len(makers), f, volume)
    BY <1>1, <1>2, <1>3, MatchedBook
  <2> QED
    BY <2>1 DEF Survive
<1>6. match.filled < volume =>
        \A i \in 1 .. Len(d[Opposite(a)]) : \E l \in 1 .. Len(b[Opposite(a)]) :
          l > Len(makers) /\ Same(d[Opposite(a)][i], b[Opposite(a)][l])
  <2>1. match.filled < volume => Behind(d[Opposite(a)], b[Opposite(a)], Len(makers))
    BY <1>1, <1>2, <1>3, MatchedBook
  <2> QED
    BY <2>1 DEF Behind
<1>7. ASSUME match.filled < volume, NEW x, Has(d[Opposite(a)], x)
      PROVE  ~ Within(a, limit, x.price)
  <2>1. PICK i \in 1 .. Len(d[Opposite(a)]) : x = d[Opposite(a)][i]
    BY <1>7 DEF Has
  <2>2. PICK l \in 1 .. Len(b[Opposite(a)]) :
          l > Len(makers) /\ Same(d[Opposite(a)][i], b[Opposite(a)][l])
    BY <1>7, <1>6
  <2> QED
    BY <1>1, <2>1, <2>2 DEF Same
<1>8. ASSUME NEW id, NoneHas(b, id) PROVE NoneHas(match.book, id)
  <2> SUFFICES ASSUME NEW side \in OrderAction, NEW x, Has(d[side], x)
               PROVE  x.orderId # id
    BY <1>3 DEF NoneHas
  <2>1. CASE side = a
    BY <1>4, <1>8, <2>1 DEF NoneHas
  <2>2. CASE side = Opposite(a)
    <3>1. PICK i \in 1 .. Len(d[Opposite(a)]) : x = d[Opposite(a)][i]
      BY <2>2 DEF Has
    <3>2. PICK l \in 1 .. Len(b[Opposite(a)]) : Same(d[Opposite(a)][i], b[Opposite(a)][l])
      BY <1>5, <3>1
    <3>3. Has(b[Opposite(a)], b[Opposite(a)][l])
      BY DEF Has
    <3>4. b[Opposite(a)][l].orderId # id
      BY <1>8, <2>2, <3>3 DEF NoneHas
    <3> QED
      BY <3>1, <3>2, <3>4 DEF Same
  <2> QED
    BY <2>1, <2>2, Sides
<1> QED
  BY <1>1, <1>2, <1>3, <1>4, <1>7, <1>8

\* A limit order trades with the makers within its limit, and what is left of it
\* rests unless its number is taken.
LEMMA GtcOutcome ==
  ASSUME NEW b, IsBook(b), NEW c, BookSlot(c), c.command = "PLACE_ORDER",
         c.orderType = "GTC", c.size \in Nat, c.resultCode = "VALID_FOR_MATCHING_ENGINE",
         NEW res, res = NewOrderPlaceGtc(b, c)
  PROVE  Executed(b, c, res)
<1>1. PICK a \in OrderAction : a = c.action
  BY DEF BookSlot
<1>2. PICK makers : AreMakers(makers, b, a, c.price)
  BY DEF AreMakers
<1>3. PICK match : Matching(match, b, c, c.size, makers)
  BY DEF Matching
<1>4. c.price \in Nat /\ c.reserveBidPrice \in Int /\ c.orderId \in Nat /\ c.uid \in Nat
  BY DEF BookSlot
<1>5. /\ makers \in Seq(Resting(Opposite(a))) /\ First(makers, b[Opposite(a)])
      /\ \E f : IsMatch(match, b, c, c.size, makers, f)
      /\ match.filled \in Nat /\ match.filled <= c.size
      /\ IsBook(match.book)
      /\ match.filled < c.size =>
           \A x : Has(match.book[Opposite(a)], x) => ~ Within(a, c.price, x.price)
  BY <1>1, <1>2, <1>3, <1>4, NothingWithin
<1>6. PICK left \in Nat : left = c.size - match.filled
  BY <1>5
<1>7. PICK order : order = [orderId |-> c.orderId, uid |-> c.uid, action |-> c.action,
                            price |-> c.price, size |-> c.size, filled |-> match.filled,
                            reserveBidPrice |-> c.reserveBidPrice]
  OBVIOUS
<1>8. \/ left = 0 /\ res = Done(match.book, c, "SUCCESS", match.events)
      \/ left > 0 /\ res = Done(match.book, c, "SUCCESS", <<RejectEvent(c, left)>> \o match.events)
      \/ /\ left > 0 /\ Find(match.book, c.orderId) = {}
         /\ res = Done(Rest(match.book, order), c, "SUCCESS", match.events)
  BY <1>1, <1>2, <1>3, <1>6, <1>7 DEF NewOrderPlaceGtc, AreMakers, Matching
<1>9. Asks(c, c)
  BY SlotAsks
<1>10. Leaves(c, a, c, match, left, res) /\ res.cmd.action = a
  <2>1. CASE left = 0 /\ res = Done(match.book, c, "SUCCESS", match.events)
    <3>1. res.book = match.book /\ Answers(res.cmd, c, "SUCCESS", match.events)
          /\ res.cmd.action = a
      BY <1>1, <1>9, <2>1, DoneIs
    <3> QED
      BY <2>1, <3>1 DEF Leaves
  <2>2. CASE left > 0 /\ res = Done(match.book, c, "SUCCESS", <<RejectEvent(c, left)>> \o match.events)
    <3>1. PICK events : events = <<RejectEvent(c, left)>> \o match.events
      OBVIOUS
    <3>2. res.book = match.book /\ Answers(res.cmd, c, "SUCCESS", events)
          /\ res.cmd.action = a
      BY <1>1, <1>9, <2>2, <3>1, DoneIs
    <3> QED
      BY <2>2, <3>1, <3>2 DEF Leaves
  <2>3. CASE /\ left > 0 /\ Find(match.book, c.orderId) = {}
             /\ res = Done(Rest(match.book, order), c, "SUCCESS", match.events)
    <3>1. PICK rested : rested = Rest(match.book, order)
      OBVIOUS
    <3>2. res.book = rested /\ Answers(res.cmd, c, "SUCCESS", match.events)
          /\ res.cmd.action = a
      BY <1>1, <1>9, <2>3, <3>1, DoneIs
    <3>3. /\ order \in Resting(a) /\ order.orderId = c.orderId /\ order.price = c.price
          /\ Remaining(order) = left /\ order.uid = c.uid
          /\ order.reserveBidPrice = c.reserveBidPrice
      BY <1>1, <1>4, <1>5, <1>6, <1>7, <2>3 DEF Resting, Order, Remaining
    <3>4. NoneHas(match.book, c.orderId)
      BY <1>5, <2>3, FindNone
    <3>5. MayRest(match.book, a, order)
      BY <1>5, <1>6, <2>3, <3>3, <3>4 DEF MayRest
    <3> QED
      BY <2>3, <3>1, <3>2, <3>3, <3>5 DEF Leaves
  <2> QED
    BY <1>8, <2>1, <2>2, <2>3
<1>11. Takes(b, c, a, b, c, c.size)
  BY <1>1, <1>4 DEF Takes
<1> QED
  BY <1>5, <1>6, <1>10, <1>11 DEF Executed, IsValid

\* An immediate order trades with the makers within its limit, and what is left
\* of it is rejected.
LEMMA IocOutcome ==
  ASSUME NEW b, IsBook(b), NEW c, BookSlot(c), c.command = "PLACE_ORDER",
         c.orderType = "IOC", c.size \in Nat, c.resultCode = "VALID_FOR_MATCHING_ENGINE",
         NEW res, res = NewOrderMatchIoc(b, c)
  PROVE  Executed(b, c, res)
<1>1. PICK a \in OrderAction : a = c.action
  BY DEF BookSlot
<1>2. PICK makers : AreMakers(makers, b, a, c.price)
  BY DEF AreMakers
<1>3. PICK match : Matching(match, b, c, c.size, makers)
  BY DEF Matching
<1>4. c.price \in Nat /\ c.reserveBidPrice \in Int
  BY DEF BookSlot
<1>5. /\ makers \in Seq(Resting(Opposite(a))) /\ First(makers, b[Opposite(a)])
      /\ \E f : IsMatch(match, b, c, c.size, makers, f)
      /\ match.filled \in Nat /\ match.filled <= c.size
  BY <1>1, <1>2, <1>3, <1>4, NothingWithin
<1>6. PICK left \in Nat : left = c.size - match.filled
  BY <1>5
<1>7. match.events \in Seq(Event)
  BY <1>4, <1>5, TradesAreEvents
<1>8. <<>> \o match.events = match.events
  BY <1>7, ConcatEmptySeq
<1>9. \/ left = 0 /\ res = Done(match.book, c, "SUCCESS", match.events)
      \/ left > 0 /\ res = Done(match.book, c, "SUCCESS", <<RejectEvent(c, left)>> \o match.events)
  <2>1. res = Done(match.book, c, "SUCCESS",
                   (IF left = 0 THEN <<>> ELSE <<RejectEvent(c, left)>>) \o match.events)
    BY <1>1, <1>2, <1>3, <1>6 DEF NewOrderMatchIoc, AreMakers, Matching
  <2>2. CASE left = 0
    BY <1>8, <2>1, <2>2
  <2>3. CASE left > 0
    BY <2>1, <2>3
  <2> QED
    BY <2>2, <2>3
<1>10. Asks(c, c)
  BY SlotAsks
<1>11. Leaves(c, a, c, match, left, res) /\ res.cmd.action = a
  <2>1. CASE left = 0 /\ res = Done(match.book, c, "SUCCESS", match.events)
    <3>1. res.book = match.book /\ Answers(res.cmd, c, "SUCCESS", match.events)
          /\ res.cmd.action = a
      BY <1>1, <1>10, <2>1, DoneIs
    <3> QED
      BY <2>1, <3>1 DEF Leaves
  <2>2. CASE left > 0 /\ res = Done(match.book, c, "SUCCESS", <<RejectEvent(c, left)>> \o match.events)
    <3>1. PICK events : events = <<RejectEvent(c, left)>> \o match.events
      OBVIOUS
    <3>2. res.book = match.book /\ Answers(res.cmd, c, "SUCCESS", events)
          /\ res.cmd.action = a
      BY <1>1, <1>10, <2>2, <3>1, DoneIs
    <3> QED
      BY <2>2, <3>1, <3>2 DEF Leaves
  <2> QED
    BY <1>9, <2>1, <2>2
<1>12. Takes(b, c, a, b, c, c.size)
  BY <1>1, <1>4 DEF Takes
<1> QED
  BY <1>5, <1>6, <1>11, <1>12 DEF Executed, IsValid

\* A budget order trades with all makers it needs, or is rejected.
LEMMA FokOutcome ==
  ASSUME NEW b, IsBook(b), NEW c, BookSlot(c), c.command = "PLACE_ORDER",
         c.orderType = "FOK_BUDGET", c.size \in Nat, c.resultCode = "VALID_FOR_MATCHING_ENGINE",
         NEW res, res = NewOrderMatchFokBudget(b, c)
  PROVE  Executed(b, c, res) \/ Unchanged(b, c, res)
<1>1. PICK a \in OrderAction : a = c.action
  BY DEF BookSlot
<1>2. PICK makers : makers = b[Opposite(a)]
  OBVIOUS
<1>3. PICK match : Matching(match, b, c, c.size, makers)
  BY DEF Matching
<1>4. c.reserveBidPrice \in Int
  BY DEF BookSlot
<1>5. makers \in Seq(Resting(Opposite(a))) /\ First(makers, b[Opposite(a)])
  BY <1>2, AllAreFirst
<1>6. PICK f : IsMatch(match, b, c, c.size, makers, f)
  BY <1>1, <1>3, <1>5, Crossing DEF Matching
<1>7. \/ /\ match.filled = c.size
         /\ BudgetLimitSatisfied(c.action, Cost(match.events), c.price)
         /\ res = Done(match.book, c, "SUCCESS", match.events)
      \/ res = Done(b, c, "SUCCESS", <<RejectEvent(c, c.size)>>)
  BY <1>1, <1>2, <1>3 DEF NewOrderMatchFokBudget, Matching
<1>8. Asks(c, c)
  BY SlotAsks
<1>9. CASE /\ match.filled = c.size
           /\ BudgetLimitSatisfied(c.action, Cost(match.events), c.price)
           /\ res = Done(match.book, c, "SUCCESS", match.events)
  <2>1. res.book = match.book /\ Answers(res.cmd, c, "SUCCESS", match.events)
          /\ res.cmd.action = a
    BY <1>1, <1>8, <1>9, DoneIs
  <2>2. PICK left : left = c.size - match.filled /\ left = 0
    BY <1>9
  <2>3. Leaves(c, a, c, match, left, res) /\ res.cmd.action = a
    BY <2>1, <2>2 DEF Leaves
  <2>4. Takes(b, c, a, b, c, c.size)
    BY <1>1, <1>4 DEF Takes
  <2> QED
    BY <1>5, <1>6, <1>9, <2>2, <2>3, <2>4 DEF Executed, IsValid
<1>10. CASE res = Done(b, c, "SUCCESS", <<RejectEvent(c, c.size)>>)
  <2>1. res.book = b /\ Answers(res.cmd, c, "SUCCESS", <<RejectEvent(c, c.size)>>)
    BY <1>8, <1>10, DoneIs
  <2> QED
    BY <2>1 DEF Unchanged, IsValid
<1> QED
  BY <1>7, <1>9, <1>10

\* A placement.
LEMMA PlaceOutcome ==
  ASSUME NEW b, IsBook(b), NEW c, BookSlot(c), c.command = "PLACE_ORDER",
         c.size \in Nat, c.resultCode # "SUCCESS",
         NEW res, res = ProcessCommand(b, c)
  PROVE  Effect(b, c, res)
<1>1. Asks(c, c)
  BY SlotAsks
<1>2. CASE c.resultCode # "VALID_FOR_MATCHING_ENGINE"
  <2>1. res = [book |-> b, cmd |-> c]
    BY <1>2 DEF ProcessCommand
  <2>2. res.book = b /\ res.cmd = c
    BY <2>1
  <2>3. c.matcherEvent = <<>>
    BY DEF BookSlot
  <2>4. Answers(res.cmd, c, c.resultCode, <<>>)
    BY <1>1, <2>2, <2>3 DEF Answers, Asks
  <2> QED
    BY <1>2, <2>2, <2>4 DEF Effect, Unchanged, IsValid
<1>3. CASE c.resultCode = "VALID_FOR_MATCHING_ENGINE"
  <2>1. res = NewOrder(b, c)
    BY <1>3 DEF ProcessCommand
  <2>2. CASE c.orderType = "GTC"
    <3>1. res = NewOrderPlaceGtc(b, c)
      BY <2>1, <2>2 DEF NewOrder
    <3> QED
      BY <1>3, <2>2, <3>1, GtcOutcome DEF Effect
  <2>3. CASE c.orderType = "IOC"
    <3>1. res = NewOrderMatchIoc(b, c)
      BY <2>1, <2>3 DEF NewOrder
    <3> QED
      BY <1>3, <2>3, <3>1, IocOutcome DEF Effect
  <2>4. CASE c.orderType = "FOK_BUDGET"
    <3>1. res = NewOrderMatchFokBudget(b, c)
      BY <2>1, <2>4 DEF NewOrder
    <3> QED
      BY <1>3, <2>4, <3>1, FokOutcome DEF Effect
  <2>5. CASE c.orderType \notin {"GTC", "IOC", "FOK_BUDGET"}
    <3>1. res = Done(b, c, "SUCCESS", <<RejectEvent(c, c.size)>>)
      BY <2>1, <2>5 DEF NewOrder
    <3>2. res.book = b /\ Answers(res.cmd, c, "SUCCESS", <<RejectEvent(c, c.size)>>)
      BY <1>1, <3>1, DoneIs
    <3> QED
      BY <1>3, <3>2 DEF Effect, Unchanged, IsValid
  <2> QED
    BY <2>2, <2>3, <2>4, <2>5
<1> QED
  BY <1>2, <1>3

\* An order is taken out of the book.
LEMMA CancelOutcome ==
  ASSUME NEW b, IsBook(b), NEW c, BookSlot(c), c.command = "CANCEL_ORDER",
         NEW res, res = CancelOrder(b, c)
  PROVE  Effect(b, c, res)
<1>1. \A a : [c EXCEPT !.action = a].action = a
  BY DEF BookSlot
<1>2. Asks(c, c) /\ \A a : Asks([c EXCEPT !.action = a], c)
  BY SlotAsks
<1>3. CASE Own(b, c) = {}
  <2>1. res = Done(b, c, "MATCHING_UNKNOWN_ORDER_ID", <<>>)
    BY <1>3 DEF CancelOrder
  <2>2. res.book = b /\ Answers(res.cmd, c, "MATCHING_UNKNOWN_ORDER_ID", <<>>)
    BY <1>2, <2>1, DoneIs
  <2> QED
    BY <2>2 DEF Effect, Unchanged
<1>4. CASE Own(b, c) # {}
  <2>1. PICK order : order = CHOOSE o \in Own(b, c) : TRUE
    OBVIOUS
  <2>2. order \in Own(b, c)
    BY <1>4, <2>1
  <2>3. PICK s : s = [c EXCEPT !.action = order.action]
    OBVIOUS
  <2>4. PICK events : events = <<ReduceEvent(order, Remaining(order), TRUE)>>
    OBVIOUS
  <2>5. res = Done(Without(b, order), s, "SUCCESS", events)
    BY <1>4, <2>1, <2>3, <2>4 DEF CancelOrder
  <2>6. Asks(s, c)
    BY <1>2, <2>3
  <2>7. /\ res.book = Without(b, order) /\ Answers(res.cmd, c, "SUCCESS", events)
        /\ res.cmd.action = order.action
    <3>1. s.action = order.action
      BY <1>1, <2>3
    <3>2. /\ res.book = Without(b, order) /\ Answers(res.cmd, c, "SUCCESS", events)
          /\ res.cmd.action = s.action
      BY <2>5, <2>6, DoneIs
    <3> QED
      BY <3>1, <3>2
  <2>8. OwnOrder(b, c, order.action, order)
    BY <2>2, OwnIs
  <2> QED
    BY <2>4, <2>7, <2>8 DEF Effect, Removed
<1> QED
  BY <1>3, <1>4

\* An order gives back some of what is left of it, or all.
LEMMA ReduceOutcome ==
  ASSUME NEW b, IsBook(b), NEW c, BookSlot(c), c.command = "REDUCE_ORDER",
         NEW res, res = ReduceOrder(b, c)
  PROVE  Effect(b, c, res)
<1>1. \A a : [c EXCEPT !.action = a].action = a
  BY DEF BookSlot
<1>2. Asks(c, c) /\ \A a : Asks([c EXCEPT !.action = a], c)
  BY SlotAsks
<1>3. c.size \in Int
  BY DEF BookSlot
<1>4. CASE c.size <= 0 \/ Own(b, c) = {}
  <2>1. PICK code : res = Done(b, c, code, <<>>)
    BY <1>3, <1>4 DEF ReduceOrder
  <2>2. res.book = b /\ Answers(res.cmd, c, code, <<>>)
    BY <1>2, <2>1, DoneIs
  <2> QED
    BY <2>2 DEF Effect, Unchanged
<1>5. CASE ~ (c.size <= 0) /\ Own(b, c) # {}
  <2>1. PICK order : order = CHOOSE o \in Own(b, c) : TRUE
    OBVIOUS
  <2>2. order \in Own(b, c)
    BY <1>5, <2>1
  <2>3. PICK a : a = order.action
    OBVIOUS
  <2>4. OwnOrder(b, c, a, order)
    BY <2>2, <2>3, OwnIs
  <2>5. order \in Resting(a) /\ order \in Order(a) /\ Remaining(order) \in Nat
        /\ Remaining(order) > 0
    BY <2>4, RemainingIsNat DEF OwnOrder, Resting
  <2>6. PICK s : s = [c EXCEPT !.action = a]
    OBVIOUS
  <2>7. Asks(s, c) /\ s.action = a
    BY <1>1, <1>2, <2>6
  <2>8. PICK by \in Nat : /\ by = Min({Remaining(order), c.size})
                          /\ by > 0 /\ by <= Remaining(order)
    BY <1>3, <1>5, <2>5, MinIs
  <2>9. PICK new : new = [order EXCEPT !.size = @ - by]
    OBVIOUS
  <2>10. CASE by = Remaining(order)
    <3>1. PICK events : events = <<ReduceEvent(order, by, TRUE)>>
      OBVIOUS
    <3>2. (by = Remaining(order)) = TRUE
      BY <2>10
    <3>3. res = Done(Without(b, order), s, "SUCCESS", events)
      BY <1>3, <1>5, <2>1, <2>3, <2>6, <2>8, <3>1, <3>2 DEF ReduceOrder
    <3>4. /\ res.book = Without(b, order) /\ Answers(res.cmd, c, "SUCCESS", events)
          /\ res.cmd.action = s.action
      BY <2>7, <3>3, DoneIs
    <3>5. events = <<ReduceEvent(order, Remaining(order), TRUE)>>
      BY <2>10, <3>1
    <3> QED
      BY <2>4, <2>7, <3>4, <3>5 DEF Effect, Removed
  <2>11. CASE by # Remaining(order)
    <3>1. PICK events : events = <<ReduceEvent(order, by, FALSE)>>
      OBVIOUS
    <3>2. (by = Remaining(order)) = FALSE
      BY <2>11
    <3>3. res = Done(Replace(b, order, new), s, "SUCCESS", events)
      BY <1>3, <1>5, <2>1, <2>3, <2>6, <2>8, <2>9, <3>1, <3>2 DEF ReduceOrder
    <3>4. /\ res.book = Replace(b, order, new) /\ Answers(res.cmd, c, "SUCCESS", events)
          /\ res.cmd.action = s.action
      BY <2>7, <3>3, DoneIs
    <3>5. /\ new \in Resting(a) /\ Same(order, new) /\ Remaining(new) = Remaining(order) - by
          /\ new.uid = order.uid /\ new.reserveBidPrice = order.reserveBidPrice
      <4>1. by < Remaining(order)
        BY <2>5, <2>8, <2>11
      <4> QED
        BY <2>5, <2>9, <4>1 DEF Resting, Order, Same, Remaining
    <3> QED
      BY <2>4, <2>7, <3>1, <3>4, <3>5 DEF Effect, Reduced
  <2> QED
    BY <2>10, <2>11
<1> QED
  BY <1>4, <1>5

\* An order leaves its place, trades with the makers within its new limit, and
\* what is left of it rests there.
LEMMA MoveOutcome ==
  ASSUME NEW b, IsBook(b), NEW c, BookSlot(c), c.command = "MOVE_ORDER",
         NEW res, res = MoveOrder(b, c)
  PROVE  Effect(b, c, res)
<1>1. \A a : [c EXCEPT !.action = a].action = a
  BY DEF BookSlot
<1>2. Asks(c, c) /\ \A a : Asks([c EXCEPT !.action = a], c)
  BY SlotAsks
<1>3. c.price \in Nat
  BY DEF BookSlot
<1>4. CASE Own(b, c) = {}
  <2>1. res = Done(b, c, "MATCHING_UNKNOWN_ORDER_ID", <<>>)
    BY <1>4 DEF MoveOrder
  <2>2. res.book = b /\ Answers(res.cmd, c, "MATCHING_UNKNOWN_ORDER_ID", <<>>)
    BY <1>2, <2>1, DoneIs
  <2> QED
    BY <2>2 DEF Effect, Unchanged
<1>5. CASE Own(b, c) # {}
  <2>1. PICK order : order = CHOOSE o \in Own(b, c) : TRUE
    OBVIOUS
  <2>2. order \in Own(b, c)
    BY <1>5, <2>1
  <2>3. PICK a : a = order.action
    OBVIOUS
  <2>4. OwnOrder(b, c, a, order)
    BY <2>2, <2>3, OwnIs
  <2>5. /\ a \in OrderAction /\ Has(b[a], order) /\ order.orderId = c.orderId
        /\ order.uid = c.uid
    BY <2>4 DEF OwnOrder
  <2>6. order \in Resting(a) /\ order \in Order(a) /\ Remaining(order) \in Nat
        /\ order.reserveBidPrice \in Int
    BY <2>4, RemainingIsNat DEF OwnOrder, Resting, Order
  <2>7. PICK s : s = [c EXCEPT !.action = a] /\ Asks(s, c) /\ s.action = a
    BY <1>1, <1>2
  <2>8. PICK base : base = Without(b, order)
    OBVIOUS
  <2>9. IsBook(base) /\ base[Opposite(a)] = b[Opposite(a)] /\ NoneHas(base, order.orderId)
    BY <2>3, <2>5, <2>8, WithoutBook DEF NoneHas
  <2>10. PICK makers : AreMakers(makers, base, a, c.price)
    BY DEF AreMakers
  <2>11. PICK volume \in Nat : volume = Remaining(order)
    BY <2>6
  <2>12. PICK match : Matching(match, base, order, volume, makers)
    BY DEF Matching
  <2>13. /\ makers \in Seq(Resting(Opposite(a))) /\ First(makers, base[Opposite(a)])
         /\ \E f : IsMatch(match, base, order, volume, makers, f)
         /\ match.filled \in Nat /\ match.filled <= volume
         /\ \A id : NoneHas(base, id) => NoneHas(match.book, id)
         /\ match.filled < volume =>
              \A x : Has(match.book[Opposite(a)], x) => ~ Within(a, c.price, x.price)
    BY <1>3, <2>3, <2>5, <2>9, <2>10, <2>12, NothingWithin
  <2>14. PICK rest : rest = [order EXCEPT !.price = c.price, !.filled = @ + match.filled]
    OBVIOUS
  <2>15. PICK left \in Nat : left = volume - match.filled
    BY <2>13
  <2>16. /\ rest.orderId = order.orderId /\ rest.price = c.price /\ Remaining(rest) = left
         /\ rest.uid = order.uid /\ rest.reserveBidPrice = order.reserveBidPrice
         /\ left > 0 => rest \in Resting(a)
    <3>1. PICK p \in Nat, n \in Nat : p = c.price /\ n = match.filled /\ n <= volume
      BY <1>3, <2>13
    <3>2. rest = [order EXCEPT !.price = p, !.filled = @ + n]
      BY <2>14, <3>1
    <3>3. /\ rest.orderId = order.orderId /\ rest.price = p
          /\ rest.uid = order.uid /\ rest.reserveBidPrice = order.reserveBidPrice
          /\ rest.size = order.size /\ rest.filled = order.filled + n
      BY <2>6, <3>2 DEF Order
    <3>4. order.size \in Nat /\ order.filled \in Nat /\ order.size - order.filled = volume
      BY <2>6, <2>11 DEF Order, Remaining
    <3>5. Remaining(rest) = left
      BY <2>15, <3>1, <3>3, <3>4 DEF Remaining
    <3>6. ASSUME left > 0 PROVE rest \in Resting(a)
      <4>1. rest \in [orderId : Nat, uid : Nat, action : {a}, price : Nat, size : Nat,
                      filled : Nat, reserveBidPrice : Int]
        <5>1. PICK g \in Nat : g = order.filled + n
          BY <3>4
        <5>2. rest = [order EXCEPT !.price = p, !.filled = g]
          BY <3>2, <5>1
        <5> QED
          BY <2>6, <5>2 DEF Order
      <4>2. rest.filled < rest.size
        BY <2>15, <3>1, <3>3, <3>4, <3>6
      <4>3. rest.filled <= rest.size
        BY <3>3, <3>4, <4>2
      <4> QED
        BY <4>1, <4>2, <4>3 DEF Resting, Order
    <3> QED
      BY <3>1, <3>3, <3>5, <3>6
  <2>17. \/ res = Done(b, s, "MATCHING_MOVE_FAILED_PRICE_OVER_RISK_LIMIT", <<>>)
         \/ res = Done(IF Remaining(rest) = 0 THEN match.book ELSE Rest(match.book, rest),
                       s, "SUCCESS", match.events)
    <3>1. MakersWithin(b, a, c.price) = MakersWithin(base, a, c.price)
      BY <2>9 DEF MakersWithin
    <3>2. match = Match(base, order, Remaining(order), MakersWithin(b, a, c.price))
      BY <2>10, <2>11, <2>12, <3>1 DEF AreMakers, Matching
    <3> QED
      BY <1>5, <2>1, <2>3, <2>7, <2>8, <2>14, <3>2 DEF MoveOrder
  <2>18. CASE res = Done(b, s, "MATCHING_MOVE_FAILED_PRICE_OVER_RISK_LIMIT", <<>>)
    <3>1. /\ res.book = b
          /\ Answers(res.cmd, c, "MATCHING_MOVE_FAILED_PRICE_OVER_RISK_LIMIT", <<>>)
      BY <2>7, <2>18, DoneIs
    <3> QED
      BY <3>1 DEF Effect, Unchanged
  <2>19. CASE res = Done(IF Remaining(rest) = 0 THEN match.book ELSE Rest(match.book, rest),
                         s, "SUCCESS", match.events)
    <3>1. PICK after : after = IF Remaining(rest) = 0 THEN match.book
                               ELSE Rest(match.book, rest)
      OBVIOUS
    <3>2. /\ res.book = after /\ Answers(res.cmd, c, "SUCCESS", match.events)
          /\ res.cmd.action = s.action
      <4>1. PICK events : events = match.events
        OBVIOUS
      <4>2. res = Done(after, s, "SUCCESS", events)
        BY <2>19, <3>1, <4>1
      <4>3. /\ res.book = after /\ Answers(res.cmd, c, "SUCCESS", events)
            /\ res.cmd.action = s.action
        <5>1. Asks(s, c)
          BY <2>7
        <5> HIDE <2>7
        <5> QED
          BY <4>2, <5>1, DoneIs
      <4> QED
        BY <4>1, <4>3
    <3>3. Leaves(c, a, order, match, left, res)
      <4>1. CASE left = 0
        BY <2>16, <3>1, <3>2, <4>1 DEF Leaves
      <4>2. CASE left > 0
        <5>1. after = Rest(match.book, rest)
          BY <2>16, <3>1, <4>2
        <5>2. NoneHas(match.book, rest.orderId)
          BY <2>9, <2>13, <2>16
        <5>3. MayRest(match.book, a, rest)
          BY <2>13, <2>15, <2>16, <4>2, <5>2 DEF MayRest
        <5> QED
          BY <2>5, <2>16, <3>2, <4>2, <5>1, <5>3 DEF Leaves
      <4> QED
        BY <4>1, <4>2
    <3>4. Takes(b, c, a, base, order, volume)
      BY <2>3, <2>4, <2>5, <2>6, <2>8, <2>9, <2>11 DEF Takes
    <3>5. Executed(b, c, res)
      BY <2>7, <2>13, <2>15, <3>2, <3>3, <3>4 DEF Executed, IsValid
    <3> QED
      BY <3>5 DEF Effect
  <2> QED
    BY <2>17, <2>18, <2>19
<1> QED
  BY <1>4, <1>5

\* Any command.
LEMMA CommandOutcome ==
  ASSUME NEW b, IsBook(b), NEW c, BookSlot(c),
         c.command \in {"PLACE_ORDER", "CANCEL_ORDER", "REDUCE_ORDER", "MOVE_ORDER",
                        "ORDER_BOOK_REQUEST"},
         c.command = "PLACE_ORDER" => c.size >= 0 /\ c.resultCode # "SUCCESS",
         NEW res, res = ProcessCommand(b, c)
  PROVE  Effect(b, c, res)
<1>1. CASE c.command = "PLACE_ORDER"
  <2>1. c.size \in Int
    BY DEF BookSlot
  <2>2. c.size \in Nat
    BY <1>1, <2>1
  <2> QED
    BY <1>1, <2>2, PlaceOutcome
<1>2. CASE c.command = "CANCEL_ORDER"
  <2>1. res = CancelOrder(b, c)
    BY <1>2 DEF ProcessCommand
  <2> QED
    BY <1>2, <2>1, CancelOutcome
<1>3. CASE c.command = "REDUCE_ORDER"
  <2>1. res = ReduceOrder(b, c)
    BY <1>3 DEF ProcessCommand
  <2> QED
    BY <1>3, <2>1, ReduceOutcome
<1>4. CASE c.command = "MOVE_ORDER"
  <2>1. res = MoveOrder(b, c)
    BY <1>4 DEF ProcessCommand
  <2> QED
    BY <1>4, <2>1, MoveOutcome
<1>5. CASE c.command = "ORDER_BOOK_REQUEST"
  <2>1. PICK m : m = GetL2MarketDataSnapshot(b, c.size)
    OBVIOUS
  <2>2. PICK s : s = [c EXCEPT !.marketData = m] /\ Asks(s, c)
    BY SlotAsks
  <2>3. c.matcherEvent = <<>>
    BY DEF BookSlot
  <2>4. res = Done(b, s, "SUCCESS", <<>>)
    BY <1>5, <2>1, <2>2, <2>3 DEF ProcessCommand
  <2>5. res.book = b /\ Answers(res.cmd, c, "SUCCESS", <<>>)
    BY <2>2, <2>4, DoneIs
  <2> QED
    BY <1>5, <2>5 DEF Effect, Unchanged
<1> QED
  BY <1>1, <1>2, <1>3, <1>4, <1>5

-----------------------------------------------------------------------------
(***************************************************************************)
(* Any command leaves a book, and a chain of events in the slot.           *)
(***************************************************************************)

\* One event of a rejection or a reduction.
LEMMA SingleIsEvent ==
  ASSUME NEW type \in {"REDUCE", "REJECT"}, NEW completed \in BOOLEAN, NEW price \in Int,
         NEW size \in Nat, NEW hold \in Int
  PROVE  SingleEvent(type, completed, price, size, hold) \in Event
<1>1. PICK z \in Nat, n \in BOOLEAN : z = 0 /\ n = FALSE
  OBVIOUS
<1>2. SingleEvent(type, completed, price, size, hold) =
        [eventType |-> type, matchedOrderId |-> z, matchedOrderUid |-> z,
         matchedOrderCompleted |-> n, activeOrderCompleted |-> completed,
         price |-> price, size |-> size, bidderHoldPrice |-> hold]
  BY <1>1 DEF SingleEvent
<1> QED
  BY <1>2 DEF Event

\* A rejection by itself, and before the trades.
LEMMA RejectsAreEvents ==
  ASSUME NEW c, BookSlot(c), NEW size \in Nat, NEW events \in Seq(Event)
  PROVE  /\ RejectEvent(c, size) \in Event
         /\ <<RejectEvent(c, size)>> \in Seq(Event)
         /\ <<RejectEvent(c, size)>> \o events \in Seq(Event)
<1>1. c.price \in Int /\ c.reserveBidPrice \in Int
  BY DEF BookSlot
<1>2. PICK e \in Event : e = RejectEvent(c, size)
  BY <1>1, SingleIsEvent DEF RejectEvent
<1>3. PICK s \in Seq(Event) : s = <<e>>
  <2>1. <<e>> \in Seq(Event)
    OBVIOUS
  <2> QED
    BY <2>1
<1>4. s \o events \in Seq(Event)
  BY ConcatProperties
<1> QED
  BY <1>2, <1>3, <1>4

\* A reduction by itself.
LEMMA ReducesAreEvents ==
  ASSUME NEW a, NEW order \in Order(a), NEW size \in Nat, NEW completed \in BOOLEAN
  PROVE  <<ReduceEvent(order, size, completed)>> \in Seq(Event)
<1>1. order.price \in Int /\ order.reserveBidPrice \in Int
  BY DEF Order
<1>2. PICK e \in Event : e = ReduceEvent(order, size, completed)
  BY <1>1, SingleIsEvent DEF ReduceEvent
<1> QED
  BY <1>2

\* A book and its slot after a command.
LEMMA OutcomeIsBook ==
  ASSUME NEW b, IsBook(b), NEW c, BookSlot(c), c.command = "PLACE_ORDER" => c.size \in Nat,
         NEW res, Effect(b, c, res)
  PROVE  IsBook(res.book) /\ res.cmd.matcherEvent \in Seq(Event)
<1>1. PICK none \in Seq(Event) : none = <<>>
  BY EmptySeq
<1>2. CASE Unchanged(b, c, res)
  <2>1. res.book = b
    BY <1>2 DEF Unchanged
  <2>2. \/ res.cmd.matcherEvent = <<>>
        \/ c.command = "PLACE_ORDER" /\ res.cmd.matcherEvent = <<RejectEvent(c, c.size)>>
    BY <1>2 DEF Unchanged, Answers
  <2>3. res.cmd.matcherEvent \in Seq(Event)
    <3>1. CASE res.cmd.matcherEvent = <<>>
      BY <1>1, <3>1
    <3>2. CASE c.command = "PLACE_ORDER" /\ res.cmd.matcherEvent = <<RejectEvent(c, c.size)>>
      <4>1. PICK size \in Nat : size = c.size
        BY <3>2
      <4>2. <<RejectEvent(c, size)>> \in Seq(Event)
        BY <1>1, RejectsAreEvents
      <4> QED
        BY <3>2, <4>1, <4>2
    <3> QED
      BY <2>2, <3>1, <3>2
  <2> QED
    BY <2>1, <2>3
<1>3. CASE Removed(b, c, res)
  <2>1. PICK a, order :
          /\ OwnOrder(b, c, a, order)
          /\ res.book = Without(b, order)
          /\ Answers(res.cmd, c, "SUCCESS", <<ReduceEvent(order, Remaining(order), TRUE)>>)
    BY <1>3 DEF Removed
  <2>2. a \in OrderAction /\ order.action = a /\ Has(b[a], order) /\ order \in Resting(a)
    BY <2>1 DEF OwnOrder
  <2>3. PICK d : d = Without(b, order)
    OBVIOUS
  <2>4. IsBook(d)
    BY <2>2, <2>3, WithoutBook
  <2>5. order \in Order(a) /\ Remaining(order) \in Nat
    BY <2>2, RemainingIsNat DEF Resting
  <2>6. PICK n \in Nat, t \in BOOLEAN : n = Remaining(order) /\ t = TRUE
    BY <2>5
  <2>7. <<ReduceEvent(order, n, t)>> \in Seq(Event)
    BY <2>5, ReducesAreEvents
  <2> QED
    BY <2>1, <2>3, <2>4, <2>6, <2>7 DEF Answers
<1>4. CASE Reduced(b, c, res)
  <2>1. PICK a, order, new, by :
          /\ OwnOrder(b, c, a, order)
          /\ new \in Resting(a) /\ Same(order, new) /\ by \in Nat
          /\ res.book = Replace(b, order, new)
          /\ Answers(res.cmd, c, "SUCCESS", <<ReduceEvent(order, by, FALSE)>>)
    BY <1>4 DEF Reduced
  <2>2. a \in OrderAction /\ order.action = a /\ Has(b[a], order) /\ order \in Resting(a)
    BY <2>1 DEF OwnOrder
  <2>3. PICK d : d = Replace(b, order, new)
    OBVIOUS
  <2>4. new \in Resting(a) /\ Same(order, new)
    BY <2>1
  <2>5. IsBook(d)
    BY <2>2, <2>3, <2>4, ReplacedBook
  <2>6. order \in Order(a)
    BY <2>2 DEF Resting
  <2>7. PICK n \in Nat, t \in BOOLEAN : n = by /\ t = FALSE
    BY <2>1
  <2>8. <<ReduceEvent(order, n, t)>> \in Seq(Event)
    BY <2>6, ReducesAreEvents
  <2> QED
    BY <2>1, <2>3, <2>5, <2>7, <2>8 DEF Answers
<1>5. CASE Executed(b, c, res)
  <2>1. PICK a, base, taker, volume, makers, match, f :
          /\ Takes(b, c, a, base, taker, volume)
          /\ makers \in Seq(Resting(Opposite(a))) /\ First(makers, base[Opposite(a)])
          /\ IsMatch(match, base, taker, volume, makers, f)
          /\ Leaves(c, a, taker, match, volume - match.filled, res)
    BY <1>5 DEF Executed
  <2>2. /\ a \in OrderAction /\ a = taker.action /\ taker.reserveBidPrice \in Int
        /\ volume \in Nat /\ IsBook(base)
    BY <2>1 DEF Takes
  <2>3. makers \in Seq(Resting(Opposite(a))) /\ First(makers, base[Opposite(a)])
    BY <2>1
  <2>4. IsMatch(match, base, taker, volume, makers, f)
    BY <2>1
  <2>5. PICK d : d = match.book
    OBVIOUS
  <2>6. IsBook(d) /\ match.filled \in Nat /\ match.filled <= volume
    BY <2>2, <2>3, <2>4, <2>5, MatchedBook
  <2>7. match.events \in Seq(Event)
    BY <2>2, <2>3, <2>4, TradesAreEvents
  <2>8. PICK left \in Nat : left = volume - match.filled
    BY <2>2, <2>6
  <2>9. \/ /\ res.book = d
           /\ \/ res.cmd.matcherEvent = match.events
              \/ res.cmd.matcherEvent = <<RejectEvent(c, left)>> \o match.events
        \/ \E order : /\ MayRest(d, a, order) /\ res.book = Rest(d, order)
                      /\ res.cmd.matcherEvent = match.events
    BY <2>1, <2>5, <2>8 DEF Leaves, Answers
  <2>10. <<RejectEvent(c, left)>> \o match.events \in Seq(Event)
    BY <2>7, RejectsAreEvents
  <2>11. ASSUME NEW order, MayRest(d, a, order), res.book = Rest(d, order)
         PROVE  IsBook(res.book)
    <3>1. /\ order \in Resting(a)
          /\ \A side \in OrderAction : \A x : Has(d[side], x) => x.orderId # order.orderId
          /\ \A x : Has(d[Opposite(a)], x) => ~ Within(a, order.price, x.price)
      BY <2>11 DEF MayRest, NoneHas
    <3>2. PICK e : e = Rest(d, order)
      OBVIOUS
    <3>3. IsBook(e)
      BY <2>2, <2>6, <3>1, <3>2, RestedBook
    <3> QED
      BY <2>11, <3>2, <3>3
  <2> QED
    BY <2>6, <2>7, <2>9, <2>10, <2>11
<1> QED
  BY <1>2, <1>3, <1>4, <1>5 DEF Effect

-----------------------------------------------------------------------------
(***************************************************************************)
(* What a sequence is worth: the sum of the weights of its elements.       *)
(***************************************************************************)
Weighs(w, S) == \A x \in S : w[x] \in Int

Weighed(q, w) == [i \in DOMAIN q |-> w[q[i]]]

Worth(q, w) == Total(Weighed(q, w))

\* The weights of a sequence.
LEMMA WeighedIs ==
  ASSUME NEW S, NEW w, Weighs(w, S), NEW q \in Seq(S)
  PROVE  /\ Weighed(q, w) \in Seq(Int) /\ Len(Weighed(q, w)) = Len(q)
         /\ Len(q) \in Nat /\ DOMAIN q = 1 .. Len(q)
         /\ \A i \in 1 .. Len(q) :
              q[i] \in S /\ Weighed(q, w)[i] = w[q[i]] /\ Weighed(q, w)[i] \in Int
         /\ Worth(q, w) = Total(Weighed(q, w))
<1>1. Len(q) \in Nat /\ DOMAIN q = 1 .. Len(q)
  BY LenProperties
<1>2. PICK a : a = Weighed(q, w)
  OBVIOUS
<1>3. \A i \in 1 .. Len(q) : q[i] \in S /\ w[q[i]] \in Int
  BY ElementOfSeq DEF Weighs
<1>4. /\ a \in [1 .. Len(q) -> Int]
      /\ \A i \in 1 .. Len(q) : a[i] = w[q[i]]
  BY <1>1, <1>2, <1>3 DEF Weighed
<1>5. a \in Seq(Int) /\ Len(a) = Len(q)
  BY <1>1, <1>4, FunctionIsSeq
<1> QED
  BY <1>1, <1>2, <1>3, <1>4, <1>5 DEF Worth

\* The same with a name for the weights.
IsWeighed(a, q, w) ==
  /\ a \in Seq(Int) /\ Len(a) = Len(q) /\ Worth(q, w) = Total(a)
  /\ \A i \in 1 .. Len(q) : a[i] = w[q[i]]

\* Such weights exist.
LEMMA WeightsOf ==
  ASSUME NEW S, NEW w, Weighs(w, S), NEW q \in Seq(S)
  PROVE  \E a : IsWeighed(a, q, w)
<1>1. IsWeighed(Weighed(q, w), q, w)
  BY WeighedIs DEF IsWeighed
<1> QED
  BY <1>1

\* A number for each place of a sequence.
Points(p, q) ==
  /\ p \in Seq(Int) /\ Len(p) = Len(q)

\* The weights of the elements in a set, at their places.
Part(q, K, w) == [i \in DOMAIN q |-> IF q[i] \in K THEN w[q[i]] ELSE 0]

\* The places of a sequence.
LEMMA PartIs ==
  ASSUME NEW S, NEW w, Weighs(w, S), NEW q \in Seq(S), NEW K, NEW p, p = Part(q, K, w)
  PROVE  /\ Points(p, q) /\ Len(q) \in Nat
         /\ \A i \in 1 .. Len(q) :
              /\ p[i] = IF q[i] \in K THEN w[q[i]] ELSE 0
              /\ p[i] \in Int /\ w[q[i]] \in Int
<1>1. Len(q) \in Nat /\ DOMAIN q = 1 .. Len(q)
  BY LenProperties
<1>2. \A i \in 1 .. Len(q) : q[i] \in S /\ w[q[i]] \in Int
  BY ElementOfSeq DEF Weighs
<1>3. \A i \in 1 .. Len(q) : /\ p[i] = IF q[i] \in K THEN w[q[i]] ELSE 0
                             /\ p[i] \in Int
  BY <1>1, <1>2 DEF Part
<1>4. p \in [1 .. Len(q) -> Int]
  BY <1>1, <1>2 DEF Part
<1>5. p \in Seq(Int) /\ Len(p) = Len(q)
  BY <1>1, <1>4, FunctionIsSeq
<1> QED
  BY <1>1, <1>2, <1>3, <1>5 DEF Points

\* The worth of a sequence is a number.
LEMMA WorthIsInt ==
  ASSUME NEW S, NEW w, Weighs(w, S), NEW q \in Seq(S)
  PROVE  Worth(q, w) \in Int
<1>1. Weighed(q, w) \in Seq(Int) /\ Worth(q, w) = Total(Weighed(q, w))
  BY WeighedIs
<1> QED
  BY <1>1, TotalIsInt

IsAppend(t, q, o) == t = Append(q, o)

\* One element more.
LEMMA WorthAppend ==
  ASSUME NEW S, NEW w, Weighs(w, S), NEW q \in Seq(S), NEW o \in S,
         NEW t, IsAppend(t, q, o)
  PROVE  /\ t \in Seq(S)
         /\ Worth(t, w) = Worth(q, w) + w[o]
<1>1. PICK n \in Nat : n = Len(q)
  BY LenProperties
<1>2. /\ t \in Seq(S) /\ Len(t) = n + 1
      /\ \A i \in 1 .. n : t[i] = q[i]
      /\ t[n + 1] = o
  BY <1>1, AppendElements DEF IsAppend
<1>3. PICK a \in Seq(Int) :
        /\ Len(a) = n /\ Worth(q, w) = Total(a)
        /\ \A i \in 1 .. n : a[i] = w[q[i]]
  BY <1>1, WeightsOf DEF IsWeighed
<1>4. PICK c \in Seq(Int) :
        /\ Len(c) = n + 1 /\ Worth(t, w) = Total(c)
        /\ \A i \in 1 .. n + 1 : c[i] = w[t[i]]
  <2>1. t \in Seq(S)
    BY <1>2
  <2>2. PICK c : IsWeighed(c, t, w)
    BY <2>1, WeightsOf
  <2> QED
    BY <1>2, <2>2 DEF IsWeighed
<1>5. PICK x \in Int : x = w[o]
  BY DEF Weighs
<1>6. PICK N \in Nat : N = n + 1 /\ n <= N
  BY <1>1
<1>7. PICK f : Sums(f, c, N)
  BY <1>4, <1>6, SumsOf
<1>8. Total(c) = f[N]
  BY <1>4, <1>6, <1>7, TotalBySums
<1>9. Total(a) = f[n] /\ f[n] \in Int
  <2>1. Len(a) <= N
    BY <1>3, <1>6
  <2>2. ASSUME NEW i \in 1 .. Len(a) PROVE a[i] = c[i]
    <3>1. i \in 1 .. n /\ i \in 1 .. n + 1
      BY <1>3
    <3>2. t[i] = q[i] /\ a[i] = w[q[i]] /\ c[i] = w[t[i]]
      BY <1>2, <1>3, <1>4, <3>1
    <3> QED
      BY <3>2
  <2>3. Total(a) = f[Len(a)] /\ f[Len(a)] \in Int
    BY <1>6, <1>7, <2>1, <2>2, TotalOfFirst
  <2> QED
    BY <1>3, <2>3
<1>10. f[N] = f[N - 1] + c[N]
  <2>1. N \in 1 .. N
    BY <1>6
  <2> QED
    BY <1>7, <2>1 DEF Sums
<1>11. N - 1 = n /\ c[N] = x
  <2>1. N \in 1 .. n + 1
    BY <1>6
  <2> QED
    BY <1>2, <1>4, <1>5, <1>6, <2>1
<1>12. f[N] = f[n] + x
  BY <1>10, <1>11
<1> QED
  BY <1>2, <1>3, <1>4, <1>5, <1>8, <1>9, <1>12

\* The elements of a set have their weights at their places.
LEMMA KeptWorth ==
  ASSUME NEW S, NEW w, Weighs(w, S), NEW q \in Seq(S), NEW K, NEW t, t = Kept(q, K),
         NEW p, p = Part(q, K, w)
  PROVE  t \in Seq(S) /\ Worth(t, w) = Total(p)
<1>1. PICK kept : IsKept(kept, q, K)
  BY KeptSteps
<1>2. /\ Points(p, q) /\ Len(q) \in Nat
      /\ \A i \in 1 .. Len(q) :
           /\ p[i] = IF q[i] \in K THEN w[q[i]] ELSE 0
           /\ p[i] \in Int /\ w[q[i]] \in Int
  BY PartIs
<1>3. PICK n \in Nat : n = Len(q) /\ n = Len(p)
  BY <1>2 DEF Points
<1>4. PICK f : Sums(f, p, n)
  BY <1>2, <1>3, SumsOf DEF Points
<1> DEFINE Q == {i \in 0 .. n : kept[i] \in Seq(S) /\ Worth(kept[i], w) = f[i]}
<1>5. 0 \in Q
  <2>1. PICK none \in Seq(S) : none = <<>> /\ Len(none) = 0
    BY EmptySeq
  <2>2. PICK a \in Seq(Int) : Len(a) = 0 /\ Worth(none, w) = Total(a)
    BY <2>1, WeightsOf DEF IsWeighed
  <2>3. PICK z \in Nat : z = 0
    OBVIOUS
  <2>4. Total(a) = f[0]
    <3>1. Len(a) <= n /\ \A i \in 1 .. Len(a) : a[i] = p[i]
      BY <1>3, <2>2
    <3>2. Total(a) = f[Len(a)]
      BY <1>3, <1>4, <3>1, TotalOfFirst
    <3> QED
      BY <2>2, <3>2
  <2>5. kept[0] = none
    BY <1>1, <2>1 DEF IsKept
  <2> QED
    BY <1>3, <2>2, <2>4, <2>5
<1>6. ASSUME NEW i \in 0 .. n - 1, i \in Q PROVE i + 1 \in Q
  <2>1. PICK j \in 1 .. n : j = i + 1 /\ j - 1 = i /\ j \in 0 .. n
    BY <1>3
  <2>2. PICK old \in Seq(S) : old = kept[i] /\ Worth(old, w) = f[i]
    BY <1>6
  <2>3. q[j] \in S
    BY <1>3, <2>1, ElementOfSeq
  <2>4. f[j] = f[i] + p[j] /\ f[i] \in Int
    BY <1>4, <2>1 DEF Sums
  <2>5. CASE q[j] \in K
    <3>1. PICK new : IsAppend(new, old, q[j])
      BY DEF IsAppend
    <3>2. new \in Seq(S) /\ Worth(new, w) = Worth(old, w) + w[q[j]]
      BY <2>3, <3>1, WorthAppend
    <3>3. kept[j] = new
      BY <1>1, <1>3, <2>1, <2>2, <2>5, <3>1 DEF IsKept, IsAppend
    <3>4. p[j] = w[q[j]]
      BY <1>2, <1>3, <2>5
    <3>5. j \in Q
      BY <2>1, <2>2, <2>4, <3>2, <3>3, <3>4
    <3> QED
      BY <2>1, <3>5
  <2>6. CASE q[j] \notin K
    <3>1. kept[j] = old
      BY <1>1, <1>3, <2>1, <2>2, <2>6 DEF IsKept
    <3>2. p[j] = 0
      BY <1>2, <1>3, <2>6
    <3>3. f[j] = f[i]
      BY <2>4, <3>2
    <3>4. j \in Q
      BY <2>1, <2>2, <3>1, <3>3
    <3> QED
      BY <2>1, <3>4
  <2> QED
    BY <2>5, <2>6
<1> HIDE DEF Q
<1>7. \A i \in 0 .. n : i \in Q
  BY <1>3, <1>5, <1>6, InductionOverInterval
<1>8. n \in 0 .. n
  BY <1>3
<1>9. kept[n] \in Seq(S) /\ Worth(kept[n], w) = f[n]
  BY <1>7, <1>8 DEF Q
<1>10. t = kept[n]
  BY <1>1, <1>3 DEF IsKept
<1>11. Total(p) = f[n]
  BY <1>2, <1>3, <1>4, TotalBySums DEF Points
<1> QED
  BY <1>9, <1>10, <1>11

\* Two sequences, one after the other.
LEMMA WorthConcat ==
  ASSUME NEW S, NEW w, Weighs(w, S), NEW s \in Seq(S), NEW t \in Seq(S),
         NEW u, IsConcat(u, s, t)
  PROVE  u \in Seq(S) /\ Worth(u, w) = Worth(s, w) + Worth(t, w)
<1>1. /\ u \in Seq(S) /\ Len(u) = Len(s) + Len(t)
      /\ Len(s) \in Nat /\ Len(t) \in Nat
      /\ \A i \in 1 .. Len(s) : i \in 1 .. Len(u) /\ u[i] = s[i]
      /\ \A j \in 1 .. Len(t) : Len(s) + j \in 1 .. Len(u) /\ u[Len(s) + j] = t[j]
  BY ConcatElements
<1>2. PICK a \in Seq(Int) :
        /\ Len(a) = Len(s) /\ Worth(s, w) = Total(a)
        /\ \A i \in 1 .. Len(s) : a[i] = w[s[i]]
  BY WeightsOf DEF IsWeighed
<1>3. PICK b \in Seq(Int) :
        /\ Len(b) = Len(t) /\ Worth(t, w) = Total(b)
        /\ \A i \in 1 .. Len(t) : b[i] = w[t[i]]
  BY WeightsOf DEF IsWeighed
<1>4. PICK c \in Seq(Int) :
        /\ Len(c) = Len(u) /\ Worth(u, w) = Total(c)
        /\ \A i \in 1 .. Len(u) : c[i] = w[u[i]]
  <2>1. u \in Seq(S)
    BY <1>1
  <2>2. PICK c : IsWeighed(c, u, w)
    BY <2>1, WeightsOf
  <2> QED
    BY <2>2 DEF IsWeighed
<1>5. Len(c) = Len(a) + Len(b)
  BY <1>1, <1>2, <1>3, <1>4
<1>6. ASSUME NEW i \in 1 .. Len(a) PROVE c[i] = a[i]
  <2>1. i \in 1 .. Len(s)
    BY <1>2
  <2>2. i \in 1 .. Len(u) /\ u[i] = s[i]
    BY <1>1, <2>1
  <2>3. c[i] = w[u[i]] /\ a[i] = w[s[i]]
    BY <1>2, <1>4, <2>1, <2>2
  <2> QED
    BY <2>2, <2>3
<1>7. ASSUME NEW j \in 1 .. Len(b) PROVE c[Len(a) + j] = b[j]
  <2>1. j \in 1 .. Len(t)
    BY <1>3
  <2>2. PICK k : k = Len(s) + j /\ k \in 1 .. Len(u) /\ u[k] = t[j]
    BY <1>1, <2>1
  <2>3. c[k] = w[u[k]] /\ b[j] = w[t[j]]
    BY <1>3, <1>4, <2>1, <2>2
  <2>4. Len(a) = Len(s)
    BY <1>2
  <2> QED
    BY <2>2, <2>3, <2>4
<1>8. Total(c) = Total(a) + Total(b)
  BY <1>5, <1>6, <1>7, TotalOfConcat
<1> QED
  BY <1>1, <1>2, <1>3, <1>4, <1>8

\* A side with an order more is worth as much more as the order.
LEMMA RestWorth ==
  ASSUME NEW side, NEW S, NEW w, Weighs(w, S), NEW q \in Seq(S), NEW order \in S,
         NEW t, WithOrder(t, side, q, order)
  PROVE  Worth(t, w) = Worth(q, w) + w[order]
<1>1. PICK behind : behind = {o \in ToSet(q) : Better(side, order.price, o.price)}
  OBVIOUS
<1>2. PICK front : front = ToSet(q) \ behind
  OBVIOUS
<1>3. PICK a : a = Kept(q, front)
  OBVIOUS
<1>4. PICK b : b = Kept(q, behind)
  OBVIOUS
<1>5. PICK x : x = Part(q, front, w)
  OBVIOUS
<1>6. PICK y : y = Part(q, behind, w)
  OBVIOUS
<1>7. a \in Seq(S) /\ Worth(a, w) = Total(x)
  BY <1>3, <1>5, KeptWorth
<1>8. b \in Seq(S) /\ Worth(b, w) = Total(y)
  BY <1>4, <1>6, KeptWorth
<1>9. /\ Points(x, q) /\ Len(q) \in Nat
      /\ \A i \in 1 .. Len(q) : x[i] = IF q[i] \in front THEN w[q[i]] ELSE 0
  BY <1>5, PartIs
<1>10. /\ Points(y, q)
       /\ \A i \in 1 .. Len(q) : /\ y[i] = IF q[i] \in behind THEN w[q[i]] ELSE 0
                                 /\ w[q[i]] \in Int
  BY <1>6, PartIs
<1>11. PICK l \in Seq(Int) :
         /\ Len(l) = Len(q) /\ Worth(q, w) = Total(l)
         /\ \A i \in 1 .. Len(q) : l[i] = w[q[i]]
  BY WeightsOf DEF IsWeighed
<1>12. \A i \in 1 .. Len(q) : q[i] \in front <=> q[i] \notin behind
  BY <1>2, LenProperties DEF ToSet
<1>13. ASSUME NEW i \in 1 .. Len(l) PROVE l[i] = x[i] + y[i]
  <2>1. PICK r \in Int : r = w[q[i]]
    BY <1>10, <1>11
  <2>2. CASE q[i] \in behind
    <3>1. x[i] = 0 /\ y[i] = r /\ l[i] = r
      BY <1>9, <1>10, <1>11, <1>12, <2>1, <2>2
    <3> QED
      BY <3>1
  <2>3. CASE q[i] \notin behind
    <3>1. x[i] = r /\ y[i] = 0 /\ l[i] = r
      BY <1>9, <1>10, <1>11, <1>12, <2>1, <2>3
    <3> QED
      BY <3>1
  <2> QED
    BY <2>2, <2>3
<1>14. Total(l) = Total(x) + Total(y)
  <2>1. x \in Seq(Int) /\ y \in Seq(Int) /\ Len(x) = Len(l) /\ Len(y) = Len(l)
    BY <1>9, <1>10, <1>11 DEF Points
  <2> QED
    BY <1>13, <2>1, TotalsAdd
<1>15. PICK c : IsAppend(c, a, order)
  BY DEF IsAppend
<1>16. c \in Seq(S) /\ Worth(c, w) = Worth(a, w) + w[order]
  BY <1>7, <1>15, WorthAppend
<1>17. c = a \o <<order>>
  BY <1>7, <1>15, AppendIsConcat DEF IsAppend
<1>18. PICK u : IsConcat(u, c, b)
  BY DEF IsConcat
<1>19. Worth(u, w) = Worth(c, w) + Worth(b, w)
  BY <1>8, <1>16, <1>18, WorthConcat
<1>20. t = u
  BY <1>1, <1>2, <1>3, <1>4, <1>17, <1>18 DEF WithOrder, IsConcat
<1>21. Worth(a, w) \in Int /\ Worth(b, w) \in Int /\ w[order] \in Int
  BY <1>7, <1>8, WorthIsInt DEF Weighs
<1> QED
  BY <1>7, <1>8, <1>11, <1>14, <1>16, <1>19, <1>20, <1>21

\* Something is at one place of a sequence.
OnlyAt(q, l, order) ==
  l \in 1 .. Len(q) /\ \A i \in 1 .. Len(q) : q[i] = order <=> i = l

\* A number at one place of n.
IsPoint(p, n, l, r) ==
  /\ p \in Seq(Int) /\ Len(p) = n
  /\ \A i \in 1 .. n : p[i] = IF i = l THEN r ELSE 0

\* They add up to that number.
LEMMA OnePoint ==
  ASSUME NEW n \in Nat, NEW l \in 1 .. n, NEW r \in Int
  PROVE  \E p : IsPoint(p, n, l, r) /\ Total(p) = r
<1>1. PICK p : p = [i \in 1 .. n |-> IF i = l THEN r ELSE 0]
  OBVIOUS
<1>2. p \in [1 .. n -> Int] /\ \A i \in 1 .. n : p[i] = IF i = l THEN r ELSE 0
  BY <1>1
<1>3. p \in Seq(Int) /\ Len(p) = n
  BY <1>2, FunctionIsSeq
<1>4. l \in 1 .. Len(p) /\ \A i \in 1 .. Len(p) : i # l => p[i] = 0
  BY <1>2, <1>3
<1>5. Total(p) = p[l]
  BY <1>3, <1>4, TotalOfOne
<1>6. IsPoint(p, n, l, r)
  BY <1>2, <1>3 DEF IsPoint
<1>7. p[l] = r
  BY <1>2
<1> QED
  BY <1>5, <1>6, <1>7

\* A side without an order is worth as much less as the order.
LEMMA WithoutWorth ==
  ASSUME NEW S, NEW w, Weighs(w, S), NEW q \in Seq(S), NEW order, NEW l, OnlyAt(q, l, order),
         NEW t, WithoutOrder(t, q, order)
  PROVE  Worth(q, w) = Worth(t, w) + w[order]
<1>1. PICK K : K = ToSet(q) \ {order}
  OBVIOUS
<1>2. t = Kept(q, K)
  BY <1>1 DEF WithoutOrder
<1>3. PICK x : x = Part(q, K, w)
  OBVIOUS
<1>4. t \in Seq(S) /\ Worth(t, w) = Total(x)
  BY <1>2, <1>3, KeptWorth
<1>5. /\ Points(x, q) /\ Len(q) \in Nat
      /\ \A i \in 1 .. Len(q) : /\ x[i] = IF q[i] \in K THEN w[q[i]] ELSE 0
                                /\ w[q[i]] \in Int
  BY <1>3, PartIs
<1>6. l \in 1 .. Len(q) /\ \A i \in 1 .. Len(q) : q[i] = order <=> i = l
  BY DEF OnlyAt
<1>7. PICK r \in Int : r = w[order]
  BY <1>5, <1>6
<1>8. PICK y \in Seq(Int) : /\ Len(y) = Len(q) /\ Total(y) = r
                            /\ \A i \in 1 .. Len(q) : y[i] = IF i = l THEN r ELSE 0
  <2>1. PICK n \in Nat : n = Len(q) /\ l \in 1 .. n
    BY <1>5, <1>6
  <2>2. PICK p : IsPoint(p, n, l, r) /\ Total(p) = r
    BY <2>1, OnePoint
  <2> QED
    BY <2>1, <2>2 DEF IsPoint
<1>9. PICK a \in Seq(Int) :
        /\ Len(a) = Len(q) /\ Worth(q, w) = Total(a)
        /\ \A i \in 1 .. Len(q) : a[i] = w[q[i]]
  BY WeightsOf DEF IsWeighed
<1>10. \A i \in 1 .. Len(q) : q[i] \in K <=> i # l
  BY <1>1, <1>6, LenProperties DEF ToSet
<1>11. ASSUME NEW i \in 1 .. Len(a) PROVE a[i] = x[i] + y[i]
  <2>1. PICK s \in Int : s = w[q[i]]
    BY <1>5, <1>9
  <2>2. CASE i = l
    <3>1. x[i] = 0 /\ y[i] = r /\ a[i] = r
      BY <1>5, <1>6, <1>7, <1>8, <1>9, <1>10, <2>2
    <3> QED
      BY <3>1
  <2>3. CASE i # l
    <3>1. x[i] = s /\ y[i] = 0 /\ a[i] = s
      BY <1>5, <1>8, <1>9, <1>10, <2>1, <2>3
    <3> QED
      BY <3>1
  <2> QED
    BY <2>2, <2>3
<1>12. Total(a) = Total(x) + Total(y)
  <2>1. x \in Seq(Int) /\ Len(x) = Len(a) /\ Len(y) = Len(a)
    BY <1>5, <1>8, <1>9 DEF Points
  <2> QED
    BY <1>11, <2>1, TotalsAdd
<1> QED
  BY <1>4, <1>7, <1>8, <1>9, <1>12

\* A side with an order in the place of another one, worth less.
LEMMA ReplacedWorth ==
  ASSUME NEW S, NEW w, Weighs(w, S), NEW q \in Seq(S), NEW order, NEW l, OnlyAt(q, l, order),
         NEW by \in Int, NEW new, w[new] = w[order] - by,
         NEW t \in Seq(S), Len(t) = Len(q),
         \A i \in 1 .. Len(q) : t[i] = IF q[i] = order THEN new ELSE q[i]
  PROVE  Worth(q, w) = Worth(t, w) + by
<1>1. Len(q) \in Nat /\ l \in 1 .. Len(q) /\ \A i \in 1 .. Len(q) : q[i] = order <=> i = l
  BY LenProperties DEF OnlyAt
<1>2. PICK a \in Seq(Int) :
        /\ Len(a) = Len(q) /\ Worth(q, w) = Total(a)
        /\ \A i \in 1 .. Len(q) : a[i] = w[q[i]] /\ a[i] \in Int
  BY WeightsOf DEF IsWeighed
<1>3. PICK x \in Seq(Int) :
        /\ Len(x) = Len(q) /\ Worth(t, w) = Total(x)
        /\ \A i \in 1 .. Len(q) : x[i] = w[t[i]]
  BY WeightsOf DEF IsWeighed
<1>4. PICK y \in Seq(Int) : /\ Len(y) = Len(q) /\ Total(y) = by
                            /\ \A i \in 1 .. Len(q) : y[i] = IF i = l THEN by ELSE 0
  <2>1. PICK n \in Nat : n = Len(q) /\ l \in 1 .. n
    BY <1>1
  <2>2. PICK p : IsPoint(p, n, l, by) /\ Total(p) = by
    BY <2>1, OnePoint
  <2> QED
    BY <2>1, <2>2 DEF IsPoint
<1>5. ASSUME NEW i \in 1 .. Len(a) PROVE a[i] = x[i] + y[i]
  <2>1. PICK s \in Int : s = w[q[i]] /\ a[i] = s
    BY <1>2
  <2>2. CASE i = l
    <3>1. x[i] = s - by /\ y[i] = by
      BY <1>1, <1>2, <1>3, <1>4, <2>1, <2>2
    <3> QED
      BY <2>1, <3>1
  <2>3. CASE i # l
    <3>1. x[i] = s /\ y[i] = 0
      BY <1>1, <1>2, <1>3, <1>4, <2>1, <2>3
    <3> QED
      BY <2>1, <3>1
  <2> QED
    BY <2>2, <2>3
<1>6. Total(a) = Total(x) + Total(y)
  <2>1. Len(x) = Len(a) /\ Len(y) = Len(a)
    BY <1>2, <1>3, <1>4
  <2> QED
    BY <1>5, <2>1, TotalsAdd
<1> QED
  BY <1>2, <1>3, <1>4, <1>6

\* What the makers give.
AreShares(g, n, f, volume) ==
  g \in Seq(Int) /\ Len(g) = n /\ \A i \in 1 .. n : g[i] = Share(f, i, volume)

\* Together they give the volume, or all they have.
LEMMA SharesTotal ==
  ASSUME NEW side, NEW makers \in Seq(Order(side)), NEW volume \in Nat,
         NEW f, Volumes(f, makers), Running(f, makers), NEW n, n = Len(makers)
  PROVE  \E g : /\ AreShares(g, n, f, volume)
                /\ Total(g) = IF volume <= f[n] THEN volume ELSE f[n]
<1>1. n \in Nat
  BY LenProperties
<1>2. \A i \in 1 .. n : Share(f, i, volume) \in Nat
  BY SharesInOrder
<1>3. PICK g : g = [i \in 1 .. n |-> Share(f, i, volume)]
  OBVIOUS
<1>4. g \in [1 .. n -> Int] /\ \A i \in 1 .. n : g[i] = Share(f, i, volume)
  BY <1>2, <1>3
<1>5. g \in Seq(Int) /\ Len(g) = n
  BY <1>1, <1>4, FunctionIsSeq
<1>6. PICK h : h = [i \in 0 .. n |-> IF volume <= f[i] THEN volume ELSE f[i]]
  OBVIOUS
<1>7. f \in [0 .. n -> Int] /\ f[0] = 0
  BY DEF Volumes, Sums
<1>8. h \in [0 .. n -> Int]
  BY <1>6, <1>7
<1>9. 0 \in 0 .. n /\ n \in 0 .. n
  BY <1>1
<1>10. h[0] = 0 /\ h[n] = IF volume <= f[n] THEN volume ELSE f[n]
  BY <1>6, <1>7, <1>9
<1>11. ASSUME NEW i \in 1 .. n PROVE h[i] = h[i - 1] + g[i]
  <2>1. i \in 0 .. n /\ i - 1 \in 0 .. n
    BY <1>1
  <2>2. PICK x \in Nat, y \in Nat : x = f[i - 1] /\ y = f[i] /\ x <= y
    <3>1. /\ f[i - 1] \in Nat /\ f[i] \in Nat
          /\ f[i] = f[i - 1] + Remaining(makers[i])
      BY DEF Running
    <3>2. Remaining(makers[i]) \in Nat
      BY SharesInOrder
    <3> QED
      BY <3>1, <3>2
  <2>3. /\ h[i] = IF volume <= y THEN volume ELSE y
        /\ h[i - 1] = IF volume <= x THEN volume ELSE x
    BY <1>6, <2>1, <2>2
  <2>4. g[i] = IF volume <= x THEN 0 ELSE IF volume >= y THEN y - x ELSE volume - x
    BY <1>4, <2>2 DEF Share
  <2> QED
    BY <2>2, <2>3, <2>4
<1>12. Sums(h, g, n)
  BY <1>8, <1>10, <1>11 DEF Sums
<1>13. Total(g) = h[n]
  BY <1>5, <1>12, TotalBySums
<1>14. AreShares(g, n, f, volume)
  BY <1>4, <1>5 DEF AreShares
<1> QED
  BY <1>10, <1>13, <1>14

\* Weights that are so much for each lot that is left of an order.
PerLot(w, rate, S) ==
  \A o \in S :
    /\ w[o] \in Int /\ rate[o] \in Int /\ w[o] = Remaining(o) * rate[o]
    /\ \A n \in Nat : Filled(o, n) \in S => rate[Filled(o, n)] = rate[o]

\* What the lots are worth that the makers give.
Given(y, makers, rate, n, f, volume) ==
  /\ y \in Seq(Int) /\ Len(y) = n
  /\ \A i \in 1 .. n : y[i] = Share(f, i, volume) * rate[makers[i]]

\* A side after matching is worth as much less as the makers give.
LEMMA MatchedWorth ==
  ASSUME NEW side, NEW w, NEW rate, PerLot(w, rate, Order(side)),
         NEW q \in Seq(Order(side)),
         NEW makers \in Seq(Order(side)), First(makers, q), NEW volume \in Nat,
         NEW f, Volumes(f, makers), Running(f, makers),
         NEW n, n = Len(makers),
         NEW t, IsAfter(t, q, n, f, volume)
  PROVE  \E y : /\ Given(y, makers, rate, n, f, volume)
                /\ Worth(q, w) = Worth(t, w) + Total(y)
<1>1. PICK S : S = Order(side)
  OBVIOUS
<1>2. /\ Weighs(w, S)
       /\ \A o \in S : rate[o] \in Int /\ w[o] \in Int /\ w[o] = Remaining(o) * rate[o]
  BY <1>1 DEF PerLot, Weighs
<1>3. /\ n \in Nat /\ Len(q) \in Nat /\ DOMAIN q = 1 .. Len(q) /\ n <= Len(q)
      /\ \A i \in 1 .. Len(q) : q[i] \in Order(side)
  BY LenProperties, ElementOfSeq DEF First
<1>4. PICK after : after = After(q, n, f, volume)
  OBVIOUS
<1>5. ASSUME NEW i \in 1 .. n
      PROVE  /\ Share(f, i, volume) \in Nat /\ Remaining(q[i]) \in Nat
             /\ Share(f, i, volume) <= Remaining(q[i])
  <2>1. makers[i] = q[i]
    BY DEF First
  <2> QED
    BY <2>1, SharesInOrder
<1>6. ASSUME NEW i \in 1 .. Len(q)
      PROVE  /\ after[i] \in Order(side) /\ rate[after[i]] = rate[q[i]]
             /\ Remaining(after[i]) = IF i <= n THEN Remaining(q[i]) - Share(f, i, volume)
                                      ELSE Remaining(q[i])
  <2>1. q[i] \in Order(side) /\ Remaining(q[i]) \in Nat
    BY <1>3, RemainingIsNat
  <2>2. CASE i \in 1 .. n /\ Share(f, i, volume) > 0
    <3>1. PICK s \in Nat : s = Share(f, i, volume) /\ s <= Remaining(q[i])
      BY <1>5, <2>2
    <3>2. PICK p : p = Filled(q[i], s)
      OBVIOUS
    <3>3. p \in Order(side) /\ Remaining(p) = Remaining(q[i]) - s
      BY <2>1, <3>1, <3>2, FilledIs
    <3>4. after[i] = p
      BY <1>3, <1>4, <2>2, <3>1, <3>2 DEF After
    <3>5. i <= n
      BY <1>3, <2>2
    <3>6. rate[p] = rate[q[i]]
      BY <2>1, <3>2, <3>3 DEF PerLot
    <3> QED
      BY <3>1, <3>3, <3>4, <3>5, <3>6
  <2>3. CASE ~ (i \in 1 .. n /\ Share(f, i, volume) > 0)
    <3>1. after[i] = q[i]
      BY <1>3, <1>4, <2>3 DEF After
    <3>2. i <= n => Share(f, i, volume) = 0
      <4>1. ASSUME i <= n PROVE Share(f, i, volume) = 0
        <5>1. i \in 1 .. n
          BY <1>3, <4>1
        <5>2. Share(f, i, volume) \in Nat
          BY <1>5, <5>1
        <5> QED
          BY <2>3, <5>1, <5>2
      <4> QED
        BY <4>1
    <3> QED
      BY <2>1, <3>1, <3>2
  <2> QED
    BY <2>2, <2>3
<1>7. after \in Seq(Order(side)) /\ Len(after) = Len(q)
  <2>1. after = [i \in 1 .. Len(q) |-> after[i]]
    BY <1>3, <1>4 DEF After
  <2>2. after \in [1 .. Len(q) -> Order(side)]
    BY <1>6, <2>1
  <2> QED
    BY <1>3, <2>2, FunctionIsSeq
<1>8. PICK K : K = {o \in ToSet(after) : Remaining(o) > 0}
  OBVIOUS
<1>9. t = Kept(after, K)
  BY <1>4, <1>8 DEF IsAfter, Unfilled
<1>10. PICK x : x = Part(after, K, w)
  OBVIOUS
<1>11. Worth(t, w) = Total(x)
  BY <1>1, <1>2, <1>7, <1>9, <1>10, KeptWorth
<1>12. /\ Points(x, after)
       /\ \A i \in 1 .. Len(after) :
            /\ x[i] = IF after[i] \in K THEN w[after[i]] ELSE 0
            /\ x[i] \in Int /\ w[after[i]] \in Int
  BY <1>1, <1>2, <1>7, <1>10, PartIs
<1>13. ASSUME NEW i \in 1 .. Len(q) PROVE x[i] = w[after[i]]
  <2>1. \A j \in 1 .. Len(after) : after[j] \in K <=> Remaining(after[j]) > 0
    BY <1>7, <1>8, LenProperties DEF ToSet
  <2>2. PICK o \in Order(side) : o = after[i]
    BY <1>6
  <2>3. Remaining(o) \in Nat
    BY RemainingIsNat
  <2>4. w[o] = Remaining(o) * rate[o] /\ rate[o] \in Int
    BY <1>1, <1>2
  <2>5. Remaining(o) = 0 => w[o] = 0
    BY <2>4
  <2>6. i \in 1 .. Len(after)
    BY <1>7
  <2> QED
    BY <1>12, <2>1, <2>2, <2>3, <2>5, <2>6
<1>14. PICK h : h = [i \in 1 .. n |-> Share(f, i, volume) * rate[makers[i]]]
  OBVIOUS
<1>15. ASSUME NEW i \in 1 .. n PROVE h[i] \in Int /\ rate[q[i]] \in Int /\ makers[i] = q[i]
  <2>1. makers[i] = q[i] /\ i \in 1 .. Len(q)
    BY <1>3 DEF First
  <2>2. PICK s \in Nat : s = Share(f, i, volume)
    BY <1>5
  <2>3. PICK r \in Int : r = rate[q[i]]
    BY <1>1, <1>2, <1>3, <2>1
  <2>4. h[i] = s * r
    BY <1>14, <2>1, <2>2, <2>3
  <2> QED
    BY <2>1, <2>3, <2>4
<1>16. h \in Seq(Int) /\ Len(h) = n /\ \A i \in 1 .. n : h[i] = Share(f, i, volume) * rate[makers[i]]
  <2>1. h \in [1 .. n -> Int]
    BY <1>14, <1>15
  <2> QED
    BY <1>3, <1>14, <2>1, FunctionIsSeq
<1>17. Given(h, makers, rate, n, f, volume)
  BY <1>16 DEF Given
<1>18. PICK y : y = [i \in 1 .. Len(q) |-> IF i <= n THEN h[i] ELSE 0]
  OBVIOUS
<1>19. \A i \in 1 .. n : h[i] \in Int
  BY <1>15
<1>20. y \in Seq(Int) /\ Len(y) = Len(q)
  <2>1. \A i \in 1 .. Len(q) : (IF i <= n THEN h[i] ELSE 0) \in Int
    BY <1>3, <1>19
  <2>2. y \in [1 .. Len(q) -> Int]
    BY <1>18, <2>1
  <2> QED
    BY <1>3, <2>2, FunctionIsSeq
<1>21. Total(y) = Total(h)
  <2>1. \A i \in 1 .. n : i \in 1 .. Len(q) /\ i <= n
    BY <1>3
  <2>2. \A i \in 1 .. Len(h) : h[i] = y[i]
    BY <1>16, <1>18, <2>1
  <2>3. \A i \in 1 .. Len(y) : i > Len(h) => y[i] = 0
    BY <1>3, <1>16, <1>18, <1>20
  <2>4. Len(h) <= Len(y)
    BY <1>3, <1>16, <1>20
  <2> QED
    BY <1>16, <1>20, <2>2, <2>3, <2>4, TotalOfPadded
<1>22. PICK a : IsWeighed(a, q, w)
  BY <1>1, <1>2, WeightsOf
<1>23. /\ a \in Seq(Int) /\ Len(a) = Len(q) /\ Worth(q, w) = Total(a)
        /\ \A i \in 1 .. Len(q) : a[i] = w[q[i]]
  BY <1>22 DEF IsWeighed
<1>24. ASSUME NEW i \in 1 .. Len(a) PROVE a[i] = x[i] + y[i]
  <2>1. i \in 1 .. Len(q) /\ q[i] \in Order(side)
    BY <1>3, <1>23
  <2>2. PICK r \in Nat : r = Remaining(q[i])
    BY <2>1, RemainingIsNat
  <2>3. PICK rho \in Int : rho = rate[q[i]]
    BY <1>1, <1>2, <2>1
  <2>4. a[i] = r * rho
    BY <1>1, <1>2, <1>23, <2>1, <2>2, <2>3
  <2>5. PICK p \in Order(side) : p = after[i]
    BY <1>6, <2>1
  <2>6. x[i] = Remaining(p) * rho
    <3>1. rate[p] = rho
      BY <1>6, <2>1, <2>3, <2>5
    <3> QED
      BY <1>1, <1>2, <1>13, <2>1, <2>5, <3>1
  <2>7. CASE i <= n
    <3>1. i \in 1 .. n
      BY <1>3, <2>1, <2>7
    <3>2. PICK s \in Nat : s = Share(f, i, volume)
      BY <1>5, <3>1
    <3>3. y[i] = s * rho
      <4>1. h[i] = s * rho
        BY <1>16, <1>15, <2>3, <3>1, <3>2
      <4> QED
        BY <1>18, <2>1, <2>7, <4>1
    <3>4. Remaining(p) = r - s
      BY <1>6, <2>1, <2>2, <2>5, <2>7, <3>2
    <3>5. r * rho = (r - s) * rho + s * rho
      <4>1. r - s \in Int /\ (r - s) + s = r
        OBVIOUS
      <4> QED
        BY <4>1, Distributive
    <3> QED
      BY <2>4, <2>6, <3>3, <3>4, <3>5
  <2>8. CASE ~ (i <= n)
    <3>1. y[i] = 0
      BY <1>18, <2>1, <2>8
    <3>2. Remaining(p) = r
      BY <1>6, <2>1, <2>2, <2>5, <2>8
    <3>3. r * rho \in Int
      BY ProductIsInt
    <3> QED
      BY <2>4, <2>6, <3>1, <3>2, <3>3
  <2> QED
    BY <2>7, <2>8
<1>25. Total(a) = Total(x) + Total(y)
  <2>1. x \in Seq(Int) /\ Len(x) = Len(a) /\ Len(y) = Len(a)
    BY <1>7, <1>12, <1>20, <1>23 DEF Points
  <2> QED
    BY <1>20, <1>23, <1>24, <2>1, TotalsAdd
<1> QED
  BY <1>11, <1>17, <1>21, <1>23, <1>25

-----------------------------------------------------------------------------
(***************************************************************************)
(* What a book is worth.                                                   *)
(***************************************************************************)

\* An id is found at one place of the book.
LEMMA OnePlace ==
  ASSUME NEW b, IsBook(b), NEW a \in OrderAction, NEW side \in OrderAction,
         NEW i \in 1 .. Len(b[a]), NEW j \in 1 .. Len(b[side]),
         b[a][i].orderId = b[side][j].orderId
  PROVE  a = side /\ i = j
<1>1. a = side
  <2> SUFFICES ASSUME side = Opposite(a) PROVE FALSE
    BY Sides
  <2>1. Has(b[a], b[a][i]) /\ Has(b[side], b[side][j])
    BY DEF Has
  <2>2. Apart(a, b[a][i], b[side][j])
    BY <2>1, BookSides DEF AllApart
  <2> QED
    BY <2>2 DEF Apart
<1>2. PICK q \in Seq(Resting(a)) : q = b[a] /\ Related(q, Queue(a))
  BY BookSides
<1>3. i \in 1 .. Len(q) /\ j \in 1 .. Len(q) /\ q[i].orderId = q[j].orderId
  BY <1>1, <1>2
<1>4. ~ (i < j)
  <2> SUFFICES ASSUME i < j PROVE FALSE
    OBVIOUS
  <2>1. <<q[i], q[j]>> \in Queue(a)
    BY <1>2, <1>3 DEF Related
  <2> QED
    BY <1>3, <2>1 DEF Queue
<1>5. ~ (j < i)
  <2> SUFFICES ASSUME j < i PROVE FALSE
    OBVIOUS
  <2>1. <<q[j], q[i]>> \in Queue(a)
    BY <1>2, <1>3 DEF Related
  <2> QED
    BY <1>3, <2>1 DEF Queue
<1>6. i \in Int /\ j \in Int
  BY <1>3
<1> QED
  BY <1>1, <1>4, <1>5, <1>6

\* An order is at one place of its side.
LEMMA HasOnlyAt ==
  ASSUME NEW b, IsBook(b), NEW a \in OrderAction, NEW order, Has(b[a], order)
  PROVE  \E l : OnlyAt(b[a], l, order)
<1>1. PICK l \in 1 .. Len(b[a]) : order = b[a][l]
  BY DEF Has
<1>2. ASSUME NEW i \in 1 .. Len(b[a]), b[a][i] = order PROVE i = l
  <2>1. b[a][i].orderId = b[a][l].orderId
    BY <1>1, <1>2
  <2> QED
    BY <2>1, OnePlace
<1>3. OnlyAt(b[a], l, order)
  BY <1>1, <1>2 DEF OnlyAt
<1> QED
  BY <1>3

\* A side of a book has orders.
LEMMA SideOfOrders ==
  ASSUME NEW b, IsBook(b), NEW a \in OrderAction
  PROVE  b[a] \in Seq(Order(a))
<1>1. b[a] \in Seq(Resting(a))
  BY BookSides
<1>2. \A o \in Resting(a) : o \in Order(a)
  BY DEF Resting
<1> QED
  BY <1>1, <1>2, SeqOfSubset

\* Weights for the orders of both sides.
Weighing(w, rate) == \A side \in OrderAction : PerLot(w, rate, Order(side))

\* The weights of one side.
LEMMA WeighsSide ==
  ASSUME NEW w, NEW rate, Weighing(w, rate), NEW a \in OrderAction
  PROVE  Weighs(w, Order(a)) /\ \A o \in Order(a) : w[o] \in Int /\ rate[o] \in Int
<1>1. PerLot(w, rate, Order(a))
  BY DEF Weighing
<1> QED
  BY <1>1 DEF PerLot, Weighs

BookWorth(b, w) == Worth(b["ASK"], w) + Worth(b["BID"], w)

\* What a book is worth is what a side is and the other one.
LEMMA WorthBySide ==
  ASSUME NEW w, NEW rate, Weighing(w, rate), NEW b, IsBook(b),
         NEW a \in OrderAction
  PROVE  /\ BookWorth(b, w) = Worth(b[a], w) + Worth(b[Opposite(a)], w)
         /\ Worth(b[a], w) \in Int /\ Worth(b[Opposite(a)], w) \in Int
<1>1. ASSUME NEW side \in OrderAction PROVE Worth(b[side], w) \in Int
  <2>1. b[side] \in Seq(Order(side)) /\ Weighs(w, Order(side))
    BY SideOfOrders, WeighsSide
  <2> QED
    BY <2>1, WorthIsInt
<1>2. PICK x \in Int : x = Worth(b["ASK"], w)
  BY <1>1 DEF OrderAction
<1>3. PICK y \in Int : y = Worth(b["BID"], w)
  BY <1>1 DEF OrderAction
<1>4. BookWorth(b, w) = x + y /\ BookWorth(b, w) = y + x
  BY <1>2, <1>3 DEF BookWorth
<1> QED
  BY <1>2, <1>3, <1>4 DEF OrderAction, Opposite

\* A book without an order.
LEMMA WithoutBookWorth ==
  ASSUME NEW w, NEW rate, Weighing(w, rate), NEW b, IsBook(b),
         NEW a \in OrderAction, NEW order \in Order(a), order.action = a,
         Has(b[a], order), NEW c, c = Without(b, order)
  PROVE  BookWorth(b, w) = BookWorth(c, w) + w[order] /\ BookWorth(c, w) \in Int
<1>1. Weighs(w, Order(a)) /\ w[order] \in Int
  BY WeighsSide
<1>2. IsBook(c) /\ c[Opposite(a)] = b[Opposite(a)] /\ WithoutOrder(c[a], b[a], order)
  BY WithoutBook
<1>3. PICK l : OnlyAt(b[a], l, order)
  BY HasOnlyAt
<1>4. PICK q \in Seq(Order(a)) : q = b[a]
  BY SideOfOrders
<1>5. PICK t : t = c[a]
  OBVIOUS
<1>6. Worth(q, w) = Worth(t, w) + w[order]
  <2>1. OnlyAt(q, l, order) /\ WithoutOrder(t, q, order)
    BY <1>2, <1>3, <1>4, <1>5
  <2> QED
    BY <1>1, <2>1, WithoutWorth
<1>7. /\ BookWorth(b, w) = Worth(b[a], w) + Worth(b[Opposite(a)], w)
      /\ Worth(b[a], w) \in Int /\ Worth(b[Opposite(a)], w) \in Int
  BY WorthBySide
<1>8. /\ BookWorth(c, w) = Worth(c[a], w) + Worth(c[Opposite(a)], w)
      /\ Worth(c[a], w) \in Int /\ Worth(c[Opposite(a)], w) \in Int
  BY <1>2, WorthBySide
<1>9. PICK x \in Int, y \in Int, z \in Int, r \in Int :
        x = Worth(q, w) /\ y = Worth(t, w) /\ z = Worth(b[Opposite(a)], w) /\ r = w[order]
  BY <1>1, <1>4, <1>5, <1>7, <1>8
<1>10. x = y + r /\ BookWorth(b, w) = x + z /\ BookWorth(c, w) = y + z
  BY <1>2, <1>4, <1>5, <1>6, <1>7, <1>8, <1>9
<1>11. PICK u, v : u = BookWorth(b, w) /\ v = BookWorth(c, w)
  OBVIOUS
<1>12. u = v + r /\ v \in Int
  <2>1. x \in Int /\ y \in Int /\ z \in Int /\ r \in Int
    BY <1>9
  <2>2. x = y + r /\ u = x + z /\ v = y + z
    BY <1>10, <1>11
  <2> QED
    BY <2>1, <2>2
<1> QED
  BY <1>9, <1>11, <1>12

\* A book with an order in the place of another one.
LEMMA ReplacedBookWorth ==
  ASSUME NEW w, NEW rate, Weighing(w, rate), NEW b, IsBook(b),
         NEW a \in OrderAction, NEW order, order.action = a,
         Has(b[a], order), NEW new \in Resting(a), Same(order, new),
         NEW by \in Int, w[new] = w[order] - by,
         NEW c, c = Replace(b, order, new)
  PROVE  BookWorth(b, w) = BookWorth(c, w) + by /\ BookWorth(c, w) \in Int
<1>1. /\ IsBook(c) /\ c[Opposite(a)] = b[Opposite(a)] /\ Len(c[a]) = Len(b[a])
      /\ \A i \in 1 .. Len(b[a]) : c[a][i] = IF b[a][i] = order THEN new ELSE b[a][i]
  BY ReplacedBook
<1>2. PICK l : OnlyAt(b[a], l, order)
  BY HasOnlyAt
<1>3. PICK q \in Seq(Order(a)) : q = b[a]
  BY SideOfOrders
<1>4. PICK t \in Seq(Order(a)) : t = c[a]
  BY <1>1, SideOfOrders
<1>5. Worth(q, w) = Worth(t, w) + by
  <2>1. OnlyAt(q, l, order)
    BY <1>2, <1>3
  <2>2. Len(t) = Len(q)
    BY <1>1, <1>3, <1>4
  <2>3. \A i \in 1 .. Len(q) : t[i] = IF q[i] = order THEN new ELSE q[i]
    BY <1>1, <1>3, <1>4
  <2> QED
    BY <2>1, <2>2, <2>3, WeighsSide, ReplacedWorth
<1>6. /\ BookWorth(b, w) = Worth(b[a], w) + Worth(b[Opposite(a)], w)
      /\ Worth(b[a], w) \in Int /\ Worth(b[Opposite(a)], w) \in Int
  BY WorthBySide
<1>7. /\ BookWorth(c, w) = Worth(c[a], w) + Worth(c[Opposite(a)], w)
      /\ Worth(c[a], w) \in Int /\ Worth(c[Opposite(a)], w) \in Int
  BY <1>1, WorthBySide
<1>8. PICK x \in Int, y \in Int, z \in Int :
        x = Worth(q, w) /\ y = Worth(t, w) /\ z = Worth(b[Opposite(a)], w)
  BY <1>3, <1>4, <1>6, <1>7
<1>9. x = y + by
  BY <1>5, <1>8
<1>10. BookWorth(b, w) = x + z
  BY <1>3, <1>6, <1>8
<1>11. BookWorth(c, w) = y + z
  BY <1>1, <1>4, <1>7, <1>8
<1>12. PICK u \in Int, v \in Int : /\ u = BookWorth(b, w) /\ u = x + z
                                 /\ v = BookWorth(c, w) /\ v = y + z
  BY <1>8, <1>10, <1>11
<1>13. u = v + by
  BY <1>9, <1>12
<1> QED
  BY <1>12, <1>13

\* A book with an order more.
LEMMA RestedBookWorth ==
  ASSUME NEW w, NEW rate, Weighing(w, rate), NEW b, IsBook(b),
         NEW a \in OrderAction, NEW order, MayRest(b, a, order),
         NEW c, c = Rest(b, order)
  PROVE  BookWorth(c, w) = BookWorth(b, w) + w[order] /\ BookWorth(b, w) \in Int
<1>1. /\ order \in Resting(a) /\ order \in Order(a)
      /\ \A side \in OrderAction : \A x : Has(b[side], x) => x.orderId # order.orderId
      /\ \A x : Has(b[Opposite(a)], x) => ~ Within(a, order.price, x.price)
  BY DEF MayRest, NoneHas, Resting
<1>2. Weighs(w, Order(a)) /\ w[order] \in Int
  BY <1>1, WeighsSide
<1>3. IsBook(c) /\ c[Opposite(a)] = b[Opposite(a)] /\ WithOrder(c[a], a, b[a], order)
  BY <1>1, RestedBook
<1>4. PICK q \in Seq(Order(a)) : q = b[a]
  BY SideOfOrders
<1>5. PICK t : t = c[a]
  OBVIOUS
<1>6. Worth(t, w) = Worth(q, w) + w[order]
  <2>1. WithOrder(t, a, q, order)
    BY <1>3, <1>4, <1>5
  <2> QED
    BY <1>2, <1>1, <2>1, RestWorth
<1>7. /\ BookWorth(b, w) = Worth(b[a], w) + Worth(b[Opposite(a)], w)
      /\ Worth(b[a], w) \in Int /\ Worth(b[Opposite(a)], w) \in Int
  BY WorthBySide
<1>8. /\ BookWorth(c, w) = Worth(c[a], w) + Worth(c[Opposite(a)], w)
      /\ Worth(c[a], w) \in Int /\ Worth(c[Opposite(a)], w) \in Int
  BY <1>3, WorthBySide
<1>9. PICK x \in Int, y \in Int, z \in Int, r \in Int :
        x = Worth(q, w) /\ y = Worth(t, w) /\ z = Worth(b[Opposite(a)], w) /\ r = w[order]
  BY <1>2, <1>4, <1>5, <1>7, <1>8
<1>10. y = x + r /\ BookWorth(b, w) = x + z /\ BookWorth(c, w) = y + z
  BY <1>3, <1>4, <1>5, <1>6, <1>7, <1>8, <1>9
<1>11. PICK u, v : u = BookWorth(b, w) /\ v = BookWorth(c, w)
  OBVIOUS
<1>12. v = u + r /\ u \in Int
  <2>1. x \in Int /\ y \in Int /\ z \in Int /\ r \in Int
    BY <1>9
  <2>2. y = x + r /\ u = x + z /\ v = y + z
    BY <1>10, <1>11
  <2> QED
    BY <2>1, <2>2
<1> QED
  BY <1>9, <1>11, <1>12

\* A matched book.
LEMMA MatchedBookWorth ==
  ASSUME NEW w, NEW rate, Weighing(w, rate), NEW b, IsBook(b),
         NEW taker, NEW a \in OrderAction, a = taker.action,
         NEW volume \in Nat,
         NEW makers \in Seq(Resting(Opposite(a))), First(makers, b[Opposite(a)]),
         NEW match, NEW f, IsMatch(match, b, taker, volume, makers, f),
         NEW c, c = match.book
  PROVE  \E g, y : /\ AreShares(g, Len(makers), f, volume) /\ Total(g) = match.filled
                   /\ Given(y, makers, rate, Len(makers), f, volume)
                   /\ BookWorth(b, w) = BookWorth(c, w) + Total(y)
                   /\ BookWorth(c, w) \in Int
<1>1. IsBook(c) /\ c[a] = b[a] /\ match.filled \in Nat /\ match.filled <= volume
  BY MatchedBook
<1>2. PICK opp \in OrderAction : opp = Opposite(a) /\ Opposite(opp) = a
  BY Sides
<1>3. PICK q \in Seq(Order(opp)) : q = b[opp]
  BY SideOfOrders
<1>4. PICK n : n = Len(makers)
  OBVIOUS
<1>5. PICK t : t = c[opp]
  OBVIOUS
<1>6. /\ Volumes(f, makers) /\ Running(f, makers)
      /\ match.filled = IF volume <= f[n] THEN volume ELSE f[n]
  BY <1>4 DEF IsMatch
<1>7. IsAfter(t, q, n, f, volume)
  <2>1. DOMAIN b = OrderAction
    BY BookSides
  <2>2. c = [b EXCEPT ![opp] = Unfilled(After(b[opp], n, f, volume))]
    BY <1>2, <1>4 DEF IsMatch
  <2> QED
    BY <1>3, <1>5, <2>1, <2>2 DEF IsAfter
<1>8. makers \in Seq(Order(opp)) /\ First(makers, q)
  <2>1. \A o \in Resting(opp) : o \in Order(opp)
    BY DEF Resting
  <2> QED
    BY <1>2, <1>3, <2>1, SeqOfSubset
<1>9. PICK y : /\ Given(y, makers, rate, n, f, volume)
               /\ Worth(q, w) = Worth(t, w) + Total(y)
  <2>1. PerLot(w, rate, Order(opp))
    BY DEF Weighing
  <2> QED
    BY <1>4, <1>6, <1>7, <1>8, <2>1, MatchedWorth
<1>10. PICK g : /\ AreShares(g, n, f, volume)
                /\ Total(g) = IF volume <= f[n] THEN volume ELSE f[n]
  BY <1>4, <1>6, <1>8, SharesTotal
<1>11. Total(y) \in Int
  BY <1>9, TotalIsInt DEF Given
<1>12. /\ BookWorth(b, w) = Worth(b[opp], w) + Worth(b[a], w)
       /\ Worth(b[opp], w) \in Int /\ Worth(b[a], w) \in Int
  BY <1>2, WorthBySide
<1>13. /\ BookWorth(c, w) = Worth(c[opp], w) + Worth(c[a], w)
       /\ Worth(c[opp], w) \in Int /\ Worth(c[a], w) \in Int
  BY <1>1, <1>2, WorthBySide
<1>14. PICK x1 \in Int, x2 \in Int, x3 \in Int, r \in Int :
         x1 = Worth(q, w) /\ x2 = Worth(t, w) /\ x3 = Worth(b[a], w) /\ r = Total(y)
  BY <1>3, <1>5, <1>12, <1>13, <1>11
<1>15. x1 = x2 + r
  BY <1>9, <1>14
<1>16. BookWorth(b, w) = x1 + x3
  BY <1>3, <1>12, <1>14
<1>17. BookWorth(c, w) = x2 + x3
  BY <1>1, <1>5, <1>13, <1>14
<1>18. PICK u \in Int, v \in Int : /\ u = BookWorth(b, w) /\ u = x1 + x3
                                 /\ v = BookWorth(c, w) /\ v = x2 + x3
  BY <1>14, <1>16, <1>17
<1>19. u = v + r
  BY <1>15, <1>18
<1>20. BookWorth(b, w) = BookWorth(c, w) + Total(y)
  BY <1>14, <1>18, <1>19
<1> QED
  BY <1>4, <1>6, <1>9, <1>10, <1>18, <1>20

-----------------------------------------------------------------------------
(***************************************************************************)
(* Orders and events with any whole numbers.                               *)
(***************************************************************************)

\* Orders and events of the right type, whatever their numbers.
TypedOrder(side) ==
  [orderId : Int, uid : Int, action : {side}, price : Int, size : Int,
   filled : Int, reserveBidPrice : Int]

TypedEvent ==
  [eventType : {"TRADE", "REDUCE", "REJECT"}, matchedOrderId : Int, matchedOrderUid : Int,
   matchedOrderCompleted : BOOLEAN, activeOrderCompleted : BOOLEAN,
   price : Int, size : Int, bidderHoldPrice : Int]

\* A slot whose request has the right type, whatever its answer is.
IsSlot(cmd) ==
  cmd \in [command : STRING, orderId : Int, uid : Int, action : OrderAction,
           orderType : STRING, price : Int, size : Int, reserveBidPrice : Int,
           resultCode : {cmd.resultCode}, matcherEvent : {cmd.matcherEvent},
           marketData : {cmd.marketData}, symbol : {cmd.symbol},
           message : {cmd.message}, balance : {cmd.balance}]

\* The slot that Done gives.
Answer(cmd, code, events) == [cmd EXCEPT !.resultCode = code, !.matcherEvent = events]

\* An answer leaves the request of a slot as it is.
LEMMA SlotAnswered ==
  ASSUME NEW cmd, IsSlot(cmd), NEW code, NEW events,
         NEW x, x = Answer(cmd, code, events)
  PROVE  /\ IsSlot(x) /\ x.matcherEvent = events /\ x.resultCode = code
         /\ x.command = cmd.command /\ x.orderType = cmd.orderType
         /\ x.action = cmd.action /\ x.price = cmd.price
<1>1. /\ x.matcherEvent = events /\ x.resultCode = code
      /\ x.command = cmd.command /\ x.orderType = cmd.orderType
      /\ x.action = cmd.action /\ x.price = cmd.price
  BY DEF IsSlot, Answer
<1>2. IsSlot(x)
  BY DEF IsSlot, Answer
<1> QED
  BY <1>1, <1>2

\* The slot with the action of the order it names.
Sided(cmd, action) == [cmd EXCEPT !.action = action]

\* It is one.
LEMMA SidedIsSlot ==
  ASSUME NEW cmd, IsSlot(cmd), NEW action \in OrderAction
  PROVE  IsSlot(Sided(cmd, action))
<1>1. PICK x : x = Sided(cmd, action)
  OBVIOUS
<1>2. IsSlot(x)
  BY <1>1 DEF IsSlot, Sided
<1> QED
  BY <1>1, <1>2

\* The greater and the smaller of two numbers.
LEMMA MaxMinOfTwo ==
  ASSUME NEW a \in Int, NEW b \in Int
  PROVE  /\ Max({a, b}) \in Int /\ Max({a, b}) >= a
         /\ Min({a, b}) \in Int /\ Min({a, b}) <= a /\ Min({a, b}) <= b
         /\ Min({a, b}) \in {a, b}
<1>1. Max({a, b}) \in {a, b} /\ Max({a, b}) >= a /\ Max({a, b}) >= b
  BY DEF Max
<1>2. Min({a, b}) \in {a, b} /\ Min({a, b}) <= a /\ Min({a, b}) <= b
  BY DEF Min
<1> QED
  BY <1>1, <1>2

\* The volume of orders with whole sizes is whole.
LEMMA VolumeIsInt ==
  ASSUME NEW S, NEW orders \in Seq(S), \A o \in S : Remaining(o) \in Int
  PROVE  Volume(orders) \in Int
<1> DEFINE rest == [i \in DOMAIN orders |-> Remaining(orders[i])]
<1>1. Len(orders) \in Nat /\ DOMAIN orders = 1 .. Len(orders)
  BY LenProperties
<1>2. \A i \in 1 .. Len(orders) : orders[i] \in S
  BY ElementOfSeq
<1>3. rest \in [1 .. Len(orders) -> Int]
  BY <1>1, <1>2
<1>4. rest \in Seq(Int)
  BY <1>1, <1>3, SeqDef
<1> HIDE DEF rest
<1>5. Total(rest) \in Int
  BY <1>4, TotalIsInt
<1> QED
  BY <1>5 DEF Volume, rest

\* A maker gives a whole number of lots, none or more.
LEMMA FillIsNat ==
  ASSUME NEW S, NEW makers \in Seq(S), \A o \in S : Remaining(o) \in Int,
         NEW i \in 1 .. Len(makers), NEW volume \in Int
  PROVE  Fill(makers, i, volume) \in Nat
<1>1. Len(makers) \in Nat /\ makers[i] \in S
  BY LenProperties, ElementOfSeq
<1> DEFINE before == SubSeq(makers, 1, i - 1)
<1>2. before \in Seq(S)
  BY <1>1, SubSeqProperties
<1>3. Volume(before) \in Int
  BY <1>2, VolumeIsInt
<1> HIDE DEF before
<1>4. PICK x \in Int : x = Remaining(makers[i])
  BY <1>1
<1>5. PICK y \in Int : y = volume - Volume(before)
  BY <1>3
<1>6. Min({x, y}) \in Int
  BY MaxMinOfTwo
<1>7. PICK z \in Int : z = Min({x, y})
  BY <1>6
<1>8. Max({0, z}) \in Nat
  <2>1. PICK zero \in Int : zero = 0
    OBVIOUS
  <2>2. Max({zero, z}) \in Int /\ Max({zero, z}) >= zero
    BY MaxMinOfTwo
  <2> QED
    BY <2>1, <2>2
<1> QED
  BY <1>4, <1>5, <1>7, <1>8 DEF Fill, before

\* The orders of a set stay in it when they are filled further and something is
\* left of them.
Fillable(S) ==
  \A o \in S :
    /\ Remaining(o) \in Int
    /\ \A n \in Nat : Remaining([o EXCEPT !.filled = @ + n]) > 0
                        => [o EXCEPT !.filled = @ + n] \in S

\* A side after makers have been filled, without those of which nothing is left.
LEMMA UnfilledKept ==
  ASSUME NEW S, Fillable(S), NEW side \in Seq(S), NEW hit, NEW fill,
         \A i \in hit : fill[i] \in Nat
  PROVE  Unfilled([i \in DOMAIN side |->
                     IF i \in hit THEN [side[i] EXCEPT !.filled = @ + fill[i]] ELSE side[i]])
           \in Seq(S)
<1> DEFINE filled(o, n) == [o EXCEPT !.filled = @ + n]
           T == S \cup {filled(o, n) : o \in S, n \in Nat}
           after == [i \in DOMAIN side |->
                       IF i \in hit THEN [side[i] EXCEPT !.filled = @ + fill[i]] ELSE side[i]]
           K == {o \in ToSet(after) : Remaining(o) > 0}
<1>1. Len(side) \in Nat /\ DOMAIN side = 1 .. Len(side) /\ \A i \in 1 .. Len(side) : side[i] \in S
  BY LenProperties, ElementOfSeq
<1>2. ASSUME NEW i \in 1 .. Len(side)
      PROVE  (IF i \in hit THEN [side[i] EXCEPT !.filled = @ + fill[i]] ELSE side[i]) \in T
  <2>1. CASE i \in hit
    <3>1. fill[i] \in Nat /\ side[i] \in S
      BY <1>1, <2>1
    <3>2. filled(side[i], fill[i]) \in T
      BY <3>1
    <3> QED
      BY <2>1, <3>2
  <2>2. CASE i \notin hit
    BY <1>1, <2>2
  <2> QED
    BY <2>1, <2>2
<1> HIDE DEF T
<1>3. after \in [1 .. Len(side) -> T]
  BY <1>1, <1>2
<1>4. after \in Seq(T)
  BY <1>1, <1>3, SeqDef
<1> HIDE DEF after
<1>5. Kept(after, K) \in Seq(T \cap K)
  BY <1>4, KeptElements
<1>6. ASSUME NEW o \in T \cap K PROVE o \in S
  <2>1. o \in T /\ Remaining(o) > 0
    OBVIOUS
  <2>2. CASE o \in S
    BY <2>2
  <2>3. CASE o \notin S
    <3>1. PICK p \in S, n \in Nat : o = [p EXCEPT !.filled = @ + n]
      BY <2>1, <2>3 DEF T
    <3> QED
      BY <2>1, <3>1 DEF Fillable
  <2> QED
    BY <2>2, <2>3
<1> HIDE DEF K
<1>7. Kept(after, K) \in Seq(S)
  BY <1>5, <1>6, SeqOfSubset
<1> QED
  BY <1>7 DEF Unfilled, after, K

\* Nothing, and one thing.
LEMMA WorthOfFew ==
  ASSUME NEW S, NEW w, Weighs(w, S)
  PROVE  /\ Worth(<<>>, w) = 0
         /\ \A x \in S : Worth(<<x>>, w) = w[x]
<1>1. Worth(<<>>, w) = 0
  <2>1. PICK q : q = <<>>
    OBVIOUS
  <2>2. q \in Seq(S)
    BY <2>1
  <2>3. PICK a : IsWeighed(a, q, w)
    BY <2>2, WeightsOf
  <2>4. a \in Seq(Int) /\ Len(a) = 0 /\ Worth(q, w) = Total(a)
    BY <2>1, <2>3 DEF IsWeighed
  <2>5. PICK f : Sums(f, a, Len(a))
    BY <2>4, SumsOf
  <2>6. Total(a) = f[0] /\ f[0] = 0
    BY <2>4, <2>5, TotalBySums DEF Sums
  <2> QED
    BY <2>1, <2>4, <2>6
<1>2. ASSUME NEW x \in S PROVE Worth(<<x>>, w) = w[x]
  <2>1. PICK q : q = <<>>
    OBVIOUS
  <2>2. PICK t : t = <<x>>
    OBVIOUS
  <2>3. IsAppend(t, q, x)
    BY <2>1, <2>2 DEF IsAppend
  <2>4. q \in Seq(S)
    BY <2>1
  <2>5. Worth(t, w) = Worth(q, w) + w[x] /\ w[x] \in Int
    BY <2>3, <2>4, WorthAppend DEF Weighs
  <2> QED
    BY <1>1, <2>1, <2>2, <2>5
<1> QED
  BY <1>1, <1>2

\* A taker's trades with the makers of a set are events of another one.
TradesInto(taker, M, E) ==
  \A o \in M : \A n \in Nat : \A c, d \in BOOLEAN : TradeEvent(taker, o, n, c, d) \in E

\* What matching does to the book, and the events it gives.
LEMMA MatchKept ==
  ASSUME NEW bk, DOMAIN bk = OrderAction, NEW taker, taker.action \in OrderAction,
         NEW volume \in Int, NEW S, Fillable(S),
         bk[Opposite(taker.action)] \in Seq(S),
         NEW M, \A o \in M : o \in S, NEW makers \in Seq(M),
         NEW E, TradesInto(taker, M, E)
  PROVE  LET match == Match(bk, taker, volume, makers)
         IN /\ match.filled \in Int /\ match.filled <= volume
            /\ match.events \in Seq(E)
            /\ DOMAIN match.book = OrderAction
            /\ match.book[Opposite(taker.action)] \in Seq(S)
            /\ match.book[taker.action] = bk[taker.action]
<1> DEFINE opp == Opposite(taker.action)
           side == bk[opp]
           hit == {i \in DOMAIN makers : Fill(makers, i, volume) > 0}
           event(i) ==
             LET size == Fill(makers, i, volume)
             IN TradeEvent(taker, makers[i], size, size = Remaining(makers[i]),
                           volume = Volume(SubSeq(makers, 1, i - 1)) + size)
           fill == [i \in hit |-> Fill(makers, i, volume)]
           after == [i \in DOMAIN side |->
                       IF i \in hit THEN [side[i] EXCEPT !.filled = @ + Fill(makers, i, volume)]
                       ELSE side[i]]
           events == [i \in 1 .. Cardinality(hit) |-> event(i)]
<1>1. /\ Len(makers) \in Nat /\ DOMAIN makers = 1 .. Len(makers)
      /\ \A i \in 1 .. Len(makers) : makers[i] \in M
  BY LenProperties, ElementOfSeq
<1>2. \A o \in M : Remaining(o) \in Int
  BY DEF Fillable
<1>3. \A i \in 1 .. Len(makers) : Fill(makers, i, volume) \in Nat
  BY <1>2, FillIsNat
<1>4. opp \in OrderAction /\ opp # taker.action
  BY DEF Opposite, OrderAction
<1>5. Cardinality(hit) \in Nat /\ Cardinality(hit) <= Len(makers)
  <2>1. IsFiniteSet(1 .. Len(makers)) /\ Cardinality(1 .. Len(makers)) = Len(makers)
    BY <1>1, NumbersTo
  <2>2. hit \subseteq 1 .. Len(makers)
    BY <1>1
  <2> HIDE DEF hit
  <2>3. IsFiniteSet(hit) /\ Cardinality(hit) <= Cardinality(1 .. Len(makers))
    BY <2>1, <2>2, FS_Subset
  <2> QED
    BY <2>1, <2>3, FS_CardinalityType
<1>6. events \in Seq(E)
  <2>1. ASSUME NEW i \in 1 .. Cardinality(hit) PROVE event(i) \in E
    <3> HIDE DEF hit
    <3>1. i \in 1 .. Len(makers)
      BY <1>1, <1>5
    <3>2. PICK size \in Nat : size = Fill(makers, i, volume)
      BY <1>3, <3>1
    <3>3. PICK c, d \in BOOLEAN : /\ c = (size = Remaining(makers[i]))
                                  /\ d = (volume = Volume(SubSeq(makers, 1, i - 1)) + size)
      OBVIOUS
    <3>4. TradeEvent(taker, makers[i], size, c, d) \in E
      BY <1>1, <3>1 DEF TradesInto
    <3> QED
      BY <3>2, <3>3, <3>4
  <2> HIDE DEF hit, event
  <2>2. events \in [1 .. Cardinality(hit) -> E]
    BY <2>1
  <2> QED
    BY <1>5, <2>2, SeqDef
<1>7. Unfilled(after) \in Seq(S)
  <2>1. \A i \in hit : fill[i] \in Nat
    BY <1>1, <1>3
  <2>2. after = [i \in DOMAIN side |->
                   IF i \in hit THEN [side[i] EXCEPT !.filled = @ + fill[i]] ELSE side[i]]
    OBVIOUS
  <2> HIDE DEF fill, hit, after, side
  <2>3. side \in Seq(S)
    BY DEF side
  <2> QED
    BY <2>1, <2>2, <2>3, UnfilledKept
<1>8. Volume(makers) \in Int
  BY <1>2, VolumeIsInt
<1>9. Min({volume, Volume(makers)}) \in Int /\ Min({volume, Volume(makers)}) <= volume
  BY <1>8, MaxMinOfTwo
<1>10. Match(bk, taker, volume, makers) =
         [filled |-> Min({volume, Volume(makers)}), events |-> events,
          book |-> [bk EXCEPT ![opp] = Unfilled(after)]]
  BY DEF Match
<1> HIDE DEF events, after, opp
<1> QED
  BY <1>4, <1>6, <1>7, <1>9, <1>10 DEF opp
=============================================================================
