---------------------------- MODULE JournalProofs ----------------------------
(***************************************************************************)
(* Proofs about Journal: what the processor writes, what a start from the  *)
(* last known state reads, and that the two agree.                         *)
(*                                                                         *)
(* The records of a series of files, followed by the buffer, are a chain:  *)
(* each is the command at the position of the ring its sequence names, and *)
(* between two neighbours the ring has nothing that changes the state.     *)
(***************************************************************************)
EXTENDS Journal, Induction

-----------------------------------------------------------------------------
(***************************************************************************)
(* Numbers and sequences.                                                  *)
(***************************************************************************)

\* A bounded set of whole numbers that is not empty has a greatest element.
LEMMA MaxOf ==
  ASSUME NEW S \in SUBSET Int, NEW x \in S, NEW b \in Int, \A y \in S : y <= b
  PROVE  Max(S) \in S /\ Max(S) \in Int /\ \A y \in S : y <= Max(S)
<1> DEFINE D == {n \in Nat : \E y \in S : n = b - y}
<1>1. D \in SUBSET Nat
  OBVIOUS
<1>2. b - x \in D
  OBVIOUS
<1>3. PICK n \in D : \A m \in D : n <= m
  BY <1>1, <1>2, LeastElement
<1>4. PICK y \in S : n = b - y
  BY <1>3
<1>5. ASSUME NEW z \in S PROVE y >= z
  <2>1. b - z \in D
    OBVIOUS
  <2>2. n <= b - z
    BY <1>3, <2>1
  <2> QED
    BY <1>4, <2>2
<1>6. \E m \in S : \A z \in S : m >= z
  BY <1>5
<1>7. Max(S) \in S /\ \A z \in S : Max(S) >= z
  BY <1>6 DEF Max
<1> QED
  BY <1>7

\* The greatest element is the one that is.
LEMMA MaxIs ==
  ASSUME NEW S \in SUBSET Int, NEW x \in S, \A y \in S : y <= x
  PROVE  Max(S) = x
<1>1. Max(S) \in S /\ Max(S) \in Int /\ \A y \in S : y <= Max(S)
  BY MaxOf
<1>2. x <= Max(S) /\ Max(S) <= x
  BY <1>1
<1> QED
  BY <1>1, <1>2

\* A nonempty set of natural numbers has the least element that Min chooses.
LEMMA MinOf ==
  ASSUME NEW S \in SUBSET Nat, NEW x \in S
  PROVE  Min(S) \in S /\ \A y \in S : Min(S) <= y
<1>1. \E m \in S : \A z \in S : m <= z
  BY LeastElement
<1> QED
  BY <1>1 DEF Min

\* The first n elements of a sequence.
LEMMA FirstElements ==
  ASSUME NEW S, NEW s \in Seq(S), NEW n \in 0 .. Len(s)
  PROVE  /\ SubSeq(s, 1, n) \in Seq(S)
         /\ Len(SubSeq(s, 1, n)) = n
         /\ \A i \in 1 .. n : SubSeq(s, 1, n)[i] = s[i]
<1>1. Len(s) \in Nat /\ n \in Nat /\ 1 \in Int /\ n \in Int
  BY LenProperties
<1>2. \A i \in 1 .. n : s[i] \in S
  BY <1>1, ElementOfSeq
<1>3. /\ SubSeq(s, 1, n) \in Seq(S)
      /\ Len(SubSeq(s, 1, n)) = IF 1 <= n THEN n - 1 + 1 ELSE 0
      /\ \A i \in 1 .. n - 1 + 1 : SubSeq(s, 1, n)[i] = s[1 + i - 1]
  BY <1>1, <1>2, SubSeqProperties
<1>4. n - 1 + 1 = n
  BY <1>1
<1>5. ASSUME NEW i \in 1 .. n PROVE SubSeq(s, 1, n)[i] = s[i]
  <2>1. i \in 1 .. n - 1 + 1 /\ 1 + i - 1 = i
    BY <1>1
  <2> QED
    BY <1>3, <2>1
<1> QED
  BY <1>1, <1>3, <1>4, <1>5

\* a is an initial part of b.
Starts(a, b) == Len(a) <= Len(b) /\ \A i \in 1 .. Len(a) : a[i] = b[i]

\* The first elements of a longer sequence are those of the shorter one.
LEMMA FirstOfStart ==
  ASSUME NEW S, NEW a \in Seq(S), NEW b \in Seq(S), Starts(a, b), NEW n \in 0 .. Len(a)
  PROVE  SubSeq(a, 1, n) = SubSeq(b, 1, n)
<1>1. Len(a) \in Nat /\ Len(b) \in Nat /\ Len(a) <= Len(b) /\ \A i \in 1 .. Len(a) : a[i] = b[i]
  BY LenProperties DEF Starts
<1>2. n \in 0 .. Len(b)
  BY <1>1
<1>3. /\ SubSeq(a, 1, n) \in Seq(S)
      /\ Len(SubSeq(a, 1, n)) = n
      /\ \A i \in 1 .. n : SubSeq(a, 1, n)[i] = a[i]
  BY FirstElements
<1>4. /\ SubSeq(b, 1, n) \in Seq(S)
      /\ Len(SubSeq(b, 1, n)) = n
      /\ \A i \in 1 .. n : SubSeq(b, 1, n)[i] = b[i]
  BY <1>2, FirstElements
<1>5. \A i \in 1 .. n : a[i] = b[i]
  BY <1>1
<1> QED
  BY <1>3, <1>4, <1>5, SeqEqual

-----------------------------------------------------------------------------
(***************************************************************************)
(* Types.                                                                  *)
(***************************************************************************)
Names ==
  (Requests \ {"PERSIST_STATE"}) \cup
    {"GROUPING_CONTROL", "PERSIST_STATE_MATCHING", "PERSIST_STATE_RISK"}

Commands == [command : Names, orderId : 0 .. MaxRequests, symbol : {-1, 0, 255}]

Records == [seq : Nat, command : {c \in Commands : IsMutate(c)}]

States == Seq(Nat)

-----------------------------------------------------------------------------
(***************************************************************************)
(* The state after commands.                                               *)
(***************************************************************************)

\* The states that commands lead to from a state, one after the other.
Leads(run, state, commands) ==
  /\ run \in [0 .. Len(commands) -> States]
  /\ run[0] = state
  /\ \A i \in 1 .. Len(commands) : run[i] = Effect(run[i - 1], commands[i])

\* A command takes a state to a state.
LEMMA EffectIsState ==
  ASSUME NEW state \in States, NEW c \in Commands
  PROVE  Effect(state, c) \in States
<1>1. c.orderId \in Nat
  BY JournalSizes DEF Commands
<1>2. <<>> \in States /\ Append(state, c.orderId) \in States
  BY <1>1, EmptySeq, AppendElements DEF States
<1> QED
  BY <1>2 DEF Effect

\* The commands of a sequence lead somewhere, to what StateAfter says.
LEMMA StatesAfter ==
  ASSUME NEW state \in States, NEW commands \in Seq(Commands)
  PROVE  \E run : Leads(run, state, commands) /\ StateAfter(state, commands) = run[Len(commands)]
<1> DEFINE n == Len(commands)
           step == [i \in 1 .. n |-> [s \in States |-> Effect(s, commands[i])]]
           value(g, i) == IF i = 0 THEN state ELSE Effect(g[i - 1], commands[i])
           after == CHOOSE g : g = [i \in 0 .. n |-> value(g, i)]
<1>1. n \in Nat /\ \A i \in 1 .. n : commands[i] \in Commands
  BY LenProperties, ElementOfSeq
<1>2. \A i \in 1 .. n : \A s \in States : Effect(s, commands[i]) \in States
  BY <1>1, EffectIsState
<1>3. IsSteps(step, n, States)
  BY <1>2 DEF IsSteps
<1>4. \A i \in 1 .. n : \A s \in States : step[i][s] = Effect(s, commands[i])
  OBVIOUS
<1> HIDE DEF n, step
<1>5. PICK f : IsRun(f, n, States, state, step)
  BY <1>1, <1>3, RunOfSteps
<1>6. /\ f \in [0 .. n -> States] /\ f[0] = state
      /\ \A i \in 1 .. n : f[i] = step[i][f[i - 1]]
  BY <1>5 DEF IsRun
<1>7. \A i \in 0 .. n : f[i] = value(f, i)
  <2> SUFFICES ASSUME NEW i \in 0 .. n PROVE f[i] = value(f, i)
    OBVIOUS
  <2>1. CASE i = 0
    BY <1>6, <2>1
  <2>2. CASE i # 0
    <3>1. i \in 1 .. n /\ i - 1 \in 0 .. n
      BY <1>1, <2>2
    <3>2. f[i - 1] \in States
      BY <1>6, <3>1
    <3> QED
      BY <1>4, <1>6, <2>2, <3>1, <3>2
  <2> QED
    BY <2>1, <2>2
<1>8. f = [i \in 0 .. n |-> value(f, i)]
  BY <1>6, <1>7
<1>9. after = [i \in 0 .. n |-> value(after, i)]
  BY <1>8
<1>10. StateAfter(state, commands) = after[n]
  BY DEF StateAfter, n
<1> HIDE DEF after
<1>11. \A i \in 0 .. n : after[i] = value(after, i)
  BY <1>9
<1>12. \A i \in 0 .. n : after[i] \in States
  <2>1. after[0] \in States
    BY <1>1, <1>11
  <2>2. ASSUME NEW i \in 1 .. n, after[i - 1] \in States PROVE after[i] \in States
    BY <1>1, <1>2, <1>11, <2>2
  <2> QED
    BY <1>1, <2>1, <2>2, StaysIn
<1>13. after \in [0 .. n -> States]
  BY <1>9, <1>12
<1>14. after[0] = state /\ \A i \in 1 .. n : after[i] = Effect(after[i - 1], commands[i])
  BY <1>1, <1>11
<1>15. Leads(after, state, commands)
  BY <1>13, <1>14 DEF Leads, n
<1> QED
  BY <1>10, <1>15 DEF n

\* An initial part of the commands leads to a state on the way.
LEMMA StateOnTheWay ==
  ASSUME NEW state \in States, NEW commands \in Seq(Commands), NEW run,
         Leads(run, state, commands),
         NEW first \in Seq(Commands), Starts(first, commands)
  PROVE  StateAfter(state, first) = run[Len(first)]
<1>1. PICK f : Leads(f, state, first) /\ StateAfter(state, first) = f[Len(first)]
  BY StatesAfter
<1>2. PICK n \in Nat : n = Len(first)
  BY LenProperties
<1>3. n <= Len(commands) /\ Len(commands) \in Nat /\ \A i \in 1 .. n : first[i] = commands[i]
  BY <1>2, LenProperties DEF Starts
<1> DEFINE S == {i \in 0 .. n : f[i] = run[i]}
<1>4. 0 \in S
  BY <1>1 DEF Leads
<1>5. ASSUME NEW i \in 0 .. n - 1, i \in S PROVE i + 1 \in S
  <2>1. i + 1 \in 1 .. n /\ i + 1 \in 1 .. Len(commands) /\ (i + 1) - 1 = i
    BY <1>3
  <2>2. f[i + 1] = Effect(f[i], first[i + 1])
    BY <1>1, <1>2, <2>1 DEF Leads
  <2>3. run[i + 1] = Effect(run[i], commands[i + 1])
    BY <2>1 DEF Leads
  <2>4. f[i] = run[i] /\ first[i + 1] = commands[i + 1]
    BY <1>3, <1>5, <2>1
  <2> QED
    BY <2>1, <2>2, <2>3, <2>4
<1> HIDE DEF S
<1>6. \A i \in 0 .. n : i \in S
  BY <1>4, <1>5, InductionOverInterval
<1>7. n \in S
  BY <1>6
<1> QED
  BY <1>1, <1>2, <1>7 DEF S

\* Commands that change nothing.
Idle(c) == ~IsMutate(c) \/ IsPersist(c)

\* Idle commands lead nowhere.
LEMMA IdleKeeps ==
  ASSUME NEW state \in States, NEW c \in Commands, Idle(c)
  PROVE  Effect(state, c) = state
BY DEF Effect, Idle, IsMutate, IsPersist, TakesEffect

\* Nor do several of them.
LEMMA IdleStretch ==
  ASSUME NEW state, NEW commands \in Seq(Commands), NEW run, Leads(run, state, commands),
         NEW a \in 0 .. Len(commands), NEW b \in a .. Len(commands),
         \A i \in a + 1 .. b : Idle(commands[i])
  PROVE  run[b] = run[a]
<1>1. Len(commands) \in Nat /\ a \in Nat /\ b \in Nat /\ a <= b
  BY LenProperties
<1> DEFINE S == {i \in 0 .. b - a : run[a + i] = run[a]}
<1>2. 0 \in S
  BY <1>1
<1>3. ASSUME NEW i \in 0 .. (b - a) - 1, i \in S PROVE i + 1 \in S
  <2>1. PICK l \in Nat : l = a + i
    BY <1>1
  <2>2. l + 1 \in 1 .. Len(commands) /\ l + 1 \in a + 1 .. b /\ (l + 1) - 1 = l
        /\ a + (i + 1) = l + 1 /\ i + 1 \in 0 .. b - a /\ l \in 0 .. Len(commands)
    BY <1>1, <2>1
  <2>3. run[l + 1] = Effect(run[l], commands[l + 1])
    BY <2>2 DEF Leads
  <2>4. run[l] \in States /\ commands[l + 1] \in Commands /\ Idle(commands[l + 1])
    BY <2>2, ElementOfSeq DEF Leads
  <2>5. run[l + 1] = run[l]
    BY <2>3, <2>4, IdleKeeps
  <2>6. run[l] = run[a]
    BY <1>3, <2>1
  <2> QED
    BY <2>2, <2>5, <2>6
<1> HIDE DEF S
<1>4. b - a \in Nat
  BY <1>1
<1>5. \A i \in 0 .. b - a : i \in S
  BY <1>2, <1>3, <1>4, InductionOverInterval
<1>6. b - a \in S /\ a + (b - a) = b
  BY <1>1, <1>4, <1>5
<1> QED
  BY <1>6 DEF S

-----------------------------------------------------------------------------
(***************************************************************************)
(* Joining the first n of some pieces, for every n.                        *)
(***************************************************************************)
Joins(g, pieces, n, V) ==
  /\ g \in [0 .. n -> Seq(V)]
  /\ g[0] = <<>>
  /\ \A i \in 1 .. n : g[i] = g[i - 1] \o pieces[i]

IsPieces(pieces, n, V) == pieces \in [1 .. n -> Seq(V)]

\* The pieces joined.
JoinOf(joined, pieces, n, V) == \E g : Joins(g, pieces, n, V) /\ joined = g[n]

\* Pieces can be joined.
LEMMA PiecesJoin ==
  ASSUME NEW V, NEW n \in Nat, NEW pieces, IsPieces(pieces, n, V)
  PROVE  \E g : Joins(g, pieces, n, V)
<1>0. pieces \in [1 .. n -> Seq(V)]
  BY DEF IsPieces
<1> DEFINE step == [i \in 1 .. n |-> [s \in Seq(V) |-> s \o pieces[i]]]
<1>1. \A i \in 1 .. n : \A s \in Seq(V) : s \o pieces[i] \in Seq(V)
  BY <1>0, ConcatProperties
<1>2. IsSteps(step, n, Seq(V))
  BY <1>1 DEF IsSteps
<1>3. \A i \in 1 .. n : \A s \in Seq(V) : step[i][s] = s \o pieces[i]
  OBVIOUS
<1>4. PICK base : base = <<>>
  OBVIOUS
<1>5. base \in Seq(V)
  BY <1>4, EmptySeq
<1> HIDE DEF step
<1>6. PICK f : IsRun(f, n, Seq(V), base, step)
  BY <1>2, <1>5, RunOfSteps
<1>7. /\ f \in [0 .. n -> Seq(V)] /\ f[0] = <<>>
      /\ \A i \in 1 .. n : f[i] = step[i][f[i - 1]]
  BY <1>4, <1>6 DEF IsRun
<1>8. ASSUME NEW i \in 1 .. n PROVE f[i] = f[i - 1] \o pieces[i]
  <2>1. i - 1 \in 0 .. n
    OBVIOUS
  <2>2. f[i - 1] \in Seq(V)
    BY <1>7, <2>1
  <2> QED
    BY <1>3, <1>7, <2>2
<1> QED
  BY <1>7, <1>8 DEF Joins

\* The same first pieces join to the same.
LEMMA JoinsAgree ==
  ASSUME NEW V, NEW n \in Nat, NEW m \in Nat, NEW k \in Nat, k <= n, k <= m,
         NEW c, NEW d, \A i \in 1 .. k : c[i] = d[i],
         NEW g, NEW h, Joins(g, c, n, V), Joins(h, d, m, V)
  PROVE  g[k] = h[k]
<1> DEFINE S == {i \in 0 .. k : g[i] = h[i]}
<1>1. 0 \in S
  BY DEF Joins
<1>2. ASSUME NEW i \in 0 .. k - 1, i \in S PROVE i + 1 \in S
  <2>1. i + 1 \in 1 .. n /\ i + 1 \in 1 .. m /\ i + 1 \in 1 .. k /\ (i + 1) - 1 = i
    OBVIOUS
  <2>2. g[i + 1] = g[i] \o c[i + 1]
    BY <2>1 DEF Joins
  <2>3. h[i + 1] = h[i] \o d[i + 1]
    BY <2>1 DEF Joins
  <2>4. c[i + 1] = d[i + 1]
    BY <2>1
  <2>5. g[i] = h[i]
    BY <1>2
  <2>6. g[i + 1] = h[i + 1] /\ i + 1 \in 0 .. k
    BY <2>1, <2>2, <2>3, <2>4, <2>5
  <2> QED
    BY <2>6
<1> HIDE DEF S
<1>3. \A i \in 0 .. k : i \in S
  BY <1>1, <1>2, InductionOverInterval
<1>4. k \in S
  BY <1>3
<1> QED
  BY <1>4 DEF S

\* The joined pieces exist.
LEMMA JoinExists ==
  ASSUME NEW V, NEW n \in Nat, NEW pieces, IsPieces(pieces, n, V)
  PROVE  \E joined \in Seq(V) : JoinOf(joined, pieces, n, V)
<1>1. PICK g : Joins(g, pieces, n, V)
  BY PiecesJoin
<1>2. g[n] \in Seq(V)
  BY <1>1 DEF Joins
<1>3. JoinOf(g[n], pieces, n, V)
  BY <1>1 DEF JoinOf
<1> QED
  BY <1>2, <1>3

\* They are a sequence.
LEMMA JoinType ==
  ASSUME NEW V, NEW n \in Nat, NEW pieces, NEW joined, JoinOf(joined, pieces, n, V)
  PROVE  joined \in Seq(V)
BY DEF JoinOf, Joins

\* They are determined by the pieces.
LEMMA JoinUnique ==
  ASSUME NEW V, NEW n \in Nat, NEW c, NEW d, \A i \in 1 .. n : c[i] = d[i],
         NEW a, NEW b, JoinOf(a, c, n, V), JoinOf(b, d, n, V)
  PROVE  a = b
<1>1. PICK g : Joins(g, c, n, V) /\ a = g[n]
  BY DEF JoinOf
<1>2. PICK h : Joins(h, d, n, V) /\ b = h[n]
  BY DEF JoinOf
<1>3. g[n] = h[n]
  BY <1>1, <1>2, JoinsAgree
<1> QED
  BY <1>1, <1>2, <1>3

\* Equal pieces join to the same.
LEMMA JoinSame ==
  ASSUME NEW V, NEW n \in Nat, NEW c, NEW d, IsPieces(d, n, V), \A i \in 1 .. n : c[i] = d[i],
         NEW a, JoinOf(a, c, n, V)
  PROVE  JoinOf(a, d, n, V)
<1>1. PICK b \in Seq(V) : JoinOf(b, d, n, V)
  BY JoinExists
<1>2. a = b
  BY <1>1, JoinUnique
<1> QED
  BY <1>1, <1>2

\* The pieces before the last joined, and the last.
IsFront(front, joined, pieces, n, V) ==
  /\ front \in Seq(V)
  /\ JoinOf(front, pieces, n, V)
  /\ joined = front \o pieces[n + 1]

\* The last piece is at the end.
LEMMA JoinLast ==
  ASSUME NEW V, NEW n \in Nat, NEW pieces, NEW joined, JoinOf(joined, pieces, n + 1, V)
  PROVE  \E front : IsFront(front, joined, pieces, n, V)
<1>1. PICK g : Joins(g, pieces, n + 1, V) /\ joined = g[n + 1]
  BY DEF JoinOf
<1>2. PICK h : h = [i \in 0 .. n |-> g[i]]
  OBVIOUS
<1>3. \A i \in 0 .. n : h[i] = g[i] /\ g[i] \in Seq(V)
  BY <1>1, <1>2 DEF Joins
<1>4. h \in [0 .. n -> Seq(V)]
  BY <1>2, <1>3
<1>5. h[0] = <<>>
  BY <1>1, <1>3 DEF Joins
<1>6. ASSUME NEW i \in 1 .. n PROVE h[i] = h[i - 1] \o pieces[i]
  <2>1. i - 1 \in 0 .. n /\ i \in 0 .. n /\ i \in 1 .. n + 1
    OBVIOUS
  <2>2. g[i] = g[i - 1] \o pieces[i]
    BY <1>1, <2>1 DEF Joins
  <2> QED
    BY <1>3, <2>1, <2>2
<1>7. JoinOf(h[n], pieces, n, V)
  BY <1>4, <1>5, <1>6 DEF JoinOf, Joins
<1>8. n + 1 \in 1 .. n + 1 /\ (n + 1) - 1 = n /\ n \in 0 .. n
  OBVIOUS
<1>9. g[n + 1] = g[n] \o pieces[n + 1]
  BY <1>1, <1>8 DEF Joins
<1> QED
  BY <1>1, <1>3, <1>7, <1>8, <1>9 DEF IsFront

\* A piece more.
LEMMA JoinMore ==
  ASSUME NEW V, NEW n \in Nat, NEW c, NEW d, IsPieces(d, n + 1, V), \A i \in 1 .. n : c[i] = d[i],
         NEW front, JoinOf(front, c, n, V)
  PROVE  JoinOf(front \o d[n + 1], d, n + 1, V)
<1>1. PICK all \in Seq(V) : JoinOf(all, d, n + 1, V)
  BY JoinExists
<1>2. PICK b : IsFront(b, all, d, n, V)
  BY <1>1, JoinLast
<1>3. JoinOf(b, d, n, V) /\ all = b \o d[n + 1]
  BY <1>2 DEF IsFront
<1>4. front = b
  BY <1>3, JoinUnique
<1> QED
  BY <1>1, <1>3, <1>4

-----------------------------------------------------------------------------
(***************************************************************************)
(* Reading a file.                                                         *)
(***************************************************************************)
HasPersist(records) == \E i \in 1 .. Len(records) : IsPersist(records[i].command)

\* The last record may be a PERSIST, the others are not.
OnlyLastPersists(records) ==
  \A i \in 1 .. Len(records) : IsPersist(records[i].command) => i = Len(records)

\* A file without PERSIST is read to its end.
LEMMA ReadPlain ==
  ASSUME NEW records \in Seq(Records), ~HasPersist(records)
  PROVE  ReadRecords(records) = records
<1>1. DOMAIN records = 1 .. Len(records)
  BY LenProperties
<1>2. {i \in DOMAIN records : IsPersist(records[i].command)} = {}
  BY <1>1 DEF HasPersist
<1> QED
  BY <1>2 DEF ReadRecords

\* Where reading ends in a file with a PERSIST.
LEMMA ReadToPersist ==
  ASSUME NEW records \in Seq(Records), HasPersist(records)
  PROVE  \E n \in 1 .. Len(records) :
           /\ IsPersist(records[n].command)
           /\ \A i \in 1 .. n - 1 : ~IsPersist(records[i].command)
           /\ ReadRecords(records) = SubSeq(records, 1, n)
<1>1. DOMAIN records = 1 .. Len(records) /\ Len(records) \in Nat
  BY LenProperties
<1> DEFINE persists == {i \in DOMAIN records : IsPersist(records[i].command)}
<1>2. PICK x \in persists : TRUE
  BY <1>1 DEF HasPersist
<1>3. persists \in SUBSET Nat /\ persists # {} /\ \A i \in persists : i \in 1 .. Len(records)
  BY <1>1, <1>2
<1>4. ReadRecords(records) = SubSeq(records, 1, Min(persists))
  BY <1>3 DEF ReadRecords
<1>5. \A i \in 1 .. Len(records) : i \in persists <=> IsPersist(records[i].command)
  BY <1>1
<1> HIDE DEF persists
<1>6. Min(persists) \in persists /\ \A y \in persists : Min(persists) <= y
  BY <1>3, MinOf
<1>7. PICK n \in Nat : n = Min(persists)
  BY <1>3, <1>6
<1>8. n \in 1 .. Len(records) /\ IsPersist(records[n].command)
  BY <1>3, <1>5, <1>6, <1>7
<1>9. ASSUME NEW i \in 1 .. n - 1 PROVE ~IsPersist(records[i].command)
  BY <1>1, <1>5, <1>6, <1>7, <1>8
<1> QED
  BY <1>4, <1>7, <1>8, <1>9

\* What is read are the first records of the file.
LEMMA ReadIsStart ==
  ASSUME NEW records \in Seq(Records)
  PROVE  ReadRecords(records) \in Seq(Records) /\ Starts(ReadRecords(records), records)
<1>0. Len(records) \in Nat
  BY LenProperties
<1>1. CASE ~HasPersist(records)
  BY <1>0, <1>1, ReadPlain DEF Starts
<1>2. CASE HasPersist(records)
  <2>1. PICK n \in 1 .. Len(records) : ReadRecords(records) = SubSeq(records, 1, n)
    BY <1>2, ReadToPersist
  <2>2. n \in 0 .. Len(records)
    BY <1>0
  <2>3. /\ SubSeq(records, 1, n) \in Seq(Records)
        /\ Len(SubSeq(records, 1, n)) = n
        /\ \A i \in 1 .. n : SubSeq(records, 1, n)[i] = records[i]
    BY <2>2, FirstElements
  <2> QED
    BY <1>0, <2>1, <2>2, <2>3 DEF Starts
<1> QED
  BY <1>1, <1>2

\* A file with nothing after its PERSIST is read to its end, too.
LEMMA ReadWhole ==
  ASSUME NEW records \in Seq(Records), OnlyLastPersists(records)
  PROVE  ReadRecords(records) = records
<1>1. CASE ~HasPersist(records)
  BY <1>1, ReadPlain
<1>2. CASE HasPersist(records)
  <2>1. PICK n \in 1 .. Len(records) :
          IsPersist(records[n].command) /\ ReadRecords(records) = SubSeq(records, 1, n)
    BY <1>2, ReadToPersist
  <2>2. n = Len(records)
    BY <2>1 DEF OnlyLastPersists
  <2>3. SubSeq(records, 1, Len(records)) = records
    BY SubSeqFull
  <2> QED
    BY <2>1, <2>2, <2>3
<1> QED
  BY <1>1, <1>2

\* What follows a PERSIST is not read.
LEMMA ReadEnds ==
  ASSUME NEW records \in Seq(Records), NEW more \in Seq(Records), HasPersist(records)
  PROVE  ReadRecords(records \o more) = ReadRecords(records)
<1>1. PICK all : all = records \o more
  OBVIOUS
<1>2. IsConcat(all, records, more)
  BY <1>1 DEF IsConcat
<1>3. /\ all \in Seq(Records) /\ Len(all) = Len(records) + Len(more)
      /\ Len(records) \in Nat /\ Len(more) \in Nat
      /\ \A i \in 1 .. Len(records) : i \in 1 .. Len(all) /\ all[i] = records[i]
  BY <1>2, ConcatElements
<1>4. HasPersist(all)
  BY <1>3 DEF HasPersist
<1>5. PICK n \in 1 .. Len(records) :
        /\ IsPersist(records[n].command)
        /\ \A i \in 1 .. n - 1 : ~IsPersist(records[i].command)
        /\ ReadRecords(records) = SubSeq(records, 1, n)
  BY ReadToPersist
<1>6. PICK m \in 1 .. Len(all) :
        /\ IsPersist(all[m].command)
        /\ \A i \in 1 .. m - 1 : ~IsPersist(all[i].command)
        /\ ReadRecords(all) = SubSeq(all, 1, m)
  BY <1>3, <1>4, ReadToPersist
<1>7. n = m
  <2>1. ~(m < n)
    <3> SUFFICES ASSUME m < n PROVE FALSE
      OBVIOUS
    <3>1. m \in 1 .. n - 1 /\ m \in 1 .. Len(records)
      BY <1>3
    <3>2. ~IsPersist(records[m].command)
      BY <1>5, <3>1
    <3> QED
      BY <1>3, <1>6, <3>1, <3>2
  <2>2. ~(n < m)
    <3> SUFFICES ASSUME n < m PROVE FALSE
      OBVIOUS
    <3>1. n \in 1 .. m - 1
      BY <1>3
    <3>2. ~IsPersist(all[n].command)
      BY <1>6, <3>1
    <3> QED
      BY <1>3, <1>5, <3>2
  <2> QED
    BY <1>3, <2>1, <2>2
<1>8. Starts(records, all)
  BY <1>3 DEF Starts
<1>9. n \in 0 .. Len(records)
  BY <1>3
<1>10. SubSeq(records, 1, n) = SubSeq(all, 1, n)
  BY <1>3, <1>8, <1>9, FirstOfStart
<1> QED
  BY <1>1, <1>5, <1>6, <1>7, <1>10

\* The first elements of two sequences together, when they reach the second.
LEMMA FirstOfConcat ==
  ASSUME NEW S, NEW s \in Seq(S), NEW t \in Seq(S), NEW n \in 0 .. Len(t)
  PROVE  SubSeq(s \o t, 1, Len(s) + n) = s \o SubSeq(t, 1, n)
<1>0. PICK m : m = Len(s) + n
  OBVIOUS
<1>1. PICK all : all = s \o t
  OBVIOUS
<1>2. IsConcat(all, s, t)
  BY <1>1 DEF IsConcat
<1>3. /\ all \in Seq(S) /\ Len(all) = Len(s) + Len(t)
      /\ Len(s) \in Nat /\ Len(t) \in Nat
      /\ \A i \in 1 .. Len(s) : i \in 1 .. Len(all) /\ all[i] = s[i]
      /\ \A j \in 1 .. Len(t) : Len(s) + j \in 1 .. Len(all) /\ all[Len(s) + j] = t[j]
  BY <1>2, ConcatElements
<1>4. m \in 0 .. Len(all)
  BY <1>0, <1>3
<1>5. PICK a : a = SubSeq(all, 1, m)
  OBVIOUS
<1>6. PICK b : b = SubSeq(t, 1, n)
  OBVIOUS
<1>7. a \in Seq(S) /\ Len(a) = m /\ \A i \in 1 .. m : a[i] = all[i]
  BY <1>3, <1>4, <1>5, FirstElements
<1>8. b \in Seq(S) /\ Len(b) = n /\ \A i \in 1 .. n : b[i] = t[i]
  BY <1>6, FirstElements
<1>9. PICK c : c = s \o b
  OBVIOUS
<1>10. IsConcat(c, s, b)
  BY <1>9 DEF IsConcat
<1>11. /\ c \in Seq(S) /\ Len(c) = Len(s) + Len(b)
       /\ \A i \in 1 .. Len(s) : i \in 1 .. Len(c) /\ c[i] = s[i]
       /\ \A j \in 1 .. Len(b) : Len(s) + j \in 1 .. Len(c) /\ c[Len(s) + j] = b[j]
  <2>1. b \in Seq(S)
    BY <1>8
  <2> QED
    BY <1>10, <2>1, ConcatElements
<1>14. ASSUME NEW i \in 1 .. m PROVE a[i] = c[i]
  <2>1. CASE i <= Len(s)
    <3>1. i \in 1 .. Len(s)
      BY <1>3, <1>4, <2>1
    <3>2. a[i] = s[i]
      BY <1>3, <1>7, <3>1
    <3>3. c[i] = s[i]
      BY <1>11, <3>1
    <3> QED
      BY <3>2, <3>3
  <2>2. CASE i > Len(s)
    <3>1. PICK j \in 1 .. n : i = Len(s) + j
      <4>1. i - Len(s) \in 1 .. n /\ i = Len(s) + (i - Len(s))
        BY <1>0, <1>3, <1>4, <2>2
      <4> QED
        BY <4>1
    <3>2. j \in 1 .. Len(t)
      BY <1>3, <3>1
    <3>3. a[i] = t[j]
      BY <1>3, <1>7, <3>1, <3>2
    <3>4. c[i] = t[j]
      BY <1>8, <1>11, <3>1
    <3> QED
      BY <3>3, <3>4
  <2> QED
    BY <1>3, <1>4, <2>1, <2>2
<1>15. Len(c) = m
  BY <1>0, <1>8, <1>11
<1>16. a = c
  BY <1>7, <1>11, <1>14, <1>15, SeqEqual
<1> QED
  BY <1>0, <1>1, <1>5, <1>6, <1>9, <1>16

\* What follows records without PERSIST is read after them.
LEMMA ReadGoesOn ==
  ASSUME NEW records \in Seq(Records), NEW more \in Seq(Records), ~HasPersist(records)
  PROVE  ReadRecords(records \o more) = records \o ReadRecords(more)
<1>1. PICK all : all = records \o more
  OBVIOUS
<1>2. IsConcat(all, records, more)
  BY <1>1 DEF IsConcat
<1>3. /\ all \in Seq(Records) /\ Len(all) = Len(records) + Len(more)
      /\ Len(records) \in Nat /\ Len(more) \in Nat
      /\ \A i \in 1 .. Len(records) : i \in 1 .. Len(all) /\ all[i] = records[i]
      /\ \A j \in 1 .. Len(more) : Len(records) + j \in 1 .. Len(all) /\ all[Len(records) + j] = more[j]
  BY <1>2, ConcatElements
<1>4. CASE ~HasPersist(more)
  <2>1. ASSUME NEW i \in 1 .. Len(all) PROVE ~IsPersist(all[i].command)
    <3>1. CASE i <= Len(records)
      BY <1>3, <3>1 DEF HasPersist
    <3>2. CASE i > Len(records)
      <4>1. PICK j \in 1 .. Len(more) : i = Len(records) + j
        <5>1. i - Len(records) \in 1 .. Len(more) /\ i = Len(records) + (i - Len(records))
          BY <1>3, <3>2
        <5> QED
          BY <5>1
      <4> QED
        BY <1>3, <1>4, <4>1 DEF HasPersist
    <3> QED
      BY <1>3, <3>1, <3>2
  <2>2. ~HasPersist(all)
    BY <2>1 DEF HasPersist
  <2> QED
    BY <1>1, <1>3, <1>4, <2>2, ReadPlain
<1>5. CASE HasPersist(more)
  <2>1. PICK n \in 1 .. Len(more) :
          /\ IsPersist(more[n].command)
          /\ \A i \in 1 .. n - 1 : ~IsPersist(more[i].command)
          /\ ReadRecords(more) = SubSeq(more, 1, n)
    BY <1>5, ReadToPersist
  <2>2. HasPersist(all)
    BY <1>3, <2>1 DEF HasPersist
  <2>3. PICK m \in 1 .. Len(all) :
          /\ IsPersist(all[m].command)
          /\ \A i \in 1 .. m - 1 : ~IsPersist(all[i].command)
          /\ ReadRecords(all) = SubSeq(all, 1, m)
    BY <1>3, <2>2, ReadToPersist
  <2>4. PICK l \in 1 .. Len(more) : m = Len(records) + l
    <3>1. m > Len(records)
      BY <1>3, <2>3 DEF HasPersist
    <3>2. m - Len(records) \in 1 .. Len(more) /\ m = Len(records) + (m - Len(records))
      BY <1>3, <3>1
    <3> QED
      BY <3>2
  <2>5. IsPersist(more[l].command)
    BY <1>3, <2>3, <2>4
  <2>6. ~(l < n)
    <3> SUFFICES ASSUME l < n PROVE FALSE
      OBVIOUS
    <3>1. l \in 1 .. n - 1
      BY <1>3
    <3> QED
      BY <2>1, <2>5, <3>1
  <2>7. ~(n < l)
    <3> SUFFICES ASSUME n < l PROVE FALSE
      OBVIOUS
    <3>1. Len(records) + n \in 1 .. m - 1
      BY <1>3, <2>4
    <3>2. ~IsPersist(all[Len(records) + n].command)
      BY <2>3, <3>1
    <3> QED
      BY <1>3, <2>1, <3>2
  <2>8. m = Len(records) + n
    <3>1. l \in Int /\ n \in Int
      OBVIOUS
    <3>2. l = n
      BY <2>6, <2>7, <3>1
    <3> QED
      BY <2>4, <3>2
  <2>9. n \in 0 .. Len(more)
    BY <1>3, <2>1
  <2>10. SubSeq(records \o more, 1, Len(records) + n) = records \o SubSeq(more, 1, n)
    BY <2>9, FirstOfConcat
  <2> QED
    BY <1>1, <2>1, <2>3, <2>8, <2>10
<1> QED
  BY <1>4, <1>5

-----------------------------------------------------------------------------
(***************************************************************************)
(* Series of files.                                                        *)
(***************************************************************************)
FileNames == (0 .. MaxRequests) \X (Nat \ {0})

IsFiles(files) ==
  /\ DOMAIN files \subseteq FileNames
  /\ \A f \in DOMAIN files : files[f] \in Seq(Records)

\* The series of T has the files 1 .. k.
HasFiles(files, T, k) == \A i \in Nat \ {0} : <<T, i>> \in DOMAIN files <=> i <= k

ReadPieces(files, T, k) == [i \in 1 .. k |-> ReadRecords(files[<<T, i>>])]

\* What is read in the series of T, which has k files.
Reads(read, files, T, k) ==
  /\ HasFiles(files, T, k)
  /\ JoinOf(read, ReadPieces(files, T, k), k, Records)

\* The series of T is the same in both.
SameSeries(files, others, T) ==
  \A i \in Nat \ {0} :
    /\ <<T, i>> \in DOMAIN files <=> <<T, i>> \in DOMAIN others
    /\ <<T, i>> \in DOMAIN files => others[<<T, i>>] = files[<<T, i>>]

\* Files of a series hold records.
LEMMA FileOfSeries ==
  ASSUME NEW files, IsFiles(files), NEW T, NEW k \in Nat, HasFiles(files, T, k),
         NEW i \in 1 .. k
  PROVE  <<T, i>> \in DOMAIN files /\ files[<<T, i>>] \in Seq(Records)
BY DEF IsFiles, HasFiles

\* So does what is read of them.
LEMMA ReadPiecesTyped ==
  ASSUME NEW files, IsFiles(files), NEW T, NEW k \in Nat, HasFiles(files, T, k)
  PROVE  IsPieces(ReadPieces(files, T, k), k, Records)
<1>1. ASSUME NEW i \in 1 .. k PROVE ReadRecords(files[<<T, i>>]) \in Seq(Records)
  <2>1. files[<<T, i>>] \in Seq(Records)
    BY FileOfSeries
  <2> QED
    BY <2>1, ReadIsStart
<1> QED
  BY <1>1 DEF IsPieces, ReadPieces

\* A series can be read.
LEMMA SeriesReads ==
  ASSUME NEW files, IsFiles(files), NEW T, NEW k \in Nat, HasFiles(files, T, k)
  PROVE  \E read : Reads(read, files, T, k)
<1>1. PICK read \in Seq(Records) : JoinOf(read, ReadPieces(files, T, k), k, Records)
  BY ReadPiecesTyped, JoinExists
<1> QED
  BY <1>1 DEF Reads

\* What is read are records.
LEMMA ReadType ==
  ASSUME NEW files, NEW T, NEW k \in Nat, NEW read, Reads(read, files, T, k)
  PROVE  read \in Seq(Records)
<1>1. JoinOf(read, ReadPieces(files, T, k), k, Records)
  BY DEF Reads
<1> QED
  BY <1>1, JoinType

\* A series that does not exist has nothing to read.
LEMMA NoSeries ==
  ASSUME NEW files, NEW T, HasFiles(files, T, 0)
  PROVE  Reads(<<>>, files, T, 0)
<1>1. PICK g : g = [i \in 0 .. 0 |-> <<>>]
  OBVIOUS
<1>2. g \in [0 .. 0 -> Seq(Records)] /\ g[0] = <<>>
  BY <1>1, EmptySeq
<1>3. Joins(g, ReadPieces(files, T, 0), 0, Records)
  BY <1>2 DEF Joins
<1> QED
  BY <1>2, <1>3 DEF Reads, JoinOf

\* The number of files of a series.
LEMMA SeriesLength ==
  ASSUME NEW files, NEW T, NEW k \in Nat, NEW l \in Nat,
         HasFiles(files, T, k), HasFiles(files, T, l)
  PROVE  k = l
<1>1. ~(k < l)
  <2> SUFFICES ASSUME k < l PROVE FALSE
    OBVIOUS
  <2>1. l \in Nat \ {0}
    OBVIOUS
  <2>2. <<T, l>> \in DOMAIN files
    BY <2>1 DEF HasFiles
  <2> QED
    BY <2>1, <2>2 DEF HasFiles
<1>2. ~(l < k)
  <2> SUFFICES ASSUME l < k PROVE FALSE
    OBVIOUS
  <2>1. k \in Nat \ {0}
    OBVIOUS
  <2>2. <<T, k>> \in DOMAIN files
    BY <2>1 DEF HasFiles
  <2> QED
    BY <2>1, <2>2 DEF HasFiles
<1> QED
  BY <1>1, <1>2

\* Reading gives one result.
LEMMA ReadUnique ==
  ASSUME NEW files, NEW T, NEW k \in Nat, NEW l \in Nat, NEW a, NEW b,
         Reads(a, files, T, k), Reads(b, files, T, l)
  PROVE  a = b
<1>1. HasFiles(files, T, k) /\ HasFiles(files, T, l)
  BY DEF Reads
<1>2. k = l
  BY <1>1, SeriesLength
<1>3. JoinOf(a, ReadPieces(files, T, k), k, Records)
  BY DEF Reads
<1>4. JoinOf(b, ReadPieces(files, T, k), k, Records)
  BY <1>2 DEF Reads
<1> QED
  BY <1>3, <1>4, JoinUnique

\* A series that is the same reads the same.
LEMMA ReadSame ==
  ASSUME NEW files, NEW others, IsFiles(others), NEW T, NEW k \in Nat,
         SameSeries(files, others, T), NEW read, Reads(read, files, T, k)
  PROVE  Reads(read, others, T, k)
<1>1. HasFiles(others, T, k)
  BY DEF Reads, HasFiles, SameSeries
<1>2. IsPieces(ReadPieces(others, T, k), k, Records)
  BY <1>1, ReadPiecesTyped
<1>3. ASSUME NEW i \in 1 .. k
      PROVE  ReadPieces(files, T, k)[i] = ReadPieces(others, T, k)[i]
  <2>1. i \in Nat \ {0} /\ i <= k
    OBVIOUS
  <2>2. <<T, i>> \in DOMAIN files
    BY <2>1 DEF Reads, HasFiles
  <2>3. others[<<T, i>>] = files[<<T, i>>]
    BY <2>1, <2>2 DEF SameSeries
  <2> QED
    BY <2>3 DEF ReadPieces
<1>4. JoinOf(read, ReadPieces(files, T, k), k, Records)
  BY DEF Reads
<1>5. JoinOf(read, ReadPieces(others, T, k), k, Records)
  BY <1>2, <1>3, <1>4, JoinSame
<1> QED
  BY <1>1, <1>5 DEF Reads

\* A file changes or comes to be, the others stay.
OnlyFile(files, others, name) ==
  /\ DOMAIN others = DOMAIN files \cup {name}
  /\ \A f \in DOMAIN files : f # name => others[f] = files[f]

\* An empty file more changes nothing.
LEMMA ReadNextFile ==
  ASSUME NEW files, NEW others, IsFiles(others), NEW T, NEW k \in Nat, NEW read,
         Reads(read, files, T, k),
         OnlyFile(files, others, <<T, k + 1>>), others[<<T, k + 1>>] = <<>>
  PROVE  Reads(read, others, T, k + 1)
<1>1. HasFiles(files, T, k)
  BY DEF Reads
<1>2. HasFiles(others, T, k + 1)
  <2> SUFFICES ASSUME NEW i \in Nat \ {0} PROVE <<T, i>> \in DOMAIN others <=> i <= k + 1
    BY DEF HasFiles
  <2>1. <<T, i>> \in DOMAIN files <=> i <= k
    BY <1>1 DEF HasFiles
  <2>2. <<T, i>> \in DOMAIN others <=> <<T, i>> \in DOMAIN files \/ i = k + 1
    BY DEF OnlyFile
  <2> QED
    BY <2>1, <2>2
<1>3. k + 1 \in Nat
  OBVIOUS
<1>4. IsPieces(ReadPieces(others, T, k + 1), k + 1, Records)
  BY <1>2, <1>3, ReadPiecesTyped
<1>5. ASSUME NEW i \in 1 .. k
      PROVE  ReadPieces(files, T, k)[i] = ReadPieces(others, T, k + 1)[i]
  <2>1. i \in Nat \ {0} /\ i <= k /\ i # k + 1 /\ i \in 1 .. k + 1
    OBVIOUS
  <2>2. <<T, i>> \in DOMAIN files /\ <<T, i>> # <<T, k + 1>>
    BY <1>1, <2>1 DEF HasFiles
  <2>3. others[<<T, i>>] = files[<<T, i>>]
    BY <2>2 DEF OnlyFile
  <2> QED
    BY <2>1, <2>3 DEF ReadPieces
<1>6. JoinOf(read, ReadPieces(files, T, k), k, Records)
  BY DEF Reads
<1>7. JoinOf(read \o ReadPieces(others, T, k + 1)[k + 1], ReadPieces(others, T, k + 1), k + 1, Records)
  BY <1>4, <1>5, <1>6, JoinMore
<1>8. <<>> \in Seq(Records) /\ ~HasPersist(<<>>)
  BY EmptySeq DEF HasPersist
<1>9. ReadRecords(<<>>) = <<>>
  BY <1>8, ReadPlain
<1>10. k + 1 \in 1 .. k + 1
  OBVIOUS
<1>11. ReadPieces(others, T, k + 1)[k + 1] = <<>>
  BY <1>9, <1>10 DEF ReadPieces
<1>12. read \o <<>> = read
  BY ReadType, ConcatEmptySeq
<1> QED
  BY <1>2, <1>7, <1>11, <1>12 DEF Reads

\* More records in the last file: they are read as far as they can be.
LEMMA ReadLonger ==
  ASSUME NEW files, NEW others, IsFiles(files), IsFiles(others),
         NEW T, NEW k \in Nat \ {0}, NEW read, Reads(read, files, T, k),
         OnlyFile(files, others, <<T, k>>),
         NEW more \in Seq(Records), others[<<T, k>>] = files[<<T, k>>] \o more
  PROVE  /\ HasPersist(files[<<T, k>>]) => Reads(read, others, T, k)
         /\ ~HasPersist(files[<<T, k>>]) => Reads(read \o ReadRecords(more), others, T, k)
<1>1. HasFiles(files, T, k)
  BY DEF Reads
<1>2. k \in Nat /\ k \in 1 .. k
  OBVIOUS
<1>3. <<T, k>> \in DOMAIN files /\ files[<<T, k>>] \in Seq(Records)
  BY <1>1, <1>2, FileOfSeries
<1>4. DOMAIN others = DOMAIN files
  BY <1>3 DEF OnlyFile
<1>5. HasFiles(others, T, k)
  BY <1>1, <1>4 DEF HasFiles
<1>6. PICK m \in Nat : k = m + 1
  <2>1. k - 1 \in Nat /\ k = (k - 1) + 1
    OBVIOUS
  <2> QED
    BY <2>1
<1> DEFINE c == ReadPieces(files, T, k)
           d == ReadPieces(others, T, k)
           F == files[<<T, k>>]
<1>7. IsPieces(c, k, Records) /\ IsPieces(d, k, Records)
  BY <1>1, <1>2, <1>5, ReadPiecesTyped
<1>8. ASSUME NEW i \in 1 .. m PROVE c[i] = d[i]
  <2>1. i \in Nat \ {0} /\ i <= k /\ i # k /\ i \in 1 .. k
    BY <1>6
  <2>2. <<T, i>> \in DOMAIN files /\ <<T, i>> # <<T, k>>
    BY <1>1, <2>1 DEF HasFiles
  <2>3. others[<<T, i>>] = files[<<T, i>>]
    BY <2>2 DEF OnlyFile
  <2> QED
    BY <2>1, <2>3 DEF ReadPieces
<1>9. c[k] = ReadRecords(F) /\ d[k] = ReadRecords(F \o more)
  BY <1>2 DEF ReadPieces
<1>10. JoinOf(read, c, k, Records)
  BY DEF Reads
<1> HIDE DEF c, d, F
<1>11. JoinOf(read, c, m + 1, Records) /\ IsPieces(d, m + 1, Records)
  BY <1>6, <1>7, <1>10
<1>12. PICK front : IsFront(front, read, c, m, Records)
  BY <1>11, JoinLast
<1>13. front \in Seq(Records) /\ JoinOf(front, c, m, Records) /\ read = front \o c[k]
  BY <1>6, <1>12 DEF IsFront
<1>14. JoinOf(front \o d[m + 1], d, m + 1, Records)
  BY <1>8, <1>11, <1>13, JoinMore
<1>15. Reads(front \o ReadRecords(F \o more), others, T, k)
  BY <1>5, <1>6, <1>9, <1>14 DEF Reads, d
<1>16. F \in Seq(Records)
  BY <1>3 DEF F
<1>17. ASSUME HasPersist(F) PROVE Reads(read, others, T, k)
  <2>1. ReadRecords(F \o more) = ReadRecords(F)
    BY <1>16, <1>17, ReadEnds
  <2> QED
    BY <1>9, <1>13, <1>15, <2>1
<1>18. ASSUME ~HasPersist(F) PROVE Reads(read \o ReadRecords(more), others, T, k)
  <2>1. ReadRecords(F \o more) = F \o ReadRecords(more)
    BY <1>16, <1>18, ReadGoesOn
  <2>2. read = front \o F
    BY <1>9, <1>13, <1>16, <1>18, ReadPlain
  <2>3. PICK rest \in Seq(Records) : rest = ReadRecords(more)
    BY ReadIsStart
  <2>4. front \in Seq(Records)
    BY <1>13
  <2>5. (front \o F) \o rest = front \o (F \o rest)
    BY <1>16, <2>4, ConcatAssociative
  <2> QED
    BY <1>15, <2>1, <2>2, <2>3, <2>5
<1> QED
  BY <1>17, <1>18 DEF F

\* The files JournalFiles finds.
LEMMA FilesFound ==
  ASSUME IsFiles(disk.files), NEW T, NEW k \in Nat, HasFiles(disk.files, T, k)
  PROVE  JournalFiles(T) = [i \in 1 .. k |-> disk.files[<<T, i>>]]
<1> DEFINE exists(i) == <<T, i>> \in DOMAIN disk.files
           numbers == {f[2] : f \in DOMAIN disk.files}
           S == {0} \cup {n \in numbers : \A i \in 1 .. n : exists(i)}
<1>1. \A f \in DOMAIN disk.files : f[2] \in Nat \ {0}
  BY DEF IsFiles, FileNames
<1>2. S \in SUBSET Int
  BY <1>1
<1>3. k \in S
  <2>1. CASE k = 0
    BY <2>1
  <2>2. CASE k # 0
    <3>1. k \in Nat \ {0} /\ k <= k
      BY <2>2
    <3>2. <<T, k>> \in DOMAIN disk.files /\ <<T, k>>[2] = k
      BY <3>1 DEF HasFiles
    <3>3. k \in numbers
      BY <3>2
    <3>4. \A i \in 1 .. k : exists(i)
      BY DEF HasFiles
    <3> QED
      BY <3>3, <3>4
  <2> QED
    BY <2>1, <2>2
<1>4. ASSUME NEW n \in S PROVE n <= k
  <2>1. CASE n = 0
    BY <2>1
  <2>2. CASE n # 0
    <3>1. n \in Nat \ {0} /\ \A i \in 1 .. n : exists(i)
      BY <1>1, <2>2
    <3>2. exists(n)
      BY <3>1
    <3> QED
      BY <3>1, <3>2 DEF HasFiles
  <2> QED
    BY <2>1, <2>2
<1>5. JournalFiles(T) = [i \in 1 .. Max(S) |-> disk.files[<<T, i>>]]
  BY DEF JournalFiles
<1> HIDE DEF S
<1>6. Max(S) = k
  BY <1>2, <1>3, <1>4, MaxIs
<1> QED
  BY <1>5, <1>6

\* What RecordsRead gets.
LEMMA RecordsAreRead ==
  ASSUME IsFiles(disk.files), NEW T, NEW k \in Nat, NEW records,
         Reads(records, disk.files, T, k)
  PROVE  RecordsRead(T) = records
<1>1. HasFiles(disk.files, T, k)
  BY DEF Reads
<1> DEFINE files == JournalFiles(T)
           value(g, n) == IF n = 0 THEN <<>> ELSE g[n - 1] \o ReadRecords(files[n])
           pieces == ReadPieces(disk.files, T, k)
           read == CHOOSE g : g = [n \in 0 .. k |-> value(g, n)]
<1>2. files = [i \in 1 .. k |-> disk.files[<<T, i>>]]
  BY <1>1, FilesFound
<1>3. Len(files) = k
  <2>1. files \in [1 .. k -> Seq(Records)]
    BY <1>1, <1>2, FileOfSeries
  <2> HIDE DEF files
  <2> QED
    BY <2>1, FunctionIsSeq
<1>4. \A i \in 1 .. k : pieces[i] = ReadRecords(files[i])
  BY <1>2 DEF ReadPieces
<1>5. RecordsRead(T) = read[k]
  BY <1>3 DEF RecordsRead
<1> HIDE DEF files
<1>6. PICK f : Joins(f, pieces, k, Records) /\ records = f[k]
  BY DEF Reads, JoinOf
<1>7. f = [n \in 0 .. k |-> value(f, n)]
  <2>1. f \in [0 .. k -> Seq(Records)]
    BY <1>6 DEF Joins
  <2>2. ASSUME NEW n \in 0 .. k PROVE f[n] = value(f, n)
    <3>1. CASE n = 0
      BY <1>6, <3>1 DEF Joins
    <3>2. CASE n # 0
      <4>1. n \in 1 .. k
        BY <3>2
      <4>2. f[n] = f[n - 1] \o pieces[n]
        BY <1>6, <4>1 DEF Joins
      <4> QED
        BY <1>4, <3>2, <4>1, <4>2
    <3> QED
      BY <3>1, <3>2
  <2> QED
    BY <2>1, <2>2
<1>8. read = [n \in 0 .. k |-> value(read, n)]
  BY <1>7
<1> HIDE DEF read, pieces
<1>9. \A n \in 0 .. k : read[n] = value(read, n)
  BY <1>8
<1>10. \A n \in 0 .. k : f[n] = value(f, n)
  BY <1>7
<1> DEFINE S == {n \in 0 .. k : read[n] = f[n]}
<1>11. 0 \in S
  BY <1>9, <1>10
<1>12. ASSUME NEW n \in 0 .. k - 1, n \in S PROVE n + 1 \in S
  <2>1. n + 1 \in 0 .. k /\ n + 1 # 0 /\ (n + 1) - 1 = n
    OBVIOUS
  <2>2. read[n] = f[n]
    BY <1>12
  <2>3. read[n + 1] = read[n] \o ReadRecords(files[n + 1])
    BY <1>9, <2>1
  <2>4. f[n + 1] = f[n] \o ReadRecords(files[n + 1])
    BY <1>10, <2>1
  <2> QED
    BY <2>1, <2>2, <2>3, <2>4
<1> HIDE DEF S
<1>13. \A n \in 0 .. k : n \in S
  BY <1>11, <1>12, InductionOverInterval
<1>14. k \in S
  BY <1>13
<1> QED
  BY <1>5, <1>6, <1>14 DEF S

-----------------------------------------------------------------------------
(***************************************************************************)
(* Chains.                                                                 *)
(***************************************************************************)

\* The position in the ring of record i of a series that starts after position p.
At(L, i, p, B) == IF i = 0 THEN p ELSE L[i].seq - B + 1

LastAt(L, p, B) == At(L, Len(L), p, B)

\* Between two positions, both excluded, nothing changes the state.
Quiet(commands, a, b) == \A n \in a + 1 .. b - 1 : ~IsMutate(commands[n])

Link(L, i, p, B, commands) ==
  /\ At(L, i, p, B) \in At(L, i - 1, p, B) + 1 .. Len(commands)
  /\ L[i].command = commands[At(L, i, p, B)]
  /\ Quiet(commands, At(L, i - 1, p, B), At(L, i, p, B))

Chain(L, p, B, commands) == \A i \in 1 .. Len(L) : Link(L, i, p, B, commands)

\* A chain of all that changes the state after p, up to q.
ChainTo(L, p, B, commands, q) ==
  /\ Chain(L, p, B, commands)
  /\ LastAt(L, p, B) \in p .. q
  /\ Quiet(commands, LastAt(L, p, B), q + 1)

\* Positions of a chain are numbers, and as far after p as there are records.
LEMMA ChainPositions ==
  ASSUME NEW L \in Seq(Records), NEW p \in Nat, NEW B \in Nat, NEW commands \in Seq(Commands),
         Chain(L, p, B, commands)
  PROVE  \A i \in 0 .. Len(L) : At(L, i, p, B) \in Nat /\ At(L, i, p, B) >= p + i
<1>1. Len(L) \in Nat
  BY LenProperties
<1> DEFINE S == {i \in 0 .. Len(L) : At(L, i, p, B) \in Nat /\ At(L, i, p, B) >= p + i}
<1>2. 0 \in S
  BY <1>1 DEF At
<1>3. ASSUME NEW i \in 0 .. Len(L) - 1, i \in S PROVE i + 1 \in S
  <2>1. i + 1 \in 1 .. Len(L) /\ (i + 1) - 1 = i /\ i + 1 \in 0 .. Len(L)
    BY <1>1
  <2>2. Link(L, i + 1, p, B, commands)
    BY <2>1 DEF Chain
  <2>3. PICK a : a = At(L, i, p, B)
    OBVIOUS
  <2>4. PICK b : b = At(L, i + 1, p, B)
    OBVIOUS
  <2>5. b \in a + 1 .. Len(commands)
    BY <2>1, <2>2, <2>3, <2>4 DEF Link
  <2>6. a \in Nat /\ a >= p + i
    BY <1>3, <2>3
  <2>7. b \in Nat /\ b >= p + (i + 1)
    BY <2>5, <2>6
  <2> QED
    BY <2>1, <2>4, <2>7
<1> HIDE DEF S
<1>4. \A i \in 0 .. Len(L) : i \in S
  BY <1>1, <1>2, <1>3, InductionOverInterval
<1> QED
  BY <1>4 DEF S

\* The first records of a chain have the same positions.
LEMMA StartPositions ==
  ASSUME NEW L, NEW M, Starts(M, L), NEW p, NEW B, NEW i \in 0 .. Len(M)
  PROVE  At(M, i, p, B) = At(L, i, p, B)
BY DEF At, Starts

\* The first records of a chain are a chain.
LEMMA ChainStart ==
  ASSUME NEW L \in Seq(Records), NEW M \in Seq(Records), Starts(M, L),
         NEW p, NEW B, NEW commands, Chain(L, p, B, commands)
  PROVE  Chain(M, p, B, commands)
<1> SUFFICES ASSUME NEW i \in 1 .. Len(M) PROVE Link(M, i, p, B, commands)
  BY DEF Chain
<1>1. Len(M) \in Nat /\ Len(L) \in Nat /\ Len(M) <= Len(L) /\ M[i] = L[i]
  BY LenProperties DEF Starts
<1>2. i \in 1 .. Len(L) /\ i \in 0 .. Len(M) /\ i - 1 \in 0 .. Len(M)
  BY <1>1
<1>3. At(M, i, p, B) = At(L, i, p, B) /\ At(M, i - 1, p, B) = At(L, i - 1, p, B)
  BY <1>2, StartPositions
<1>4. Link(L, i, p, B, commands)
  BY <1>2 DEF Chain
<1> QED
  BY <1>1, <1>3, <1>4 DEF Link

\* A command that changes nothing needs no record.
LEMMA ChainIdle ==
  ASSUME NEW L, NEW p \in Nat, NEW B, NEW commands, NEW q \in Nat,
         ChainTo(L, p, B, commands, q), ~IsMutate(commands[q + 1])
  PROVE  ChainTo(L, p, B, commands, q + 1)
<1>1. PICK a : a = LastAt(L, p, B)
  OBVIOUS
<1>2. a \in p .. q /\ Quiet(commands, a, q + 1)
  BY <1>1 DEF ChainTo
<1>3. a \in p .. q + 1
  BY <1>2
<1>4. Quiet(commands, a, (q + 1) + 1)
  <2> SUFFICES ASSUME NEW n \in a + 1 .. ((q + 1) + 1) - 1 PROVE ~IsMutate(commands[n])
    BY DEF Quiet
  <2>1. n = q + 1 \/ n \in a + 1 .. (q + 1) - 1
    BY <1>2
  <2> QED
    BY <1>2, <2>1 DEF Quiet
<1> QED
  BY <1>1, <1>3, <1>4 DEF ChainTo

\* A record more.
LEMMA ChainAppend ==
  ASSUME NEW L \in Seq(Records), NEW p \in Nat, NEW B \in Nat, NEW commands \in Seq(Commands),
         NEW q \in Nat, q + 1 <= Len(commands), ChainTo(L, p, B, commands, q),
         NEW r \in Records, r.seq = B + q, r.command = commands[q + 1],
         NEW M, M = Append(L, r)
  PROVE  ChainTo(M, p, B, commands, q + 1)
<1>1. /\ M \in Seq(Records) /\ Len(M) = Len(L) + 1
      /\ \A i \in 1 .. Len(L) : M[i] = L[i]
      /\ M[Len(L) + 1] = r
  BY AppendElements
<1>2. Len(L) \in Nat /\ Len(commands) \in Nat
  BY LenProperties
<1>3. Starts(L, M)
  BY <1>1, <1>2 DEF Starts
<1>4. PICK l \in Nat : l = Len(L)
  BY <1>2
<1>5. At(M, l + 1, p, B) = q + 1
  <2>1. l + 1 # 0 /\ M[l + 1] = r
    BY <1>1, <1>4
  <2>2. At(M, l + 1, p, B) = r.seq - B + 1
    BY <2>1 DEF At
  <2> QED
    BY <2>2
<1>6. PICK a : a = LastAt(L, p, B)
  OBVIOUS
<1>7. a \in p .. q /\ Quiet(commands, a, q + 1)
  BY <1>6 DEF ChainTo
<1>8. ASSUME NEW i \in 1 .. l + 1 PROVE Link(M, i, p, B, commands)
  <2>1. CASE i = l + 1
    <3>1. l \in 0 .. Len(L) /\ (l + 1) - 1 = l
      BY <1>4
    <3>2. At(M, (l + 1) - 1, p, B) = a
      BY <1>3, <1>4, <1>6, <3>1, StartPositions DEF LastAt
    <3>3. q + 1 \in a + 1 .. Len(commands)
      BY <1>2, <1>7
    <3>4. M[l + 1].command = commands[q + 1]
      BY <1>1, <1>4
    <3> QED
      BY <1>5, <1>7, <2>1, <3>2, <3>3, <3>4 DEF Link
  <2>2. CASE i # l + 1
    <3>1. i \in 1 .. Len(L) /\ i \in 0 .. Len(L) /\ i - 1 \in 0 .. Len(L)
      BY <1>4, <2>2
    <3>2. Link(L, i, p, B, commands)
      BY <3>1 DEF ChainTo, Chain
    <3>3. At(L, i, p, B) = At(M, i, p, B) /\ At(L, i - 1, p, B) = At(M, i - 1, p, B)
      BY <1>3, <3>1, StartPositions
    <3>4. M[i] = L[i]
      BY <1>1, <3>1
    <3> QED
      BY <3>2, <3>3, <3>4 DEF Link
  <2> QED
    BY <2>1, <2>2
<1>9. LastAt(M, p, B) = q + 1
  BY <1>1, <1>4, <1>5 DEF LastAt
<1>10. q + 1 \in p .. q + 1
  BY <1>7
<1>11. Quiet(commands, q + 1, (q + 1) + 1)
  BY DEF Quiet
<1> QED
  BY <1>1, <1>4, <1>8, <1>9, <1>10, <1>11 DEF ChainTo, Chain

\* Commands more.
LEMMA ChainLonger ==
  ASSUME NEW L \in Seq(Records), NEW p \in Nat, NEW B \in Nat, NEW commands \in Seq(Commands),
         NEW more \in Seq(Commands), Starts(commands, more), NEW q \in 0 .. Len(commands),
         ChainTo(L, p, B, commands, q)
  PROVE  ChainTo(L, p, B, more, q)
<1>1. Len(commands) \in Nat /\ Len(more) \in Nat /\ Len(commands) <= Len(more)
      /\ \A i \in 1 .. Len(commands) : commands[i] = more[i]
  BY LenProperties DEF Starts
<1>2. \A i \in 0 .. Len(L) : At(L, i, p, B) \in Nat
  BY ChainPositions DEF ChainTo
<1>3. Len(L) \in Nat
  BY LenProperties
<1>4. ASSUME NEW i \in 1 .. Len(L) PROVE Link(L, i, p, B, more)
  <2>1. PICK a : a = At(L, i - 1, p, B)
    OBVIOUS
  <2>2. PICK b : b = At(L, i, p, B)
    OBVIOUS
  <2>3. Link(L, i, p, B, commands)
    BY DEF ChainTo, Chain
  <2>4. b \in a + 1 .. Len(commands) /\ L[i].command = commands[b] /\ Quiet(commands, a, b)
    BY <2>1, <2>2, <2>3 DEF Link
  <2>5. i - 1 \in 0 .. Len(L)
    BY <1>3
  <2>6. a \in Nat
    BY <1>2, <2>1, <2>5
  <2>7. b \in a + 1 .. Len(more) /\ b \in 1 .. Len(commands)
    BY <1>1, <2>4, <2>6
  <2>8. L[i].command = more[b]
    BY <1>1, <2>4, <2>7
  <2>9. Quiet(more, a, b)
    <3> SUFFICES ASSUME NEW n \in a + 1 .. b - 1 PROVE ~IsMutate(more[n])
      BY DEF Quiet
    <3>1. n \in 1 .. Len(commands)
      BY <1>1, <2>6, <2>7
    <3>2. ~IsMutate(commands[n])
      BY <2>4 DEF Quiet
    <3> QED
      BY <1>1, <3>1, <3>2
  <2> QED
    BY <2>1, <2>2, <2>7, <2>8, <2>9 DEF Link
<1>5. PICK a : a = LastAt(L, p, B)
  OBVIOUS
<1>6. a \in p .. q /\ Quiet(commands, a, q + 1)
  BY <1>5 DEF ChainTo
<1>7. Quiet(more, a, q + 1)
  <2> SUFFICES ASSUME NEW n \in a + 1 .. (q + 1) - 1 PROVE ~IsMutate(more[n])
    BY DEF Quiet
  <2>1. n \in 1 .. Len(commands)
    BY <1>1, <1>6
  <2>2. ~IsMutate(commands[n])
    BY <1>6 DEF Quiet
  <2> QED
    BY <1>1, <2>1, <2>2
<1> QED
  BY <1>4, <1>5, <1>6, <1>7 DEF ChainTo, Chain

\* A command after others.
LEMMA StateAppend ==
  ASSUME NEW state \in States, NEW commands \in Seq(Commands), NEW c \in Commands
  PROVE  /\ StateAfter(state, Append(commands, c)) = Effect(StateAfter(state, commands), c)
         /\ StateAfter(state, commands) \in States
<1>1. PICK all : all = Append(commands, c)
  OBVIOUS
<1>2. /\ all \in Seq(Commands) /\ Len(all) = Len(commands) + 1
      /\ \A i \in 1 .. Len(commands) : all[i] = commands[i]
      /\ all[Len(commands) + 1] = c
  BY <1>1, AppendElements
<1>3. PICK n \in Nat : n = Len(commands)
  BY LenProperties
<1>4. PICK run : Leads(run, state, all) /\ StateAfter(state, all) = run[Len(all)]
  BY <1>2, StatesAfter
<1>5. Starts(commands, all)
  BY <1>2, <1>3 DEF Starts
<1>6. StateAfter(state, commands) = run[n]
  BY <1>2, <1>3, <1>4, <1>5, StateOnTheWay
<1>7. n + 1 \in 1 .. Len(all) /\ (n + 1) - 1 = n /\ Len(all) = n + 1 /\ n \in 0 .. Len(all)
  BY <1>2, <1>3
<1>8. run[n + 1] = Effect(run[n], all[n + 1])
  BY <1>4, <1>7 DEF Leads
<1>9. run[n] \in States
  BY <1>4, <1>7 DEF Leads
<1> QED
  BY <1>1, <1>2, <1>3, <1>4, <1>6, <1>7, <1>8, <1>9

\* No command, no change.
LEMMA StateEmpty ==
  ASSUME NEW state \in States
  PROVE  StateAfter(state, <<>>) = state
<1>1. PICK none : none = <<>>
  OBVIOUS
<1>2. none \in Seq(Commands) /\ Len(none) = 0
  BY <1>1, EmptySeq
<1>3. PICK run : Leads(run, state, none) /\ StateAfter(state, none) = run[Len(none)]
  BY <1>2, StatesAfter
<1> QED
  BY <1>1, <1>2, <1>3 DEF Leads

\* Kept has no more elements than the sequence.
LEMMA KeptAtMost ==
  ASSUME NEW S, NEW seq \in Seq(S), NEW K
  PROVE  Len(Kept(seq, K)) \in 0 .. Len(seq)
<1>1. PICK kept : IsKept(kept, seq, K)
  BY KeptSteps
<1>2. Len(seq) \in Nat /\ \A i \in 1 .. Len(seq) : seq[i] \in S
  BY LenProperties, ElementOfSeq
<1> DEFINE T == {i \in 0 .. Len(seq) : kept[i] \in Seq(S) /\ Len(kept[i]) <= i}
<1>3. 0 \in T
  <2>1. PICK none : none = <<>>
    OBVIOUS
  <2>2. none \in Seq(S) /\ Len(none) = 0
    BY <2>1, EmptySeq
  <2>3. kept[0] = none
    BY <1>1, <2>1 DEF IsKept
  <2>4. kept[0] \in Seq(S) /\ Len(kept[0]) <= 0
    BY <2>2, <2>3
  <2>5. 0 \in 0 .. Len(seq)
    BY <1>2
  <2> QED
    BY <2>4, <2>5
<1>4. ASSUME NEW i \in 0 .. Len(seq) - 1, i \in T PROVE i + 1 \in T
  <2>1. i + 1 \in 1 .. Len(seq) /\ i + 1 \in 0 .. Len(seq) /\ (i + 1) - 1 = i
    BY <1>2
  <2>2. PICK s \in Seq(S) : s = kept[i] /\ Len(s) <= i
    BY <1>4
  <2>3. Len(s) \in Nat
    BY LenProperties
  <2>4. kept[i + 1] = IF seq[i + 1] \in K THEN Append(s, seq[i + 1]) ELSE s
    BY <1>1, <2>1, <2>2 DEF IsKept
  <2>5. PICK x \in S : x = seq[i + 1]
    BY <1>2, <2>1
  <2>6. PICK t : t = Append(s, x)
    OBVIOUS
  <2>7. t \in Seq(S) /\ Len(t) = Len(s) + 1
    BY <2>6, AppendElements
  <2>8. kept[i + 1] = t \/ kept[i + 1] = s
    BY <2>4, <2>5, <2>6
  <2>9. kept[i + 1] \in Seq(S) /\ Len(kept[i + 1]) <= i + 1
    BY <2>2, <2>3, <2>7, <2>8
  <2> QED
    BY <2>1, <2>9
<1> HIDE DEF T
<1>5. \A i \in 0 .. Len(seq) : i \in T
  BY <1>2, <1>3, <1>4, InductionOverInterval
<1>6. Len(seq) \in T
  BY <1>2, <1>5
<1>7. Kept(seq, K) = kept[Len(seq)]
  BY <1>1 DEF IsKept
<1>8. Kept(seq, K) \in Seq(S) /\ Len(Kept(seq, K)) <= Len(seq)
  BY <1>6, <1>7 DEF T
<1> QED
  BY <1>2, <1>8, LenProperties

-----------------------------------------------------------------------------
(***************************************************************************)
(* Replay.                                                                 *)
(***************************************************************************)
CommandsOf(records) == [i \in DOMAIN records |-> records[i].command]

Submitting(records) ==
  Kept(CommandsOf(records), {c \in ToSet(CommandsOf(records)) : ~IsPersist(c)})

\* What Replayed makes of the records read.
ReplayedOf(records) ==
  [i \in DOMAIN Submitting(records) |-> ReplayCommand(Submitting(records)[i])]

\* It does.
LEMMA ReplayedIs ==
  ASSUME NEW T
  PROVE  Replayed(T) = ReplayedOf(RecordsRead(T))
BY DEF Replayed, ReplayedOf, Submitting, CommandsOf

\* The commands of records.
LEMMA CommandsOfRecords ==
  ASSUME NEW records \in Seq(Records)
  PROVE  /\ CommandsOf(records) \in Seq(Commands)
         /\ Len(CommandsOf(records)) = Len(records)
         /\ \A i \in 1 .. Len(records) :
              CommandsOf(records)[i] = records[i].command /\ IsMutate(records[i].command)
<1>1. Len(records) \in Nat /\ DOMAIN records = 1 .. Len(records)
  BY LenProperties
<1>2. ASSUME NEW i \in 1 .. Len(records)
      PROVE  records[i].command \in Commands /\ IsMutate(records[i].command)
  <2>1. records[i] \in Records
    BY ElementOfSeq
  <2> QED
    BY <2>1 DEF Records
<1>3. PICK n \in Nat : n = Len(records)
  BY <1>1
<1>4. PICK f : f = CommandsOf(records)
  OBVIOUS
<1>5. f = [i \in 1 .. n |-> records[i].command]
  BY <1>1, <1>3, <1>4 DEF CommandsOf
<1>6. f \in [1 .. n -> Commands]
  BY <1>2, <1>3, <1>5
<1>7. f \in Seq(Commands) /\ Len(f) = n
  BY <1>6, FunctionIsSeq
<1> QED
  BY <1>2, <1>3, <1>4, <1>5, <1>7

\* The commands a replay submits.
Replayable == {c \in Commands : IsMutate(c) /\ ~IsPersist(c)}

\* Those that are kept.
LEMMA SubmittingCommands ==
  ASSUME NEW records \in Seq(Records)
  PROVE  Submitting(records) \in Seq(Replayable) /\ Len(Submitting(records)) \in 0 .. Len(records)
<1> DEFINE commands == CommandsOf(records)
           K == {c \in ToSet(commands) : ~IsPersist(c)}
           M == {c \in Commands : IsMutate(c)}
<1>1. commands \in Seq(Commands) /\ Len(commands) = Len(records)
      /\ \A i \in 1 .. Len(records) : commands[i] = records[i].command /\ IsMutate(records[i].command)
  BY CommandsOfRecords
<1>2. Submitting(records) = Kept(commands, K)
  BY DEF Submitting
<1>3. \A c \in Commands \cap K : c \in Replayable
  <2> SUFFICES ASSUME NEW c \in Commands \cap K PROVE c \in Replayable
    OBVIOUS
  <2>1. DOMAIN commands = 1 .. Len(records)
    BY <1>1, LenProperties
  <2>2. c \in ToSet(commands) /\ ~IsPersist(c)
    OBVIOUS
  <2>3. PICK i \in 1 .. Len(records) : c = commands[i]
    BY <2>1, <2>2 DEF ToSet
  <2>4. IsMutate(c)
    BY <1>1, <2>3
  <2> QED
    BY <2>2, <2>4 DEF Replayable
<1> HIDE DEF commands, K
<1>4. PICK kept : kept = Kept(commands, K)
  OBVIOUS
<1>5. kept \in Seq(Commands \cap K)
  BY <1>1, <1>4, KeptElements
<1>6. kept \in Seq(Replayable)
  BY <1>3, <1>5, SeqOfSubset
<1>7. Len(kept) \in 0 .. Len(commands)
  BY <1>1, <1>4, KeptAtMost
<1> QED
  BY <1>1, <1>2, <1>4, <1>6, <1>7

\* A byte with all its bits.
LEMMA ByteOfMinusOne ==
  ASSUME NEW x \in Int, x + 1 = 0
  PROVE  x % 256 = 255
OBVIOUS

\* Replay changes the flag of a command, not what it is.
LEMMA ReplayCommandKind ==
  ASSUME NEW c \in Replayable
  PROVE  /\ ReplayCommand(c) \in Replayable
         /\ "BINARY_DATA_COMMAND" \notin Requests => ReplayCommand(c) = c
<1>1. c \in Commands /\ IsMutate(c) /\ ~IsPersist(c)
  BY DEF Replayable
<1>2. CASE c.command # "BINARY_DATA_COMMAND"
  BY <1>1, <1>2 DEF ReplayCommand, Replayable
<1>3. CASE c.command = "BINARY_DATA_COMMAND"
  <2>1. ReplayCommand(c) = [c EXCEPT !.symbol = c.symbol % 256]
    BY <1>3 DEF ReplayCommand
  <2>2. c.symbol % 256 \in {0, 255}
    <3>1. c.symbol \in {-1, 0, 255}
      BY <1>1 DEF Commands
    <3>2. 0 % 256 = 0 /\ 255 % 256 = 255
      OBVIOUS
    <3>4. CASE c.symbol = -1
      <4>1. c.symbol \in Int /\ c.symbol + 1 = 0
        BY <3>4
      <4> QED
        BY <4>1, ByteOfMinusOne
    <3> QED
      BY <3>1, <3>2, <3>4
  <2>3. PICK x \in {-1, 0, 255} : x = c.symbol % 256
    BY <2>2
  <2>4. PICK d : d = [c EXCEPT !.symbol = x]
    OBVIOUS
  <2>5. d \in Commands /\ d.command = c.command
    BY <1>1, <2>4 DEF Commands
  <2>6. d \in Replayable
    BY <1>1, <2>5 DEF Replayable, IsMutate, IsPersist
  <2>7. "BINARY_DATA_COMMAND" \in Requests
    BY <1>1, <1>3 DEF Commands, Names
  <2> QED
    BY <2>1, <2>3, <2>4, <2>6, <2>7
<1> QED
  BY <1>2, <1>3

\* What is replayed.
LEMMA ReplayedCommands ==
  ASSUME NEW records \in Seq(Records)
  PROVE  /\ ReplayedOf(records) \in Seq(Replayable)
         /\ Len(ReplayedOf(records)) \in 0 .. Len(records)
         /\ "BINARY_DATA_COMMAND" \notin Requests => ReplayedOf(records) = Submitting(records)
<1>1. PICK s \in Seq(Replayable) : s = Submitting(records) /\ Len(s) \in 0 .. Len(records)
  BY SubmittingCommands
<1>2. PICK n \in Nat : n = Len(s) /\ DOMAIN s = 1 .. n
  BY LenProperties
<1>3. \A i \in 1 .. n : s[i] \in Replayable
  BY <1>2, ElementOfSeq
<1>4. PICK r : r = ReplayedOf(records)
  OBVIOUS
<1>5. r = [i \in 1 .. n |-> ReplayCommand(s[i])]
  BY <1>1, <1>2, <1>4 DEF ReplayedOf
<1>6. \A i \in 1 .. n : ReplayCommand(s[i]) \in Replayable
  BY <1>3, ReplayCommandKind
<1>7. r \in [1 .. n -> Replayable]
  BY <1>5, <1>6
<1>8. r \in Seq(Replayable) /\ Len(r) = n
  BY <1>7, FunctionIsSeq
<1>9. ASSUME "BINARY_DATA_COMMAND" \notin Requests PROVE r = s
  <2>1. \A i \in 1 .. n : ReplayCommand(s[i]) = s[i]
    BY <1>3, <1>9, ReplayCommandKind
  <2>2. \A i \in 1 .. Len(r) : r[i] = s[i]
    BY <1>5, <1>8, <2>1
  <2> QED
    BY <1>2, <1>8, <2>2, SeqEqual
<1> QED
  BY <1>1, <1>2, <1>4, <1>8, <1>9

\* The records of a chain, replayed, lead where the ring led: to its last position.
LEMMA ChainReplays ==
  ASSUME "BINARY_DATA_COMMAND" \notin Requests,
         NEW state \in States, NEW commands \in Seq(Commands), NEW run, Leads(run, state, commands),
         NEW p \in 0 .. Len(commands), NEW B \in Nat,
         NEW L \in Seq(Records), Chain(L, p, B, commands)
  PROVE  StateAfter(run[p], ReplayedOf(L)) = run[LastAt(L, p, B)]
<1> DEFINE cs == CommandsOf(L)
           K == {c \in ToSet(cs) : ~IsPersist(c)}
<1>1. cs \in Seq(Commands) /\ Len(cs) = Len(L) /\ \A i \in 1 .. Len(L) : cs[i] = L[i].command
  BY CommandsOfRecords
<1>2. ReplayedOf(L) = Kept(cs, K)
  BY ReplayedCommands DEF Submitting
<1>3. \A i \in 1 .. Len(L) : cs[i] \in K <=> ~IsPersist(cs[i])
  BY <1>1, LenProperties DEF ToSet
<1> HIDE DEF cs, K
<1>4. PICK kept : IsKept(kept, cs, K)
  BY <1>1, KeptSteps
<1>5. PICK l \in Nat : l = Len(L)
  BY LenProperties
<1>6. Len(commands) \in Nat /\ p \in Nat
  BY LenProperties
<1>7. \A i \in 0 .. l : At(L, i, p, B) \in Nat
  BY <1>5, <1>6, ChainPositions
<1>8. run[p] \in States
  BY DEF Leads
<1> DEFINE S == {i \in 0 .. l : kept[i] \in Seq(Commands)
                                /\ StateAfter(run[p], kept[i]) = run[At(L, i, p, B)]}
<1>9. 0 \in S
  <2>1. kept[0] = <<>>
    BY <1>4 DEF IsKept
  <2>2. <<>> \in Seq(Commands)
    BY EmptySeq
  <2>3. StateAfter(run[p], <<>>) = run[p]
    BY <1>8, StateEmpty
  <2>4. At(L, 0, p, B) = p
    BY DEF At
  <2>5. StateAfter(run[p], kept[0]) = run[At(L, 0, p, B)] /\ kept[0] \in Seq(Commands)
    BY <2>1, <2>2, <2>3, <2>4
  <2>6. 0 \in 0 .. l
    BY <1>5
  <2> QED
    BY <2>5, <2>6
<1>10. ASSUME NEW i \in 0 .. l - 1, i \in S PROVE i + 1 \in S
  <2>1. i + 1 \in 1 .. l /\ i + 1 \in 0 .. l /\ (i + 1) - 1 = i
    BY <1>5
  <2>2. PICK a \in Nat : a = At(L, i, p, B)
    BY <1>7
  <2>3. PICK b \in Nat : b = At(L, i + 1, p, B)
    BY <1>7, <2>1
  <2>4. Link(L, i + 1, p, B, commands)
    BY <1>5, <2>1 DEF Chain
  <2>5. b \in a + 1 .. Len(commands) /\ L[i + 1].command = commands[b] /\ Quiet(commands, a, b)
    BY <2>1, <2>2, <2>3, <2>4 DEF Link
  <2>6. PICK m \in Nat : b = m + 1
    <3>1. b - 1 \in Nat /\ b = (b - 1) + 1
      BY <2>5
    <3> QED
      BY <3>1
  <2>7. a \in 0 .. Len(commands) /\ m \in a .. Len(commands) /\ b \in 1 .. Len(commands) /\ b - 1 = m
    BY <1>6, <2>5, <2>6
  <2>8. \A n \in a + 1 .. m : Idle(commands[n])
    BY <2>5, <2>6 DEF Quiet, Idle
  <2>9. run[m] = run[a]
    BY <2>7, <2>8, IdleStretch
  <2>10. run[b] = Effect(run[m], commands[b])
    BY <2>7 DEF Leads
  <2>11. PICK k \in Seq(Commands) : k = kept[i]
    BY <1>10
  <2>12. StateAfter(run[p], k) = run[a]
    BY <1>10, <2>2, <2>11
  <2>13. PICK c \in Commands : c = cs[i + 1] /\ c = commands[b]
    <3>1. cs[i + 1] = commands[b]
      BY <1>1, <1>5, <2>1, <2>5
    <3>2. commands[b] \in Commands
      BY <2>7, ElementOfSeq
    <3> QED
      BY <3>1, <3>2
  <2>14. run[a] \in States
    BY <2>7 DEF Leads
  <2>15. run[b] = Effect(run[a], c)
    BY <2>9, <2>10, <2>13
  <2>16. kept[i + 1] = IF c \in K THEN Append(k, c) ELSE k
    BY <1>1, <1>4, <1>5, <2>1, <2>11, <2>13 DEF IsKept
  <2>17. c \in K <=> ~IsPersist(c)
    BY <1>3, <1>5, <2>1, <2>13
  <2>18. CASE IsPersist(c)
    <3>1. kept[i + 1] = k
      BY <2>16, <2>17, <2>18
    <3>2. Effect(run[a], c) = run[a]
      BY <2>14, <2>18, IdleKeeps DEF Idle
    <3> QED
      BY <2>1, <2>3, <2>11, <2>12, <2>15, <3>1, <3>2
  <2>19. CASE ~IsPersist(c)
    <3>1. kept[i + 1] = Append(k, c)
      BY <2>16, <2>17, <2>19
    <3>2. Append(k, c) \in Seq(Commands)
      BY AppendElements
    <3>3. StateAfter(run[p], Append(k, c)) = Effect(StateAfter(run[p], k), c)
      BY <1>8, StateAppend
    <3>4. StateAfter(run[p], kept[i + 1]) = run[b]
      BY <2>12, <2>15, <3>1, <3>3
    <3> QED
      BY <2>1, <2>3, <3>1, <3>2, <3>4
  <2> QED
    BY <2>18, <2>19
<1> HIDE DEF S
<1>11. \A i \in 0 .. l : i \in S
  BY <1>9, <1>10, InductionOverInterval
<1>12. l \in S
  BY <1>11
<1>13. Kept(cs, K) = kept[l]
  BY <1>1, <1>4, <1>5 DEF IsKept
<1> QED
  BY <1>2, <1>5, <1>12, <1>13 DEF S, LastAt

-----------------------------------------------------------------------------
(***************************************************************************)
(* What the processor does to the files.                                   *)
(***************************************************************************)
FileSets == UNION {[D -> Seq(Records)] : D \in SUBSET FileNames}

\* The processor with the files it writes.
Writers ==
  [buffer : Seq(Records), file : FileNames \cup {NoFile}, filesCounter : Nat,
   writtenBytes : Nat, baseSnapshotId : 0 .. MaxRequests, baseSeq : Nat,
   enableJournalAfterSeq : Int, failed : BOOLEAN, files : FileSets]

\* Sets of files.
LEMMA FilesAreFiles ==
  ASSUME NEW files \in FileSets
  PROVE  IsFiles(files) /\ files = [f \in DOMAIN files |-> files[f]]
BY DEF FileSets, IsFiles

\* A new or a changed file.
LEMMA PutFile ==
  ASSUME NEW files \in FileSets, NEW name \in FileNames, NEW content \in Seq(Records),
         NEW more, more = Put(files, name, content)
  PROVE  /\ more \in FileSets
         /\ more[name] = content
         /\ OnlyFile(files, more, name)
<1>1. DOMAIN files \in SUBSET FileNames /\ \A f \in DOMAIN files : files[f] \in Seq(Records)
  BY DEF FileSets
<1>2. more = [f \in DOMAIN files \cup {name} |-> IF f = name THEN content ELSE files[f]]
  BY DEF Put
<1>3. more \in [DOMAIN files \cup {name} -> Seq(Records)]
  BY <1>1, <1>2
<1>4. DOMAIN files \cup {name} \in SUBSET FileNames
  BY <1>1
<1> QED
  BY <1>2, <1>3, <1>4 DEF FileSets, OnlyFile

\* The next file is opened if it does not exist.
Opened(j, r) ==
  LET name == <<j.baseSnapshotId, j.filesCounter + 1>> IN
  /\ r \in Writers
  /\ r.buffer = j.buffer /\ r.writtenBytes = j.writtenBytes
  /\ r.baseSnapshotId = j.baseSnapshotId
  /\ r.baseSeq = j.baseSeq
  /\ r.enableJournalAfterSeq = j.enableJournalAfterSeq
  /\ r.filesCounter = j.filesCounter + 1
  /\ r.failed = j.failed
  /\ r.file = name
  /\ r.files[name] = <<>>
  /\ OnlyFile(j.files, r.files, name)

\* StartNewFile opens it.
LEMMA StartOpens ==
  ASSUME NEW j \in Writers, <<j.baseSnapshotId, j.filesCounter + 1>> \notin DOMAIN j.files
  PROVE  Opened(j, StartNewFile(j))
<1> DEFINE index == j.filesCounter + 1
           name == <<j.baseSnapshotId, index>>
           closed == [j EXCEPT !.filesCounter = index, !.file = NoFile]
<1>1. index \in Nat \ {0} /\ j.baseSnapshotId \in 0 .. MaxRequests /\ j.files \in FileSets
  BY DEF Writers
<1>2. name \in FileNames /\ name \in FileNames \cup {NoFile}
  BY <1>1 DEF FileNames
<1>3. PICK more : more = Put(j.files, name, <<>>)
  OBVIOUS
<1>4. PICK none : none = <<>> /\ none \in Seq(Records)
  BY EmptySeq
<1>5. more = Put(j.files, name, none)
  BY <1>3, <1>4
<1>6. PICK files : files = j.files
  OBVIOUS
<1>7. more \in FileSets /\ more[name] = none /\ OnlyFile(files, more, name)
  <2>1. files \in FileSets /\ name \in FileNames /\ none \in Seq(Records)
        /\ more = Put(files, name, none)
    BY <1>1, <1>2, <1>4, <1>5, <1>6
  <2> HIDE DEF name
  <2> QED
    BY <2>1, PutFile
<1>8. OnlyFile(j.files, more, name)
  BY <1>6, <1>7
<1>9. closed.files = j.files
  BY DEF Writers
<1>10. StartNewFile(j) = [closed EXCEPT !.file = name, !.files = more]
  BY <1>3, <1>9 DEF StartNewFile
<1>11. PICK r : r = [closed EXCEPT !.file = name, !.files = more]
  OBVIOUS
<1> HIDE DEF name
<1>12. /\ r \in Writers /\ r.buffer = j.buffer /\ r.writtenBytes = j.writtenBytes
       /\ r.baseSnapshotId = j.baseSnapshotId /\ r.baseSeq = j.baseSeq
       /\ r.enableJournalAfterSeq = j.enableJournalAfterSeq
       /\ r.filesCounter = index /\ r.failed = j.failed /\ r.file = name /\ r.files = more
  BY <1>1, <1>2, <1>7, <1>11 DEF Writers
<1> QED
  BY <1>4, <1>7, <1>8, <1>10, <1>11, <1>12 DEF Opened, name

\* Otherwise it throws, and has changed no file.
LEMMA StartThrows ==
  ASSUME NEW j \in Writers, <<j.baseSnapshotId, j.filesCounter + 1>> \in DOMAIN j.files,
         NEW r, r = StartNewFile(j)
  PROVE  /\ r \in Writers
         /\ r.failed /\ r.files = j.files /\ r.file = NoFile /\ r.buffer = j.buffer
         /\ r.baseSnapshotId = j.baseSnapshotId /\ r.writtenBytes = j.writtenBytes
         /\ r.baseSeq = j.baseSeq /\ r.enableJournalAfterSeq = j.enableJournalAfterSeq
<1>1. r = [[j EXCEPT !.filesCounter = j.filesCounter + 1, !.file = NoFile] EXCEPT !.failed = TRUE]
  BY DEF StartNewFile
<1>2. j.filesCounter + 1 \in Nat
  BY DEF Writers
<1> QED
  BY <1>1, <1>2 DEF Writers

\* The buffer written to the open file.
Flushed(j) ==
  [j EXCEPT !.writtenBytes = @ + Len(j.buffer),
            !.buffer = <<>>,
            !.files = WithBuffer(j)]

\* FlushBufferSync does that and may start the next file.
LEMMA FlushIs ==
  ASSUME NEW j, NEW force
  PROVE  FlushBufferSync(j, force) =
           IF force \/ Flushed(j).writtenBytes >= JournalFileMaxSize
           THEN [StartNewFile(Flushed(j)) EXCEPT !.writtenBytes = 0] ELSE Flushed(j)
BY DEF FlushBufferSync, Flushed

\* r is j with its buffer in its file.
Written(j, r) ==
  /\ r \in Writers
  /\ r.buffer = <<>>
  /\ r.baseSnapshotId = j.baseSnapshotId
  /\ r.baseSeq = j.baseSeq
  /\ r.enableJournalAfterSeq = j.enableJournalAfterSeq
  /\ r.filesCounter = j.filesCounter
  /\ r.failed = j.failed
  /\ r.file = j.file
  /\ r.files[j.file] = j.files[j.file] \o j.buffer
  /\ OnlyFile(j.files, r.files, j.file)

\* Flushed writes the buffer.
LEMMA FlushWrites ==
  ASSUME NEW j \in Writers, j.file \in DOMAIN j.files
  PROVE  Written(j, Flushed(j))
<1>1. j.files \in FileSets /\ j.buffer \in Seq(Records) /\ j.writtenBytes \in Nat
  BY DEF Writers
<1>2. /\ DOMAIN j.files \in SUBSET FileNames
      /\ \A f \in DOMAIN j.files : j.files[f] \in Seq(Records)
      /\ j.files = [f \in DOMAIN j.files |-> j.files[f]]
  BY <1>1, FilesAreFiles DEF IsFiles
<1>3. j.file # NoFile
  <2>1. j.file \in FileNames
    BY <1>2
  <2>2. PICK a, b : j.file = <<a, b>>
    BY <2>1 DEF FileNames
  <2> QED
    BY <2>2 DEF NoFile
<1>4. PICK longer \in Seq(Records) : longer = j.files[j.file] \o j.buffer
  BY <1>1, <1>2, ConcatProperties
<1>5. PICK more : more = [j.files EXCEPT ![j.file] = longer]
  OBVIOUS
<1>6. /\ DOMAIN more = DOMAIN j.files /\ more[j.file] = longer
      /\ \A f \in DOMAIN j.files : f # j.file => more[f] = j.files[f]
  BY <1>5
<1>7. more \in [DOMAIN j.files -> Seq(Records)]
  BY <1>2, <1>5
<1>8. more \in FileSets
  BY <1>2, <1>7 DEF FileSets
<1>9. OnlyFile(j.files, more, j.file)
  BY <1>6 DEF OnlyFile
<1>10. PICK none : none = <<>> /\ none \in Seq(Records)
  BY EmptySeq
<1>11. PICK n \in Nat : n = j.writtenBytes + Len(j.buffer)
  BY <1>1, LenProperties
<1>12. Flushed(j) = [j EXCEPT !.writtenBytes = n, !.buffer = none, !.files = more]
  <2>1. more = WithBuffer(j)
    BY <1>3, <1>4, <1>5 DEF WithBuffer
  <2> QED
    BY <1>10, <1>11, <2>1 DEF Flushed
<1>13. PICK r : r = [j EXCEPT !.writtenBytes = n, !.buffer = none, !.files = more]
  OBVIOUS
<1>14. /\ r \in Writers /\ r.buffer = none /\ r.baseSnapshotId = j.baseSnapshotId
       /\ r.baseSeq = j.baseSeq /\ r.enableJournalAfterSeq = j.enableJournalAfterSeq
       /\ r.filesCounter = j.filesCounter /\ r.failed = j.failed /\ r.file = j.file
       /\ r.files = more
  BY <1>8, <1>10, <1>13 DEF Writers
<1> QED
  BY <1>4, <1>6, <1>9, <1>10, <1>12, <1>13, <1>14 DEF Written

-----------------------------------------------------------------------------
(***************************************************************************)
(* The ring.                                                               *)
(***************************************************************************)
IsMatching(c) == c.command = "PERSIST_STATE_MATCHING"

IsRisk(c) == c.command = "PERSIST_STATE_RISK"

\* A series of files starts with a run, at position 0, or with a snapshot, at the
\* position of its PERSIST_STATE_RISK.
Bases == {0} \cup {p \in 1 .. Len(ring) : IsRisk(ring[p])}

\* Its identity; S is that of the snapshot the run started from.
Id(S, p) == IF p = 0 THEN S ELSE ring[p].orderId

\* Both commands of a snapshot are there, one after the other; identities
\* increase and have been given.
RingOK(S) ==
  /\ ring \in Seq(Commands)
  /\ S \in 0 .. MaxRequests
  /\ 1 <= Len(ring) /\ ring[1].command = "GROUPING_CONTROL"
  /\ \A i \in 1 .. Len(ring) :
       IsMatching(ring[i]) =>
         /\ i + 1 <= Len(ring) /\ IsRisk(ring[i + 1])
         /\ ring[i].orderId = ring[i + 1].orderId
  /\ \A i \in 1 .. Len(ring) : IsRisk(ring[i]) => 1 < i /\ IsMatching(ring[i - 1])
  /\ \A p, r \in Bases : p < r => Id(S, p) < Id(S, r)
  /\ \A p \in Bases : Id(S, p) <= requests

\* Bases are positions, their identities numbers.
LEMMA BasesAre ==
  ASSUME NEW S, RingOK(S), NEW p \in Bases
  PROVE  p \in 0 .. Len(ring) /\ p \in Nat /\ Id(S, p) \in 0 .. MaxRequests
<1>1. Len(ring) \in Nat
  BY LenProperties DEF RingOK
<1>2. CASE p = 0
  BY <1>1, <1>2 DEF Id, RingOK
<1>3. CASE p # 0
  <2>1. p \in 1 .. Len(ring)
    BY <1>3 DEF Bases
  <2>2. ring[p] \in Commands
    BY <2>1, ElementOfSeq DEF RingOK
  <2> QED
    BY <1>1, <1>3, <2>1, <2>2 DEF Id, Commands
<1> QED
  BY <1>2, <1>3

-----------------------------------------------------------------------------
(***************************************************************************)
(* A processor that writes.                                                *)
(***************************************************************************)

\* The last PERSIST of a series is that of the snapshot that ends it, so while it
\* goes on only its last record can be one: that of the matching engine, in the
\* file or in the buffer, which is also the last command handled.
MatchingAt(q) == q \in 1 .. Len(ring) /\ IsMatching(ring[q])

Unclosed(file, buffer, q) ==
  /\ HasPersist(file) => buffer = <<>> /\ MatchingAt(q)
  /\ OnlyLastPersists(buffer)
  /\ HasPersist(buffer) => MatchingAt(q)

\* The newest series with a base up to q is that of p.
NewestBase(p, q) == p \in Bases /\ p <= q /\ \A r \in Bases : r <= q => r <= p

\* The files of j, which is in the last file of the series of p.
InSeries(j, S, p) ==
  /\ j.baseSnapshotId = Id(S, p)
  /\ j.filesCounter \in Nat \ {0}
  /\ j.file = <<Id(S, p), j.filesCounter>>
  /\ \A f \in DOMAIN j.files : f[1] <= Id(S, p)

\* What is read of the series, followed by the buffer, are the commands up to q.
WroteTo(j, S, p, q) ==
  \E records :
    /\ Reads(records, j.files, Id(S, p), j.filesCounter)
    /\ ChainTo(records \o j.buffer, p, j.baseSeq, ring, q)

\* j has handled q commands and is in the series of p.
Follows(j, S, p, q) ==
  /\ NewestBase(p, q)
  /\ InSeries(j, S, p)
  /\ WroteTo(j, S, p, q)
  /\ Unclosed(j.files[j.file], j.buffer, q)

\* Nothing changes but in the series of T, where nothing is lost.
Grown(files, others, T) ==
  /\ DOMAIN files \subseteq DOMAIN others
  /\ \A U : U # T => SameSeries(files, others, U)

\* Growing twice.
LEMMA GrownTwice ==
  ASSUME NEW files, NEW others, NEW more, NEW T, Grown(files, others, T), Grown(others, more, T)
  PROVE  Grown(files, more, T)
<1>1. DOMAIN files \subseteq DOMAIN more
  BY DEF Grown
<1>2. ASSUME NEW U, U # T PROVE SameSeries(files, more, U)
  BY <1>2 DEF Grown, SameSeries
<1> QED
  BY <1>1, <1>2 DEF Grown

\* A file of T changes only its series.
LEMMA FileGrows ==
  ASSUME NEW files, NEW others, NEW T, NEW k, OnlyFile(files, others, <<T, k>>)
  PROVE  Grown(files, others, T)
<1>1. DOMAIN files \subseteq DOMAIN others
  BY DEF OnlyFile
<1>2. ASSUME NEW U, U # T PROVE SameSeries(files, others, U)
  <2> SUFFICES ASSUME NEW i \in Nat \ {0}
               PROVE  /\ <<U, i>> \in DOMAIN files <=> <<U, i>> \in DOMAIN others
                      /\ <<U, i>> \in DOMAIN files => others[<<U, i>>] = files[<<U, i>>]
    BY DEF SameSeries
  <2>1. <<U, i>> # <<T, k>>
    BY <1>2
  <2> QED
    BY <2>1 DEF OnlyFile
<1> QED
  BY <1>1, <1>2 DEF Grown

\* The series a processor is in, its file and what it has read there.
LEMMA SeriesOf ==
  ASSUME NEW S, RingOK(S), NEW j \in Writers, NEW p \in Bases, InSeries(j, S, p),
         NEW records, Reads(records, j.files, Id(S, p), j.filesCounter)
  PROVE  /\ IsFiles(j.files)
         /\ j.filesCounter \in Nat /\ j.baseSeq \in Nat
         /\ HasFiles(j.files, Id(S, p), j.filesCounter)
         /\ j.file \in DOMAIN j.files
         /\ j.files[j.file] \in Seq(Records)
         /\ j.buffer \in Seq(Records)
         /\ records \in Seq(Records)
<1>1. j.files \in FileSets /\ j.buffer \in Seq(Records) /\ j.baseSeq \in Nat
  BY DEF Writers
<1>2. IsFiles(j.files)
  BY <1>1, FilesAreFiles
<1>3. j.filesCounter \in Nat /\ j.filesCounter \in 1 .. j.filesCounter /\ j.file = <<Id(S, p), j.filesCounter>>
  BY DEF InSeries
<1>4. HasFiles(j.files, Id(S, p), j.filesCounter)
  BY DEF Reads
<1>5. records \in Seq(Records)
  BY <1>3, ReadType
<1>6. j.file \in DOMAIN j.files /\ j.files[j.file] \in Seq(Records)
  BY <1>2, <1>3, <1>4, FileOfSeries
<1> QED
  BY <1>1, <1>2, <1>3, <1>4, <1>5, <1>6

\* A file with more records has a PERSIST where it had one, or in what is new.
LEMMA PersistsOfConcat ==
  ASSUME NEW a \in Seq(Records), NEW b \in Seq(Records), HasPersist(a \o b)
  PROVE  HasPersist(a) \/ HasPersist(b)
<1>1. PICK c : c = a \o b
  OBVIOUS
<1>2. IsConcat(c, a, b)
  BY <1>1 DEF IsConcat
<1>3. \A i \in 1 .. Len(c) : Has(a, c[i]) \/ Has(b, c[i])
  BY <1>2, ConcatElements
<1>4. PICK i \in 1 .. Len(c) : IsPersist(c[i].command)
  BY <1>1 DEF HasPersist
<1> QED
  BY <1>3, <1>4 DEF Has, HasPersist

\* Writing the buffer, the processor follows as before.
LEMMA WrittenFollows ==
  ASSUME NEW S, RingOK(S), NEW j \in Writers, NEW p, NEW q, Follows(j, S, p, q),
         NEW r, Written(j, r)
  PROVE  /\ Follows(r, S, p, q)
         /\ Grown(j.files, r.files, Id(S, p))
<1>1. NewestBase(p, q) /\ InSeries(j, S, p) /\ p \in Bases
  BY DEF Follows, NewestBase
<1>2. PICK records : /\ Reads(records, j.files, Id(S, p), j.filesCounter)
                     /\ ChainTo(records \o j.buffer, p, j.baseSeq, ring, q)
  BY DEF Follows, WroteTo
<1> DEFINE T == Id(S, p)
           k == j.filesCounter
           F == j.files[j.file]
<1>3. /\ IsFiles(j.files) /\ k \in Nat /\ HasFiles(j.files, T, k)
      /\ j.file \in DOMAIN j.files /\ F \in Seq(Records)
      /\ j.buffer \in Seq(Records) /\ records \in Seq(Records)
  BY <1>1, <1>2, SeriesOf
<1>4. k \in Nat \ {0} /\ j.file = <<T, k>>
  BY <1>1 DEF InSeries
<1>5. /\ r \in Writers /\ r.buffer = <<>> /\ r.baseSnapshotId = j.baseSnapshotId
      /\ r.baseSeq = j.baseSeq /\ r.filesCounter = k /\ r.file = j.file
      /\ r.files[j.file] = F \o j.buffer
      /\ OnlyFile(j.files, r.files, j.file)
  BY DEF Written
<1>6. IsFiles(r.files)
  <2>1. r.files \in FileSets
    BY <1>5 DEF Writers
  <2> QED
    BY <2>1, FilesAreFiles
<1>7. Unclosed(F, j.buffer, q)
  BY DEF Follows
<1>8. PICK more \in Seq(Records) : more = j.buffer
  BY <1>3
<1>9. /\ HasPersist(F) => Reads(records, r.files, T, k)
      /\ ~HasPersist(F) => Reads(records \o ReadRecords(more), r.files, T, k)
  <2>1. OnlyFile(j.files, r.files, <<T, k>>) /\ r.files[<<T, k>>] = j.files[<<T, k>>] \o more
    BY <1>4, <1>5, <1>8
  <2>2. Reads(records, j.files, T, k)
    BY <1>2
  <2>3. F = j.files[<<T, k>>]
    BY <1>4
  <2> HIDE DEF T, k, F
  <2> QED
    BY <1>3, <1>4, <1>6, <2>1, <2>2, <2>3, ReadLonger
<1>10. ReadRecords(more) = more
  BY <1>7, <1>8, ReadWhole DEF Unclosed
<1>11. Reads(records \o more, r.files, T, k)
  <2>1. CASE HasPersist(F)
    <3>1. more = <<>>
      BY <1>7, <1>8, <2>1 DEF Unclosed
    <3>2. records \o more = records
      BY <1>3, <3>1, ConcatEmptySeq
    <3> QED
      BY <1>9, <2>1, <3>2
  <2>2. CASE ~HasPersist(F)
    BY <1>9, <1>10, <2>2
  <2> QED
    BY <2>1, <2>2
<1>12. (records \o more) \o <<>> = records \o more
  BY <1>3, ConcatProperties, ConcatEmptySeq
<1>13. WroteTo(r, S, p, q)
  BY <1>2, <1>5, <1>8, <1>11, <1>12 DEF WroteTo
<1>14. InSeries(r, S, p)
  <2>1. DOMAIN r.files = DOMAIN j.files
    BY <1>3, <1>5 DEF OnlyFile
  <2> QED
    BY <1>1, <1>5, <2>1 DEF InSeries
<1>15. Unclosed(r.files[r.file], r.buffer, q)
  <2>1. r.files[r.file] = F \o more
    BY <1>5, <1>8
  <2>2. HasPersist(F \o more) => HasPersist(F) \/ HasPersist(more)
    BY <1>3, PersistsOfConcat
  <2>3. HasPersist(r.files[r.file]) => MatchingAt(q)
    BY <1>7, <1>8, <2>1, <2>2 DEF Unclosed
  <2>4. OnlyLastPersists(<<>>) /\ ~HasPersist(<<>>)
    BY DEF OnlyLastPersists, HasPersist
  <2> QED
    BY <1>5, <2>3, <2>4 DEF Unclosed
<1>16. Grown(j.files, r.files, T)
  BY <1>4, <1>5, FileGrows
<1> QED
  BY <1>1, <1>13, <1>14, <1>15, <1>16 DEF Follows

\* So it does with the next file of the series.
LEMMA OpenedFollows ==
  ASSUME NEW S, RingOK(S), NEW j \in Writers, NEW p, NEW q, Follows(j, S, p, q),
         NEW r, Opened(j, r)
  PROVE  /\ Follows(r, S, p, q)
         /\ Grown(j.files, r.files, Id(S, p))
<1>1. NewestBase(p, q) /\ InSeries(j, S, p) /\ p \in Bases
  BY DEF Follows, NewestBase
<1>2. PICK records : /\ Reads(records, j.files, Id(S, p), j.filesCounter)
                     /\ ChainTo(records \o j.buffer, p, j.baseSeq, ring, q)
  BY DEF Follows, WroteTo
<1> DEFINE T == Id(S, p)
           k == j.filesCounter
<1>3. k \in Nat /\ j.baseSnapshotId = T
  BY <1>1 DEF InSeries
<1>4. /\ r \in Writers /\ r.buffer = j.buffer /\ r.baseSnapshotId = j.baseSnapshotId
      /\ r.baseSeq = j.baseSeq /\ r.filesCounter = k + 1 /\ r.file = <<T, k + 1>>
      /\ r.files[<<T, k + 1>>] = <<>>
      /\ OnlyFile(j.files, r.files, <<T, k + 1>>)
  BY <1>3 DEF Opened
<1>5. IsFiles(r.files)
  <2>1. r.files \in FileSets
    BY <1>4 DEF Writers
  <2> QED
    BY <2>1, FilesAreFiles
<1>6. Reads(records, r.files, T, k + 1)
  <2>1. Reads(records, j.files, T, k)
    BY <1>2
  <2> HIDE DEF T, k
  <2> QED
    BY <1>3, <1>4, <1>5, <2>1, ReadNextFile
<1>7. WroteTo(r, S, p, q)
  BY <1>2, <1>4, <1>6 DEF WroteTo
<1>8. InSeries(r, S, p)
  <2>1. k + 1 \in Nat \ {0}
    BY <1>3
  <2>2. ASSUME NEW f \in DOMAIN r.files PROVE f[1] <= T
    <3>1. CASE f \in DOMAIN j.files
      BY <1>1, <3>1 DEF InSeries
    <3>2. CASE f \notin DOMAIN j.files
      <4>1. f = <<T, k + 1>>
        BY <1>4, <3>2 DEF OnlyFile
      <4>2. T \in Int
        BY <1>1, BasesAre
      <4> QED
        BY <4>1, <4>2
    <3> QED
      BY <3>1, <3>2
  <2> QED
    BY <1>3, <1>4, <2>1, <2>2 DEF InSeries
<1>9. Unclosed(r.files[r.file], r.buffer, q)
  <2>1. ~HasPersist(<<>>)
    BY DEF HasPersist
  <2>2. r.files[r.file] = <<>>
    BY <1>4
  <2>3. OnlyLastPersists(j.buffer) /\ (HasPersist(j.buffer) => MatchingAt(q))
    BY DEF Follows, Unclosed
  <2> QED
    BY <1>4, <2>1, <2>2, <2>3 DEF Unclosed
<1>10. Grown(j.files, r.files, T)
  BY <1>4, FileGrows
<1> QED
  BY <1>1, <1>7, <1>8, <1>9, <1>10 DEF Follows

\* What the operations of the processor keep of it.
Survives(j, r) ==
  /\ r \in Writers
  /\ r.failed = j.failed
  /\ r.baseSeq = j.baseSeq
  /\ r.enableJournalAfterSeq = j.enableJournalAfterSeq

\* The bytes written to the file do not matter.
LEMMA BytesForgotten ==
  ASSUME NEW S, NEW j \in Writers, NEW p, NEW q, Follows(j, S, p, q),
         NEW r, r = [j EXCEPT !.writtenBytes = 0]
  PROVE  Follows(r, S, p, q) /\ Survives(j, r) /\ r.files = j.files /\ r.buffer = j.buffer
<1>1. /\ r \in Writers /\ r.buffer = j.buffer /\ r.baseSnapshotId = j.baseSnapshotId
      /\ r.baseSeq = j.baseSeq /\ r.filesCounter = j.filesCounter /\ r.file = j.file
      /\ r.files = j.files /\ r.failed = j.failed
      /\ r.enableJournalAfterSeq = j.enableJournalAfterSeq
  BY DEF Writers
<1>2. InSeries(r, S, p)
  BY <1>1 DEF Follows, InSeries
<1>3. WroteTo(r, S, p, q)
  BY <1>1 DEF Follows, WroteTo
<1>4. NewestBase(p, q) /\ Unclosed(r.files[r.file], r.buffer, q)
  BY <1>1 DEF Follows
<1> QED
  BY <1>1, <1>2, <1>3, <1>4 DEF Follows, Survives

\* The next file of a series does not exist.
LEMMA NextFileFree ==
  ASSUME NEW S, RingOK(S), NEW j \in Writers, NEW p, NEW q, Follows(j, S, p, q)
  PROVE  <<j.baseSnapshotId, j.filesCounter + 1>> \notin DOMAIN j.files
<1>1. PICK records : Reads(records, j.files, Id(S, p), j.filesCounter)
  BY DEF Follows, WroteTo
<1>2. j.filesCounter \in Nat /\ j.baseSnapshotId = Id(S, p)
  BY DEF Follows, InSeries
<1>3. HasFiles(j.files, Id(S, p), j.filesCounter)
  BY <1>1 DEF Reads
<1>4. j.filesCounter + 1 \in Nat \ {0} /\ ~(j.filesCounter + 1 <= j.filesCounter)
  BY <1>2
<1> QED
  BY <1>2, <1>3, <1>4 DEF HasFiles

\* The open file exists.
LEMMA OpenFile ==
  ASSUME NEW S, RingOK(S), NEW j \in Writers, NEW p, NEW q, Follows(j, S, p, q)
  PROVE  j.file \in DOMAIN j.files /\ j.file \in FileNames /\ j.files[j.file] \in Seq(Records)
<1>1. PICK records : Reads(records, j.files, Id(S, p), j.filesCounter)
  BY DEF Follows, WroteTo
<1>2. p \in Bases /\ InSeries(j, S, p)
  BY DEF Follows, NewestBase
<1>3. /\ IsFiles(j.files)
      /\ j.file \in DOMAIN j.files
      /\ j.files[j.file] \in Seq(Records)
  BY <1>1, <1>2, SeriesOf
<1> QED
  BY <1>3 DEF IsFiles

\* x is added to the open file, and files may be new.
Appends(j, r, x) ==
  /\ r.files[j.file] = j.files[j.file] \o x
  /\ DOMAIN j.files \subseteq DOMAIN r.files
  /\ \A f \in DOMAIN j.files : f # j.file => r.files[f] = j.files[f]

\* What a flush does: the buffer is at the end of the file, and the processor
\* follows as before.
LEMMA FlushFollows ==
  ASSUME NEW S, RingOK(S), NEW j \in Writers, NEW p, NEW q, Follows(j, S, p, q),
         NEW force, NEW r, r = FlushBufferSync(j, force)
  PROVE  /\ Follows(r, S, p, q) /\ Survives(j, r)
         /\ Grown(j.files, r.files, Id(S, p))
         /\ r.buffer = <<>>
         /\ Appends(j, r, j.buffer)
<1>1. j.file \in DOMAIN j.files
  BY OpenFile
<1>2. PICK f : f = Flushed(j)
  OBVIOUS
<1>3. Written(j, f)
  BY <1>1, <1>2, FlushWrites
<1>4. f \in Writers /\ f.buffer = <<>> /\ Appends(j, f, j.buffer)
      /\ Survives(j, f) /\ DOMAIN f.files = DOMAIN j.files
  BY <1>1, <1>3 DEF Written, Survives, OnlyFile, Appends
<1>5. Follows(f, S, p, q) /\ Grown(j.files, f.files, Id(S, p))
  BY <1>3, WrittenFollows
<1>6. r = f \/ r = [StartNewFile(f) EXCEPT !.writtenBytes = 0]
  BY <1>2, FlushIs
<1>7. CASE r = f
  BY <1>4, <1>5, <1>7
<1>8. CASE r = [StartNewFile(f) EXCEPT !.writtenBytes = 0]
  <2>1. PICK g : g = StartNewFile(f)
    OBVIOUS
  <2>2. <<f.baseSnapshotId, f.filesCounter + 1>> \notin DOMAIN f.files
    BY <1>4, <1>5, NextFileFree
  <2>3. Opened(f, g)
    BY <1>4, <2>1, <2>2, StartOpens
  <2>4. Follows(g, S, p, q) /\ Grown(f.files, g.files, Id(S, p))
    BY <1>4, <1>5, <2>3, OpenedFollows
  <2>5. g \in Writers /\ g.buffer = <<>> /\ Survives(f, g)
    BY <1>4, <2>3 DEF Opened, Survives
  <2>6. \A x \in DOMAIN j.files : x # <<f.baseSnapshotId, f.filesCounter + 1>>
    BY <1>4, <2>2
  <2>7. DOMAIN f.files \subseteq DOMAIN g.files
        /\ \A x \in DOMAIN j.files : g.files[x] = f.files[x]
    BY <1>4, <2>3, <2>6 DEF Opened, OnlyFile
  <2>8. Follows(r, S, p, q) /\ Survives(g, r) /\ r.files = g.files /\ r.buffer = g.buffer
    BY <1>8, <2>1, <2>4, <2>5, BytesForgotten
  <2>9. Grown(j.files, r.files, Id(S, p))
    BY <1>5, <2>4, <2>8, GrownTwice
  <2>10. Survives(j, r)
    BY <1>4, <2>5, <2>8 DEF Survives
  <2>11. Appends(j, r, j.buffer)
    BY <1>1, <1>4, <2>7, <2>8 DEF Appends
  <2> QED
    BY <2>5, <2>8, <2>9, <2>10, <2>11
<1> QED
  BY <1>6, <1>7, <1>8

\* A series is complete up to q but for commands that change nothing.
Covers(records, p, B, q) ==
  /\ Chain(records, p, B, ring)
  /\ LastAt(records, p, B) \in p .. q
  /\ \A n \in LastAt(records, p, B) + 1 .. q : Idle(ring[n])

\* A chain to q covers everything up to q.
LEMMA ChainCovers ==
  ASSUME NEW L, NEW p, NEW B, NEW q \in Nat, ChainTo(L, p, B, ring, q)
  PROVE  Covers(L, p, B, q)
<1>1. LastAt(L, p, B) + 1 .. q = LastAt(L, p, B) + 1 .. (q + 1) - 1
  OBVIOUS
<1> QED
  BY <1>1 DEF ChainTo, Covers, Quiet, Idle

\* A command that changes nothing, and is no record.
LEMMA IdleFollows ==
  ASSUME NEW S, RingOK(S), NEW j \in Writers, NEW p, NEW q \in Nat, Follows(j, S, p, q),
         q + 1 <= Len(ring), ~IsMutate(ring[q + 1])
  PROVE  Follows(j, S, p, q + 1)
<1>1. q + 1 \in Nat /\ p \in Nat /\ p \in Bases
  BY BasesAre DEF Follows, NewestBase
<1>2. ~IsRisk(ring[q + 1])
  BY DEF IsRisk, IsMutate, IsPersist
<1>3. ~MatchingAt(q)
  BY <1>2 DEF RingOK, MatchingAt
<1>4. Unclosed(j.files[j.file], j.buffer, q + 1)
  BY <1>3 DEF Follows, Unclosed
<1>5. NewestBase(p, q + 1)
  <2>1. q + 1 \notin Bases
    BY <1>2 DEF Bases
  <2>2. ASSUME NEW r \in Bases, r <= q + 1 PROVE r <= p
    <3>1. r \in Nat
      BY BasesAre
    <3>2. r <= q
      BY <2>1, <2>2, <3>1
    <3> QED
      BY <3>2 DEF Follows, NewestBase
  <2> QED
    BY <1>1, <2>2 DEF Follows, NewestBase
<1>6. WroteTo(j, S, p, q + 1)
  <2>1. PICK records : /\ Reads(records, j.files, Id(S, p), j.filesCounter)
                       /\ ChainTo(records \o j.buffer, p, j.baseSeq, ring, q)
    BY DEF Follows, WroteTo
  <2>2. PICK L : L = records \o j.buffer
    OBVIOUS
  <2>3. ChainTo(L, p, j.baseSeq, ring, q)
    BY <2>1, <2>2
  <2>4. ChainTo(L, p, j.baseSeq, ring, q + 1)
    BY <1>1, <2>3, ChainIdle
  <2> QED
    BY <2>1, <2>2, <2>4 DEF WroteTo
<1> QED
  BY <1>4, <1>5, <1>6 DEF Follows

\* The record of a command.
RecordOf(j, q) == [seq |-> j.baseSeq + q, command |-> ring[q + 1]]

\* r is j with the record of the command at q + 1 in its buffer.
Recorded(j, r, q) ==
  /\ r \in Writers
  /\ r.buffer = Append(j.buffer, RecordOf(j, q))
  /\ r.baseSnapshotId = j.baseSnapshotId
  /\ r.baseSeq = j.baseSeq
  /\ r.enableJournalAfterSeq = j.enableJournalAfterSeq
  /\ r.filesCounter = j.filesCounter
  /\ r.writtenBytes = j.writtenBytes
  /\ r.failed = j.failed
  /\ r.file = j.file
  /\ r.files = j.files

\* A record is one.
LEMMA RecordIsRecord ==
  ASSUME NEW S, RingOK(S), NEW j \in Writers, NEW q \in Nat, q + 1 <= Len(ring),
         IsMutate(ring[q + 1])
  PROVE  RecordOf(j, q) \in Records
<1>1. q + 1 \in 1 .. Len(ring)
  BY LenProperties DEF RingOK
<1>2. ring[q + 1] \in Commands
  BY <1>1, ElementOfSeq DEF RingOK
<1>3. j.baseSeq + q \in Nat
  BY DEF Writers
<1> QED
  BY <1>2, <1>3 DEF RecordOf, Records

\* Recording.
LEMMA RecordIsWritten ==
  ASSUME NEW S, RingOK(S), NEW j \in Writers, NEW q \in Nat, q + 1 <= Len(ring),
         IsMutate(ring[q + 1]),
         NEW r, r = [j EXCEPT !.buffer = Append(j.buffer, RecordOf(j, q))]
  PROVE  Recorded(j, r, q)
<1>1. RecordOf(j, q) \in Records
  BY RecordIsRecord
<1>2. j.buffer \in Seq(Records)
  BY DEF Writers
<1>3. PICK b \in Seq(Records) : b = Append(j.buffer, RecordOf(j, q))
  BY <1>1, <1>2, AppendElements
<1>4. r = [j EXCEPT !.buffer = b]
  BY <1>3
<1> QED
  BY <1>3, <1>4 DEF Recorded, Writers

\* Elements of a sequence with one more.
LEMMA PersistsOfAppend ==
  ASSUME NEW s \in Seq(Records), NEW x \in Records, ~HasPersist(s)
  PROVE  /\ OnlyLastPersists(Append(s, x))
         /\ HasPersist(Append(s, x)) => IsPersist(x.command)
<1>1. PICK t : t = Append(s, x)
  OBVIOUS
<1>2. /\ Len(t) = Len(s) + 1 /\ Len(s) \in Nat
      /\ \A i \in 1 .. Len(s) : t[i] = s[i]
      /\ t[Len(s) + 1] = x
  BY <1>1, AppendElements, LenProperties
<1>3. \A i \in 1 .. Len(s) : ~IsPersist(s[i].command)
  BY DEF HasPersist
<1>4. ASSUME NEW i \in 1 .. Len(t), IsPersist(t[i].command) PROVE i = Len(t)
  BY <1>2, <1>3, <1>4
<1>5. OnlyLastPersists(t)
  BY <1>4 DEF OnlyLastPersists
<1>6. ASSUME HasPersist(t) PROVE IsPersist(x.command)
  <2>1. PICK i \in 1 .. Len(t) : IsPersist(t[i].command)
    BY <1>6 DEF HasPersist
  <2>2. i = Len(t)
    BY <1>4, <2>1
  <2> QED
    BY <1>2, <2>1, <2>2
<1> QED
  BY <1>1, <1>5, <1>6

\* A record more at the end of what was read and of the buffer.
LEMMA RecordChains ==
  ASSUME NEW S, RingOK(S), NEW j \in Writers, NEW p \in Nat, NEW q \in Nat, q + 1 <= Len(ring),
         IsMutate(ring[q + 1]), NEW records \in Seq(Records),
         ChainTo(records \o j.buffer, p, j.baseSeq, ring, q)
  PROVE  ChainTo(records \o Append(j.buffer, RecordOf(j, q)), p, j.baseSeq, ring, q + 1)
<1>1. PICK x \in Records : x = RecordOf(j, q)
  BY RecordIsRecord
<1>2. x.seq = j.baseSeq + q /\ x.command = ring[q + 1]
  BY <1>1 DEF RecordOf
<1>3. PICK b \in Seq(Records) : b = j.buffer
  BY DEF Writers
<1>4. PICK L \in Seq(Records) : L = records \o b
  BY ConcatProperties
<1>5. records \o Append(b, x) = Append(L, x)
  <2>1. <<x>> \in Seq(Records)
    OBVIOUS
  <2>2. Append(b, x) = b \o <<x>> /\ Append(L, x) = L \o <<x>>
    BY AppendIsConcat
  <2>3. records \o (b \o <<x>>) = (records \o b) \o <<x>>
    BY <2>1, ConcatAssociative
  <2> QED
    BY <1>4, <2>2, <2>3
<1>6. ring \in Seq(Commands) /\ j.baseSeq \in Nat
  BY DEF RingOK, Writers
<1>7. ChainTo(L, p, j.baseSeq, ring, q)
  BY <1>3, <1>4
<1>8. PICK M : M = Append(L, x)
  OBVIOUS
<1>9. ChainTo(M, p, j.baseSeq, ring, q + 1)
  BY <1>2, <1>6, <1>7, <1>8, ChainAppend
<1> QED
  BY <1>1, <1>3, <1>5, <1>8, <1>9

\* The newest series stays that at a command that starts none.
LEMMA BaseStays ==
  ASSUME NEW S, RingOK(S), NEW p, NEW q \in Nat, NewestBase(p, q), q + 1 <= Len(ring),
         ~IsRisk(ring[q + 1])
  PROVE  NewestBase(p, q + 1) /\ ~MatchingAt(q)
<1>1. ~MatchingAt(q)
  BY DEF RingOK, MatchingAt
<1>2. q + 1 \notin Bases
  BY DEF Bases
<1>3. ASSUME NEW r \in Bases, r <= q + 1 PROVE r <= p
  <2>1. r \in Nat
    BY BasesAre
  <2>2. r <= q
    BY <1>2, <1>3, <2>1
  <2> QED
    BY <2>2 DEF NewestBase
<1>4. p \in Nat
  BY BasesAre DEF NewestBase
<1> QED
  BY <1>1, <1>3, <1>4 DEF NewestBase

\* A command that is put in the buffer and ends no series.
LEMMA RecordFollows ==
  ASSUME NEW S, RingOK(S), NEW j \in Writers, NEW p, NEW q \in Nat, Follows(j, S, p, q),
         q + 1 <= Len(ring), IsMutate(ring[q + 1]), ~IsRisk(ring[q + 1]),
         NEW r, Recorded(j, r, q)
  PROVE  Follows(r, S, p, q + 1)
<1>1. NewestBase(p, q + 1) /\ ~MatchingAt(q) /\ p \in Nat /\ p \in Bases
  BY BaseStays, BasesAre DEF Follows, NewestBase
<1>2. PICK records : /\ Reads(records, j.files, Id(S, p), j.filesCounter)
                     /\ ChainTo(records \o j.buffer, p, j.baseSeq, ring, q)
  BY DEF Follows, WroteTo
<1>3. InSeries(j, S, p)
  BY DEF Follows
<1>4. records \in Seq(Records)
  BY <1>1, <1>2, <1>3, SeriesOf
<1>5. ChainTo(records \o Append(j.buffer, RecordOf(j, q)), p, j.baseSeq, ring, q + 1)
  BY <1>1, <1>2, <1>4, RecordChains
<1>6. WroteTo(r, S, p, q + 1)
  BY <1>2, <1>5 DEF WroteTo, Recorded
<1>7. InSeries(r, S, p)
  BY <1>3 DEF InSeries, Recorded
<1>8. Unclosed(r.files[r.file], r.buffer, q + 1)
  <2>1. ~HasPersist(j.files[j.file]) /\ ~HasPersist(j.buffer)
    BY <1>1 DEF Follows, Unclosed
  <2>2. j.buffer \in Seq(Records) /\ RecordOf(j, q) \in Records
    BY RecordIsRecord DEF Writers
  <2>3. /\ OnlyLastPersists(Append(j.buffer, RecordOf(j, q)))
        /\ HasPersist(Append(j.buffer, RecordOf(j, q))) => IsPersist(RecordOf(j, q).command)
    BY <2>1, <2>2, PersistsOfAppend
  <2>4. IsPersist(RecordOf(j, q).command) => MatchingAt(q + 1)
    <3>1. q + 1 \in 1 .. Len(ring)
      BY LenProperties DEF RingOK
    <3> QED
      BY <3>1 DEF RecordOf, IsPersist, IsRisk, IsMatching, MatchingAt
  <2> QED
    BY <2>1, <2>3, <2>4 DEF Unclosed, Recorded
<1> QED
  BY <1>1, <1>6, <1>7, <1>8 DEF Follows

\* The identity of the next snapshot is new.
LEMMA NextIdentity ==
  ASSUME NEW S, RingOK(S), NEW p, NEW q \in Nat, NewestBase(p, q),
         q + 1 <= Len(ring), IsRisk(ring[q + 1])
  PROVE  /\ q + 1 \in Bases /\ NewestBase(q + 1, q + 1)
         /\ Id(S, q + 1) = ring[q + 1].orderId
         /\ Id(S, p) < Id(S, q + 1) /\ Id(S, q + 1) \in 0 .. MaxRequests
<1>1. q + 1 \in 1 .. Len(ring) /\ q + 1 # 0
  BY LenProperties DEF RingOK
<1>2. q + 1 \in Bases
  BY <1>1 DEF Bases
<1>3. p \in Bases /\ p \in Nat /\ p < q + 1
  BY BasesAre DEF NewestBase
<1>4. Id(S, q + 1) \in 0 .. MaxRequests
  BY <1>2, BasesAre
<1>5. Id(S, p) < Id(S, q + 1)
  BY <1>2, <1>3 DEF RingOK
<1> QED
  BY <1>1, <1>2, <1>4, <1>5 DEF NewestBase, Id

\* What is read of the series when it ends with a PERSIST is all it has.
LEMMA ClosingRead ==
  ASSUME NEW S, RingOK(S), NEW j \in Writers, NEW p, NEW q \in Nat, Follows(j, S, p, q),
         q + 1 <= Len(ring), IsRisk(ring[q + 1]),
         NEW w, Recorded(j, w, q), NEW f, Written(w, f)
  PROVE  \E records :
           /\ Reads(records, f.files, Id(S, p), j.filesCounter)
           /\ Covers(records, p, j.baseSeq, q + 1)
<1> DEFINE T == Id(S, p)
           k == j.filesCounter
           F == j.files[j.file]
           x == RecordOf(j, q)
<1>1. p \in Nat /\ p \in Bases /\ InSeries(j, S, p) /\ IsMutate(ring[q + 1]) /\ IsPersist(ring[q + 1])
  BY BasesAre DEF Follows, NewestBase, IsMutate, IsPersist, IsRisk
<1>2. PICK records : /\ Reads(records, j.files, T, k)
                     /\ ChainTo(records \o j.buffer, p, j.baseSeq, ring, q)
  BY DEF Follows, WroteTo
<1>3. /\ IsFiles(j.files) /\ k \in Nat /\ j.baseSeq \in Nat /\ HasFiles(j.files, T, k)
      /\ j.file \in DOMAIN j.files /\ F \in Seq(Records)
      /\ j.buffer \in Seq(Records) /\ records \in Seq(Records)
  BY <1>1, <1>2, SeriesOf
<1>4. k \in Nat \ {0} /\ j.file = <<T, k>>
  BY <1>1 DEF InSeries
<1>5. PICK b \in Seq(Records) : b = j.buffer
  BY <1>3
<1>6. PICK more \in Seq(Records) : more = Append(b, x)
  BY <1>1, <1>5, RecordIsRecord, AppendElements
<1>7. /\ f.files[<<T, k>>] = j.files[<<T, k>>] \o more
      /\ OnlyFile(j.files, f.files, <<T, k>>)
      /\ IsFiles(f.files)
  <2>1. f \in Writers /\ w.file = j.file /\ w.files = j.files /\ w.buffer = more
    BY <1>5, <1>6 DEF Written, Recorded
  <2>2. f.files \in FileSets
    BY <2>1 DEF Writers
  <2>3. IsFiles(f.files)
    BY <2>2, FilesAreFiles
  <2> QED
    BY <1>4, <2>1, <2>3 DEF Written
<1>8. /\ HasPersist(j.files[<<T, k>>]) => Reads(records, f.files, T, k)
      /\ ~HasPersist(j.files[<<T, k>>]) => Reads(records \o ReadRecords(more), f.files, T, k)
  <2>1. Reads(records, j.files, T, k)
    BY <1>2
  <2> HIDE DEF T, k, F, x
  <2> QED
    BY <1>3, <1>4, <1>7, <2>1, ReadLonger
<1>9. Unclosed(j.files[<<T, k>>], b, q)
  BY <1>4, <1>5 DEF Follows
<1>10. ChainTo(records \o b, p, j.baseSeq, ring, q)
  BY <1>2, <1>5
<1>11. Covers(records \o b, p, j.baseSeq, q + 1)
  <2>1. Covers(records \o b, p, j.baseSeq, q)
    BY <1>10, ChainCovers
  <2>2. Idle(ring[q + 1])
    BY <1>1 DEF Idle
  <2>3. PICK l : l = LastAt(records \o b, p, j.baseSeq)
    OBVIOUS
  <2>4. l \in p .. q + 1 /\ \A n \in l + 1 .. q + 1 : Idle(ring[n])
    BY <1>1, <2>1, <2>2, <2>3 DEF Covers
  <2> QED
    BY <2>1, <2>3, <2>4 DEF Covers
<1>12. ASSUME ReadRecords(more) = more
       PROVE  Covers(records \o more, p, j.baseSeq, q + 1)
  <2>1. ChainTo(records \o Append(j.buffer, RecordOf(j, q)), p, j.baseSeq, ring, q + 1)
    BY <1>1, <1>2, <1>3, RecordChains
  <2>2. q + 1 \in Nat
    OBVIOUS
  <2> QED
    BY <1>5, <1>6, <2>1, <2>2, ChainCovers
<1>13. CASE HasPersist(j.files[<<T, k>>])
  <2>1. b = <<>>
    BY <1>9, <1>13 DEF Unclosed
  <2>2. records \o b = records
    BY <1>3, <2>1, ConcatEmptySeq
  <2> QED
    BY <1>8, <1>11, <1>13, <2>2
<1>14. CASE ~HasPersist(j.files[<<T, k>>]) /\ HasPersist(b)
  <2>1. <<x>> \in Seq(Records) /\ more = b \o <<x>>
    <3>1. x \in Records
      BY <1>1, RecordIsRecord
    <3> QED
      BY <1>6, <3>1, AppendIsConcat
  <2>2. ReadRecords(more) = ReadRecords(b)
    BY <1>14, <2>1, ReadEnds
  <2>3. ReadRecords(b) = b
    BY <1>9, ReadWhole DEF Unclosed
  <2> QED
    BY <1>8, <1>11, <1>14, <2>2, <2>3
<1>15. CASE ~HasPersist(j.files[<<T, k>>]) /\ ~HasPersist(b)
  <2>1. OnlyLastPersists(more)
    BY <1>1, <1>6, <1>15, RecordIsRecord, PersistsOfAppend
  <2>2. ReadRecords(more) = more
    BY <2>1, ReadWhole
  <2> QED
    BY <1>8, <1>12, <1>15, <2>2
<1> QED
  BY <1>13, <1>14, <1>15

\* A processor that starts a series at q, with nothing written yet.
LEMMA SeriesStarts ==
  ASSUME NEW S, RingOK(S), NEW j \in Writers, NEW p \in Bases,
         NewestBase(p, p), NEW q \in Nat, p <= q, NewestBase(p, q),
         \A n \in p + 1 .. q : ~IsMutate(ring[n]),
         j.baseSnapshotId = Id(S, p), j.filesCounter = 0, j.buffer = <<>>,
         \A f \in DOMAIN j.files : f[1] < Id(S, p),
         NEW g, g = StartNewFile(j)
  PROVE  /\ Opened(j, g) /\ Survives(j, g)
         /\ Follows(g, S, p, q)
         /\ Grown(j.files, g.files, Id(S, p))
<1> DEFINE T == Id(S, p)
<1>1. p \in Nat /\ T \in 0 .. MaxRequests /\ T \in Int
  BY BasesAre
<1>2. \A i \in Nat : <<T, i>> \notin DOMAIN j.files
  <2> SUFFICES ASSUME NEW i \in Nat, <<T, i>> \in DOMAIN j.files PROVE FALSE
    OBVIOUS
  <2>1. <<T, i>>[1] < T
    OBVIOUS
  <2> QED
    BY <1>1, <2>1
<1>3. HasFiles(j.files, T, 0)
  BY <1>2 DEF HasFiles
<1>4. <<j.baseSnapshotId, j.filesCounter + 1>> \notin DOMAIN j.files
  BY <1>2
<1>5. Opened(j, g)
  BY <1>4, StartOpens
<1>6. /\ g \in Writers /\ g.buffer = <<>> /\ g.baseSnapshotId = T /\ g.filesCounter = 1
      /\ g.file = <<T, 1>> /\ g.files[<<T, 1>>] = <<>>
      /\ OnlyFile(j.files, g.files, <<T, 1>>)
  BY <1>5 DEF Opened
<1>7. Survives(j, g)
  BY <1>5 DEF Opened, Survives
<1>8. IsFiles(g.files)
  <2>1. g.files \in FileSets
    BY <1>6 DEF Writers
  <2> QED
    BY <2>1, FilesAreFiles
<1>9. Reads(<<>>, g.files, T, 1)
  <2>1. Reads(<<>>, j.files, T, 0)
    BY <1>3, NoSeries
  <2>2. 0 \in Nat /\ 0 + 1 = 1
    OBVIOUS
  <2> HIDE DEF T
  <2>3. OnlyFile(j.files, g.files, <<T, 0 + 1>>) /\ g.files[<<T, 0 + 1>>] = <<>>
    BY <1>6
  <2>4. Reads(<<>>, g.files, T, 0 + 1)
    BY <1>8, <2>1, <2>2, <2>3, ReadNextFile
  <2> QED
    BY <2>2, <2>4
<1>10. ChainTo(<<>>, p, g.baseSeq, ring, q)
  <2>1. Chain(<<>>, p, g.baseSeq, ring)
    BY DEF Chain
  <2>2. LastAt(<<>>, p, g.baseSeq) = p
    BY DEF LastAt, At
  <2>3. \A n \in p + 1 .. (q + 1) - 1 : ~IsMutate(ring[n])
    BY <1>1
  <2> QED
    BY <1>1, <2>1, <2>2, <2>3 DEF ChainTo, Quiet
<1>11. WroteTo(g, S, p, q)
  <2>1. PICK none : none = <<>> /\ none \in Seq(Records)
    BY EmptySeq
  <2>2. none \o none = none
    BY <2>1, ConcatEmptySeq
  <2> QED
    BY <1>6, <1>9, <1>10, <2>1, <2>2 DEF WroteTo
<1>12. InSeries(g, S, p)
  <2>1. ASSUME NEW f \in DOMAIN g.files PROVE f[1] <= T
    <3>1. CASE f \in DOMAIN j.files
      <4>1. f[1] < T
        BY <3>1
      <4>2. f \in FileNames
        BY <1>8 DEF IsFiles
      <4>3. f[1] \in 0 .. MaxRequests
        BY <4>2 DEF FileNames
      <4> QED
        BY <1>1, <4>1, <4>3
    <3>2. CASE f \notin DOMAIN j.files
      <4>1. f = <<T, 1>>
        BY <1>6, <3>2 DEF OnlyFile
      <4> QED
        BY <1>1, <4>1
    <3> QED
      BY <3>1, <3>2
  <2>2. 1 \in Nat \ {0}
    OBVIOUS
  <2> QED
    BY <1>6, <2>1, <2>2 DEF InSeries
<1>13. Unclosed(g.files[g.file], g.buffer, q)
  BY <1>6 DEF Unclosed, HasPersist, OnlyLastPersists
<1>14. Grown(j.files, g.files, T)
  BY <1>6, FileGrows
<1> QED
  BY <1>5, <1>7, <1>11, <1>12, <1>13, <1>14 DEF Follows

\* The series of p is closed, and that of the snapshot at q + 1 is begun.
Closes(files, others, S, p, q, B) ==
  /\ DOMAIN files \subseteq DOMAIN others
  /\ <<Id(S, p), 1>> \in DOMAIN others
  /\ \A U : U \notin {Id(S, p), Id(S, q + 1)} => SameSeries(files, others, U)
  /\ \E records, k :
       /\ k \in Nat
       /\ Reads(records, others, Id(S, p), k)
       /\ Covers(records, p, B, q + 1)

\* What a snapshot does.
Switched(j, h, S, p, q, record) ==
  /\ Follows(h, S, q + 1, q + 1) /\ Survives(j, h) /\ h.buffer = <<>>
  /\ Appends(j, h, Append(j.buffer, record))
  /\ Closes(j.files, h.files, S, p, q, j.baseSeq)

\* OnPersist does that.
LEMMA PersistFollows ==
  ASSUME NEW S, RingOK(S), NEW j \in Writers, NEW p, NEW q \in Nat, Follows(j, S, p, q),
         q + 1 <= Len(ring), IsRisk(ring[q + 1]),
         NEW w, Recorded(j, w, q), NEW h, h = OnPersist(w, ring[q + 1].orderId)
  PROVE  Switched(j, h, S, p, q, RecordOf(j, q))
<1> DEFINE T == Id(S, p)
           id == Id(S, q + 1)
<1>1. /\ q + 1 \in Bases /\ NewestBase(q + 1, q + 1) /\ id = ring[q + 1].orderId
      /\ T < id /\ id \in 0 .. MaxRequests /\ p \in Bases /\ p \in Nat /\ T \in 0 .. MaxRequests
      /\ InSeries(j, S, p)
  BY BasesAre, NextIdentity DEF Follows, NewestBase
<1>2. PICK w2 : w2 = [w EXCEPT !.baseSnapshotId = id, !.filesCounter = 0]
  OBVIOUS
<1>3. h = FlushBufferSync(w2, TRUE)
  BY <1>1, <1>2 DEF OnPersist
<1>4. w \in Writers /\ w.file = j.file /\ w.files = j.files /\ w.baseSeq = j.baseSeq
      /\ w.buffer = Append(j.buffer, RecordOf(j, q)) /\ Survives(j, w)
  BY DEF Recorded, Survives
<1>5. /\ w2 \in Writers /\ w2.baseSnapshotId = id /\ w2.filesCounter = 0 /\ w2.file = w.file
      /\ w2.files = w.files /\ w2.buffer = w.buffer /\ w2.failed = w.failed
      /\ w2.baseSeq = w.baseSeq /\ w2.enableJournalAfterSeq = w.enableJournalAfterSeq
  BY <1>1, <1>2, <1>4 DEF Writers
<1>6. j.file \in DOMAIN j.files
  BY OpenFile
<1>7. PICK f : f = Flushed(w2)
  OBVIOUS
<1>8. Written(w2, f)
  BY <1>4, <1>5, <1>6, <1>7, FlushWrites
<1>9. PICK f0 : f0 = Flushed(w)
  OBVIOUS
<1>10. Written(w, f0)
  BY <1>4, <1>6, <1>9, FlushWrites
<1>11. f0.files = f.files
  <2>1. WithBuffer(w) = WithBuffer(w2)
    BY <1>5 DEF WithBuffer
  <2>2. f0.files = WithBuffer(w) /\ f.files = WithBuffer(w2)
    BY <1>4, <1>5, <1>7, <1>9 DEF Flushed, Writers
  <2> QED
    BY <2>1, <2>2
<1>12. PICK records : /\ Reads(records, f0.files, T, j.filesCounter)
                      /\ Covers(records, p, j.baseSeq, q + 1)
  BY <1>10, ClosingRead
<1>13. /\ f \in Writers /\ f.buffer = <<>> /\ f.baseSnapshotId = id /\ f.filesCounter = 0
       /\ f.file = j.file /\ Survives(j, f)
       /\ f.files[j.file] = j.files[j.file] \o Append(j.buffer, RecordOf(j, q))
       /\ OnlyFile(j.files, f.files, j.file)
  BY <1>4, <1>5, <1>8 DEF Written, Survives
<1>14. DOMAIN f.files = DOMAIN j.files /\ j.file \in DOMAIN f.files
  BY <1>6, <1>13 DEF OnlyFile
<1>15. \A x \in DOMAIN f.files : x[1] < id
  <2> SUFFICES ASSUME NEW x \in DOMAIN j.files PROVE x[1] < id
    BY <1>14
  <2>1. x[1] <= T
    BY <1>1 DEF InSeries
  <2>2. DOMAIN j.files \in SUBSET FileNames
    BY DEF Writers, FileSets
  <2>3. x \in FileNames
    BY <2>2
  <2>4. x[1] \in 0 .. MaxRequests
    BY <2>3 DEF FileNames
  <2> QED
    BY <1>1, <2>1, <2>4
<1>16. PICK g : g = StartNewFile(f)
  OBVIOUS
<1>17. Opened(f, g) /\ Survives(f, g) /\ Follows(g, S, q + 1, q + 1) /\ Grown(f.files, g.files, id)
  <2>1. q + 1 <= q + 1 /\ q + 1 \in Nat /\ \A n \in (q + 1) + 1 .. q + 1 : ~IsMutate(ring[n])
    OBVIOUS
  <2> QED
    BY <1>1, <1>13, <1>15, <1>16, <2>1, SeriesStarts
<1>18. h = [g EXCEPT !.writtenBytes = 0]
  BY <1>3, <1>7, <1>16, FlushIs
<1>19. Follows(h, S, q + 1, q + 1) /\ Survives(g, h) /\ h.files = g.files /\ h.buffer = g.buffer
  BY <1>17, <1>18, BytesForgotten DEF Survives
<1>20. Survives(j, h) /\ h.buffer = <<>>
  BY <1>13, <1>17, <1>19 DEF Survives, Opened
<1>21. \A x \in DOMAIN j.files : h.files[x] = f.files[x]
  <2>1. ASSUME NEW x \in DOMAIN j.files PROVE x # <<id, 0 + 1>>
    <3> SUFFICES ASSUME x = <<id, 0 + 1>> PROVE FALSE
      OBVIOUS
    <3>1. x[1] < id
      BY <1>14, <1>15
    <3> QED
      BY <1>1, <3>1
  <2>2. OnlyFile(f.files, g.files, <<id, 0 + 1>>)
    BY <1>13, <1>17 DEF Opened
  <2> QED
    BY <1>14, <1>19, <2>1, <2>2 DEF OnlyFile
<1>22. DOMAIN j.files \subseteq DOMAIN h.files
  BY <1>14, <1>17, <1>19 DEF Grown
<1>26. Appends(j, h, Append(j.buffer, RecordOf(j, q)))
  BY <1>6, <1>13, <1>21, <1>22 DEF Appends, OnlyFile
<1>23. Grown(j.files, f.files, T)
  <2>1. j.file = <<T, j.filesCounter>>
    BY <1>1 DEF InSeries
  <2> QED
    BY <1>13, <2>1, FileGrows
<1>24. ASSUME NEW U, U \notin {T, id} PROVE SameSeries(j.files, h.files, U)
  BY <1>17, <1>19, <1>23, <1>24 DEF Grown, SameSeries
<1>25. Reads(records, h.files, T, j.filesCounter) /\ j.filesCounter \in Nat
  <2>1. SameSeries(f.files, h.files, T)
    BY <1>1, <1>17, <1>19 DEF Grown
  <2>2. IsFiles(h.files)
    <3>1. h.files \in FileSets
      BY <1>19 DEF Survives, Writers
    <3> QED
      BY <3>1, FilesAreFiles
  <2>3. j.filesCounter \in Nat /\ Reads(records, f.files, T, j.filesCounter)
    BY <1>1, <1>11, <1>12 DEF InSeries
  <2> HIDE DEF T
  <2> QED
    BY <2>1, <2>2, <2>3, ReadSame
<1>27. <<T, 1>> \in DOMAIN h.files
  <2>1. HasFiles(h.files, T, j.filesCounter)
    BY <1>25 DEF Reads
  <2>2. 1 \in Nat \ {0} /\ 1 <= j.filesCounter
    BY <1>1 DEF InSeries
  <2> QED
    BY <2>1, <2>2 DEF HasFiles
<1> QED
  BY <1>12, <1>19, <1>20, <1>22, <1>24, <1>25, <1>26, <1>27 DEF Switched, Closes

-----------------------------------------------------------------------------
(***************************************************************************)
(* Handling a command.                                                     *)
(***************************************************************************)

\* The next record has room in the buffer of r, which is j, flushed if it had to be.
HasRoom(j, r, S, p, q) ==
  /\ Follows(r, S, p, q) /\ Survives(j, r)
  /\ Grown(j.files, r.files, Id(S, p))
  /\ Len(r.buffer) + 1 <= JournalBufferSize
  /\ r = j \/ (r.buffer = <<>> /\ Appends(j, r, j.buffer))

\* Prepared makes room.
LEMMA PreparedHasRoom ==
  ASSUME NEW S, RingOK(S), NEW j \in Writers, NEW p, NEW q, Follows(j, S, p, q),
         Len(j.buffer) <= JournalBufferSize, ~j.failed, NEW r, r = Prepared(j)
  PROVE  HasRoom(j, r, S, p, q)
<1>1. j.file # NoFile
  <2>1. j.file \in FileNames
    BY OpenFile
  <2>2. PICK a, b : j.file = <<a, b>>
    BY <2>1 DEF FileNames
  <2> QED
    BY <2>2 DEF NoFile
<1>2. Len(j.buffer) \in Nat /\ JournalBufferSize \in Nat \ {0}
  BY LenProperties, JournalSizes DEF Writers
<1>3. CASE Len(j.buffer) + 1 > JournalBufferSize
  <2>1. r = FlushBufferSync(j, FALSE)
    BY <1>1, <1>3 DEF Prepared
  <2>2. /\ Follows(r, S, p, q) /\ Survives(j, r)
        /\ Grown(j.files, r.files, Id(S, p))
        /\ r.buffer = <<>>
        /\ Appends(j, r, j.buffer)
    BY <2>1, FlushFollows
  <2>3. Len(r.buffer) = 0
    BY <2>2
  <2> QED
    BY <1>2, <2>2, <2>3 DEF HasRoom
<1>4. CASE ~(Len(j.buffer) + 1 > JournalBufferSize)
  <2>1. r = j
    BY <1>1, <1>4 DEF Prepared
  <2>2. Survives(j, j) /\ Grown(j.files, j.files, Id(S, p))
    BY DEF Survives, Grown, SameSeries
  <2> QED
    BY <1>2, <1>4, <2>1, <2>2 DEF HasRoom
<1> QED
  BY <1>3, <1>4

\* What handling the command at q + 1 does to a processor in the series of p.
Advances(j, h, S, p, q) ==
  /\ Survives(j, h)
  /\ Len(h.buffer) <= JournalBufferSize
  /\ ~IsRisk(ring[q + 1]) => /\ Follows(h, S, p, q + 1)
                             /\ Grown(j.files, h.files, Id(S, p))
  /\ IsRisk(ring[q + 1]) => /\ Follows(h, S, q + 1, q + 1)
                            /\ Closes(j.files, h.files, S, p, q, j.baseSeq)

\* What is left of w with a new record when its command has been handled.
LeftOf(w, h, q) ==
  \/ IsRisk(ring[q + 1]) /\ h = OnPersist(w, ring[q + 1].orderId)
  \/ ~IsRisk(ring[q + 1]) /\ (h = w \/ \E force : h = FlushBufferSync(w, force))

\* A record is in the buffer or at the end of the open file.
LEMMA RecordHandled ==
  ASSUME NEW S, RingOK(S), NEW j \in Writers, NEW p, NEW q \in Nat, Follows(j, S, p, q),
         q + 1 <= Len(ring), IsMutate(ring[q + 1]), Len(j.buffer) + 1 <= JournalBufferSize,
         NEW w, Recorded(j, w, q), NEW h, LeftOf(w, h, q)
  PROVE  /\ Advances(j, h, S, p, q)
         /\ h = w \/ Appends(j, h, w.buffer)
<1>1. w \in Writers /\ Survives(j, w) /\ w.files = j.files /\ w.file = j.file
      /\ w.buffer = Append(j.buffer, RecordOf(j, q))
  BY DEF Recorded, Survives
<1>2. Len(w.buffer) <= JournalBufferSize
  <2>1. j.buffer \in Seq(Records) /\ RecordOf(j, q) \in Records
    BY RecordIsRecord DEF Writers
  <2>2. Len(w.buffer) = Len(j.buffer) + 1
    BY <1>1, <2>1, AppendElements
  <2> QED
    BY <2>2
<1>3. JournalBufferSize \in Nat /\ Len(<<>>) = 0
  BY JournalSizes
<1>4. CASE IsRisk(ring[q + 1])
  <2>1. h = OnPersist(w, ring[q + 1].orderId)
    BY <1>4 DEF LeftOf
  <2>2. Switched(j, h, S, p, q, RecordOf(j, q))
    BY <1>4, <2>1, PersistFollows
  <2>3. Len(h.buffer) <= JournalBufferSize
    BY <1>3, <2>2 DEF Switched
  <2> QED
    BY <1>1, <1>4, <2>2, <2>3 DEF Switched, Advances
<1>5. ASSUME ~IsRisk(ring[q + 1]) PROVE Follows(w, S, p, q + 1) /\ Grown(j.files, w.files, Id(S, p))
  <2>1. Follows(w, S, p, q + 1)
    BY <1>5, RecordFollows
  <2> QED
    BY <1>1, <2>1 DEF Grown, SameSeries
<1>6. CASE ~IsRisk(ring[q + 1]) /\ h = w
  BY <1>1, <1>2, <1>5, <1>6 DEF Advances
<1>7. CASE ~IsRisk(ring[q + 1]) /\ h # w
  <2>1. PICK force : h = FlushBufferSync(w, force)
    BY <1>7 DEF LeftOf
  <2>2. PICK q1 \in Nat : q1 = q + 1
    OBVIOUS
  <2>3. Follows(w, S, p, q1)
    BY <1>5, <1>7, <2>2
  <2>4. /\ Follows(h, S, p, q1) /\ Survives(w, h)
        /\ Grown(w.files, h.files, Id(S, p))
        /\ h.buffer = <<>>
        /\ Appends(w, h, w.buffer)
    BY <1>1, <2>1, <2>3, FlushFollows
  <2>5. Survives(j, h) /\ Len(h.buffer) <= JournalBufferSize /\ Grown(j.files, h.files, Id(S, p))
    BY <1>1, <1>3, <2>4 DEF Survives
  <2>6. Appends(j, h, w.buffer)
    BY <1>1, <2>4 DEF Appends
  <2> QED
    BY <1>7, <2>2, <2>4, <2>5, <2>6 DEF Advances
<1> QED
  BY <1>4, <1>6, <1>7

\* Journaling a command puts its record in the buffer of the prepared processor.
LEMMA WriteRecords ==
  ASSUME NEW S, RingOK(S), NEW j \in Writers, NEW q \in Nat, q + 1 <= Len(ring),
         Journaled(j, q), IsMutate(ring[q + 1]),
         NEW r \in Writers, r = Prepared(j), ~r.failed, r.baseSeq = j.baseSeq,
         NEW eob, NEW h, h = WriteToJournal(j, ring[q + 1], q, eob)
  PROVE  \E w : Recorded(r, w, q) /\ LeftOf(w, h, q)
<1>1. ring[q + 1].command # "SHUTDOWN_SIGNAL"
  BY DEF IsMutate, IsPersist
<1>2. PICK x : x = RecordOf(j, q)
  OBVIOUS
<1>3. x = [seq |-> j.baseSeq + q, command |-> ring[q + 1]] /\ x = RecordOf(r, q)
  BY <1>2 DEF RecordOf
<1>4. PICK w : w = [r EXCEPT !.buffer = Append(r.buffer, x)]
  OBVIOUS
<1>5. Recorded(r, w, q)
  BY <1>3, <1>4, RecordIsWritten
<1>6. CASE IsRisk(ring[q + 1])
  <2>1. h = OnPersist(w, ring[q + 1].orderId)
    BY <1>1, <1>3, <1>4, <1>6 DEF WriteToJournal, IsRisk
  <2> QED
    BY <1>5, <1>6, <2>1 DEF LeftOf
<1>7. CASE ~IsRisk(ring[q + 1])
  <2>1. h \in {OnReset(w), FlushBufferSync(w, FALSE), w}
    BY <1>1, <1>3, <1>4, <1>7 DEF WriteToJournal, IsRisk
  <2>2. h = w \/ \E force : h = FlushBufferSync(w, force)
    BY <2>1 DEF OnReset
  <2> QED
    BY <1>5, <1>7, <2>2 DEF LeftOf
<1> QED
  BY <1>6, <1>7

\* What a command may have done to the file that was open.
EndOf(j, h, q) ==
  \/ h.files[j.file] = j.files[j.file]
  \/ h.files[j.file] = j.files[j.file] \o j.buffer
  \/ h.files[j.file] = j.files[j.file] \o Append(j.buffer, RecordOf(j, q))

\* The file that was open when a command came that is recorded.
LEMMA RecordTail ==
  ASSUME NEW S, RingOK(S), NEW j \in Writers, NEW p, NEW q \in Nat, Follows(j, S, p, q),
         q + 1 <= Len(ring), IsMutate(ring[q + 1]),
         NEW r, r \in Writers, r.baseSeq = j.baseSeq,
         r = j \/ (r.buffer = <<>> /\ Appends(j, r, j.buffer)),
         NEW w, Recorded(r, w, q), NEW h, h = w \/ Appends(r, h, w.buffer)
  PROVE  EndOf(j, h, q)
<1>1. j.file \in DOMAIN j.files /\ j.files[j.file] \in Seq(Records)
  BY OpenFile
<1>2. PICK x \in Records : x = RecordOf(j, q)
  BY RecordIsRecord
<1>3. x = RecordOf(r, q)
  BY <1>2 DEF RecordOf
<1>4. w.files = r.files /\ w.buffer = Append(r.buffer, x)
  BY <1>3 DEF Recorded
<1>5. CASE r = j
  BY <1>2, <1>4, <1>5 DEF EndOf, Appends
<1>6. CASE r # j
  <2>1. r.buffer = <<>> /\ Appends(j, r, j.buffer)
    BY <1>6
  <2>2. PICK F \in Seq(Records), b \in Seq(Records) : F = j.files[j.file] /\ b = j.buffer
    BY <1>1 DEF Writers
  <2>3. r.files[j.file] = F \o b /\ j.file \in DOMAIN r.files
    BY <1>1, <2>1, <2>2 DEF Appends
  <2>4. CASE h = w
    BY <1>4, <2>2, <2>3, <2>4 DEF EndOf
  <2>5. CASE Appends(r, h, w.buffer) /\ r.file # j.file
    BY <2>2, <2>3, <2>5 DEF EndOf, Appends
  <2>6. CASE Appends(r, h, w.buffer) /\ r.file = j.file
    <3>1. h.files[j.file] = (F \o b) \o w.buffer
      BY <2>3, <2>6 DEF Appends
    <3>2. PICK one : one = <<x>>
      OBVIOUS
    <3>3. one \in Seq(Records)
      BY <3>2
    <3>4. Append(<<>>, x) = one
      BY <3>2
    <3>5. w.buffer = one
      BY <1>4, <2>1, <3>4
    <3>6. (F \o b) \o one = F \o (b \o one)
      BY <3>3, ConcatAssociative
    <3>7. Append(b, x) = b \o one
      BY <2>2, <3>2, AppendIsConcat
    <3> QED
      BY <1>2, <2>2, <3>1, <3>5, <3>6, <3>7 DEF EndOf
  <2> QED
    BY <2>4, <2>5, <2>6
<1> QED
  BY <1>5, <1>6

\* A command that leaves the processor alone, or only has it flushed.
LEMMA IdleAdvances ==
  ASSUME NEW S, RingOK(S), NEW j \in Writers, NEW p, NEW q \in Nat, Follows(j, S, p, q),
         q + 1 <= Len(ring), ~IsMutate(ring[q + 1]), Len(j.buffer) <= JournalBufferSize,
         NEW h, h = j \/ h = OnShutdown(j)
  PROVE  /\ Advances(j, h, S, p, q) /\ EndOf(j, h, q)
         /\ h = OnShutdown(j) => h.buffer = <<>>
<1>1. Follows(j, S, p, q + 1)
  BY IdleFollows
<1>2. ~IsRisk(ring[q + 1])
  BY DEF IsRisk, IsMutate, IsPersist
<1>3. CASE h = OnShutdown(j)
  <2>1. PICK q1 \in Nat : q1 = q + 1
    OBVIOUS
  <2>2. Follows(j, S, p, q1) /\ h = FlushBufferSync(j, FALSE)
    BY <1>1, <1>3, <2>1 DEF OnShutdown
  <2>3. /\ Follows(h, S, p, q1) /\ Survives(j, h)
        /\ Grown(j.files, h.files, Id(S, p))
        /\ h.buffer = <<>>
        /\ Appends(j, h, j.buffer)
    BY <2>2, FlushFollows
  <2>4. Len(h.buffer) <= JournalBufferSize
    <3>1. Len(h.buffer) = 0 /\ JournalBufferSize \in Nat
      BY <2>3, JournalSizes
    <3> QED
      BY <3>1
  <2> QED
    BY <1>2, <2>1, <2>3, <2>4 DEF Advances, EndOf, Appends
<1>4. CASE h # OnShutdown(j)
  <2>1. h = j
    BY <1>4
  <2>2. Survives(j, h) /\ Grown(j.files, h.files, Id(S, p))
    BY <2>1 DEF Survives, Grown, SameSeries
  <2> QED
    BY <1>1, <1>2, <1>4, <2>1, <2>2 DEF Advances, EndOf
<1> QED
  BY <1>3, <1>4

\* Growing first, then handling a command.
LEMMA GrownAdvances ==
  ASSUME NEW S, NEW p, NEW q, NEW j, NEW r, NEW h, Survives(j, r),
         Grown(j.files, r.files, Id(S, p)), Advances(r, h, S, p, q)
  PROVE  Advances(j, h, S, p, q)
<1>1. Survives(j, h) /\ Len(h.buffer) <= JournalBufferSize
  BY DEF Advances, Survives
<1>2. ~IsRisk(ring[q + 1]) => Follows(h, S, p, q + 1) /\ Grown(j.files, h.files, Id(S, p))
  BY GrownTwice DEF Advances
<1>3. ASSUME Closes(r.files, h.files, S, p, q, r.baseSeq)
      PROVE  Closes(j.files, h.files, S, p, q, j.baseSeq)
  <2>1. DOMAIN j.files \subseteq DOMAIN h.files
    BY <1>3 DEF Closes, Grown
  <2>2. ASSUME NEW U, U \notin {Id(S, p), Id(S, q + 1)} PROVE SameSeries(j.files, h.files, U)
    <3>1. SameSeries(j.files, r.files, U)
      BY <2>2 DEF Grown
    <3>2. SameSeries(r.files, h.files, U)
      BY <1>3, <2>2 DEF Closes
    <3> QED
      BY <3>1, <3>2 DEF SameSeries
  <2>3. r.baseSeq = j.baseSeq
    BY DEF Survives
  <2> QED
    BY <1>3, <2>1, <2>2, <2>3 DEF Closes
<1> QED
  BY <1>1, <1>2, <1>3 DEF Advances

\* Handling a command in a series.
LEMMA WriteAdvances ==
  ASSUME NEW S, RingOK(S), NEW j \in Writers, NEW p, NEW q \in Nat, Follows(j, S, p, q),
         q + 1 <= Len(ring), ~j.failed, Len(j.buffer) <= JournalBufferSize,
         Journaled(j, q) \/ ~IsMutate(ring[q + 1]),
         NEW eob, NEW h, h = WriteToJournal(j, ring[q + 1], q, eob)
  PROVE  /\ Advances(j, h, S, p, q) /\ EndOf(j, h, q)
         /\ Journaled(j, q) /\ ring[q + 1].command = "SHUTDOWN_SIGNAL" => h.buffer = <<>>
<1>1. CASE ~Journaled(j, q)
  <2>1. h = j
    BY <1>1 DEF WriteToJournal
  <2> QED
    BY <1>1, <2>1, IdleAdvances
<1>2. CASE Journaled(j, q) /\ ring[q + 1].command = "SHUTDOWN_SIGNAL"
  <2>1. h = OnShutdown(j)
    BY <1>2 DEF WriteToJournal
  <2>2. ~IsMutate(ring[q + 1])
    BY <1>2 DEF IsMutate, IsPersist
  <2> QED
    BY <2>1, <2>2, IdleAdvances
<1>3. CASE Journaled(j, q) /\ ring[q + 1].command # "SHUTDOWN_SIGNAL" /\ ~IsMutate(ring[q + 1])
  <2>1. h = j
    BY <1>3 DEF WriteToJournal
  <2> QED
    BY <1>3, <2>1, IdleAdvances
<1>4. CASE Journaled(j, q) /\ ring[q + 1].command # "SHUTDOWN_SIGNAL" /\ IsMutate(ring[q + 1])
  <2>1. PICK r : r = Prepared(j)
    OBVIOUS
  <2>2. HasRoom(j, r, S, p, q)
    BY <2>1, PreparedHasRoom
  <2>3. /\ r \in Writers /\ ~r.failed /\ r.baseSeq = j.baseSeq
        /\ Follows(r, S, p, q) /\ Len(r.buffer) + 1 <= JournalBufferSize
        /\ Survives(j, r) /\ Grown(j.files, r.files, Id(S, p))
        /\ r = j \/ (r.buffer = <<>> /\ Appends(j, r, j.buffer))
    BY <2>2 DEF HasRoom, Survives
  <2>4. PICK w : Recorded(r, w, q) /\ LeftOf(w, h, q)
    BY <1>4, <2>1, <2>3, WriteRecords
  <2>5. Advances(r, h, S, p, q) /\ (h = w \/ Appends(r, h, w.buffer))
    BY <1>4, <2>3, <2>4, RecordHandled
  <2>6. EndOf(j, h, q)
    BY <1>4, <2>3, <2>4, <2>5, RecordTail
  <2>7. Advances(j, h, S, p, q)
    BY <2>3, <2>5, GrownAdvances
  <2> QED
    BY <1>4, <2>6, <2>7
<1> QED
  BY <1>1, <1>2, <1>3, <1>4

-----------------------------------------------------------------------------
(***************************************************************************)
(* A processor that has written nothing.                                   *)
(***************************************************************************)
Unwritten(j, S) ==
  /\ j.file = NoFile
  /\ j.buffer = <<>>
  /\ j.baseSnapshotId = S
  /\ j.writtenBytes = 0

\* It has nothing to flush.
LEMMA NothingToFlush ==
  ASSUME NEW S, NEW j \in Writers, Unwritten(j, S)
  PROVE  OnShutdown(j) = j
<1>1. PICK none : none = <<>>
  OBVIOUS
<1>2. j.buffer = none /\ WithBuffer(j) = j.files /\ j.writtenBytes + Len(j.buffer) = 0
      /\ j.writtenBytes = 0
  <2>1. Len(j.buffer) = 0
    BY DEF Unwritten
  <2> QED
    BY <1>1, <2>1 DEF Unwritten, WithBuffer
<1>3. Flushed(j) = [j EXCEPT !.writtenBytes = 0, !.buffer = none, !.files = j.files]
  BY <1>1, <1>2 DEF Flushed
<1>4. [j EXCEPT !.writtenBytes = 0, !.buffer = none, !.files = j.files] = j
  BY <1>2 DEF Writers
<1>5. Flushed(j) = j
  BY <1>3, <1>4
<1>6. ~(j.writtenBytes >= JournalFileMaxSize)
  BY <1>2, JournalSizes
<1> QED
  BY <1>5, <1>6, FlushIs DEF OnShutdown

\* Nor does it do anything with a command it need not write.
LEMMA NothingWritten ==
  ASSUME NEW S, NEW j \in Writers, Unwritten(j, S), NEW q, NEW c, NEW eob,
         ~(Journaled(j, q) /\ IsMutate(c))
  PROVE  WriteToJournal(j, c, q, eob) = j
<1>1. CASE ~Journaled(j, q)
  BY <1>1 DEF WriteToJournal
<1>2. CASE Journaled(j, q) /\ c.command = "SHUTDOWN_SIGNAL"
  BY <1>2, NothingToFlush DEF WriteToJournal
<1>3. CASE Journaled(j, q) /\ c.command # "SHUTDOWN_SIGNAL"
  BY <1>3 DEF WriteToJournal
<1> QED
  BY <1>1, <1>2, <1>3

\* When the first file of its series exists, it fails at the first command to write.
LEMMA FirstFileExists ==
  ASSUME NEW S, NEW j \in Writers, Unwritten(j, S), j.filesCounter = 0, ~j.failed,
         <<S, 1>> \in DOMAIN j.files, NEW q, NEW c, NEW eob, Journaled(j, q), IsMutate(c),
         NEW h, h = WriteToJournal(j, c, q, eob)
  PROVE  /\ h \in Writers /\ h.failed /\ Unwritten(h, S) /\ h.files = j.files
         /\ h.baseSeq = j.baseSeq /\ h.enableJournalAfterSeq = j.enableJournalAfterSeq
<1>1. PICK r : r = StartNewFile(j)
  OBVIOUS
<1>2. <<j.baseSnapshotId, j.filesCounter + 1>> \in DOMAIN j.files
  BY DEF Unwritten
<1>3. /\ r \in Writers
      /\ r.failed /\ r.files = j.files /\ r.file = NoFile /\ r.buffer = j.buffer
      /\ r.baseSnapshotId = j.baseSnapshotId /\ r.writtenBytes = j.writtenBytes
      /\ r.baseSeq = j.baseSeq /\ r.enableJournalAfterSeq = j.enableJournalAfterSeq
  BY <1>1, <1>2, StartThrows
<1>4. Prepared(j) = r
  BY <1>1, <1>3 DEF Prepared, Unwritten
<1>5. c.command # "SHUTDOWN_SIGNAL"
  BY DEF IsMutate, IsPersist
<1>6. h = r
  BY <1>3, <1>4, <1>5 DEF WriteToJournal
<1> QED
  BY <1>3, <1>6 DEF Unwritten

\* Otherwise it starts the series with that command.
LEMMA FirstWrite ==
  ASSUME NEW S, RingOK(S), NEW j \in Writers, Unwritten(j, S), j.filesCounter = 0, ~j.failed,
         \A f \in DOMAIN j.files : f[1] < S,
         NEW q \in Nat, q + 1 <= Len(ring), \A n \in 1 .. q : ~IsMutate(ring[n]),
         Journaled(j, q), IsMutate(ring[q + 1]),
         NEW eob, NEW h, h = WriteToJournal(j, ring[q + 1], q, eob)
  PROVE  Advances(j, h, S, 0, q)
<1>1. PICK r : r = StartNewFile(j)
  OBVIOUS
<1>2. 0 \in Bases /\ Id(S, 0) = S /\ 0 \in Nat /\ 0 <= q
  BY DEF Bases, Id
<1>3. ASSUME NEW x \in Bases, x <= q PROVE x <= 0
  <2>1. x \in Nat
    BY BasesAre
  <2>2. CASE x \in 1 .. q
    <3>1. IsRisk(ring[x])
      BY <2>2 DEF Bases
    <3> QED
      BY <2>2, <3>1 DEF IsRisk, IsMutate, IsPersist
  <2> QED
    BY <1>3, <2>1, <2>2
<1>4. NewestBase(0, q) /\ NewestBase(0, 0)
  BY <1>2, <1>3 DEF NewestBase
<1>5. Opened(j, r) /\ Survives(j, r) /\ Follows(r, S, 0, q) /\ Grown(j.files, r.files, Id(S, 0))
  <2>1. \A n \in 0 + 1 .. q : ~IsMutate(ring[n])
    OBVIOUS
  <2>2. j.baseSnapshotId = Id(S, 0) /\ j.buffer = <<>> /\ \A f \in DOMAIN j.files : f[1] < Id(S, 0)
    BY <1>2 DEF Unwritten
  <2> QED
    BY <1>1, <1>2, <1>4, <2>1, <2>2, SeriesStarts
<1>6. r \in Writers /\ ~r.failed /\ r.baseSeq = j.baseSeq /\ Len(r.buffer) + 1 <= JournalBufferSize
  <2>1. Len(r.buffer) = 0
    BY <1>5 DEF Opened, Unwritten
  <2> QED
    BY <1>5, <2>1, JournalSizes DEF Survives
<1>7. r = Prepared(j)
  <2>1. JournalBufferSize \in Nat /\ Len(r.buffer) = 0
    BY <1>5, JournalSizes DEF Opened, Unwritten
  <2>2. ~(Len(r.buffer) + 1 > JournalBufferSize)
    BY <1>6, <2>1
  <2> QED
    BY <1>1, <2>2 DEF Prepared, Unwritten
<1>8. PICK w : Recorded(r, w, q) /\ LeftOf(w, h, q)
  BY <1>6, <1>7, WriteRecords
<1>9. Advances(r, h, S, 0, q)
  BY <1>2, <1>5, <1>6, <1>8, RecordHandled
<1> QED
  BY <1>5, <1>9, GrownAdvances

-----------------------------------------------------------------------------
(***************************************************************************)
(* What the files hold of a run.                                           *)
(***************************************************************************)

\* The states of the run.
RunIs(run) ==
  /\ Leads(run, loaded, ring)
  /\ \A n \in 0 .. Len(ring) : StateOfRun(n) = run[n]

\* They exist.
LEMMA RunOfRing ==
  ASSUME loaded \in States, ring \in Seq(Commands)
  PROVE  \E run : RunIs(run)
<1>1. PICK run : Leads(run, loaded, ring)
  BY StatesAfter
<1>2. ASSUME NEW n \in 0 .. Len(ring) PROVE StateOfRun(n) = run[n]
  <2>1. PICK first : first = SubSeq(ring, 1, n)
    OBVIOUS
  <2>2. first \in Seq(Commands) /\ Len(first) = n /\ \A i \in 1 .. n : first[i] = ring[i]
    BY <2>1, FirstElements
  <2>3. Starts(first, ring)
    BY <2>2, LenProperties DEF Starts
  <2>4. StateAfter(loaded, first) = run[Len(first)]
    BY <1>1, <2>2, <2>3, StateOnTheWay
  <2> QED
    BY <2>1, <2>2, <2>4 DEF StateOfRun
<1> QED
  BY <1>1, <1>2 DEF RunIs

\* States of the run are states.
LEMMA StatesOfRun ==
  ASSUME loaded \in States, ring \in Seq(Commands)
  PROVE  StateOfRun(0) = loaded /\ \A n \in 0 .. Len(ring) : StateOfRun(n) \in States
<1>1. PICK run : RunIs(run)
  BY RunOfRing
<1>2. 0 \in 0 .. Len(ring)
  BY LenProperties
<1> QED
  BY <1>1, <1>2 DEF RunIs, Leads

\* A part of the run in which nothing changes the state.
LEMMA IdlePart ==
  ASSUME loaded \in States, ring \in Seq(Commands),
         NEW a \in 0 .. Len(ring), NEW b \in a .. Len(ring),
         \A i \in a + 1 .. b : Idle(ring[i])
  PROVE  StateOfRun(b) = StateOfRun(a)
<1>1. PICK run : RunIs(run)
  BY RunOfRing
<1>2. Leads(run, loaded, ring)
  BY <1>1 DEF RunIs
<1>3. run[b] = run[a]
  BY <1>2, IdleStretch
<1>4. a \in 0 .. Len(ring) /\ b \in 0 .. Len(ring)
  BY LenProperties
<1> QED
  BY <1>1, <1>3, <1>4 DEF RunIs

\* The sequence from which the records of a series count up.
Floor(S, p) ==
  IF p # 0 THEN p - 1
  ELSE IF logged /\ S # 0 THEN disk.snapshots[<<S, "RISK_ENGINE">>].seq ELSE 0

NoBinary == "BINARY_DATA_COMMAND" \notin Requests

\* The records read of the series of p rebuild the state after n commands.
Recovers(records, p, n) ==
  StateAfter(StateOfRun(p), ReplayedOf(records)) = StateOfRun(n)

\* A later series exists.
Ends(files, S, p) == \E r \in Bases : p < r /\ <<Id(S, r), 1>> \in DOMAIN files

\* They do for some n, and reach the next snapshot if its series exists.
Good(records, files, S, p) ==
  /\ \A i \in 1 .. Len(records) : records[i].seq >= Floor(S, p) + i
  /\ NoBinary =>
       \E n \in 0 .. Len(ring) :
         /\ Recovers(records, p, n)
         /\ Ends(files, S, p) => \E r \in Bases : p < r /\ r <= n

\* Sequences of a chain count up.
LEMMA ChainCounts ==
  ASSUME NEW S, RingOK(S), NEW p \in Bases, NEW B \in Nat, B = Floor(S, 0),
         NEW records \in Seq(Records), Chain(records, p, B, ring)
  PROVE  \A i \in 1 .. Len(records) : records[i].seq >= Floor(S, p) + i
<1>1. p \in Nat /\ ring \in Seq(Commands) /\ Len(records) \in Nat
  BY BasesAre, LenProperties DEF RingOK
<1>2. ASSUME NEW i \in 1 .. Len(records) PROVE records[i].seq \in Nat
  <2>1. records[i] \in Records
    BY ElementOfSeq
  <2> QED
    BY <2>1 DEF Records
<1>3. CASE p # 0
  <2>1. \A i \in 0 .. Len(records) : At(records, i, p, B) \in Nat /\ At(records, i, p, B) >= p + i
    BY <1>1, ChainPositions
  <2> SUFFICES ASSUME NEW i \in 1 .. Len(records) PROVE records[i].seq >= Floor(S, p) + i
    OBVIOUS
  <2>2. i \in 0 .. Len(records) /\ i # 0
    BY <1>1
  <2>3. records[i].seq - B + 1 >= p + i
    BY <2>1, <2>2 DEF At
  <2>4. Floor(S, p) = p - 1
    BY <1>3 DEF Floor
  <2>5. PICK s \in Nat : s = records[i].seq
    BY <1>2
  <2> QED
    BY <1>1, <2>3, <2>4, <2>5
<1>4. CASE p = 0
  <2>1. ~IsMutate(ring[1])
    BY DEF RingOK, IsMutate, IsPersist
  <2>2. ASSUME NEW i \in 1 .. Len(records)
        PROVE  /\ At(records, i, 1, B) = At(records, i, 0, B)
               /\ Link(records, i, 1, B, ring)
    <3>1. Link(records, i, 0, B, ring)
      BY <1>4 DEF Chain
    <3>2. At(records, i, 1, B) = At(records, i, 0, B)
      BY DEF At
    <3>3. CASE i = 1
      <4>1. At(records, 1, 0, B) \in 0 + 1 .. Len(ring) /\ records[1].command = ring[At(records, 1, 0, B)]
            /\ Quiet(ring, 0, At(records, 1, 0, B))
        BY <3>1, <3>3 DEF Link, At
      <4>2. IsMutate(records[1].command)
        <5>1. records[1] \in Records
          BY <3>3, ElementOfSeq
        <5> QED
          BY <5>1 DEF Records
      <4>3. At(records, 1, 0, B) # 1
        BY <2>1, <4>1, <4>2
      <4>4. At(records, 1, 0, B) \in 1 + 1 .. Len(ring) /\ Quiet(ring, 1, At(records, 1, 0, B))
        BY <4>1, <4>3 DEF Quiet
      <4>5. At(records, 1 - 1, 1, B) = 1
        BY DEF At
      <4> QED
        BY <3>2, <3>3, <4>1, <4>4, <4>5 DEF Link
    <3>4. CASE i # 1
      <4>1. At(records, i - 1, 1, B) = At(records, i - 1, 0, B)
        BY <3>4 DEF At
      <4> QED
        BY <3>1, <3>2, <4>1 DEF Link
    <3> QED
      BY <3>2, <3>3, <3>4
  <2>3. Chain(records, 1, B, ring)
    BY <2>2 DEF Chain
  <2>4. \A i \in 0 .. Len(records) : At(records, i, 1, B) \in Nat /\ At(records, i, 1, B) >= 1 + i
    BY <1>1, <2>3, ChainPositions
  <2> SUFFICES ASSUME NEW i \in 1 .. Len(records) PROVE records[i].seq >= B + i
    BY <1>4
  <2>5. i \in 0 .. Len(records) /\ i # 0
    BY <1>1
  <2>6. records[i].seq - B + 1 >= 1 + i
    BY <2>4, <2>5 DEF At
  <2> QED
    BY <1>2, <2>6
<1> QED
  BY <1>3, <1>4

\* What a chain rebuilds.
LEMMA ChainRecovers ==
  ASSUME NEW S, RingOK(S), loaded \in States, NEW p \in Bases, NEW B \in Nat, NoBinary,
         NEW records \in Seq(Records), Chain(records, p, B, ring),
         LastAt(records, p, B) \in 0 .. Len(ring)
  PROVE  Recovers(records, p, LastAt(records, p, B))
<1>1. ring \in Seq(Commands) /\ p \in 0 .. Len(ring)
  BY BasesAre DEF RingOK
<1>2. PICK run : RunIs(run)
  BY <1>1, RunOfRing
<1>3. Leads(run, loaded, ring) /\ StateOfRun(p) = run[p]
      /\ StateOfRun(LastAt(records, p, B)) = run[LastAt(records, p, B)]
  BY <1>1, <1>2 DEF RunIs
<1>4. StateAfter(run[p], ReplayedOf(records)) = run[LastAt(records, p, B)]
  BY <1>1, <1>3, ChainReplays DEF NoBinary
<1> QED
  BY <1>3, <1>4 DEF Recovers

\* The position a chain ends at.
LEMMA LastPosition ==
  ASSUME NEW S, RingOK(S), NEW p \in Bases, NEW B \in Nat,
         NEW records \in Seq(Records), Chain(records, p, B, ring)
  PROVE  LastAt(records, p, B) \in p .. Len(ring)
<1>1. p \in Nat /\ p \in 0 .. Len(ring) /\ ring \in Seq(Commands) /\ Len(records) \in Nat
  BY BasesAre, LenProperties DEF RingOK
<1>2. \A i \in 0 .. Len(records) : At(records, i, p, B) \in Nat /\ At(records, i, p, B) >= p + i
  BY <1>1, ChainPositions
<1>3. LastAt(records, p, B) \in Nat /\ LastAt(records, p, B) >= p
  <2>1. Len(records) \in 0 .. Len(records)
    BY <1>1
  <2> QED
    BY <1>1, <1>2, <2>1 DEF LastAt
<1>4. LastAt(records, p, B) <= Len(ring)
  <2>1. CASE Len(records) = 0
    BY <1>1, <2>1 DEF LastAt, At
  <2>2. CASE Len(records) # 0
    <3>1. Len(records) \in 1 .. Len(records)
      BY <1>1, <2>2
    <3>2. Link(records, Len(records), p, B, ring)
      BY <3>1 DEF Chain
    <3>3. Len(records) - 1 \in 0 .. Len(records)
      BY <3>1
    <3>4. At(records, Len(records) - 1, p, B) \in Nat
      BY <1>2, <3>3
    <3> QED
      BY <1>1, <3>2, <3>4 DEF Link, LastAt
  <2> QED
    BY <2>1, <2>2
<1> QED
  BY <1>1, <1>3, <1>4, LenProperties

\* The newest series.
LEMMA OpenIsGood ==
  ASSUME NEW S, RingOK(S), loaded \in States, NEW p \in Bases, NEW B \in Nat, B = Floor(S, 0),
         NEW records \in Seq(Records), Chain(records, p, B, ring),
         NEW files, ~Ends(files, S, p)
  PROVE  Good(records, files, S, p)
<1>1. \A i \in 1 .. Len(records) : records[i].seq >= Floor(S, p) + i
  BY ChainCounts
<1>2. LastAt(records, p, B) \in p .. Len(ring) /\ p \in Nat
  BY LastPosition, BasesAre
<1>3. LastAt(records, p, B) \in 0 .. Len(ring)
  BY <1>2, LenProperties DEF RingOK
<1>4. NoBinary => Recovers(records, p, LastAt(records, p, B))
  BY <1>3, ChainRecovers
<1> QED
  BY <1>1, <1>3, <1>4 DEF Good

\* A series that reaches a snapshot.
LEMMA ClosedIsGood ==
  ASSUME NEW S, RingOK(S), loaded \in States, NEW p \in Bases, NEW B \in Nat, B = Floor(S, 0),
         NEW records \in Seq(Records), NEW r \in Bases, p < r, Covers(records, p, B, r),
         NEW files
  PROVE  Good(records, files, S, p)
<1>1. Chain(records, p, B, ring)
  BY DEF Covers
<1>2. \A i \in 1 .. Len(records) : records[i].seq >= Floor(S, p) + i
  BY <1>1, ChainCounts
<1>3. PICK l : l = LastAt(records, p, B)
  OBVIOUS
<1>4. p \in Nat /\ r \in Nat /\ r \in 0 .. Len(ring) /\ Len(ring) \in Nat /\ ring \in Seq(Commands)
  BY BasesAre, LenProperties DEF RingOK
<1>5. l \in 0 .. Len(ring) /\ r \in l .. Len(ring) /\ \A i \in l + 1 .. r : Idle(ring[i])
  BY <1>3, <1>4 DEF Covers
<1>6. StateOfRun(r) = StateOfRun(l)
  BY <1>4, <1>5, IdlePart
<1>7. NoBinary => Recovers(records, p, l)
  BY <1>1, <1>3, <1>5, ChainRecovers
<1>8. NoBinary => Recovers(records, p, r)
  BY <1>6, <1>7 DEF Recovers
<1> QED
  BY <1>2, <1>4, <1>8 DEF Good

\* The series of a base can be read and is good.
SeriesGood(files, S, p) ==
  \E records, k :
    /\ k \in Nat
    /\ Reads(records, files, Id(S, p), k)
    /\ Good(records, files, S, p)

\* The files of the disk: series without gaps; where a series has files, those of
\* earlier bases have, too; and all of them are good.
FilesOK(files, S) ==
  /\ files \in FileSets
  /\ \A T \in 0 .. MaxRequests : \E k \in Nat : HasFiles(files, T, k)
  /\ \A f \in DOMAIN files : f[1] <= requests
  /\ \A p \in Bases : \A f \in DOMAIN files : f[1] > Id(S, p) => <<Id(S, p), 1>> \in DOMAIN files
  /\ \A p \in Bases : SeriesGood(files, S, p)

\* The bases before p have files, and so has p if there are any.
Begins(files, S, p) ==
  \A r \in Bases : r < p => <<Id(S, r), 1>> \in DOMAIN files /\ <<Id(S, p), 1>> \in DOMAIN files

\* Identities tell positions.
LEMMA IdOrder ==
  ASSUME NEW S, RingOK(S), NEW p \in Bases, NEW r \in Bases, Id(S, r) <= Id(S, p)
  PROVE  r <= p
<1>1. p \in Nat /\ r \in Nat /\ Id(S, p) \in Int /\ Id(S, r) \in Int
  BY BasesAre
<1>2. CASE r > p
  <2>1. Id(S, p) < Id(S, r)
    BY <1>1, <1>2 DEF RingOK
  <2> QED
    BY <1>1, <2>1
<1> QED
  BY <1>1, <1>2

\* No series is later than the newest.
LEMMA NoneLater ==
  ASSUME NEW S, RingOK(S), NEW p \in Bases, NEW files, \A f \in DOMAIN files : f[1] <= Id(S, p),
         NEW r \in Bases, p <= r
  PROVE  ~Ends(files, S, r)
<1> SUFFICES ASSUME Ends(files, S, r) PROVE FALSE
  OBVIOUS
<1>1. PICK x \in Bases : r < x /\ <<Id(S, x), 1>> \in DOMAIN files
  BY DEF Ends
<1>2. <<Id(S, x), 1>>[1] <= Id(S, p)
  BY <1>1
<1>3. x <= p
  BY <1>2, IdOrder
<1>4. p \in Nat /\ x \in Nat /\ r \in Nat
  BY BasesAre
<1> QED
  BY <1>1, <1>3, <1>4

\* A series that is not written to stays good.
LEMMA OtherSeries ==
  ASSUME NEW S, RingOK(S), NEW files, FilesOK(files, S), NEW p \in Bases, Begins(files, S, p),
         NEW others \in FileSets, NEW r \in Bases, SameSeries(files, others, Id(S, r)),
         r < p \/ ~Ends(others, S, r)
  PROVE  SeriesGood(others, S, r)
<1>1. PICK records, k : /\ k \in Nat
                        /\ Reads(records, files, Id(S, r), k)
                        /\ Good(records, files, S, r)
  BY DEF FilesOK, SeriesGood
<1>2. IsFiles(others)
  BY FilesAreFiles
<1>3. Reads(records, others, Id(S, r), k)
  <2>1. PICK T : T = Id(S, r)
    OBVIOUS
  <2>2. Reads(records, files, T, k) /\ SameSeries(files, others, T)
    BY <1>1, <2>1
  <2>3. Reads(records, others, T, k)
    BY <1>1, <1>2, <2>2, ReadSame
  <2> QED
    BY <2>1, <2>3
<1>4. Ends(others, S, r) => Ends(files, S, r)
  <2>1. r < p => Ends(files, S, r)
    BY DEF Begins, Ends
  <2> QED
    BY <2>1
<1>5. Good(records, others, S, r)
  BY <1>1, <1>4 DEF Good
<1> QED
  BY <1>1, <1>3, <1>5 DEF SeriesGood

\* The series a processor is in is good.
LEMMA FollowedIsGood ==
  ASSUME NEW S, RingOK(S), loaded \in States, NEW h \in Writers, NEW p, NEW q,
         Follows(h, S, p, q), h.baseSeq = Floor(S, 0)
  PROVE  /\ p \in Bases
         /\ HasFiles(h.files, Id(S, p), h.filesCounter) /\ h.filesCounter \in Nat
         /\ <<Id(S, p), 1>> \in DOMAIN h.files
         /\ \A f \in DOMAIN h.files : f[1] <= Id(S, p)
         /\ SeriesGood(h.files, S, p)
<1>1. p \in Bases /\ InSeries(h, S, p)
  BY DEF Follows, NewestBase
<1>2. PICK records : /\ Reads(records, h.files, Id(S, p), h.filesCounter)
                     /\ ChainTo(records \o h.buffer, p, h.baseSeq, ring, q)
  BY DEF Follows, WroteTo
<1>3. /\ h.filesCounter \in Nat /\ h.baseSeq \in Nat
      /\ HasFiles(h.files, Id(S, p), h.filesCounter)
      /\ h.buffer \in Seq(Records) /\ records \in Seq(Records)
  BY <1>1, <1>2, SeriesOf
<1>4. \A f \in DOMAIN h.files : f[1] <= Id(S, p)
  BY <1>1 DEF InSeries
<1>5. <<Id(S, p), 1>> \in DOMAIN h.files
  <2>1. 1 \in Nat \ {0} /\ 1 <= h.filesCounter
    BY <1>1 DEF InSeries
  <2> QED
    BY <1>3, <2>1 DEF HasFiles
<1>6. ~Ends(h.files, S, p)
  <2>1. p <= p
    BY <1>1, BasesAre
  <2> QED
    BY <1>1, <1>4, <2>1, NoneLater
<1>7. Chain(records, p, h.baseSeq, ring)
  <2>1. PICK L : L = records \o h.buffer
    OBVIOUS
  <2>2. IsConcat(L, records, h.buffer)
    BY <2>1 DEF IsConcat
  <2>3. /\ L \in Seq(Records) /\ Len(L) = Len(records) + Len(h.buffer)
        /\ Len(records) \in Nat /\ Len(h.buffer) \in Nat
        /\ \A i \in 1 .. Len(records) : i \in 1 .. Len(L) /\ L[i] = records[i]
    BY <1>3, <2>2, ConcatElements
  <2>4. Starts(records, L)
    BY <2>3 DEF Starts
  <2>5. Chain(L, p, h.baseSeq, ring)
    BY <1>2, <2>1 DEF ChainTo
  <2> QED
    BY <1>3, <2>3, <2>4, <2>5, ChainStart
<1>8. Good(records, h.files, S, p)
  BY <1>1, <1>3, <1>6, <1>7, OpenIsGood
<1> QED
  BY <1>1, <1>2, <1>3, <1>4, <1>5, <1>8 DEF SeriesGood

\* The number of files of a series that is the same in both.
LEMMA SameLength ==
  ASSUME NEW files, NEW others, NEW T, SameSeries(files, others, T),
         \E k \in Nat : HasFiles(files, T, k)
  PROVE  \E k \in Nat : HasFiles(others, T, k)
<1>1. PICK k \in Nat : HasFiles(files, T, k)
  OBVIOUS
<1>2. HasFiles(others, T, k)
  BY <1>1 DEF HasFiles, SameSeries
<1> QED
  BY <1>2

\* Identities of bases have been given.
LEMMA IdsGiven ==
  ASSUME NEW S, RingOK(S), requests \in Nat, NEW p \in Bases, NEW files \in FileSets,
         \A f \in DOMAIN files : f[1] <= Id(S, p)
  PROVE  \A f \in DOMAIN files : f[1] <= requests
<1>1. Id(S, p) <= requests /\ Id(S, p) \in Nat
  BY BasesAre DEF RingOK
<1> SUFFICES ASSUME NEW f \in DOMAIN files PROVE f[1] <= requests
  OBVIOUS
<1>2. DOMAIN files \in SUBSET FileNames
  BY DEF FileSets
<1>3. f \in FileNames
  BY <1>2
<1>4. f[1] \in Nat /\ f[1] <= Id(S, p)
  BY <1>3 DEF FileNames
<1> QED
  BY <1>1, <1>4

\* Bases of which there may be later files come before the newest.
LEMMA EarlierBase ==
  ASSUME NEW S, RingOK(S), NEW p \in Bases, NEW r \in Bases, NEW files \in FileSets,
         NEW f \in DOMAIN files, f[1] <= Id(S, p), f[1] > Id(S, r)
  PROVE  r < p
<1>1. DOMAIN files \in SUBSET FileNames
  BY DEF FileSets
<1>2. f \in FileNames
  BY <1>1
<1>3. f[1] \in Int /\ Id(S, p) \in Int /\ Id(S, r) \in Int /\ p \in Int /\ r \in Int
  BY <1>2, BasesAre DEF FileNames
<1>4. CASE p <= r
  <2>1. p = r \/ p < r
    BY <1>3, <1>4
  <2>2. Id(S, p) <= Id(S, r)
    BY <1>3, <2>1 DEF RingOK
  <2> QED
    BY <1>3, <2>2
<1> QED
  BY <1>3, <1>4

\* The series of p grows.
LEMMA GrowsOK ==
  ASSUME NEW S, RingOK(S), loaded \in States, requests \in Nat,
         NEW files, FilesOK(files, S), NEW h \in Writers, NEW p, NEW q, Follows(h, S, p, q),
         h.baseSeq = Floor(S, 0), Begins(files, S, p), Grown(files, h.files, Id(S, p))
  PROVE  FilesOK(h.files, S) /\ Begins(h.files, S, p)
<1>1. /\ p \in Bases
      /\ HasFiles(h.files, Id(S, p), h.filesCounter) /\ h.filesCounter \in Nat
      /\ <<Id(S, p), 1>> \in DOMAIN h.files
      /\ \A f \in DOMAIN h.files : f[1] <= Id(S, p)
      /\ SeriesGood(h.files, S, p)
  BY FollowedIsGood
<1>2. h.files \in FileSets
  BY DEF Writers
<1>3. DOMAIN files \subseteq DOMAIN h.files /\ \A U : U # Id(S, p) => SameSeries(files, h.files, U)
  BY DEF Grown
<1>4. ASSUME NEW T \in 0 .. MaxRequests PROVE \E k \in Nat : HasFiles(h.files, T, k)
  <2>1. CASE T = Id(S, p)
    BY <1>1, <2>1
  <2>2. CASE T # Id(S, p)
    <3>1. SameSeries(files, h.files, T) /\ \E k \in Nat : HasFiles(files, T, k)
      BY <1>3, <2>2 DEF FilesOK
    <3> QED
      BY <3>1, SameLength
  <2> QED
    BY <2>1, <2>2
<1>5. \A f \in DOMAIN h.files : f[1] <= requests
  BY <1>1, <1>2, IdsGiven
<1>6. Begins(h.files, S, p)
  BY <1>3 DEF Begins
<1>7. ASSUME NEW r \in Bases, NEW f \in DOMAIN h.files, f[1] > Id(S, r)
      PROVE  <<Id(S, r), 1>> \in DOMAIN h.files
  <2>1. r < p
    BY <1>1, <1>2, <1>7, EarlierBase
  <2> QED
    BY <1>6, <2>1 DEF Begins
<1>8. ASSUME NEW r \in Bases PROVE SeriesGood(h.files, S, r)
  <2>1. p \in Nat /\ r \in Nat
    BY <1>1, BasesAre
  <2>2. CASE r = p
    BY <1>1, <2>2
  <2>3. CASE r # p
    <3>1. Id(S, r) # Id(S, p)
      <4>1. Id(S, p) \in Int /\ Id(S, r) \in Int
        BY <1>1, BasesAre
      <4>2. r < p \/ p < r
        BY <2>1, <2>3
      <4> QED
        BY <1>1, <4>1, <4>2 DEF RingOK
    <3>2. SameSeries(files, h.files, Id(S, r))
      BY <1>3, <3>1
    <3>3. p <= r => ~Ends(h.files, S, r)
      BY <1>1, NoneLater
    <3>4. r < p \/ ~Ends(h.files, S, r)
      BY <2>1, <3>3
    <3> QED
      BY <1>1, <1>2, <3>2, <3>4, OtherSeries
  <2> QED
    BY <2>2, <2>3
<1> QED
  BY <1>2, <1>4, <1>5, <1>6, <1>7, <1>8 DEF FilesOK

\* The series of p is closed, and the next one begun.
LEMMA ClosesOK ==
  ASSUME NEW S, RingOK(S), loaded \in States, requests \in Nat,
         NEW files, FilesOK(files, S), NEW p, NEW q \in Nat, NewestBase(p, q), q + 1 <= Len(ring),
         IsRisk(ring[q + 1]),
         NEW h \in Writers, Follows(h, S, q + 1, q + 1),
         h.baseSeq = Floor(S, 0), Begins(files, S, p), Closes(files, h.files, S, p, q, h.baseSeq)
  PROVE  FilesOK(h.files, S) /\ Begins(h.files, S, q + 1)
<1>1. /\ q + 1 \in Bases /\ q + 1 \in Nat
      /\ HasFiles(h.files, Id(S, q + 1), h.filesCounter) /\ h.filesCounter \in Nat
      /\ <<Id(S, q + 1), 1>> \in DOMAIN h.files
      /\ \A f \in DOMAIN h.files : f[1] <= Id(S, q + 1)
      /\ SeriesGood(h.files, S, q + 1)
  BY FollowedIsGood
<1>2. h.files \in FileSets /\ h.baseSeq \in Nat
  BY DEF Writers
<1>3. /\ DOMAIN files \subseteq DOMAIN h.files
      /\ <<Id(S, p), 1>> \in DOMAIN h.files
      /\ \A U : U \notin {Id(S, p), Id(S, q + 1)} => SameSeries(files, h.files, U)
  BY DEF Closes
<1>4. PICK records, k : /\ k \in Nat
                        /\ Reads(records, h.files, Id(S, p), k)
                        /\ Covers(records, p, h.baseSeq, q + 1)
  BY DEF Closes
<1>5. p \in Bases /\ p \in Nat /\ p <= q
  BY BasesAre DEF NewestBase
<1>6. \A r \in Bases : r <= q => r <= p
  BY DEF NewestBase
<1>7. SeriesGood(h.files, S, p)
  <2>1. records \in Seq(Records)
    BY <1>4, ReadType
  <2>2. p < q + 1
    BY <1>5
  <2>3. Good(records, h.files, S, p)
    BY <1>1, <1>2, <1>4, <1>5, <2>1, <2>2, ClosedIsGood
  <2> QED
    BY <1>4, <2>3 DEF SeriesGood
<1>8. ASSUME NEW T \in 0 .. MaxRequests PROVE \E l \in Nat : HasFiles(h.files, T, l)
  <2>1. CASE T = Id(S, q + 1)
    BY <1>1, <2>1
  <2>2. CASE T = Id(S, p)
    BY <1>4, <2>2 DEF Reads
  <2>3. CASE T \notin {Id(S, p), Id(S, q + 1)}
    <3>1. SameSeries(files, h.files, T) /\ \E l \in Nat : HasFiles(files, T, l)
      BY <1>3, <2>3 DEF FilesOK
    <3> QED
      BY <3>1, SameLength
  <2> QED
    BY <2>1, <2>2, <2>3
<1>9. \A f \in DOMAIN h.files : f[1] <= requests
  BY <1>1, <1>2, IdsGiven
<1>10. Begins(h.files, S, q + 1)
  <2> SUFFICES ASSUME NEW r \in Bases, r < q + 1 PROVE <<Id(S, r), 1>> \in DOMAIN h.files
    BY <1>1 DEF Begins
  <2>1. r \in Nat
    BY BasesAre
  <2>2. r <= p
    BY <1>6, <2>1
  <2>3. CASE r = p
    BY <1>3, <2>3
  <2>4. CASE r # p
    <3>1. r < p
      BY <1>5, <2>1, <2>2, <2>4
    <3> QED
      BY <1>3, <3>1 DEF Begins
  <2> QED
    BY <2>3, <2>4
<1>11. ASSUME NEW r \in Bases, NEW f \in DOMAIN h.files, f[1] > Id(S, r)
       PROVE  <<Id(S, r), 1>> \in DOMAIN h.files
  <2>1. r < q + 1
    BY <1>1, <1>2, <1>11, EarlierBase
  <2> QED
    BY <1>10, <2>1 DEF Begins
<1>12. ASSUME NEW r \in Bases PROVE SeriesGood(h.files, S, r)
  <2>1. r \in Nat
    BY BasesAre
  <2>2. CASE r \in {p, q + 1}
    BY <1>1, <1>7, <2>2
  <2>3. CASE r \notin {p, q + 1}
    <3>1. r < p \/ q + 1 < r
      BY <1>5, <1>6, <2>1, <2>3
    <3>2. Id(S, r) \notin {Id(S, p), Id(S, q + 1)}
      <4>1. Id(S, p) \in Int /\ Id(S, r) \in Int /\ Id(S, q + 1) \in Int
        BY <1>1, <1>5, BasesAre
      <4>2. (r < p \/ p < r) /\ (r < q + 1 \/ q + 1 < r)
        BY <1>5, <2>1, <3>1
      <4>3. (Id(S, r) < Id(S, p) \/ Id(S, p) < Id(S, r))
        BY <1>5, <4>2 DEF RingOK
      <4>4. (Id(S, r) < Id(S, q + 1) \/ Id(S, q + 1) < Id(S, r))
        BY <1>1, <4>2 DEF RingOK
      <4> QED
        BY <4>1, <4>3, <4>4
    <3>3. SameSeries(files, h.files, Id(S, r))
      BY <1>3, <3>2
    <3>4. r < p \/ ~Ends(h.files, S, r)
      <4>1. CASE r < p
        BY <4>1
      <4>2. CASE q + 1 < r
        <5>1. q + 1 <= r
          BY <2>1, <4>2
        <5> QED
          BY <1>1, <5>1, NoneLater
      <4> QED
        BY <3>1, <4>1, <4>2
    <3> QED
      BY <1>2, <1>5, <3>3, <3>4, OtherSeries
  <2> QED
    BY <2>2, <2>3
<1> QED
  BY <1>2, <1>8, <1>9, <1>10, <1>11, <1>12 DEF FilesOK

\* Handling a command keeps the files good.
LEMMA AdvancesOK ==
  ASSUME NEW S, RingOK(S), loaded \in States, requests \in Nat,
         NEW j \in Writers, FilesOK(j.files, S), NEW p, NEW q \in Nat, NewestBase(p, q),
         q + 1 <= Len(ring), j.baseSeq = Floor(S, 0), Begins(j.files, S, p),
         NEW h, Advances(j, h, S, p, q)
  PROVE  /\ FilesOK(h.files, S)
         /\ \E r : Follows(h, S, r, q + 1) /\ Begins(h.files, S, r)
<1>1. h \in Writers /\ h.baseSeq = j.baseSeq
  BY DEF Advances, Survives
<1>2. CASE IsRisk(ring[q + 1])
  <2>1. Follows(h, S, q + 1, q + 1) /\ Closes(j.files, h.files, S, p, q, j.baseSeq)
    BY <1>2 DEF Advances
  <2>2. FilesOK(h.files, S) /\ Begins(h.files, S, q + 1)
    BY <1>1, <1>2, <2>1, ClosesOK
  <2> QED
    BY <2>1, <2>2
<1>3. CASE ~IsRisk(ring[q + 1])
  <2>1. Follows(h, S, p, q + 1) /\ Grown(j.files, h.files, Id(S, p))
    BY <1>3 DEF Advances
  <2>2. FilesOK(h.files, S) /\ Begins(h.files, S, p)
    BY <1>1, <2>1, GrowsOK
  <2> QED
    BY <2>1, <2>2
<1> QED
  BY <1>2, <1>3

-----------------------------------------------------------------------------
(***************************************************************************)
(* A write that the process did not survive.                               *)
(***************************************************************************)

\* y are the first l elements of b, and z the others.
IsSplit(y, z, b, l) ==
  /\ y \in Seq(Records) /\ z \in Seq(Records)
  /\ y = SubSeq(b, 1, l) /\ b = y \o z
  /\ Len(y) = l /\ Len(z) = Len(b) - l
  /\ \A i \in 1 .. l : i \in 1 .. Len(b) /\ y[i] = b[i]
  /\ \A i \in 1 .. Len(b) - l : l + i \in 1 .. Len(b) /\ z[i] = b[l + i]

\* Sequences can be split.
LEMMA Splits ==
  ASSUME NEW b \in Seq(Records), NEW l \in 0 .. Len(b)
  PROVE  \E y, z : IsSplit(y, z, b, l)
<1>1. Len(b) \in Nat
  BY LenProperties
<1>2. PICK y : y = SubSeq(b, 1, l)
  OBVIOUS
<1>3. PICK z : z = SubSeq(b, l + 1, Len(b))
  OBVIOUS
<1>4. y \in Seq(Records) /\ Len(y) = l /\ \A i \in 1 .. l : y[i] = b[i]
  BY <1>2, FirstElements
<1>5. y \o z = b
  <2>1. 1 \in 1 .. Len(b) + 1 /\ l \in 1 - 1 .. Len(b) /\ Len(b) \in l .. Len(b)
    BY <1>1
  <2>2. SubSeq(b, 1, l) \o SubSeq(b, l + 1, Len(b)) = SubSeq(b, 1, Len(b))
    BY <2>1, ConcatAdjacentSubSeq
  <2> QED
    BY <1>2, <1>3, <2>2, SubSeqFull
<1>6. /\ z \in Seq(Records)
      /\ Len(z) = Len(b) - l
      /\ \A i \in 1 .. Len(b) - l : z[i] = b[l + i]
  <2>1. PICK m \in Int : m = l + 1
    BY <1>1
  <2>2. \A i \in m .. Len(b) : b[i] \in Records
    <3> SUFFICES ASSUME NEW i \in m .. Len(b) PROVE b[i] \in Records
      OBVIOUS
    <3>1. i \in 1 .. Len(b)
      BY <1>1, <2>1
    <3> QED
      BY <3>1, ElementOfSeq
  <2>3. /\ SubSeq(b, m, Len(b)) \in Seq(Records)
        /\ Len(SubSeq(b, m, Len(b))) = IF m <= Len(b) THEN Len(b) - m + 1 ELSE 0
        /\ \A i \in 1 .. Len(b) - m + 1 : SubSeq(b, m, Len(b))[i] = b[m + i - 1]
    BY <1>1, <2>2, SubSeqProperties
  <2>4. z = SubSeq(b, m, Len(b))
    BY <1>3, <2>1
  <2>5. Len(z) = Len(b) - l
    BY <1>1, <2>1, <2>3, <2>4
  <2>6. ASSUME NEW i \in 1 .. Len(b) - l PROVE z[i] = b[l + i]
    <3>1. i \in 1 .. Len(b) - m + 1 /\ m + i - 1 = l + i
      BY <1>1, <2>1
    <3> QED
      BY <2>3, <2>4, <3>1
  <2> QED
    BY <2>3, <2>4, <2>5, <2>6
<1>7. /\ \A i \in 1 .. l : i \in 1 .. Len(b)
      /\ \A i \in 1 .. Len(b) - l : l + i \in 1 .. Len(b)
  BY <1>1
<1> QED
  BY <1>2, <1>4, <1>5, <1>6, <1>7 DEF IsSplit

\* A part of a buffer whose last record only may be a PERSIST.
LEMMA SplitPersists ==
  ASSUME NEW b \in Seq(Records), NEW l \in 0 .. Len(b), NEW y, NEW z, IsSplit(y, z, b, l),
         OnlyLastPersists(b)
  PROVE  /\ OnlyLastPersists(y) /\ OnlyLastPersists(z)
         /\ HasPersist(y) => HasPersist(b) /\ z = <<>>
         /\ HasPersist(z) => HasPersist(b)
<1>1. Len(b) \in Nat
  BY LenProperties
<1>2. ASSUME NEW i \in 1 .. Len(y), IsPersist(y[i].command)
      PROVE  i = Len(b) /\ HasPersist(b) /\ i = Len(y)
  <2>1. i \in 1 .. Len(b) /\ IsPersist(b[i].command) /\ i <= l /\ Len(y) = l
    BY <1>2 DEF IsSplit
  <2>2. i = Len(b)
    BY <2>1 DEF OnlyLastPersists
  <2> QED
    BY <1>1, <2>1, <2>2 DEF HasPersist
<1>3. ASSUME NEW i \in 1 .. Len(z), IsPersist(z[i].command)
      PROVE  HasPersist(b) /\ i = Len(z)
  <2>1. l + i \in 1 .. Len(b) /\ IsPersist(b[l + i].command) /\ Len(z) = Len(b) - l
    BY <1>3 DEF IsSplit
  <2>2. l + i = Len(b)
    BY <2>1 DEF OnlyLastPersists
  <2> QED
    BY <1>1, <2>1, <2>2 DEF HasPersist
<1>4. ASSUME HasPersist(y) PROVE HasPersist(b) /\ z = <<>>
  <2>1. PICK i \in 1 .. Len(y) : IsPersist(y[i].command)
    BY <1>4 DEF HasPersist
  <2>2. i = Len(b) /\ HasPersist(b) /\ i = Len(y)
    BY <1>2, <2>1
  <2>3. z \in Seq(Records) /\ Len(z) = 0
    BY <1>1, <2>2 DEF IsSplit
  <2> QED
    BY <2>2, <2>3, EmptySeq
<1>5. HasPersist(z) => HasPersist(b)
  BY <1>3 DEF HasPersist
<1> QED
  BY <1>2, <1>3, <1>4, <1>5 DEF OnlyLastPersists

\* h is j with y at the end of its file and z in its buffer.
HasWritten(j, h, y, z) ==
  h = [j EXCEPT !.files = [j.files EXCEPT ![j.file] = j.files[j.file] \o y], !.buffer = z]

\* The files have y at the end of the open one.
HasPart(j, files, y) == files = [j.files EXCEPT ![j.file] = j.files[j.file] \o y]

\* A processor with a part of its buffer in its file already follows as well.
LEMMA PartWritten ==
  ASSUME NEW S, RingOK(S), NEW j \in Writers, NEW p, NEW q, Follows(j, S, p, q),
         NEW l \in 0 .. Len(j.buffer), NEW y, NEW z, IsSplit(y, z, j.buffer, l),
         NEW h, HasWritten(j, h, y, z)
  PROVE  /\ h \in Writers /\ h.baseSeq = j.baseSeq
         /\ HasPart(j, h.files, y)
         /\ Follows(h, S, p, q) /\ Grown(j.files, h.files, Id(S, p))
<1>0. PICK files : files = [j.files EXCEPT ![j.file] = j.files[j.file] \o y]
  OBVIOUS
<1>1. NewestBase(p, q) /\ InSeries(j, S, p) /\ p \in Bases
  BY DEF Follows, NewestBase
<1>2. PICK records : /\ Reads(records, j.files, Id(S, p), j.filesCounter)
                     /\ ChainTo(records \o j.buffer, p, j.baseSeq, ring, q)
  BY DEF Follows, WroteTo
<1> DEFINE T == Id(S, p)
           k == j.filesCounter
           F == j.files[j.file]
<1>3. /\ IsFiles(j.files) /\ k \in Nat /\ HasFiles(j.files, T, k)
      /\ j.file \in DOMAIN j.files /\ F \in Seq(Records)
      /\ j.buffer \in Seq(Records) /\ records \in Seq(Records)
  BY <1>1, <1>2, SeriesOf
<1>4. k \in Nat \ {0} /\ j.file = <<T, k>>
  BY <1>1 DEF InSeries
<1>5. y \in Seq(Records) /\ z \in Seq(Records) /\ j.buffer = y \o z
  BY DEF IsSplit
<1>6. PICK longer \in Seq(Records) : longer = F \o y
  BY <1>3, <1>5, ConcatProperties
<1>7. /\ DOMAIN j.files \in SUBSET FileNames
      /\ \A f \in DOMAIN j.files : j.files[f] \in Seq(Records)
  BY <1>3 DEF IsFiles
<1>8. files = [j.files EXCEPT ![j.file] = longer]
  BY <1>0, <1>6
<1>9. j.files = [f \in DOMAIN j.files |-> j.files[f]]
  <2>1. j.files \in FileSets
    BY DEF Writers
  <2> QED
    BY <2>1, FilesAreFiles
<1>10. files \in [DOMAIN j.files -> Seq(Records)]
  BY <1>3, <1>6, <1>7, <1>8, <1>9
<1>11. files \in FileSets
  BY <1>7, <1>10 DEF FileSets
<1>12. files[j.file] = F \o y /\ OnlyFile(j.files, files, j.file)
  <2>1. DOMAIN files = DOMAIN j.files /\ files[j.file] = longer
        /\ \A f \in DOMAIN j.files : f # j.file => files[f] = j.files[f]
    BY <1>3, <1>8
  <2> QED
    BY <1>3, <1>6, <2>1 DEF OnlyFile
<1>13. /\ h \in Writers /\ h.files = files /\ h.buffer = z /\ h.baseSnapshotId = j.baseSnapshotId
       /\ h.baseSeq = j.baseSeq /\ h.filesCounter = j.filesCounter /\ h.file = j.file
  <2>1. h = [j EXCEPT !.files = files, !.buffer = z]
    BY <1>0 DEF HasWritten
  <2> QED
    BY <1>5, <1>11, <2>1 DEF Writers
<1>14. IsFiles(files)
  BY <1>11, FilesAreFiles
<1>15. Unclosed(F, j.buffer, q)
  BY DEF Follows
<1>16. /\ OnlyLastPersists(y) /\ OnlyLastPersists(z)
       /\ HasPersist(y) => HasPersist(j.buffer) /\ z = <<>>
       /\ HasPersist(z) => HasPersist(j.buffer)
  BY <1>3, <1>15, SplitPersists DEF Unclosed
<1>17. /\ HasPersist(F) => Reads(records, files, T, k)
       /\ ~HasPersist(F) => Reads(records \o ReadRecords(y), files, T, k)
  <2>1. OnlyFile(j.files, files, <<T, k>>) /\ files[<<T, k>>] = j.files[<<T, k>>] \o y
    BY <1>4, <1>12
  <2>2. Reads(records, j.files, T, k)
    BY <1>2
  <2>3. F = j.files[<<T, k>>]
    BY <1>4
  <2> HIDE DEF T, k, F
  <2> QED
    BY <1>3, <1>4, <1>5, <1>14, <2>1, <2>2, <2>3, ReadLonger
<1>18. HasPersist(F) => y = <<>> /\ z = <<>>
  <2> SUFFICES ASSUME HasPersist(F) PROVE y = <<>> /\ z = <<>>
    OBVIOUS
  <2>1. j.buffer = <<>>
    BY <1>15 DEF Unclosed
  <2>2. Len(j.buffer) = 0 /\ l = 0
    BY <2>1
  <2>3. Len(y) = 0 /\ Len(z) = 0
    BY <2>2 DEF IsSplit
  <2> QED
    BY <1>5, <2>3, EmptySeq
<1>19. Reads(records \o y, files, T, k)
  <2>1. CASE HasPersist(F)
    <3>1. records \o y = records
      BY <1>3, <1>18, <2>1, ConcatEmptySeq
    <3> QED
      BY <1>17, <2>1, <3>1
  <2>2. CASE ~HasPersist(F)
    <3>1. ReadRecords(y) = y
      BY <1>5, <1>16, ReadWhole
    <3> QED
      BY <1>17, <2>2, <3>1
  <2> QED
    BY <2>1, <2>2
<1>20. (records \o y) \o z = records \o j.buffer
  <2>1. records \in Seq(Records) /\ y \in Seq(Records) /\ z \in Seq(Records)
    BY <1>3, <1>5
  <2>2. (records \o y) \o z = records \o (y \o z)
    BY <2>1, ConcatAssociative
  <2> QED
    BY <1>5, <2>2
<1>21. WroteTo(h, S, p, q)
  BY <1>2, <1>13, <1>19, <1>20 DEF WroteTo
<1>22. InSeries(h, S, p)
  <2>1. DOMAIN files = DOMAIN j.files
    BY <1>3, <1>12 DEF OnlyFile
  <2> QED
    BY <1>1, <1>13, <2>1 DEF InSeries
<1>23. Unclosed(h.files[h.file], h.buffer, q)
  <2>1. HasPersist(F \o y) => HasPersist(F) \/ HasPersist(y)
    BY <1>3, <1>5, PersistsOfConcat
  <2>2. h.files[h.file] = F \o y
    BY <1>12, <1>13
  <2>3. HasPersist(h.files[h.file]) => z = <<>> /\ MatchingAt(q)
    BY <1>15, <1>16, <1>18, <2>1, <2>2 DEF Unclosed
  <2>4. HasPersist(z) => MatchingAt(q)
    BY <1>15, <1>16 DEF Unclosed
  <2> QED
    BY <1>13, <1>16, <2>3, <2>4 DEF Unclosed
<1>24. Grown(j.files, h.files, T)
  <2>1. OnlyFile(j.files, h.files, <<T, k>>)
    BY <1>4, <1>12, <1>13
  <2> HIDE DEF T, k
  <2> QED
    BY <2>1, FileGrows
<1> QED
  BY <1>0, <1>1, <1>13, <1>21, <1>22, <1>23, <1>24 DEF Follows, HasPart

\* Cut off at n, the file that g has written is that of j and l records of its buffer.
CutAt(j, g, n, l) ==
  SubSeq(g.files[j.file], 1, n) = j.files[j.file] \o SubSeq(j.buffer, 1, l)

\* What is left of a write is the file with a part of the buffer.
LEMMA CutTail ==
  ASSUME NEW S, RingOK(S), NEW j \in Writers, NEW p, NEW q \in Nat, Follows(j, S, p, q),
         q + 1 <= Len(ring), NEW h, EndOf(j, h, q),
         NEW n \in Len(j.files[j.file]) + 1 .. Len(h.files[j.file]) - 1
  PROVE  \E l \in 0 .. Len(j.buffer) : CutAt(j, h, n, l)
<1>1. PICK F \in Seq(Records), b \in Seq(Records) : F = j.files[j.file] /\ b = j.buffer
  BY OpenFile DEF Writers
<1>2. Len(F) \in Nat /\ Len(b) \in Nat
  BY LenProperties
<1>3. PICK new : new = h.files[j.file]
  OBVIOUS
<1>4. n \in Len(F) + 1 .. Len(new) - 1
  BY <1>1, <1>3
<1>5. PICK x : x = RecordOf(j, q)
  OBVIOUS
<1>6. new = F \/ new = F \o b \/ new = F \o Append(b, x)
  BY <1>1, <1>3, <1>5 DEF EndOf
<1>7. PICK R : R = Records \cup {x}
  OBVIOUS
<1>8. F \in Seq(R) /\ b \in Seq(R) /\ x \in R
  <2>1. \A y \in Records : y \in R
    BY <1>7
  <2>2. F \in Seq(R)
    BY <2>1, SeqOfSubset
  <2>3. b \in Seq(R)
    BY <2>1, SeqOfSubset
  <2> QED
    BY <1>7, <2>2, <2>3
<1>9. CASE new = F
  BY <1>2, <1>4, <1>9
<1>10. ASSUME NEW t \in Seq(R), new = F \o t, Starts(b, t), Len(t) <= Len(b) + 1, NEW l \in Nat, n = Len(F) + l
       PROVE  l \in 0 .. Len(b) /\ SubSeq(new, 1, n) = F \o SubSeq(b, 1, l)
  <2>1. Len(new) = Len(F) + Len(t) /\ Len(t) \in Nat
    BY <1>8, <1>10, ConcatProperties, LenProperties
  <2>2. l \in 0 .. Len(t) /\ l \in 0 .. Len(b)
    BY <1>2, <1>4, <1>10, <2>1
  <2>3. SubSeq(F \o t, 1, Len(F) + l) = F \o SubSeq(t, 1, l)
    BY <1>8, <2>2, FirstOfConcat
  <2>4. SubSeq(b, 1, l) = SubSeq(t, 1, l)
    BY <1>8, <1>10, <2>2, FirstOfStart
  <2> QED
    BY <1>10, <2>2, <2>3, <2>4
<1>11. PICK l \in Nat : n = Len(F) + l
  <2>1. n - Len(F) \in Nat /\ n = Len(F) + (n - Len(F))
    BY <1>2, <1>4
  <2> QED
    BY <2>1
<1>12. CASE new = F \o b
  <2>1. Starts(b, b) /\ Len(b) <= Len(b) + 1
    BY <1>2 DEF Starts
  <2>2. l \in 0 .. Len(b) /\ SubSeq(new, 1, n) = F \o SubSeq(b, 1, l)
    BY <1>8, <1>10, <1>11, <1>12, <2>1
  <2> QED
    BY <1>1, <1>3, <2>2 DEF CutAt
<1>13. CASE new = F \o Append(b, x)
  <2>1. PICK t : t = Append(b, x)
    OBVIOUS
  <2>2. t \in Seq(R) /\ Len(t) = Len(b) + 1 /\ \A i \in 1 .. Len(b) : t[i] = b[i]
    BY <1>8, <2>1, AppendElements
  <2>3. Starts(b, t) /\ Len(t) <= Len(b) + 1
    BY <1>2, <2>2 DEF Starts
  <2>4. l \in 0 .. Len(b) /\ SubSeq(new, 1, n) = F \o SubSeq(b, 1, l)
    BY <1>10, <1>11, <1>13, <2>1, <2>2, <2>3
  <2> QED
    BY <1>1, <1>3, <2>4 DEF CutAt
<1> QED
  BY <1>6, <1>9, <1>12, <1>13

\* The open file of j is as g has written it, but cut off at n.
Truncated(j, g, n, files) ==
  files = [j.files EXCEPT ![j.file] = SubSeq(g.files[j.file], 1, n)]

\* The files after such a write are good.
LEMMA TruncatedOK ==
  ASSUME NEW S, RingOK(S), loaded \in States, requests \in Nat,
         NEW j \in Writers, FilesOK(j.files, S), NEW p, NEW q \in Nat, Follows(j, S, p, q),
         q + 1 <= Len(ring), j.baseSeq = Floor(S, 0), Begins(j.files, S, p),
         NEW g, EndOf(j, g, q),
         NEW n \in Len(j.files[j.file]) + 1 .. Len(g.files[j.file]) - 1,
         NEW files, Truncated(j, g, n, files)
  PROVE  FilesOK(files, S)
<1>1. PICK l \in 0 .. Len(j.buffer) : CutAt(j, g, n, l)
  BY CutTail
<1>2. PICK b \in Seq(Records) : b = j.buffer
  BY DEF Writers
<1>3. PICK y, z : IsSplit(y, z, b, l)
  BY <1>1, <1>2, Splits
<1>4. IsSplit(y, z, j.buffer, l) /\ y = SubSeq(j.buffer, 1, l)
  BY <1>2, <1>3 DEF IsSplit
<1>5. HasPart(j, files, y)
  BY <1>1, <1>4 DEF CutAt, HasPart, Truncated
<1>6. PICK h : HasWritten(j, h, y, z)
  BY DEF HasWritten
<1>7. /\ h \in Writers /\ h.baseSeq = j.baseSeq
      /\ HasPart(j, h.files, y)
      /\ Follows(h, S, p, q) /\ Grown(j.files, h.files, Id(S, p))
  BY <1>4, <1>6, PartWritten
<1>8. PICK fs : fs = j.files
  OBVIOUS
<1>9. FilesOK(fs, S) /\ Begins(fs, S, p) /\ Grown(fs, h.files, Id(S, p)) /\ h.baseSeq = Floor(S, 0)
  BY <1>7, <1>8
<1>10. FilesOK(h.files, S)
  BY <1>7, <1>9, GrowsOK
<1> QED
  BY <1>5, <1>7, <1>10 DEF HasPart

-----------------------------------------------------------------------------
(***************************************************************************)
(* The inductive invariant.                                                *)
(***************************************************************************)
Memories ==
  [buffer : Seq(Records), file : FileNames \cup {NoFile}, filesCounter : Nat,
   writtenBytes : Nat, baseSnapshotId : 0 .. MaxRequests, baseSeq : Nat,
   enableJournalAfterSeq : Int, failed : BOOLEAN]

SnapshotSets ==
  UNION {[D -> [seq : Nat, state : States]] : D \in SUBSET ((1 .. MaxRequests) \X Processors)}

TypeInv ==
  /\ disk \in [files : FileSets, snapshots : SnapshotSets]
  /\ journal \in Memories
  /\ loaded \in States
  /\ jNext \in Nat /\ jEnd \in Int /\ jSequence \in Int /\ applied \in Int
  /\ phase \in {"startup", "running", "crashed"}
  /\ requests \in 0 .. MaxRequests /\ restarts \in 0 .. MaxRestarts
  /\ logged \in BOOLEAN

\* Where J and the engines are in the ring.
Progress ==
  /\ jSequence < jNext /\ jSequence <= jEnd /\ jEnd < Len(ring) /\ jNext <= jEnd + 1
  /\ applied \in -1 .. Len(ring) - 1

\* The processor with the files.
Processor == Put(journal, "files", disk.files)

\* It is one.
LEMMA ProcessorIs ==
  ASSUME TypeInv
  PROVE  /\ Processor \in Writers
         /\ Processor.buffer = journal.buffer /\ Processor.file = journal.file
         /\ Processor.filesCounter = journal.filesCounter
         /\ Processor.writtenBytes = journal.writtenBytes
         /\ Processor.baseSnapshotId = journal.baseSnapshotId
         /\ Processor.baseSeq = journal.baseSeq
         /\ Processor.enableJournalAfterSeq = journal.enableJournalAfterSeq
         /\ Processor.failed = journal.failed /\ Processor.files = disk.files
<1>1. DOMAIN journal = {"buffer", "file", "filesCounter", "writtenBytes", "baseSnapshotId",
                        "baseSeq", "enableJournalAfterSeq", "failed"}
  BY DEF TypeInv, Memories
<1>2. /\ DOMAIN Processor = DOMAIN journal \cup {"files"}
      /\ \A f \in DOMAIN journal : Processor[f] = IF f = "files" THEN disk.files ELSE journal[f]
      /\ Processor["files"] = disk.files
  BY DEF Processor, Put
<1>3. Processor = [buffer |-> journal.buffer, file |-> journal.file,
                   filesCounter |-> journal.filesCounter, writtenBytes |-> journal.writtenBytes,
                   baseSnapshotId |-> journal.baseSnapshotId, baseSeq |-> journal.baseSeq,
                   enableJournalAfterSeq |-> journal.enableJournalAfterSeq,
                   failed |-> journal.failed, files |-> disk.files]
  BY <1>1 DEF Processor, Put
<1>4. disk.files \in FileSets
  BY DEF TypeInv
<1> QED
  BY <1>3, <1>4 DEF TypeInv, Memories, Writers

\* What is left of a processor without its files, and it with them again.
LEMMA MemoryOf ==
  ASSUME TypeInv, NEW h \in Writers, NEW m, m = [f \in DOMAIN journal |-> h[f]]
  PROVE  /\ m \in Memories
         /\ Put(m, "files", h.files) = h
         /\ m.buffer = h.buffer /\ m.file = h.file /\ m.filesCounter = h.filesCounter
         /\ m.writtenBytes = h.writtenBytes /\ m.baseSnapshotId = h.baseSnapshotId
         /\ m.baseSeq = h.baseSeq /\ m.enableJournalAfterSeq = h.enableJournalAfterSeq
         /\ m.failed = h.failed
<1>1. DOMAIN journal = {"buffer", "file", "filesCounter", "writtenBytes", "baseSnapshotId",
                        "baseSeq", "enableJournalAfterSeq", "failed"}
  BY DEF TypeInv, Memories
<1>2. m = [buffer |-> h.buffer, file |-> h.file,
           filesCounter |-> h.filesCounter, writtenBytes |-> h.writtenBytes,
           baseSnapshotId |-> h.baseSnapshotId, baseSeq |-> h.baseSeq,
           enableJournalAfterSeq |-> h.enableJournalAfterSeq, failed |-> h.failed]
  BY <1>1
<1>3. m \in Memories
  BY <1>2 DEF Memories, Writers
<1>4. DOMAIN h = DOMAIN m \cup {"files"}
  BY <1>1 DEF Writers
<1>5. h = [f \in DOMAIN h |-> h[f]]
  BY DEF Writers
<1>6. Put(m, "files", h.files) = [f \in DOMAIN h |-> IF f = "files" THEN h.files ELSE m[f]]
  BY <1>4 DEF Put
<1>7. \A f \in DOMAIN h : (IF f = "files" THEN h.files ELSE m[f]) = h[f]
  BY <1>1, <1>4
<1> QED
  BY <1>2, <1>3, <1>5, <1>6, <1>7

\* What Max finds in the ring.
FirstOf(s) == Max({i \in DOMAIN s : s[i].command = "GROUPING_CONTROL"}) + 1

\* The commands of clients start after the last grouping control.
LEMMA FirstIs ==
  ASSUME NEW s \in Seq(Commands), NEW k \in 1 .. Len(s), s[k].command = "GROUPING_CONTROL",
         \A i \in k + 1 .. Len(s) : s[i].command # "GROUPING_CONTROL"
  PROVE  FirstOf(s) = k + 1
<1>1. PICK D : D = {i \in DOMAIN s : s[i].command = "GROUPING_CONTROL"}
  OBVIOUS
<1>2. D \in SUBSET Int /\ k \in D /\ \A y \in D : y <= k
  BY <1>1
<1>3. Max(D) = k
  BY <1>2, MaxIs
<1> QED
  BY <1>1, <1>3 DEF FirstOf

\* There is one.
LEMMA FirstExists ==
  ASSUME NEW s \in Seq(Commands), Len(s) >= 1, s[1].command = "GROUPING_CONTROL"
  PROVE  /\ FirstOf(s) \in 2 .. Len(s) + 1
         /\ s[FirstOf(s) - 1].command = "GROUPING_CONTROL"
         /\ \A i \in FirstOf(s) .. Len(s) : s[i].command # "GROUPING_CONTROL"
<1>1. PICK D : D = {i \in DOMAIN s : s[i].command = "GROUPING_CONTROL"}
  OBVIOUS
<1>2. D \in SUBSET Int /\ 1 \in D /\ (\A y \in D : y <= Len(s)) /\ Len(s) \in Int
  BY <1>1
<1>3. Max(D) \in D /\ Max(D) \in Int /\ \A y \in D : y <= Max(D)
  BY <1>2, MaxOf
<1>4. PICK m : m = Max(D)
  OBVIOUS
<1>5. FirstOf(s) = m + 1
  BY <1>1, <1>4 DEF FirstOf
<1>6. m \in 1 .. Len(s) /\ s[m].command = "GROUPING_CONTROL"
  BY <1>1, <1>2, <1>3, <1>4
<1>7. ASSUME NEW i \in m + 1 .. Len(s) PROVE s[i].command # "GROUPING_CONTROL"
  <2>1. i \in DOMAIN s /\ ~(i <= m)
    BY <1>6
  <2>2. i \notin D
    BY <1>3, <1>4, <2>1
  <2> QED
    BY <1>1, <2>1, <2>2
<1> QED
  BY <1>5, <1>6, <1>7

\* More commands of clients do not change that.
LEMMA FirstStays ==
  ASSUME NEW s \in Seq(Commands), NEW t \in Seq(Commands), Starts(s, t),
         Len(s) >= 1, s[1].command = "GROUPING_CONTROL",
         \A i \in Len(s) + 1 .. Len(t) : t[i].command # "GROUPING_CONTROL"
  PROVE  FirstOf(t) = FirstOf(s)
<1>1. /\ FirstOf(s) \in 2 .. Len(s) + 1
      /\ s[FirstOf(s) - 1].command = "GROUPING_CONTROL"
      /\ \A i \in FirstOf(s) .. Len(s) : s[i].command # "GROUPING_CONTROL"
  BY FirstExists
<1>2. PICK k \in 1 .. Len(s) : k = FirstOf(s) - 1
  BY <1>1
<1>3. k \in 1 .. Len(t) /\ t[k].command = "GROUPING_CONTROL"
  BY <1>1, <1>2 DEF Starts
<1>4. \A i \in k + 1 .. Len(t) : t[i].command # "GROUPING_CONTROL"
  BY <1>1, <1>2 DEF Starts
<1>5. FirstOf(t) = k + 1
  BY <1>3, <1>4, FirstIs
<1> QED
  BY <1>1, <1>2, <1>5

-----------------------------------------------------------------------------
\* Startup submits no snapshot and no shutdown.
StartOK ==
  \A i \in 1 .. Len(ring) :
    i < FirstRequest \/ phase = "startup" =>
      ~IsPersist(ring[i]) /\ ring[i].command # "SHUTDOWN_SIGNAL"

\* The snapshots of the disk: the run started from one, and what it has stored
\* itself are its own states.
SnapshotsOK(S) ==
  /\ \A f \in DOMAIN disk.snapshots : f[1] <= requests
  /\ S = 0 \/ Complete(S)
  /\ loaded = LoadData(S)
  /\ \A id \in 1 .. MaxRequests : Complete(id) => id <= S \/ \E p \in Bases \ {0} : id = Id(S, p)
  /\ \A p \in Bases \ {0} :
       <<Id(S, p), "RISK_ENGINE">> \in DOMAIN disk.snapshots =>
         /\ disk.snapshots[<<Id(S, p), "RISK_ENGINE">>] = [seq |-> p - 1, state |-> StateOfRun(p)]
         /\ phase # "crashed" => p <= applied + 1

\* J has to write the command at position i.
Due(i) == Journaled(journal, i - 1) /\ IsMutate(ring[i])

\* What a start from the series of S replays.
Replays(S) ==
  \E records, k :
    /\ k \in Nat
    /\ Reads(records, disk.files, S, k)
    /\ phase = "startup" => Len(ring) <= Len(records) + 1
    /\ NoBinary =>
         Recovers(records, 0, IF phase = "startup" THEN Len(ring) ELSE FirstRequest - 1)

\* The run replays a series, so it cannot write one: J fails at the first command
\* it has to write.
Frozen(S) ==
  /\ Unwritten(journal, S)
  /\ journal.filesCounter = 0 \/ journal.failed
  /\ <<S, 1>> \in DOMAIN disk.files
  /\ \A p \in Bases \ {0} : \A f \in DOMAIN disk.files : f[1] < Id(S, p)
  /\ \A i \in 1 .. Len(ring) : i <= jNext \/ i < FirstRequest => ~Due(i)
  /\ journal.failed => jNext + 1 <= Len(ring) /\ Due(jNext + 1)
  /\ Replays(S)

\* Nothing has come yet that J has to write.
Waits(S) ==
  /\ Unwritten(journal, S)
  /\ journal.filesCounter = 0
  /\ \A f \in DOMAIN disk.files : f[1] < S
  /\ \A i \in 1 .. jNext : ~IsMutate(ring[i])

\* J writes; after a shutdown signal it has written everything.
Writes(S) ==
  /\ \E p : Follows(Processor, S, p, jNext) /\ Begins(disk.files, S, p)
  /\ jNext > 0 /\ ring[jNext].command = "SHUTDOWN_SIGNAL" => journal.buffer = <<>>

\* The run replays nothing.
Live(S) ==
  /\ ~journal.failed
  /\ phase = "running" => journal.enableJournalAfterSeq = journal.baseSeq
  /\ phase = "startup" => journal.enableJournalAfterSeq = -1 /\ Len(ring) = 1
  /\ \A i \in 1 .. FirstRequest - 1 : ~IsMutate(ring[i])
  /\ Waits(S) \/ Writes(S)

\* The memory of the processor in each phase.
MemoryOK(S) ==
  /\ phase = "crashed" =>
       /\ journal = NewProcessor(0, 0)
       /\ jNext = 0 /\ jEnd = -1 /\ jSequence = -1 /\ applied = -1
  /\ phase = "startup" => journal = NewProcessor(S, Floor(S, 0))
  /\ phase # "crashed" => journal.baseSeq = Floor(S, 0) /\ (Frozen(S) \/ Live(S))
  /\ Len(journal.buffer) <= JournalBufferSize

RunOK(S) ==
  /\ RingOK(S)
  /\ StartOK
  /\ FilesOK(disk.files, S)
  /\ SnapshotsOK(S)
  /\ MemoryOK(S)

IInv == TypeInv /\ Progress /\ \E S : RunOK(S)

-----------------------------------------------------------------------------
(***************************************************************************)
(* What a longer ring does not change.                                     *)
(***************************************************************************)

\* The run goes on, perhaps with more commands.
Continues(S) ==
  /\ RingOK(S) /\ RingOK(S)'
  /\ Starts(ring, ring')
  /\ loaded \in States /\ loaded' = loaded
  /\ requests \in Nat /\ requests' \in Nat /\ requests <= requests'
  /\ Floor(S, 0)' = Floor(S, 0)

\* The bases and the states of the run so far stay what they were.
LEMMA RunStays ==
  ASSUME NEW S, Continues(S)
  PROVE  /\ ring \in Seq(Commands) /\ ring' \in Seq(Commands)
         /\ Len(ring) \in Nat /\ Len(ring') \in Nat /\ Len(ring) <= Len(ring')
         /\ \A i \in 1 .. Len(ring) : ring'[i] = ring[i]
         /\ \A p \in Bases : p \in Bases' /\ Id(S, p)' = Id(S, p) /\ Floor(S, p)' = Floor(S, p)
         /\ \A p \in Bases' : p <= Len(ring) => p \in Bases
         /\ \A n \in 0 .. Len(ring) : StateOfRun(n)' = StateOfRun(n)
<1>1. /\ ring \in Seq(Commands) /\ ring' \in Seq(Commands)
      /\ Len(ring) \in Nat /\ Len(ring') \in Nat /\ Len(ring) <= Len(ring')
      /\ \A i \in 1 .. Len(ring) : ring'[i] = ring[i]
  BY DEF Continues, RingOK, Starts
<1>2. Bases = {0} \cup {p \in 1 .. Len(ring) : IsRisk(ring[p])}
  BY DEF Bases
<1>3. Bases' = {0} \cup {p \in 1 .. Len(ring') : IsRisk(ring'[p])}
  BY DEF Bases
<1>4. \A p \in Bases : p \in Bases'
  BY <1>1, <1>2, <1>3
<1>5. \A p \in Bases : Id(S, p)' = Id(S, p)
  BY <1>1, <1>2 DEF Id
<1>6. \A p \in Bases : Floor(S, p)' = Floor(S, p)
  <2>1. Floor(S, 0)' = Floor(S, 0)
    BY DEF Continues
  <2> QED
    BY <2>1 DEF Floor
<1>7. \A p \in Bases' : p <= Len(ring) => p \in Bases
  BY <1>1, <1>2, <1>3
<1>8. ASSUME NEW n \in 0 .. Len(ring) PROVE StateOfRun(n)' = StateOfRun(n)
  <2>1. Starts(ring, ring') /\ loaded' = loaded
    BY DEF Continues
  <2>2. SubSeq(ring, 1, n) = SubSeq(ring', 1, n)
    BY <1>1, <2>1, FirstOfStart
  <2> QED
    BY <2>1, <2>2 DEF StateOfRun
<1> QED
  BY <1>1, <1>4, <1>5, <1>6, <1>7, <1>8

\* Bases of the ring that is next.
LEMMA BasesPrimed ==
  ASSUME NEW S, RingOK(S)', NEW p \in Bases'
  PROVE  p \in 0 .. Len(ring') /\ Len(ring') \in Nat /\ Id(S, p)' \in 0 .. MaxRequests /\ Id(S, p)' \in Int
<1>1. ring' \in Seq(Commands) /\ S \in 0 .. MaxRequests /\ Len(ring') \in Nat
  BY DEF RingOK
<1>2. p = 0 \/ p \in 1 .. Len(ring')
  BY DEF Bases
<1>3. MaxRequests \in Nat
  BY JournalSizes
<1>4. CASE p = 0
  BY <1>1, <1>3, <1>4 DEF Id
<1>5. CASE p \in 1 .. Len(ring')
  <2>1. ring'[p] \in Commands
    BY <1>1, <1>5, ElementOfSeq
  <2>2. ring'[p].orderId \in 0 .. MaxRequests
    BY <2>1 DEF Commands
  <2>3. Id(S, p)' = ring'[p].orderId
    BY <1>5 DEF Id
  <2> QED
    BY <1>1, <1>3, <1>5, <2>2, <2>3
<1> QED
  BY <1>2, <1>4, <1>5

\* Nothing read, nothing replayed.
LEMMA EmptyReplay == ReplayedOf(<<>>) = <<>>
<1>1. <<>> \in Seq(Records) /\ Len(<<>>) = 0
  OBVIOUS
<1>2. ReplayedOf(<<>>) \in Seq(Replayable) /\ Len(ReplayedOf(<<>>)) \in 0 .. 0
  BY <1>1, ReplayedCommands
<1> QED
  BY <1>2

\* The new snapshots of a run have no files yet.
NewIds(files, S) ==
  \A p \in Bases' : p <= Len(ring) \/ \A f \in DOMAIN files : f[1] < Id(S, p)'

\* What was good stays good.
LEMMA GoodStays ==
  ASSUME NEW S, Continues(S), NEW files, NewIds(files, S), NEW p \in Bases,
         NEW records, Good(records, files, S, p)
  PROVE  Good(records, files, S, p)'
<1>1. /\ Len(ring) \in Nat /\ Len(ring') \in Nat /\ Len(ring) <= Len(ring')
      /\ \A r \in Bases : r \in Bases' /\ Id(S, r)' = Id(S, r) /\ Floor(S, r)' = Floor(S, r)
      /\ \A r \in Bases' : r <= Len(ring) => r \in Bases
      /\ \A n \in 0 .. Len(ring) : StateOfRun(n)' = StateOfRun(n)
  BY RunStays
<1>2. p \in 0 .. Len(ring) /\ p \in Bases' /\ StateOfRun(p)' = StateOfRun(p)
  BY <1>1 DEF Bases
<1>3. \A i \in 1 .. Len(records) : records[i].seq >= Floor(S, p)' + i
  BY <1>1 DEF Good
<1>4. ASSUME NoBinary
      PROVE  \E n \in 0 .. Len(ring') :
               /\ Recovers(records, p, n)'
               /\ Ends(files, S, p)' => \E r \in Bases' : p < r /\ r <= n
  <2>1. PICK n \in 0 .. Len(ring) :
          /\ Recovers(records, p, n)
          /\ Ends(files, S, p) => \E r \in Bases : p < r /\ r <= n
    BY <1>4 DEF Good
  <2>2. n \in 0 .. Len(ring') /\ StateOfRun(n)' = StateOfRun(n)
    BY <1>1, <2>1
  <2>3. Recovers(records, p, n)'
    BY <1>2, <2>1, <2>2 DEF Recovers
  <2>4. ASSUME Ends(files, S, p)' PROVE \E r \in Bases' : p < r /\ r <= n
    <3>1. PICK r \in Bases' : p < r /\ <<Id(S, r)', 1>> \in DOMAIN files
      BY <2>4 DEF Ends
    <3>2. r <= Len(ring)
      <4>1. r <= Len(ring) \/ \A f \in DOMAIN files : f[1] < Id(S, r)'
        BY DEF NewIds
      <4>2. Id(S, r)' \in Int
        BY <3>1, <1>1, BasesPrimed DEF Continues
      <4>3. <<Id(S, r)', 1>>[1] = Id(S, r)'
        OBVIOUS
      <4> QED
        BY <3>1, <4>1, <4>2, <4>3
    <3>3. r \in Bases /\ Id(S, r)' = Id(S, r)
      BY <1>1, <3>1, <3>2
    <3>4. Ends(files, S, p)
      BY <3>1, <3>3 DEF Ends
    <3> QED
      BY <1>1, <2>1, <3>4
  <2> QED
    BY <2>2, <2>3, <2>4
<1> QED
  BY <1>3, <1>4 DEF Good

\* So do the series.
LEMMA SeriesStays ==
  ASSUME NEW S, Continues(S), NEW files, NewIds(files, S), NEW p \in Bases,
         SeriesGood(files, S, p)
  PROVE  SeriesGood(files, S, p)'
<1>1. PICK records, k : /\ k \in Nat
                        /\ Reads(records, files, Id(S, p), k)
                        /\ Good(records, files, S, p)
  BY DEF SeriesGood
<1>2. Good(records, files, S, p)'
  BY <1>1, GoodStays
<1>3. Id(S, p)' = Id(S, p)
  BY RunStays
<1>4. Reads(records, files, Id(S, p)', k)
  BY <1>1, <1>3
<1> QED
  BY <1>1, <1>2, <1>4 DEF SeriesGood

\* The series of a new snapshot has nothing to read.
LEMMA NewSeriesGood ==
  ASSUME NEW S, Continues(S), NEW files \in FileSets, NEW p \in Bases',
         \A f \in DOMAIN files : f[1] < Id(S, p)'
  PROVE  SeriesGood(files, S, p)'
<1>1. Id(S, p)' \in Int /\ p \in 0 .. Len(ring')
  BY BasesPrimed DEF Continues
<1>2. PICK T : T = Id(S, p)'
  OBVIOUS
<1>3. \A i : <<T, i>> \notin DOMAIN files
  <2>1. \A i : <<T, i>>[1] = T
    OBVIOUS
  <2> QED
    BY <1>1, <1>2, <2>1
<1>4. HasFiles(files, T, 0)
  BY <1>3 DEF HasFiles
<1>5. Reads(<<>>, files, T, 0)
  BY <1>4, NoSeries
<1>6. ~Ends(files, S, p)'
  <2>1. ASSUME NEW r \in Bases', p < r, <<Id(S, r)', 1>> \in DOMAIN files PROVE FALSE
    <3>1. Id(S, p)' < Id(S, r)'
      BY <2>1 DEF Continues, RingOK
    <3>2. Id(S, r)' \in Int
      BY BasesPrimed DEF Continues
    <3>3. <<Id(S, r)', 1>>[1] = Id(S, r)'
      OBVIOUS
    <3>4. <<Id(S, r)', 1>>[1] < Id(S, p)'
      BY <2>1
    <3> QED
      BY <1>1, <3>1, <3>2, <3>3, <3>4
  <2> QED
    BY <2>1 DEF Ends
<1>7. StateOfRun(p)' \in States
  <2>1. loaded' \in States /\ ring' \in Seq(Commands)
    BY DEF Continues, RingOK
  <2>2. SubSeq(ring', 1, p) \in Seq(Commands)
    BY <1>1, <2>1, FirstElements
  <2>3. PICK first \in Seq(Commands) : first = SubSeq(ring', 1, p)
    BY <2>2
  <2>4. PICK run : Leads(run, loaded', first) /\ StateAfter(loaded', first) = run[Len(first)]
    BY <2>1, StatesAfter
  <2>5. StateAfter(loaded', first) \in States
    BY <2>4 DEF Leads
  <2> QED
    BY <2>3, <2>5 DEF StateOfRun
<1>8. Recovers(<<>>, p, p)'
  <2>1. ReplayedOf(<<>>) = <<>>
    BY EmptyReplay
  <2>2. PICK st \in States : st = StateOfRun(p)'
    BY <1>7
  <2>3. StateAfter(st, <<>>) = st
    BY StateEmpty
  <2> QED
    BY <2>1, <2>2, <2>3 DEF Recovers
<1>9. Good(<<>>, files, S, p)'
  <2>1. \A i \in 1 .. Len(<<>>) : <<>>[i].seq >= Floor(S, p)' + i
    OBVIOUS
  <2>2. NoBinary => \E n \in 0 .. Len(ring') :
                      /\ Recovers(<<>>, p, n)'
                      /\ Ends(files, S, p)' => \E r \in Bases' : p < r /\ r <= n
    BY <1>1, <1>6, <1>8
  <2> QED
    BY <2>1, <2>2 DEF Good
<1>10. Reads(<<>>, files, Id(S, p)', 0)
  BY <1>2, <1>5
<1> QED
  BY <1>9, <1>10 DEF SeriesGood

\* The files stay good.
LEMMA FilesStay ==
  ASSUME NEW S, Continues(S), NEW files, NewIds(files, S), FilesOK(files, S)
  PROVE  FilesOK(files, S)'
<1>1. /\ files \in FileSets
      /\ \A T \in 0 .. MaxRequests : \E k \in Nat : HasFiles(files, T, k)
      /\ \A f \in DOMAIN files : f[1] <= requests
  BY DEF FilesOK
<1>2. \A f \in DOMAIN files : f[1] \in Int
  <2>1. DOMAIN files \subseteq FileNames
    BY <1>1, FilesAreFiles DEF IsFiles
  <2> QED
    BY <2>1 DEF FileNames
<1>3. \A f \in DOMAIN files : f[1] <= requests'
  BY <1>1, <1>2 DEF Continues
<1>4. ASSUME NEW p \in Bases', NEW f \in DOMAIN files, f[1] > Id(S, p)'
      PROVE  <<Id(S, p)', 1>> \in DOMAIN files
  <2>1. Id(S, p)' \in Int
    BY BasesPrimed DEF Continues
  <2>2. p <= Len(ring)
    BY <1>2, <1>4, <2>1 DEF NewIds
  <2>3. p \in Bases /\ Id(S, p)' = Id(S, p)
    BY <2>2, RunStays
  <2> QED
    BY <1>4, <2>3 DEF FilesOK
<1>5. ASSUME NEW p \in Bases' PROVE SeriesGood(files, S, p)'
  <2>1. CASE p <= Len(ring)
    <3>1. p \in Bases
      BY <2>1, RunStays
    <3>2. SeriesGood(files, S, p)
      BY <3>1 DEF FilesOK
    <3> QED
      BY <3>1, <3>2, SeriesStays
  <2>2. CASE \A f \in DOMAIN files : f[1] < Id(S, p)'
    BY <1>1, <2>2, NewSeriesGood
  <2> QED
    BY <2>1, <2>2 DEF NewIds
<1> QED
  BY <1>1, <1>3, <1>4, <1>5 DEF FilesOK

\* A processor follows, whatever comes later.
LEMMA FollowsStays ==
  ASSUME NEW S, Continues(S), NEW j \in Writers, NEW p, NEW q \in 0 .. Len(ring),
         Follows(j, S, p, q), NEW files, Begins(files, S, p)
  PROVE  Follows(j, S, p, q)' /\ Begins(files, S, p)'
<1>1. /\ ring \in Seq(Commands) /\ ring' \in Seq(Commands) /\ Len(ring) \in Nat
      /\ \A r \in Bases : r \in Bases' /\ Id(S, r)' = Id(S, r)
      /\ \A r \in Bases' : r <= Len(ring) => r \in Bases
      /\ \A i \in 1 .. Len(ring) : ring'[i] = ring[i]
  BY RunStays
<1>2. p \in Bases /\ p <= q /\ (\A r \in Bases : r <= q => r <= p) /\ p \in 0 .. Len(ring)
  BY DEF Follows, NewestBase, Bases
<1>3. \A r \in Bases' : r \in Nat
  BY DEF Bases
<1>4. NewestBase(p, q)'
  BY <1>1, <1>2, <1>3 DEF NewestBase
<1>5. Id(S, p)' = Id(S, p)
  BY <1>1, <1>2
<1>6. InSeries(j, S, p)'
  BY <1>5 DEF Follows, InSeries
<1>7. PICK records : /\ Reads(records, j.files, Id(S, p), j.filesCounter)
                     /\ ChainTo(records \o j.buffer, p, j.baseSeq, ring, q)
  BY DEF Follows, WroteTo
<1>8. InSeries(j, S, p) /\ RingOK(S)
  BY DEF Follows, Continues
<1>9. records \in Seq(Records) /\ j.buffer \in Seq(Records) /\ j.baseSeq \in Nat
  BY <1>2, <1>7, <1>8, SeriesOf
<1>10. PICK all \in Seq(Records) : all = records \o j.buffer
  BY <1>9, ConcatProperties
<1>11. Starts(ring, ring') /\ p \in Nat
  BY <1>2 DEF Continues
<1>12. ChainTo(all, p, j.baseSeq, ring, q)
  BY <1>7, <1>10
<1>13. ChainTo(all, p, j.baseSeq, ring', q)
  BY <1>1, <1>9, <1>11, <1>12, ChainLonger
<1>14. WroteTo(j, S, p, q)'
  <2>1. ChainTo(records \o j.buffer, p, j.baseSeq, ring', q)
    BY <1>10, <1>13
  <2>2. Reads(records, j.files, Id(S, p)', j.filesCounter)
    BY <1>5, <1>7
  <2> QED
    BY <2>1, <2>2 DEF WroteTo
<1>15. MatchingAt(q) => MatchingAt(q)'
  <2>1. Len(ring) <= Len(ring') /\ Len(ring') \in Nat
    BY RunStays
  <2> QED
    BY <1>1, <2>1 DEF MatchingAt
<1>16. Unclosed(j.files[j.file], j.buffer, q)'
  BY <1>15 DEF Follows, Unclosed
<1>17. ASSUME NEW r \in Bases', r < p
       PROVE  <<Id(S, r)', 1>> \in DOMAIN files /\ <<Id(S, p)', 1>> \in DOMAIN files
  <2>1. r \in Bases /\ Id(S, r)' = Id(S, r)
    BY <1>1, <1>2, <1>3, <1>17
  <2> QED
    BY <1>5, <1>17, <2>1 DEF Begins
<1>18. Begins(files, S, p)'
  BY <1>17 DEF Begins
<1> QED
  BY <1>4, <1>6, <1>14, <1>16, <1>18 DEF Follows

-----------------------------------------------------------------------------
(***************************************************************************)
(* More commands.                                                          *)
(***************************************************************************)

\* One command, or the two of the snapshot id.
IsMore(new, id) ==
  /\ new \in Seq(Commands)
  /\ \/ Len(new) = 1 /\ ~IsPersist(new[1])
     \/ /\ Len(new) = 2 /\ IsMatching(new[1]) /\ IsRisk(new[2])
        /\ new[1].orderId = id /\ new[2].orderId = id

\* A request submits that.
LEMMA SubmittedIsMore ==
  ASSUME NEW request \in Requests, NEW id \in 1 .. MaxRequests
  PROVE  /\ IsMore(Submitted(request, id), id)
         /\ \A i \in 1 .. Len(Submitted(request, id)) :
              Submitted(request, id)[i].command # "GROUPING_CONTROL"
<1>1. request \in {"PLACE_ORDER", "BINARY_DATA_COMMAND", "ORDER_BOOK_REQUEST",
                   "RESET", "SHUTDOWN_SIGNAL", "PERSIST_STATE"}
  BY RequestsKnown
<1>2. MaxRequests \in Nat
  BY JournalSizes
<1>3. ASSUME NEW name \in Names PROVE /\ Command(name, id) \in Commands
                                      /\ Command(name, id).command = name
                                      /\ Command(name, id).orderId = id
  BY <1>2 DEF Command, Commands
<1>4. CASE request = "PERSIST_STATE"
  <2>1. PICK a : a = Command("PERSIST_STATE_MATCHING", id)
    OBVIOUS
  <2>2. PICK b : b = Command("PERSIST_STATE_RISK", id)
    OBVIOUS
  <2>3. /\ a \in Commands /\ a.command = "PERSIST_STATE_MATCHING" /\ a.orderId = id
        /\ b \in Commands /\ b.command = "PERSIST_STATE_RISK" /\ b.orderId = id
    BY <1>3, <2>1, <2>2 DEF Names
  <2>4. Submitted(request, id) = <<a, b>>
    BY <1>4, <2>1, <2>2 DEF Submitted
  <2>5. <<a, b>> \in Seq(Commands) /\ Len(<<a, b>>) = 2 /\ <<a, b>>[1] = a /\ <<a, b>>[2] = b
    BY <2>3
  <2>6. IsMore(<<a, b>>, id)
    BY <2>3, <2>5 DEF IsMore, IsMatching, IsRisk
  <2>7. \A i \in 1 .. 2 : <<a, b>>[i].command # "GROUPING_CONTROL"
    BY <2>3, <2>5
  <2> QED
    BY <2>4, <2>5, <2>6, <2>7
<1>5. CASE request # "PERSIST_STATE"
  <2>1. PICK a : a = Command(request, id)
    OBVIOUS
  <2>2. request \in Names
    BY <1>5 DEF Names
  <2>3. a \in Commands /\ a.command = request
    BY <1>3, <2>1, <2>2
  <2>4. Submitted(request, id) = <<a>>
    BY <1>5, <2>1 DEF Submitted
  <2>5. <<a>> \in Seq(Commands) /\ Len(<<a>>) = 1 /\ <<a>>[1] = a
    BY <2>3
  <2>6. IsMore(<<a>>, id)
    BY <1>1, <1>5, <2>3, <2>5 DEF IsMore, IsPersist
  <2>7. \A i \in 1 .. 1 : <<a>>[i].command # "GROUPING_CONTROL"
    BY <1>1, <2>3, <2>5
  <2> QED
    BY <2>4, <2>5, <2>6, <2>7
<1> QED
  BY <1>4, <1>5

\* The ring stays one, and new bases have the new identity.
LEMMA RingGrows ==
  ASSUME NEW S, RingOK(S), requests \in Nat, requests' \in Nat, requests <= requests',
         NEW new, IsMore(new, requests + 1), Len(new) = 2 => requests' = requests + 1,
         requests' <= MaxRequests, ring' = ring \o new
  PROVE  /\ RingOK(S)' /\ Starts(ring, ring')
         /\ Len(ring') = Len(ring) + Len(new)
         /\ \A i \in 1 .. Len(new) : ring'[Len(ring) + i] = new[i]
         /\ \A p \in Bases' : p <= Len(ring) \/ Id(S, p)' = requests + 1
<1>1. ring \in Seq(Commands) /\ new \in Seq(Commands) /\ Len(ring) \in Nat /\ Len(new) \in {1, 2}
  BY DEF RingOK, IsMore
<1>2. /\ ring' \in Seq(Commands) /\ Len(ring') = Len(ring) + Len(new)
      /\ \A i \in 1 .. Len(ring') : ring'[i] = IF i <= Len(ring) THEN ring[i] ELSE new[i - Len(ring)]
  BY <1>1, ConcatProperties
<1>3. /\ \A i \in 1 .. Len(ring) : i \in 1 .. Len(ring') /\ ring'[i] = ring[i]
      /\ \A i \in 1 .. Len(new) : ring'[Len(ring) + i] = new[i]
  BY <1>1, <1>2
<1>4. Starts(ring, ring')
  BY <1>1, <1>2, <1>3 DEF Starts
<1>5. /\ ring'[Len(ring) + 1] = new[1]
      /\ Len(new) = 2 => ring'[Len(ring) + 2] = new[2]
  BY <1>1, <1>3
<1>6. ASSUME NEW i \in 1 .. Len(ring'), ~(i \in 1 .. Len(ring))
      PROVE  i = Len(ring) + 1 \/ (i = Len(ring) + 2 /\ Len(new) = 2)
  <2>1. Len(ring') = Len(ring) + Len(new)
    BY <1>2
  <2>2. Len(new) = 1 \/ Len(new) = 2
    BY <1>1
  <2>3. i \in Nat /\ i > Len(ring) /\ i <= Len(ring')
    BY <1>1, <1>6, <2>1, <2>2
  <2>4. PICK a \in Nat : a = Len(ring)
    BY <1>1
  <2>5. PICK b \in Nat : b = Len(new)
    BY <1>1
  <2>6. b = 1 \/ b = 2
    BY <2>2, <2>5
  <2>7. i \in Nat /\ i > a /\ i <= a + b
    BY <2>1, <2>3, <2>4, <2>5
  <2>8. i = a + 1 \/ (i = a + 2 /\ b = 2)
    BY <2>6, <2>7
  <2> QED
    BY <2>4, <2>5, <2>8
<1>7. /\ \A c : ~IsPersist(c) => ~IsMatching(c) /\ ~IsRisk(c)
      /\ \A c : ~(IsMatching(c) /\ IsRisk(c))
  BY DEF IsPersist, IsMatching, IsRisk
<1>8. \/ Len(new) = 1 /\ ~IsMatching(new[1]) /\ ~IsRisk(new[1])
      \/ /\ Len(new) = 2 /\ IsMatching(new[1]) /\ IsRisk(new[2])
         /\ new[1].orderId = requests + 1 /\ new[2].orderId = requests + 1
         /\ ~IsRisk(new[1]) /\ ~IsMatching(new[2])
  BY <1>7 DEF IsMore
<1>9. ASSUME NEW i \in 1 .. Len(ring'), IsMatching(ring'[i])
      PROVE  /\ i + 1 <= Len(ring') /\ IsRisk(ring'[i + 1])
             /\ ring'[i].orderId = ring'[i + 1].orderId
  <2>1. CASE i \in 1 .. Len(ring)
    <3>1. i + 1 <= Len(ring) /\ IsRisk(ring[i + 1]) /\ ring[i].orderId = ring[i + 1].orderId
      BY <1>3, <1>9, <2>1 DEF RingOK
    <3>2. ring'[i + 1] = ring[i + 1] /\ ring'[i] = ring[i]
      BY <1>3, <2>1, <3>1
    <3> QED
      BY <1>1, <1>2, <3>1, <3>2
  <2>2. CASE ~(i \in 1 .. Len(ring))
    <3>1. Len(new) = 2 /\ i = Len(ring) + 1
      BY <1>1, <1>5, <1>6, <1>8, <1>9, <2>2
    <3> QED
      BY <1>1, <1>2, <1>5, <1>8, <3>1
  <2> QED
    BY <2>1, <2>2
<1>10. ASSUME NEW i \in 1 .. Len(ring'), IsRisk(ring'[i])
       PROVE  1 < i /\ IsMatching(ring'[i - 1])
  <2>1. CASE i \in 1 .. Len(ring)
    <3>1. 1 < i /\ IsMatching(ring[i - 1])
      BY <1>3, <1>10, <2>1 DEF RingOK
    <3>2. ring'[i - 1] = ring[i - 1]
      BY <1>3, <2>1, <3>1
    <3> QED
      BY <3>1, <3>2
  <2>2. CASE ~(i \in 1 .. Len(ring))
    <3>1. Len(new) = 2 /\ i = Len(ring) + 2
      BY <1>1, <1>5, <1>6, <1>8, <1>10, <2>2
    <3> QED
      BY <1>1, <1>2, <1>5, <1>8, <3>1
  <2> QED
    BY <2>1, <2>2
<1>11. ASSUME NEW p \in Bases'
       PROVE  \/ p \in Bases /\ Id(S, p)' = Id(S, p) /\ p <= Len(ring)
              \/ p = Len(ring) + 2 /\ Id(S, p)' = requests + 1 /\ Len(new) = 2
  <2>1. p = 0 \/ (p \in 1 .. Len(ring') /\ IsRisk(ring'[p]))
    BY DEF Bases
  <2>2. CASE p = 0
    BY <1>1, <2>2 DEF Bases, Id
  <2>3. CASE p \in 1 .. Len(ring)
    <3>1. ring'[p] = ring[p]
      BY <1>3, <2>3
    <3> QED
      BY <2>1, <2>3, <3>1 DEF Bases, Id
  <2>4. CASE p \in 1 .. Len(ring') /\ ~(p \in 1 .. Len(ring)) /\ IsRisk(ring'[p])
    <3>1. Len(new) = 2 /\ p = Len(ring) + 2
      BY <1>1, <1>5, <1>6, <1>8, <2>4
    <3> QED
      <4>1. p # 0 /\ ring'[p] = new[2] /\ new[2].orderId = requests + 1
        <5>1. ring'[Len(ring) + 2] = new[2]
          BY <1>5, <3>1
        <5>2. new[2].orderId = requests + 1
          BY <1>8, <3>1
        <5> QED
          BY <1>1, <3>1, <5>1, <5>2
      <4> QED
        BY <3>1, <4>1 DEF Id
  <2> QED
    BY <2>1, <2>2, <2>3, <2>4
<1>12. \A p \in Bases : p <= Len(ring) /\ p \in Nat /\ Id(S, p) \in Int /\ Id(S, p) <= requests
  <2>1. \A p \in Bases : Id(S, p) <= requests
    BY DEF RingOK
  <2>2. \A p \in Bases : p \in 0 .. Len(ring) /\ p \in Nat /\ Id(S, p) \in 0 .. MaxRequests
    BY BasesAre
  <2> QED
    BY <1>1, <2>1, <2>2
<1>13. \A p, r \in Bases' : p < r => Id(S, p)' < Id(S, r)'
  <2>1. \A p, r \in Bases : p < r => Id(S, p) < Id(S, r)
    BY DEF RingOK
  <2> QED
    BY <1>1, <1>11, <1>12, <2>1
<1>14. \A p \in Bases' : Id(S, p)' <= requests'
  BY <1>11, <1>12
<1>15. S \in 0 .. MaxRequests /\ 1 <= Len(ring) /\ ring[1].command = "GROUPING_CONTROL"
  BY DEF RingOK
<1>16. 1 <= Len(ring') /\ ring'[1].command = "GROUPING_CONTROL"
  BY <1>1, <1>2, <1>3, <1>15
<1>17. RingOK(S)'
  BY <1>2, <1>9, <1>10, <1>13, <1>14, <1>15, <1>16 DEF RingOK
<1> QED
  BY <1>2, <1>3, <1>4, <1>11, <1>17

\* Without new commands it stays one, too.
LEMMA RingStays ==
  ASSUME NEW S, RingOK(S), ring' = ring, requests' = requests
  PROVE  RingOK(S)' /\ Starts(ring, ring') /\ Bases' = Bases /\ \A p \in Bases : p <= Len(ring)
<1>1. Bases' = Bases
  BY DEF Bases
<1>2. \A p \in Bases : Id(S, p)' = Id(S, p)
  BY DEF Id
<1>3. RingOK(S)'
  BY <1>1, <1>2 DEF RingOK
<1>4. Starts(ring, ring')
  BY DEF Starts, RingOK
<1>5. \A p \in Bases : p <= Len(ring)
  BY BasesAre
<1> QED
  BY <1>1, <1>3, <1>4, <1>5

\* Snapshots that are there stay what they were.
LEMMA SnapshotsStay ==
  ASSUME NEW S, Continues(S), SnapshotsOK(S), disk'.snapshots = disk.snapshots,
         NewIds(disk.snapshots, S), disk.snapshots \in SnapshotSets,
         applied \in Int, applied' \in Int,
         phase' = "crashed" \/ (phase # "crashed" /\ applied <= applied')
  PROVE  SnapshotsOK(S)'
<1>1. /\ Len(ring) \in Nat
      /\ \A p \in Bases : p \in Bases' /\ Id(S, p)' = Id(S, p)
      /\ \A p \in Bases' : p <= Len(ring) => p \in Bases
      /\ \A n \in 0 .. Len(ring) : StateOfRun(n)' = StateOfRun(n)
  BY RunStays
<1>2. \A f \in DOMAIN disk.snapshots : f[1] \in Int
  <2>1. DOMAIN disk.snapshots \subseteq (1 .. MaxRequests) \X Processors
    BY DEF SnapshotSets
  <2> QED
    BY <2>1
<1>3. \A f \in DOMAIN disk'.snapshots : f[1] <= requests'
  BY <1>2 DEF SnapshotsOK, Continues
<1>4. \A id : Complete(id)' <=> Complete(id)
  BY DEF Complete
<1>5. S = 0 \/ Complete(S)'
  BY <1>4 DEF SnapshotsOK
<1>6. loaded' = LoadData(S)'
  BY DEF SnapshotsOK, LoadData, Continues
<1>7. ASSUME NEW id \in 1 .. MaxRequests, Complete(id)'
      PROVE  id <= S \/ \E p \in Bases' \ {0} : id = Id(S, p)'
  <2>1. id <= S \/ \E p \in Bases \ {0} : id = Id(S, p)
    BY <1>4, <1>7 DEF SnapshotsOK
  <2> QED
    BY <1>1, <2>1
<1>8. ASSUME NEW p \in Bases' \ {0}, <<Id(S, p)', "RISK_ENGINE">> \in DOMAIN disk'.snapshots
      PROVE  /\ disk'.snapshots[<<Id(S, p)', "RISK_ENGINE">>] = [seq |-> p - 1, state |-> StateOfRun(p)']
             /\ phase' # "crashed" => p <= applied' + 1
  <2>1. p <= Len(ring)
    <3>1. p <= Len(ring) \/ \A f \in DOMAIN disk.snapshots : f[1] < Id(S, p)'
      BY DEF NewIds
    <3>2. <<Id(S, p)', "RISK_ENGINE">>[1] = Id(S, p)'
      OBVIOUS
    <3>3. Id(S, p)' \in Int
      BY BasesPrimed DEF Continues
    <3> QED
      BY <1>8, <3>1, <3>2, <3>3
  <2>2. p \in Bases \ {0} /\ Id(S, p)' = Id(S, p)
    BY <1>1, <2>1
  <2>3. p \in 0 .. Len(ring) /\ p \in Nat
    BY <2>1, <2>2 DEF Bases
  <2>4. StateOfRun(p)' = StateOfRun(p)
    BY <1>1, <2>3
  <2>5. /\ disk.snapshots[<<Id(S, p), "RISK_ENGINE">>] = [seq |-> p - 1, state |-> StateOfRun(p)]
        /\ phase # "crashed" => p <= applied + 1
    BY <1>8, <2>2 DEF SnapshotsOK
  <2> QED
    BY <2>2, <2>3, <2>4, <2>5
<1> QED
  BY <1>3, <1>5, <1>6, <1>7, <1>8 DEF SnapshotsOK

\* Where FirstRequest and J are.
LEMMA Positions ==
  ASSUME TypeInv, Progress, NEW S, RingOK(S)
  PROVE  /\ Len(ring) \in Nat
         /\ jNext \in 0 .. Len(ring)
         /\ FirstRequest = FirstOf(ring) /\ FirstRequest \in 2 .. Len(ring) + 1
<1>1. ring \in Seq(Commands) /\ Len(ring) >= 1 /\ ring[1].command = "GROUPING_CONTROL" /\ Len(ring) \in Nat
  BY DEF RingOK
<1>2. FirstRequest = FirstOf(ring)
  BY DEF FirstRequest, FirstOf
<1>3. FirstOf(ring) \in 2 .. Len(ring) + 1
  BY <1>1, FirstExists
<1>4. jNext \in 0 .. Len(ring)
  BY <1>1 DEF TypeInv, Progress
<1> QED
  BY <1>1, <1>2, <1>3, <1>4

\* The processor and its files stay what they are.
Rests ==
  /\ journal' = journal /\ disk'.files = disk.files
  /\ jNext' = jNext /\ jEnd' = jEnd /\ jSequence' = jSequence
  /\ phase' = phase /\ phase # "crashed"
  /\ phase = "startup" => ring' = ring
  /\ FirstRequest' = FirstRequest

\* Frozen it stays frozen.
LEMMA FrozenStays ==
  ASSUME TypeInv, Progress, NEW S, Continues(S), NewIds(disk.files, S), Rests, Frozen(S)
  PROVE  Frozen(S)'
<1>1. /\ Len(ring) \in Nat /\ Len(ring') \in Nat /\ Len(ring) <= Len(ring')
      /\ \A i \in 1 .. Len(ring) : ring'[i] = ring[i]
      /\ \A p \in Bases : p \in Bases' /\ Id(S, p)' = Id(S, p)
      /\ \A p \in Bases' : p <= Len(ring) => p \in Bases
      /\ \A n \in 0 .. Len(ring) : StateOfRun(n)' = StateOfRun(n)
  BY RunStays
<1>2. jNext \in 0 .. Len(ring) /\ FirstRequest \in 2 .. Len(ring) + 1
  BY Positions DEF Continues
<1>3. \A i \in 1 .. Len(ring) : Due(i)' <=> Due(i)
  BY <1>1 DEF Rests, Due, Journaled
<1>4. Unwritten(journal, S)' /\ (journal'.filesCounter = 0 \/ journal'.failed)
  BY DEF Frozen, Rests, Unwritten
<1>5. \A p \in Bases' \ {0} : \A f \in DOMAIN disk'.files : f[1] < Id(S, p)'
  <2>1. ASSUME NEW p \in Bases' \ {0}, NEW f \in DOMAIN disk.files PROVE f[1] < Id(S, p)'
    <3>1. p <= Len(ring) \/ f[1] < Id(S, p)'
      BY DEF NewIds
    <3>2. CASE p <= Len(ring)
      <4>1. p \in Bases \ {0} /\ Id(S, p)' = Id(S, p)
        BY <1>1, <3>2
      <4> QED
        BY <4>1 DEF Frozen
    <3> QED
      BY <3>1, <3>2
  <2> QED
    BY <2>1 DEF Rests
<1>6. ASSUME NEW i \in 1 .. Len(ring'), i <= jNext' \/ i < FirstRequest' PROVE ~Due(i)'
  <2>1. i \in 1 .. Len(ring) /\ (i <= jNext \/ i < FirstRequest)
    BY <1>1, <1>2, <1>6 DEF Rests
  <2> QED
    BY <1>3, <2>1 DEF Frozen
<1>7. journal'.failed => jNext' + 1 <= Len(ring') /\ Due(jNext + 1)'
  <2>1. PICK n : n = jNext + 1
    OBVIOUS
  <2>2. ASSUME journal'.failed PROVE n \in 1 .. Len(ring) /\ Due(n)
    <3>1. journal.failed /\ jNext \in Nat
      BY <2>2 DEF Rests, TypeInv
    <3>2. jNext + 1 <= Len(ring) /\ Due(jNext + 1)
      BY <3>1 DEF Frozen
    <3> QED
      BY <1>1, <2>1, <3>1, <3>2
  <2>3. ASSUME journal'.failed PROVE n <= Len(ring') /\ Due(n)'
    BY <1>1, <1>3, <2>2, <2>3
  <2>4. n = jNext' + 1
    BY <2>1 DEF Rests
  <2>5. Due(n)' => Due(jNext + 1)'
    BY <2>4 DEF Due
  <2> QED
    BY <2>3, <2>4, <2>5
<1>8. Replays(S)'
  <2>1. PICK records, k :
          /\ k \in Nat
          /\ Reads(records, disk.files, S, k)
          /\ phase = "startup" => Len(ring) <= Len(records) + 1
          /\ NoBinary =>
               Recovers(records, 0, IF phase = "startup" THEN Len(ring) ELSE FirstRequest - 1)
    BY DEF Frozen, Replays
  <2>2. PICK n \in 0 .. Len(ring) : n = IF phase = "startup" THEN Len(ring) ELSE FirstRequest - 1
    BY <1>1, <1>2
  <2>3. n = IF phase' = "startup" THEN Len(ring') ELSE FirstRequest' - 1
    BY <2>2 DEF Rests
  <2>4. NoBinary => Recovers(records, 0, n)
    BY <2>1, <2>2
  <2>5. 0 \in 0 .. Len(ring)
    BY <1>1
  <2>6. NoBinary => Recovers(records, 0, n)'
    BY <1>1, <2>4, <2>5 DEF Recovers
  <2>7. phase' = "startup" => Len(ring') <= Len(records) + 1
    BY <2>1 DEF Rests
  <2>8. NoBinary => Recovers(records, 0, IF phase = "startup" THEN Len(ring) ELSE FirstRequest - 1)'
    BY <2>3, <2>6 DEF Recovers
  <2>9. Reads(records, disk'.files, S, k)
    BY <2>1 DEF Rests
  <2> QED
    BY <2>1, <2>7, <2>8, <2>9 DEF Replays
<1>9. <<S, 1>> \in DOMAIN disk'.files
  BY DEF Frozen, Rests
<1> QED
  BY <1>4, <1>5, <1>6, <1>7, <1>8, <1>9 DEF Frozen

\* Writing it stays that.
LEMMA LiveStays ==
  ASSUME TypeInv, Progress, NEW S, Continues(S), Rests, Live(S)
  PROVE  Live(S)'
<1>1. /\ Len(ring) \in Nat
      /\ \A i \in 1 .. Len(ring) : ring'[i] = ring[i]
  BY RunStays
<1>2. jNext \in 0 .. Len(ring) /\ FirstRequest \in 2 .. Len(ring) + 1
  BY Positions DEF Continues
<1>3. \A i \in 1 .. FirstRequest' - 1 : ~IsMutate(ring'[i])
  <2>1. ASSUME NEW i \in 1 .. FirstRequest - 1 PROVE ~IsMutate(ring'[i])
    <3>1. i \in 1 .. Len(ring)
      BY <1>1, <1>2
    <3> QED
      BY <1>1, <3>1 DEF Live
  <2> QED
    BY <2>1 DEF Rests
<1>4. CASE Waits(S)
  <2>1. \A i \in 1 .. jNext : ~IsMutate(ring'[i])
    <3>1. \A i \in 1 .. jNext : i \in 1 .. Len(ring)
      BY <1>1, <1>2
    <3> QED
      BY <1>1, <1>4, <3>1 DEF Waits
  <2>2. Waits(S)'
    BY <1>4, <2>1 DEF Waits, Rests, Unwritten
  <2> QED
    BY <1>3, <2>2 DEF Live, Rests
<1>5. CASE Writes(S)
  <2>1. PICK p : Follows(Processor, S, p, jNext) /\ Begins(disk.files, S, p)
    BY <1>5 DEF Writes
  <2>2. Processor \in Writers
    BY ProcessorIs
  <2>3. PICK j \in Writers : j = Processor
    BY <2>2
  <2>4. Processor' = Processor
    BY DEF Processor, Rests
  <2>5. Follows(j, S, p, jNext)
    BY <2>1, <2>3
  <2>6. PICK q \in 0 .. Len(ring) : q = jNext
    BY <1>2
  <2>7. Follows(j, S, p, q)
    BY <2>5, <2>6
  <2>8. PICK files : files = disk.files
    OBVIOUS
  <2>9. Begins(files, S, p)
    BY <2>1, <2>8
  <2>10. Follows(j, S, p, q)' /\ Begins(files, S, p)'
    BY <2>7, <2>9, FollowsStays
  <2>11. Follows(Processor, S, p, jNext)' /\ Begins(disk.files, S, p)'
    BY <2>3, <2>4, <2>6, <2>8, <2>10 DEF Rests
  <2>12. jNext' > 0 /\ ring'[jNext'].command = "SHUTDOWN_SIGNAL" => journal'.buffer = <<>>
    <3>1. jNext > 0 => jNext \in 1 .. Len(ring)
      BY <1>1, <1>2
    <3> QED
      BY <1>1, <1>5, <3>1 DEF Writes, Rests
  <2>13. Writes(S)'
    BY <2>11, <2>12 DEF Writes
  <2> QED
    BY <1>3, <2>13 DEF Live, Rests
<1> QED
  BY <1>4, <1>5 DEF Live

\* The memory stays right.
LEMMA MemoryStays ==
  ASSUME TypeInv, Progress, NEW S, MemoryOK(S), Continues(S), NewIds(disk.files, S), Rests
  PROVE  MemoryOK(S)'
<1>1. Floor(S, 0)' = Floor(S, 0)
  BY DEF Continues
<1>2. phase' = "startup" => journal' = NewProcessor(S, Floor(S, 0)')
  BY <1>1 DEF Rests, MemoryOK
<1>3. journal'.baseSeq = Floor(S, 0)' /\ (Frozen(S) \/ Live(S))
  BY <1>1 DEF Rests, MemoryOK
<1>4. Frozen(S)' \/ Live(S)'
  BY <1>3, FrozenStays, LiveStays
<1>5. Len(journal'.buffer) <= JournalBufferSize /\ phase' # "crashed"
  BY DEF Rests, MemoryOK
<1> QED
  BY <1>2, <1>3, <1>4, <1>5 DEF MemoryOK

-----------------------------------------------------------------------------
(***************************************************************************)
(* The steps.                                                              *)
(***************************************************************************)

\* New identities are above those of all files and snapshots.
LEMMA NewIdsAbove ==
  ASSUME TypeInv, NEW S, RunOK(S),
         \A p \in Bases' : p <= Len(ring) \/ Id(S, p)' = requests + 1
  PROVE  NewIds(disk.files, S) /\ NewIds(disk.snapshots, S)
<1>1. requests \in Nat
  BY DEF TypeInv
<1>2. \A f \in DOMAIN disk.files : f[1] \in Int /\ f[1] <= requests
  <2>1. DOMAIN disk.files \subseteq FileNames
    BY FilesAreFiles DEF TypeInv, IsFiles
  <2>2. \A f \in DOMAIN disk.files : f[1] <= requests
    BY DEF RunOK, FilesOK
  <2> QED
    BY <2>1, <2>2 DEF FileNames
<1>3. \A f \in DOMAIN disk.snapshots : f[1] \in Int /\ f[1] <= requests
  <2>1. DOMAIN disk.snapshots \subseteq (1 .. MaxRequests) \X Processors
    BY DEF TypeInv, SnapshotSets
  <2>2. \A f \in DOMAIN disk.snapshots : f[1] <= requests
    BY DEF RunOK, SnapshotsOK
  <2> QED
    BY <2>1, <2>2
<1> QED
  BY <1>1, <1>2, <1>3 DEF NewIds

\* A request.
LEMMA SubmitKeeps ==
  ASSUME TypeInv, Progress, NEW S, RunOK(S), NEW request \in Requests, Submit(request)
  PROVE  TypeInv' /\ Progress' /\ RunOK(S)'
<1>1. /\ phase = "running" /\ requests' = requests + 1 /\ requests' \in 1 .. MaxRequests
      /\ ring' = ring \o Submitted(request, requests + 1)
      /\ disk' = disk /\ journal' = journal /\ loaded' = loaded /\ jNext' = jNext
      /\ jEnd' = jEnd /\ jSequence' = jSequence /\ applied' = applied /\ phase' = phase
      /\ restarts' = restarts /\ logged' = logged
  BY JournalSizes DEF Submit, TypeInv
<1>2. PICK id \in 1 .. MaxRequests : id = requests + 1
  BY <1>1
<1>3. PICK new : new = Submitted(request, id)
  OBVIOUS
<1>4. IsMore(new, id) /\ \A i \in 1 .. Len(new) : new[i].command # "GROUPING_CONTROL"
  BY <1>3, SubmittedIsMore
<1>5. /\ RingOK(S) /\ requests \in Nat /\ requests' \in Nat /\ requests <= requests'
      /\ IsMore(new, requests + 1) /\ (Len(new) = 2 => requests' = requests + 1)
      /\ requests' <= MaxRequests /\ ring' = ring \o new
  BY <1>1, <1>2, <1>3, <1>4, JournalSizes DEF RunOK, TypeInv
<1>6. /\ RingOK(S)' /\ Starts(ring, ring')
      /\ Len(ring') = Len(ring) + Len(new)
      /\ \A i \in 1 .. Len(new) : ring'[Len(ring) + i] = new[i]
      /\ \A p \in Bases' : p <= Len(ring) \/ Id(S, p)' = requests + 1
  BY <1>5, RingGrows
<1>7. Floor(S, 0)' = Floor(S, 0)
  BY <1>1 DEF Floor
<1>8. Continues(S)
  BY <1>1, <1>5, <1>6, <1>7 DEF Continues, TypeInv
<1>9. NewIds(disk.files, S) /\ NewIds(disk.snapshots, S)
  BY <1>6, NewIdsAbove
<1>10. /\ ring \in Seq(Commands) /\ ring' \in Seq(Commands) /\ Len(ring) \in Nat /\ Len(ring) >= 1
       /\ ring[1].command = "GROUPING_CONTROL" /\ Len(new) \in Nat
  BY <1>4, <1>5, <1>6 DEF RingOK, IsMore
<1>11. FirstRequest' = FirstRequest
  <2>1. ASSUME NEW i \in Len(ring) + 1 .. Len(ring') PROVE ring'[i].command # "GROUPING_CONTROL"
    <3>1. PICK l \in 1 .. Len(new) : i = Len(ring) + l
      <4>1. i - Len(ring) \in 1 .. Len(new) /\ i = Len(ring) + (i - Len(ring))
        BY <1>6, <1>10
      <4> QED
        BY <4>1
    <3> QED
      BY <1>4, <1>6, <3>1
  <2>2. FirstOf(ring') = FirstOf(ring)
    BY <1>6, <1>10, <2>1, FirstStays
  <2> QED
    BY <2>2 DEF FirstRequest, FirstOf
<1>12. TypeInv'
  BY <1>1, <1>5 DEF TypeInv
<1>13. Progress'
  BY <1>1, <1>6, <1>10 DEF Progress, TypeInv
<1>14. StartOK'
  <2>1. /\ \A i \in 1 .. Len(ring) : ring'[i] = ring[i]
        /\ FirstRequest \in 2 .. Len(ring) + 1
    BY <1>5, <1>8, RunStays, Positions
  <2>2. ASSUME NEW i \in 1 .. Len(ring'), i < FirstRequest
        PROVE  ~IsPersist(ring'[i]) /\ ring'[i].command # "SHUTDOWN_SIGNAL"
    <3>1. i \in 1 .. Len(ring)
      BY <1>10, <2>1, <2>2
    <3> QED
      BY <2>1, <2>2, <3>1 DEF RunOK, StartOK
  <2> QED
    BY <1>1, <1>11, <2>2 DEF StartOK
<1>15. FilesOK(disk.files, S)'
  <2>1. PICK files : files = disk.files
    OBVIOUS
  <2>2. FilesOK(files, S) /\ NewIds(files, S)
    BY <1>9, <2>1 DEF RunOK
  <2>3. FilesOK(files, S)'
    BY <1>8, <2>2, FilesStay
  <2>4. files = disk'.files
    BY <1>1, <2>1
  <2> QED
    BY <2>3, <2>4
<1>16. SnapshotsOK(S)'
  <2>1. SnapshotsOK(S) /\ disk'.snapshots = disk.snapshots /\ disk.snapshots \in SnapshotSets
    BY <1>1 DEF RunOK, TypeInv
  <2>2. applied \in Int /\ applied' \in Int /\ phase # "crashed" /\ applied <= applied'
    BY <1>1 DEF TypeInv
  <2> QED
    BY <1>8, <1>9, <2>1, <2>2, SnapshotsStay
<1>17. MemoryOK(S)'
  <2>1. Rests
    BY <1>1, <1>11 DEF Rests
  <2> QED
    BY <1>8, <1>9, <2>1, MemoryStays DEF RunOK
<1> QED
  BY <1>6, <1>12, <1>13, <1>14, <1>15, <1>16, <1>17 DEF RunOK

\* The run goes on with the same commands.
LEMMA SameRunContinues ==
  ASSUME TypeInv, NEW S, RunOK(S), ring' = ring, loaded' = loaded, requests' = requests,
         Floor(S, 0)' = Floor(S, 0)
  PROVE  /\ Continues(S) /\ FirstRequest' = FirstRequest
         /\ \A files : NewIds(files, S)
<1>1. RingOK(S)' /\ Starts(ring, ring') /\ Bases' = Bases /\ \A p \in Bases : p <= Len(ring)
  BY RingStays DEF RunOK
<1>2. requests \in Nat /\ requests <= requests
  BY JournalSizes DEF TypeInv
<1>3. Continues(S)
  BY <1>1, <1>2 DEF Continues, RunOK, TypeInv
<1>4. FirstRequest' = FirstRequest
  BY DEF FirstRequest
<1> QED
  BY <1>1, <1>3, <1>4 DEF NewIds

\* The engines store a part of the snapshot of p, which the risk engine reaches with
\* the command at p.
Stores(S, p, processor, content) ==
  /\ p \in Bases \ {0}
  /\ processor \in Processors
  /\ content \in [seq : Nat, state : States]
  /\ disk' = [disk EXCEPT !.snapshots = Put(disk.snapshots, <<Id(S, p), processor>>, content)]
  /\ processor = "RISK_ENGINE" =>
       p = applied' + 1 /\ content = [seq |-> p - 1, state |-> StateOfRun(p)]

\* They do, or the disk stays as it is.
LEMMA ApplyStores ==
  ASSUME TypeInv, Progress, NEW S, RunOK(S), Apply
  PROVE  disk' = disk \/ \E p, processor, content : Stores(S, p, processor, content)
<1>1. ring \in Seq(Commands) /\ Len(ring) \in Nat /\ loaded \in States
  BY DEF RunOK, RingOK, TypeInv
<1>2. applied' = applied + 1 /\ applied' \in Nat /\ applied' + 1 \in 1 .. Len(ring)
  BY <1>1 DEF Apply, Progress, TypeInv
<1>3. PICK i \in 1 .. Len(ring) : i = applied' + 1
  BY <1>2
<1>4. PICK c : c = ring[i]
  OBVIOUS
<1>5. StateOfRun(i) \in States
  BY <1>1, StatesOfRun
<1>6. PICK content : content = [seq |-> applied', state |-> StateOfRun(i)]
  OBVIOUS
<1>7. /\ content \in [seq : Nat, state : States]
      /\ content = [seq |-> i - 1, state |-> StateOfRun(i)]
  BY <1>2, <1>3, <1>5, <1>6
<1>8. ASSUME NEW processor, StoreData(c, applied', processor)
      PROVE  \/ disk' = disk
             \/ disk' = [disk EXCEPT !.snapshots = Put(disk.snapshots, <<c.orderId, processor>>, content)]
  <2>1. StateAfter(loaded, SubSeq(ring, 1, applied' + 1)) = StateOfRun(i)
    BY <1>3 DEF StateOfRun
  <2> QED
    BY <1>6, <1>8, <2>1 DEF StoreData
<1>9. CASE IsMatching(c)
  <2>1. StoreData(c, applied', "MATCHING_ENGINE_ROUTER")
    BY <1>3, <1>4, <1>9 DEF Apply, IsMatching
  <2>2. /\ i + 1 <= Len(ring) /\ IsRisk(ring[i + 1])
        /\ ring[i].orderId = ring[i + 1].orderId
    BY <1>4, <1>9 DEF RunOK, RingOK
  <2>3. PICK p : p = i + 1
    OBVIOUS
  <2>4. p \in Bases \ {0}
    BY <1>1, <2>2, <2>3 DEF Bases
  <2>5. Id(S, p) = c.orderId
    BY <1>4, <2>2, <2>3, <2>4 DEF Id
  <2>6. disk' = disk \/ Stores(S, p, "MATCHING_ENGINE_ROUTER", content)
    <3>1. "MATCHING_ENGINE_ROUTER" \in Processors /\ "MATCHING_ENGINE_ROUTER" # "RISK_ENGINE"
      BY DEF Processors
    <3>2. \/ disk' = disk
          \/ disk' = [disk EXCEPT !.snapshots =
                        Put(disk.snapshots, <<c.orderId, "MATCHING_ENGINE_ROUTER">>, content)]
      BY <1>8, <2>1
    <3>3. CASE disk' # disk
      <4>1. disk' = [disk EXCEPT !.snapshots =
                       Put(disk.snapshots, <<Id(S, p), "MATCHING_ENGINE_ROUTER">>, content)]
        BY <2>5, <3>2, <3>3
      <4> QED
        BY <1>7, <2>4, <3>1, <4>1 DEF Stores
    <3> QED
      BY <3>3
  <2> QED
    BY <2>6
<1>10. CASE IsRisk(c)
  <2>1. StoreData(c, applied', "RISK_ENGINE")
    BY <1>3, <1>4, <1>10 DEF Apply, IsRisk
  <2>2. i \in Bases \ {0} /\ Id(S, i) = c.orderId
    BY <1>4, <1>10 DEF Bases, Id
  <2>3. disk' = disk \/ Stores(S, i, "RISK_ENGINE", content)
    <3>1. "RISK_ENGINE" \in Processors
      BY DEF Processors
    <3>2. \/ disk' = disk
          \/ disk' = [disk EXCEPT !.snapshots =
                        Put(disk.snapshots, <<c.orderId, "RISK_ENGINE">>, content)]
      BY <1>8, <2>1
    <3>3. CASE disk' # disk
      <4>1. disk' = [disk EXCEPT !.snapshots =
                       Put(disk.snapshots, <<Id(S, i), "RISK_ENGINE">>, content)]
        BY <2>2, <3>2, <3>3
      <4> QED
        BY <1>3, <1>7, <2>2, <3>1, <4>1 DEF Stores
    <3> QED
      BY <3>3
  <2> QED
    BY <2>3
<1>11. CASE ~IsMatching(c) /\ ~IsRisk(c)
  BY <1>3, <1>4, <1>11 DEF Apply, IsMatching, IsRisk
<1> QED
  BY <1>9, <1>10, <1>11

\* A part stored is new and right.
LEMMA StoredRight ==
  ASSUME TypeInv, Progress, NEW S, RunOK(S), ring' = ring, loaded' = loaded, requests' = requests,
         applied' = applied + 1, phase' = phase, phase # "crashed",
         NEW p, NEW processor, NEW content, Stores(S, p, processor, content)
  PROVE  /\ disk' \in [files : FileSets, snapshots : SnapshotSets]
         /\ disk'.files = disk.files
         /\ S # 0 => disk'.snapshots[<<S, "RISK_ENGINE">>] = disk.snapshots[<<S, "RISK_ENGINE">>]
         /\ SnapshotsOK(S)'
<1> DEFINE snaps == disk.snapshots
           key == <<Id(S, p), processor>>
<1>1. /\ disk \in [files : FileSets, snapshots : SnapshotSets]
      /\ p \in Bases \ {0} /\ processor \in Processors
      /\ content \in [seq : Nat, state : States]
      /\ disk' = [disk EXCEPT !.snapshots = Put(snaps, key, content)]
  BY DEF Stores, TypeInv
<1>2. RingOK(S) /\ SnapshotsOK(S) /\ S \in 0 .. MaxRequests /\ requests \in 0 .. MaxRequests /\ MaxRequests \in Nat
  BY JournalSizes DEF RunOK, RingOK, TypeInv
<1>3. Id(S, p) \in 0 .. MaxRequests /\ 0 \in Bases /\ Id(S, 0) = S /\ p \in Nat /\ p # 0
  BY <1>1, <1>2, BasesAre DEF Bases, Id
<1>4. S < Id(S, p) /\ Id(S, p) <= requests
  BY <1>1, <1>2, <1>3 DEF RingOK
<1>5. Id(S, p) \in 1 .. MaxRequests
  BY <1>2, <1>3, <1>4
<1>6. key \in (1 .. MaxRequests) \X Processors
  BY <1>1, <1>5
<1>7. disk'.files = disk.files /\ disk'.snapshots = Put(snaps, key, content)
  BY <1>1
<1>8. /\ DOMAIN snaps \in SUBSET ((1 .. MaxRequests) \X Processors)
      /\ \A f \in DOMAIN snaps : snaps[f] \in [seq : Nat, state : States]
  BY <1>1 DEF SnapshotSets
<1>9. /\ DOMAIN disk'.snapshots = DOMAIN snaps \cup {key}
      /\ disk'.snapshots[key] = content
      /\ \A f \in DOMAIN snaps : f # key => disk'.snapshots[f] = snaps[f]
  BY <1>7 DEF Put
<1>10. disk'.snapshots \in [DOMAIN snaps \cup {key} -> [seq : Nat, state : States]]
  BY <1>1, <1>7, <1>8 DEF Put
<1>11. disk'.snapshots \in SnapshotSets
  <2>1. PICK D \in SUBSET ((1 .. MaxRequests) \X Processors) : D = DOMAIN snaps \cup {key}
    BY <1>6, <1>8
  <2> QED
    BY <1>10, <2>1 DEF SnapshotSets
<1>12. disk' \in [files : FileSets, snapshots : SnapshotSets]
  BY <1>1, <1>7, <1>11
<1>13. ASSUME NEW id, NEW pr PROVE /\ <<id, pr>> = key <=> id = Id(S, p) /\ pr = processor
  OBVIOUS
<1>14. \A pr : <<S, pr>> # key
  BY <1>2, <1>3, <1>4, <1>13
<1> HIDE DEF snaps, key
<1>15. S # 0 => /\ <<S, "RISK_ENGINE">> \in DOMAIN snaps
                /\ disk'.snapshots[<<S, "RISK_ENGINE">>] = snaps[<<S, "RISK_ENGINE">>]
  <2>1. "RISK_ENGINE" \in Processors
    BY DEF Processors
  <2>2. S # 0 => <<S, "RISK_ENGINE">> \in DOMAIN snaps
    BY <1>2, <2>1 DEF SnapshotsOK, Complete, snaps
  <2> QED
    BY <1>9, <1>14, <2>2
<1>16. \A f \in DOMAIN disk'.snapshots : f[1] <= requests'
  <2>1. key[1] = Id(S, p)
    BY DEF key
  <2>2. \A f \in DOMAIN snaps : f[1] <= requests
    BY <1>2 DEF SnapshotsOK, snaps
  <2> QED
    BY <1>4, <1>9, <2>1, <2>2
<1>17. S = 0 \/ Complete(S)'
  BY <1>2, <1>9 DEF SnapshotsOK, Complete, snaps
<1>18. loaded' = LoadData(S)'
  <2>1. loaded = LoadData(S)
    BY <1>2 DEF SnapshotsOK
  <2> QED
    BY <1>15, <2>1 DEF LoadData, snaps
<1>19. Bases' = Bases /\ \A r \in Bases : Id(S, r)' = Id(S, r)
  BY DEF Bases, Id
<1>20. ASSUME NEW id \in 1 .. MaxRequests, Complete(id)'
       PROVE  id <= S \/ \E r \in Bases' \ {0} : id = Id(S, r)'
  <2>1. CASE id = Id(S, p)
    BY <1>1, <1>19, <2>1
  <2>2. CASE id # Id(S, p)
    <3>1. \A pr \in Processors : <<id, pr>> \in DOMAIN snaps
      BY <1>9, <1>13, <1>20, <2>2 DEF Complete
    <3>2. Complete(id)
      BY <3>1 DEF Complete, snaps
    <3>3. id <= S \/ \E r \in Bases \ {0} : id = Id(S, r)
      BY <1>2, <3>2 DEF SnapshotsOK
    <3> QED
      BY <1>19, <3>3
  <2> QED
    BY <2>1, <2>2
<1>21. ASSUME NEW r \in Bases \ {0}, <<Id(S, r), "RISK_ENGINE">> \in DOMAIN disk'.snapshots
       PROVE  /\ disk'.snapshots[<<Id(S, r), "RISK_ENGINE">>] = [seq |-> r - 1, state |-> StateOfRun(r)]
              /\ r <= applied' + 1
  <2>1. CASE <<Id(S, r), "RISK_ENGINE">> = key
    <3>1. Id(S, r) = Id(S, p) /\ processor = "RISK_ENGINE"
      BY <1>13, <2>1
    <3>2. r \in Nat /\ Id(S, r) \in Int
      BY <1>2, BasesAre
    <3>3. r = p
      <4>1. ~(r < p) /\ ~(p < r)
        BY <1>1, <1>2, <3>1, <3>2 DEF RingOK
      <4> QED
        BY <1>3, <3>2, <4>1
    <3>4. p = applied' + 1 /\ content = [seq |-> p - 1, state |-> StateOfRun(p)]
      BY <3>1 DEF Stores
    <3> QED
      BY <1>3, <1>9, <2>1, <3>3, <3>4
  <2>2. CASE <<Id(S, r), "RISK_ENGINE">> # key
    <3>1. <<Id(S, r), "RISK_ENGINE">> \in DOMAIN snaps
      BY <1>9, <1>21, <2>2
    <3>2. /\ snaps[<<Id(S, r), "RISK_ENGINE">>] = [seq |-> r - 1, state |-> StateOfRun(r)]
          /\ r <= applied + 1
      BY <1>2, <3>1 DEF SnapshotsOK, snaps
    <3>3. r \in Nat /\ applied \in Int
      BY <1>2, BasesAre DEF TypeInv
    <3> QED
      BY <1>9, <2>2, <3>1, <3>2, <3>3
  <2> QED
    BY <2>1, <2>2
<1>22. \A r \in Bases : StateOfRun(r)' = StateOfRun(r)
  BY DEF StateOfRun
<1>23. SnapshotsOK(S)'
  <2>1. ASSUME NEW r \in Bases' \ {0}, <<Id(S, r)', "RISK_ENGINE">> \in DOMAIN disk'.snapshots
        PROVE  /\ disk'.snapshots[<<Id(S, r)', "RISK_ENGINE">>] = [seq |-> r - 1, state |-> StateOfRun(r)']
               /\ r <= applied' + 1
    BY <1>19, <1>21, <1>22, <2>1
  <2> QED
    BY <1>16, <1>17, <1>18, <1>20, <2>1 DEF SnapshotsOK
<1> QED
  BY <1>7, <1>12, <1>15, <1>23 DEF snaps

\* The engines go on.
LEMMA ApplyKeeps ==
  ASSUME TypeInv, Progress, NEW S, RunOK(S), Apply
  PROVE  TypeInv' /\ Progress' /\ RunOK(S)'
<1>1. /\ phase # "crashed" /\ phase' = phase /\ applied' = applied + 1 /\ applied' < Len(ring)
      /\ journal' = journal /\ ring' = ring /\ loaded' = loaded /\ jNext' = jNext
      /\ jEnd' = jEnd /\ jSequence' = jSequence /\ requests' = requests
      /\ restarts' = restarts /\ logged' = logged
  BY DEF Apply
<1>2. /\ disk' \in [files : FileSets, snapshots : SnapshotSets]
      /\ disk'.files = disk.files
      /\ S # 0 => disk'.snapshots[<<S, "RISK_ENGINE">>] = disk.snapshots[<<S, "RISK_ENGINE">>]
      /\ Continues(S) => SnapshotsOK(S)'
  <2>1. CASE disk' = disk
    <3>1. ASSUME Continues(S) PROVE SnapshotsOK(S)'
      <4>1. Floor(S, 0)' = Floor(S, 0)
        BY <3>1 DEF Continues
      <4>2. NewIds(disk.snapshots, S)
        BY <1>1, <4>1, SameRunContinues
      <4>3. SnapshotsOK(S) /\ disk'.snapshots = disk.snapshots /\ disk.snapshots \in SnapshotSets
        BY <2>1 DEF RunOK, TypeInv
      <4>4. applied \in Int /\ applied' \in Int /\ phase # "crashed" /\ applied <= applied'
        BY <1>1 DEF TypeInv
      <4> QED
        BY <3>1, <4>2, <4>3, <4>4, SnapshotsStay
    <3> QED
      BY <2>1, <3>1 DEF TypeInv
  <2>2. CASE \E p, processor, content : Stores(S, p, processor, content)
    BY <1>1, <2>2, StoredRight
  <2> QED
    BY <2>1, <2>2, ApplyStores
<1>3. Floor(S, 0)' = Floor(S, 0)
  BY <1>1, <1>2 DEF Floor
<1>4. /\ Continues(S) /\ FirstRequest' = FirstRequest
      /\ \A files : NewIds(files, S)
  BY <1>1, <1>3, SameRunContinues
<1>5. FilesOK(disk.files, S)'
  <2>1. PICK files : files = disk.files
    OBVIOUS
  <2>2. FilesOK(files, S) /\ NewIds(files, S)
    BY <1>4, <2>1 DEF RunOK
  <2>3. FilesOK(files, S)'
    BY <1>4, <2>2, FilesStay
  <2>4. files = disk'.files
    BY <1>2, <2>1
  <2> QED
    BY <2>3, <2>4
<1>6. MemoryOK(S)'
  <2>1. Rests
    BY <1>1, <1>2, <1>4 DEF Rests
  <2>2. NewIds(disk.files, S)
    BY <1>4
  <2> QED
    BY <1>4, <2>1, <2>2, MemoryStays DEF RunOK
<1>7. TypeInv'
  BY <1>1, <1>2 DEF TypeInv
<1>8. Progress'
  BY <1>1 DEF Progress, TypeInv
<1>9. StartOK'
  BY <1>1, <1>4 DEF RunOK, StartOK
<1>10. RingOK(S)'
  BY <1>4 DEF Continues
<1> QED
  BY <1>2, <1>4, <1>5, <1>6, <1>7, <1>8, <1>9, <1>10 DEF RunOK

\* J handles a command of the ring.
LEMMA CommandIsThere ==
  ASSUME TypeInv, Progress, NEW S, RunOK(S), NEW end \in BatchEnds
  PROVE  /\ end \in Int /\ jNext <= end /\ end < Len(ring)
         /\ jNext \in Nat /\ jNext + 1 <= Len(ring) /\ jNext + 1 \in 1 .. Len(ring)
         /\ ring[jNext + 1] \in Commands
         /\ Handled(end) = WriteToJournal(Processor, ring[jNext + 1], jNext, jNext = end)
<1>1. ring \in Seq(Commands) /\ Len(ring) \in Nat
  BY DEF RunOK, RingOK
<1>2. end \in Int /\ jNext <= end /\ end < Len(ring) /\ jNext \in Nat
  BY <1>1 DEF BatchEnds, TypeInv, Progress
<1>3. jNext + 1 <= Len(ring) /\ jNext + 1 \in 1 .. Len(ring)
  BY <1>1, <1>2
<1>4. Handled(end) = WriteToJournal(Processor, ring[jNext + 1], jNext, jNext = end)
  BY DEF Handled, Processor
<1> QED
  BY <1>1, <1>2, <1>3, <1>4

\* The first command of the ring is no command of a client.
LEMMA FirstCommand ==
  ASSUME NEW S, RingOK(S)
  PROVE  /\ ~IsMutate(ring[1]) /\ ring[1].command # "SHUTDOWN_SIGNAL"
         /\ \A p \in Bases : p # 0 => p \in 1 .. Len(ring) /\ IsMutate(ring[p])
<1>1. ring[1].command = "GROUPING_CONTROL"
  BY DEF RingOK
<1>2. \A c : IsRisk(c) => IsMutate(c)
  BY DEF IsRisk, IsMutate, IsPersist
<1> QED
  BY <1>1, <1>2 DEF IsMutate, IsPersist, Bases

\* While the run writes, what J has to write are all commands but the first.
LEMMA LiveJournals ==
  ASSUME TypeInv, NEW S, RunOK(S), phase # "crashed", Live(S), jNext + 1 <= Len(ring)
  PROVE  /\ Journaled(Processor, jNext) \/ ~IsMutate(ring[jNext + 1])
         /\ phase = "running" /\ ring[jNext + 1].command = "SHUTDOWN_SIGNAL" => Journaled(Processor, jNext)
<1>1. RingOK(S) /\ ~IsMutate(ring[1]) /\ ring[1].command # "SHUTDOWN_SIGNAL" /\ Len(ring) \in Nat
  BY FirstCommand DEF RunOK, RingOK
<1>2. jNext \in Nat /\ journal.baseSeq \in Nat
  BY DEF TypeInv, Memories
<1>3. /\ Processor.baseSeq = journal.baseSeq
      /\ Processor.enableJournalAfterSeq = journal.enableJournalAfterSeq
  BY ProcessorIs
<1>4. CASE jNext = 0
  BY <1>1, <1>4
<1>5. CASE jNext # 0 /\ phase = "startup"
  <2>1. Len(ring) = 1
    BY <1>5 DEF Live
  <2> QED
    BY <1>2, <1>5, <2>1
<1>6. CASE jNext # 0 /\ phase = "running"
  <2>1. journal.enableJournalAfterSeq = journal.baseSeq
    BY <1>6 DEF Live
  <2> QED
    BY <1>2, <1>3, <1>6, <2>1 DEF Journaled
<1> QED
  BY <1>4, <1>5, <1>6 DEF TypeInv

\* A processor in a series handles a command.
LEMMA WritingHandles ==
  ASSUME TypeInv, Progress, NEW S, RunOK(S), phase # "crashed", Live(S),
         NEW p, Follows(Processor, S, p, jNext), NEW end \in BatchEnds, NEW h, h = Handled(end)
  PROVE  /\ Advances(Processor, h, S, p, jNext)
         /\ EndOf(Processor, h, jNext)
         /\ ring[jNext + 1].command = "SHUTDOWN_SIGNAL" => h.buffer = <<>>
         /\ phase = "running"
<1>1. /\ Processor \in Writers /\ Processor.buffer = journal.buffer
      /\ Processor.failed = journal.failed /\ Processor.file = journal.file
  BY ProcessorIs
<1>2. PICK j \in Writers : j = Processor
  BY <1>1
<1>3. PICK q \in Nat : q = jNext
  BY DEF TypeInv
<1>4. q + 1 <= Len(ring)
  BY <1>3, CommandIsThere
<1>5. h = WriteToJournal(j, ring[q + 1], q, q = end)
  BY <1>2, <1>3, CommandIsThere
<1>6. RingOK(S) /\ Follows(j, S, p, q) /\ ~j.failed /\ Len(j.buffer) <= JournalBufferSize
  BY <1>1, <1>2, <1>3 DEF RunOK, MemoryOK, Live
<1>7. /\ Journaled(j, q) \/ ~IsMutate(ring[q + 1])
      /\ phase = "running" /\ ring[q + 1].command = "SHUTDOWN_SIGNAL" => Journaled(j, q)
  BY <1>2, <1>3, <1>4, LiveJournals
<1>8. /\ Advances(j, h, S, p, q) /\ EndOf(j, h, q)
      /\ Journaled(j, q) /\ ring[q + 1].command = "SHUTDOWN_SIGNAL" => h.buffer = <<>>
  BY <1>4, <1>5, <1>6, <1>7, WriteAdvances
<1>9. phase = "running"
  <2>1. ASSUME phase = "startup" PROVE FALSE
    <3>1. journal = NewProcessor(S, Floor(S, 0))
      BY <2>1 DEF RunOK, MemoryOK
    <3>2. journal.file = <<>>
      BY <3>1 DEF NewProcessor, NoFile
    <3>3. j.file = <<Id(S, p), j.filesCounter>>
      BY <1>6 DEF Follows, InSeries
    <3>4. <<Id(S, p), j.filesCounter>> # <<>>
      OBVIOUS
    <3>5. j.file = journal.file
      BY <1>1, <1>2
    <3> QED
      BY <3>2, <3>3, <3>4, <3>5
  <2> QED
    BY <2>1 DEF TypeInv
<1> QED
  BY <1>2, <1>3, <1>7, <1>8, <1>9

\* The series that a step leaves the processor in.
InSomeSeries(h, S, q) ==
  /\ FilesOK(h.files, S)
  /\ \E r : Follows(h, S, r, q) /\ Begins(h.files, S, r)

\* It is in one after a command that it handled in one.
LEMMA WritesOn ==
  ASSUME TypeInv, Progress, NEW S, RunOK(S), phase # "crashed",
         NEW p, NewestBase(p, jNext), Begins(disk.files, S, p), jNext + 1 <= Len(ring),
         NEW h, Advances(Processor, h, S, p, jNext)
  PROVE  InSomeSeries(h, S, jNext + 1)
<1>1. Processor \in Writers /\ Processor.files = disk.files /\ Processor.baseSeq = journal.baseSeq
  BY ProcessorIs
<1>2. PICK j \in Writers : j = Processor
  BY <1>1
<1>3. PICK q \in Nat : q = jNext
  BY DEF TypeInv
<1>4. RingOK(S) /\ loaded \in States /\ requests \in Nat
  BY DEF RunOK, TypeInv
<1>5. /\ FilesOK(j.files, S) /\ NewestBase(p, q) /\ q + 1 <= Len(ring)
      /\ j.baseSeq = Floor(S, 0) /\ Begins(j.files, S, p) /\ Advances(j, h, S, p, q)
  BY <1>1, <1>2, <1>3 DEF RunOK, MemoryOK
<1>6. /\ FilesOK(h.files, S)
      /\ \E r : Follows(h, S, r, q + 1) /\ Begins(h.files, S, r)
  BY <1>4, <1>5, AdvancesOK
<1> QED
  BY <1>3, <1>6 DEF InSomeSeries

\* What handling a command does: nothing, because it need not be written; the
\* exception of a run that cannot write; or a step of a run that writes.
Passes(S, h) ==
  /\ h = Processor /\ ~Due(jNext + 1)
  /\ Frozen(S) \/ (Waits(S) /\ Live(S) /\ ~IsMutate(ring[jNext + 1]))

Throws(S, h) ==
  /\ phase = "running"
  /\ Frozen(S) /\ Due(jNext + 1)
  /\ h.failed /\ Unwritten(h, S) /\ h.files = disk.files

Goes(S, h) ==
  /\ phase = "running"
  /\ Live(S) /\ ~h.failed
  /\ InSomeSeries(h, S, jNext + 1)
  /\ ring[jNext + 1].command = "SHUTDOWN_SIGNAL" => h.buffer = <<>>

\* One of the three.
Outcome(S, h) ==
  /\ h \in Writers
  /\ h.baseSeq = journal.baseSeq
  /\ h.enableJournalAfterSeq = journal.enableJournalAfterSeq
  /\ Len(h.buffer) <= JournalBufferSize
  /\ Passes(S, h) \/ Throws(S, h) \/ Goes(S, h)

\* When nothing has been written.
LEMMA UnwrittenOutcome ==
  ASSUME TypeInv, Progress, NEW S, RunOK(S), phase # "crashed", ~journal.failed,
         Unwritten(journal, S), journal.filesCounter = 0,
         Frozen(S) \/ (Waits(S) /\ Live(S)),
         NEW end \in BatchEnds, NEW h, h = Handled(end)
  PROVE  Outcome(S, h)
<1>1. /\ Processor \in Writers
      /\ Processor.buffer = journal.buffer /\ Processor.file = journal.file
      /\ Processor.filesCounter = journal.filesCounter
      /\ Processor.writtenBytes = journal.writtenBytes
      /\ Processor.baseSnapshotId = journal.baseSnapshotId
      /\ Processor.baseSeq = journal.baseSeq
      /\ Processor.enableJournalAfterSeq = journal.enableJournalAfterSeq
      /\ Processor.failed = journal.failed /\ Processor.files = disk.files
  BY ProcessorIs
<1>2. PICK j \in Writers : j = Processor
  BY <1>1
<1>3. PICK q \in Nat : q = jNext
  BY DEF TypeInv
<1>4. q + 1 <= Len(ring) /\ Len(ring) \in Nat
  BY <1>3, CommandIsThere DEF RunOK, RingOK
<1>5. h = WriteToJournal(j, ring[q + 1], q, q = end)
  BY <1>2, <1>3, CommandIsThere
<1>6. RingOK(S) /\ Unwritten(j, S) /\ j.filesCounter = 0 /\ ~j.failed /\ Len(j.buffer) <= JournalBufferSize
  BY <1>1, <1>2 DEF RunOK, MemoryOK, Unwritten
<1>7. Due(q + 1) <=> Journaled(j, q) /\ IsMutate(ring[q + 1])
  <2>1. (q + 1) - 1 = q
    OBVIOUS
  <2> QED
    BY <1>1, <1>2, <2>1 DEF Due, Journaled
<1>11. ASSUME Due(q + 1) PROVE phase = "running"
  <2>1. ASSUME phase = "startup" PROVE journal.enableJournalAfterSeq = -1
    BY <2>1 DEF RunOK, MemoryOK, NewProcessor
  <2>2. journal.enableJournalAfterSeq # -1
    BY <1>11 DEF Due, Journaled
  <2> QED
    BY <2>1, <2>2 DEF TypeInv
<1>8. CASE ~Due(q + 1)
  <2>1. h = j
    BY <1>5, <1>6, <1>7, <1>8, NothingWritten
  <2>2. Live(S) => ~IsMutate(ring[q + 1])
    <3>1. Live(S) => (Journaled(j, q) \/ ~IsMutate(ring[q + 1]))
      BY <1>2, <1>3, <1>4, LiveJournals
    <3> QED
      BY <1>7, <1>8, <3>1
  <2>3. Passes(S, h)
    BY <1>2, <1>3, <1>8, <2>1, <2>2 DEF Passes
  <2> QED
    BY <1>1, <1>2, <1>6, <2>1, <2>3 DEF Outcome
<1>9. CASE Due(q + 1) /\ Frozen(S)
  <2>1. <<S, 1>> \in DOMAIN j.files
    BY <1>1, <1>2, <1>9 DEF Frozen
  <2>2. Journaled(j, q) /\ IsMutate(ring[q + 1])
    BY <1>7, <1>9
  <2>3. PICK c : c = ring[q + 1]
    OBVIOUS
  <2>4. h = WriteToJournal(j, c, q, q = end) /\ IsMutate(c)
    BY <1>5, <2>2, <2>3
  <2>5. /\ h \in Writers /\ h.failed /\ Unwritten(h, S) /\ h.files = j.files
        /\ h.baseSeq = j.baseSeq /\ h.enableJournalAfterSeq = j.enableJournalAfterSeq
    BY <1>6, <2>1, <2>2, <2>4, FirstFileExists
  <2>6. Throws(S, h)
    BY <1>1, <1>2, <1>3, <1>9, <1>11, <2>5 DEF Throws
  <2>7. Len(h.buffer) <= JournalBufferSize
    BY <2>5, JournalSizes DEF Unwritten
  <2> QED
    BY <1>1, <1>2, <2>5, <2>6, <2>7 DEF Outcome
<1>10. CASE Due(q + 1) /\ Waits(S) /\ Live(S)
  <2>1. Journaled(j, q) /\ IsMutate(ring[q + 1])
    BY <1>7, <1>10
  <2>2. /\ \A f \in DOMAIN j.files : f[1] < S
        /\ \A n \in 1 .. q : ~IsMutate(ring[n])
    BY <1>1, <1>2, <1>3, <1>10 DEF Waits
  <2>3. Advances(j, h, S, 0, q)
    BY <1>4, <1>5, <1>6, <2>1, <2>2, FirstWrite
  <2>4. NewestBase(0, q)
    <3>1. \A p \in Bases : p # 0 => p \in 1 .. Len(ring) /\ IsMutate(ring[p])
      BY <1>6, FirstCommand
    <3>2. \A p \in Bases : p <= q => p <= 0
      BY <1>4, <2>2, <3>1
    <3> QED
      BY <3>2 DEF NewestBase, Bases
  <2>5. Begins(disk.files, S, 0)
    <3>1. \A r \in Bases : r \in Nat
      BY <1>6, BasesAre
    <3> QED
      BY <3>1 DEF Begins
  <2>6. InSomeSeries(h, S, q + 1)
    BY <1>2, <1>3, <1>4, <2>3, <2>4, <2>5, WritesOn
  <2>7. Survives(j, h) /\ Len(h.buffer) <= JournalBufferSize
    BY <2>3 DEF Advances
  <2>8. ring[q + 1].command # "SHUTDOWN_SIGNAL"
    BY <2>1 DEF IsMutate, IsPersist
  <2>9. Goes(S, h)
    BY <1>3, <1>6, <1>10, <1>11, <2>6, <2>7, <2>8 DEF Goes, Survives
  <2> QED
    BY <1>1, <1>2, <2>7, <2>9 DEF Outcome, Survives
<1> QED
  BY <1>3, <1>8, <1>9, <1>10

\* In all cases.
LEMMA Outcomes ==
  ASSUME TypeInv, Progress, NEW S, RunOK(S), phase # "crashed", ~journal.failed,
         NEW end \in BatchEnds, NEW h, h = Handled(end)
  PROVE  Outcome(S, h)
<1>1. Frozen(S) \/ (Waits(S) /\ Live(S)) \/ (Writes(S) /\ Live(S))
  BY DEF RunOK, MemoryOK, Live
<1>2. CASE Frozen(S)
  BY <1>2, UnwrittenOutcome DEF Frozen
<1>3. CASE Waits(S) /\ Live(S)
  BY <1>3, UnwrittenOutcome DEF Waits
<1>4. CASE Writes(S) /\ Live(S)
  <2>1. PICK p : Follows(Processor, S, p, jNext) /\ Begins(disk.files, S, p)
    BY <1>4 DEF Writes
  <2>2. /\ Advances(Processor, h, S, p, jNext)
        /\ ring[jNext + 1].command = "SHUTDOWN_SIGNAL" => h.buffer = <<>>
        /\ phase = "running"
    BY <1>4, <2>1, WritingHandles
  <2>3. NewestBase(p, jNext) /\ jNext + 1 <= Len(ring)
    BY <2>1, CommandIsThere DEF Follows
  <2>4. InSomeSeries(h, S, jNext + 1)
    BY <2>1, <2>2, <2>3, WritesOn
  <2>5. Survives(Processor, h) /\ Len(h.buffer) <= JournalBufferSize
    BY <2>2 DEF Advances
  <2>6. /\ Processor.baseSeq = journal.baseSeq
        /\ Processor.enableJournalAfterSeq = journal.enableJournalAfterSeq
        /\ Processor.failed = journal.failed
    BY ProcessorIs
  <2>7. Goes(S, h)
    BY <1>4, <2>2, <2>4, <2>5, <2>6 DEF Goes, Survives
  <2> QED
    BY <2>5, <2>6, <2>7 DEF Outcome, Survives
<1> QED
  BY <1>1, <1>2, <1>3, <1>4

\* J handles a command, and perhaps throws.
Handles(end, h) ==
  /\ end \in BatchEnds /\ h = Handled(end)
  /\ phase # "crashed" /\ ~journal.failed
  /\ jEnd' = end
  /\ journal' = [f \in DOMAIN journal |-> h[f]]
  /\ disk' = [disk EXCEPT !.files = h.files]
  /\ h.failed => jNext' = jNext /\ jSequence' = jSequence
  /\ ~h.failed => jNext' = jNext + 1 /\ jSequence' = IF jNext = end THEN end ELSE jSequence
  /\ ring' = ring /\ loaded' = loaded /\ applied' = applied /\ phase' = phase
  /\ requests' = requests /\ restarts' = restarts /\ logged' = logged

\* That is what JournalCommand is.
LEMMA CommandHandles ==
  ASSUME JournalCommand
  PROVE  \E end, h : Handles(end, h)
<1>1. PICK end \in BatchEnds :
        LET handled == Handled(end)
        IN /\ jEnd' = end
           /\ journal' = [f \in DOMAIN journal |-> handled[f]]
           /\ disk' = [disk EXCEPT !.files = handled.files]
           /\ IF handled.failed
              THEN UNCHANGED <<jNext, jSequence>>
              ELSE /\ jNext' = jNext + 1
                   /\ jSequence' = IF jNext = end THEN end ELSE jSequence
  BY DEF JournalCommand
<1>2. PICK h : h = Handled(end)
  OBVIOUS
<1>3. Handles(end, h)
  BY <1>1, <1>2 DEF Handles, JournalCommand
<1> QED
  BY <1>3

\* The memory after it.
LEMMA MemoryAfter ==
  ASSUME TypeInv, NEW end, NEW h, Handles(end, h), h \in Writers
  PROVE  /\ journal' \in Memories /\ Processor' = h
         /\ disk'.files = h.files /\ disk'.snapshots = disk.snapshots
         /\ disk' \in [files : FileSets, snapshots : SnapshotSets]
         /\ journal'.buffer = h.buffer /\ journal'.file = h.file
         /\ journal'.filesCounter = h.filesCounter
         /\ journal'.writtenBytes = h.writtenBytes
         /\ journal'.baseSnapshotId = h.baseSnapshotId
         /\ journal'.baseSeq = h.baseSeq
         /\ journal'.enableJournalAfterSeq = h.enableJournalAfterSeq
         /\ journal'.failed = h.failed
<1>1. PICK m : m = [f \in DOMAIN journal |-> h[f]]
  OBVIOUS
<1>2. /\ m \in Memories
      /\ Put(m, "files", h.files) = h
      /\ m.buffer = h.buffer /\ m.file = h.file /\ m.filesCounter = h.filesCounter
      /\ m.writtenBytes = h.writtenBytes /\ m.baseSnapshotId = h.baseSnapshotId
      /\ m.baseSeq = h.baseSeq /\ m.enableJournalAfterSeq = h.enableJournalAfterSeq
      /\ m.failed = h.failed
  BY <1>1, MemoryOf
<1>3. journal' = m
  BY <1>1 DEF Handles
<1>4. h.files \in FileSets
  BY DEF Writers
<1>5. disk' = [disk EXCEPT !.files = h.files] /\ disk \in [files : FileSets, snapshots : SnapshotSets]
  BY DEF Handles, TypeInv
<1>6. /\ disk'.files = h.files /\ disk'.snapshots = disk.snapshots
      /\ disk' \in [files : FileSets, snapshots : SnapshotSets]
  BY <1>4, <1>5
<1>7. Processor' = h
  BY <1>2, <1>3, <1>6 DEF Processor
<1> QED
  BY <1>2, <1>3, <1>6, <1>7

\* A run that replays a series, after a command.
LEMMA FrozenGoesOn ==
  ASSUME TypeInv, Progress, NEW S, RunOK(S), NEW end, NEW h, Handles(end, h), Outcome(S, h),
         Frozen(S), Passes(S, h) \/ Throws(S, h)
  PROVE  Frozen(S)'
<1>1. /\ h \in Writers /\ h.baseSeq = journal.baseSeq
      /\ h.enableJournalAfterSeq = journal.enableJournalAfterSeq
  BY DEF Outcome
<1>2. /\ disk'.files = h.files
      /\ journal'.buffer = h.buffer /\ journal'.file = h.file
      /\ journal'.filesCounter = h.filesCounter
      /\ journal'.writtenBytes = h.writtenBytes
      /\ journal'.baseSnapshotId = h.baseSnapshotId
      /\ journal'.baseSeq = h.baseSeq
      /\ journal'.enableJournalAfterSeq = h.enableJournalAfterSeq
      /\ journal'.failed = h.failed
  BY <1>1, MemoryAfter
<1>3. /\ ring' = ring /\ loaded' = loaded /\ phase' = phase
      /\ h.failed => jNext' = jNext
      /\ ~h.failed => jNext' = jNext + 1
      /\ ~journal.failed /\ end \in BatchEnds
  BY DEF Handles
<1>4. /\ Processor.buffer = journal.buffer /\ Processor.file = journal.file
      /\ Processor.filesCounter = journal.filesCounter
      /\ Processor.writtenBytes = journal.writtenBytes
      /\ Processor.baseSnapshotId = journal.baseSnapshotId
      /\ Processor.failed = journal.failed /\ Processor.files = disk.files
  BY ProcessorIs
<1>5. /\ h.files = disk.files /\ Unwritten(h, S)
      /\ \/ ~h.failed /\ ~Due(jNext + 1) /\ h.filesCounter = 0
         \/ h.failed /\ Due(jNext + 1)
  BY <1>3, <1>4 DEF Passes, Throws, Frozen, Unwritten
<1>6. Unwritten(journal, S)' /\ (journal'.filesCounter = 0 \/ journal'.failed)
  BY <1>2, <1>5 DEF Unwritten
<1>7. disk'.files = disk.files
  BY <1>2, <1>5
<1>8. Bases' = Bases /\ (\A p \in Bases : Id(S, p)' = Id(S, p)) /\ FirstRequest' = FirstRequest
  BY <1>3 DEF Bases, Id, FirstRequest
<1>9. \A p \in Bases' \ {0} : \A f \in DOMAIN disk'.files : f[1] < Id(S, p)'
  BY <1>7, <1>8 DEF Frozen
<1>10. \A i : Due(i)' <=> Due(i)
  BY <1>1, <1>2, <1>3 DEF Due, Journaled
<1>11. jNext \in Nat /\ jNext + 1 <= Len(ring)
  BY <1>3, CommandIsThere
<1>12. PICK n \in Nat : n = jNext + 1
  BY <1>11
<1>13. ASSUME NEW i \in 1 .. Len(ring), i <= jNext' \/ i < FirstRequest' PROVE ~Due(i)'
  <2>1. i <= jNext \/ i < FirstRequest \/ (i = n /\ ~h.failed)
    BY <1>3, <1>8, <1>11, <1>12, <1>13
  <2>2. CASE i <= jNext \/ i < FirstRequest
    BY <1>10, <2>2 DEF Frozen
  <2>3. CASE i = n /\ ~h.failed
    BY <1>5, <1>10, <1>12, <2>3
  <2> QED
    BY <2>1, <2>2, <2>3
<1>14. journal'.failed => jNext' + 1 <= Len(ring) /\ Due(jNext + 1)' /\ jNext' = jNext
  <2>1. Due(n)' <=> Due(n)
    BY <1>10
  <2>2. ASSUME journal'.failed PROVE jNext' = jNext /\ Due(n)
    BY <1>2, <1>3, <1>5, <1>12, <2>2
  <2>3. jNext' = jNext => (Due(jNext + 1)' <=> Due(n)')
    BY <1>12 DEF Due
  <2> QED
    BY <1>11, <2>1, <2>2, <2>3
<1>15. Replays(S)'
  BY <1>3, <1>7, <1>8 DEF Frozen, Replays, Recovers, StateOfRun
<1>16. <<S, 1>> \in DOMAIN disk'.files
  BY <1>7 DEF Frozen
<1> QED
  BY <1>3, <1>6, <1>9, <1>13, <1>14, <1>15, <1>16 DEF Frozen

\* A run that writes, after a command.
LEMMA LiveGoesOn ==
  ASSUME TypeInv, Progress, NEW S, RunOK(S), NEW end, NEW h, Handles(end, h), Outcome(S, h),
         Live(S), (Passes(S, h) /\ Waits(S)) \/ Goes(S, h), Continues(S)
  PROVE  Live(S)'
<1>1. /\ h \in Writers /\ h.baseSeq = journal.baseSeq
      /\ h.enableJournalAfterSeq = journal.enableJournalAfterSeq
  BY DEF Outcome
<1>2. /\ disk'.files = h.files /\ Processor' = h
      /\ journal'.buffer = h.buffer /\ journal'.file = h.file
      /\ journal'.filesCounter = h.filesCounter
      /\ journal'.writtenBytes = h.writtenBytes
      /\ journal'.baseSnapshotId = h.baseSnapshotId
      /\ journal'.baseSeq = h.baseSeq
      /\ journal'.enableJournalAfterSeq = h.enableJournalAfterSeq
      /\ journal'.failed = h.failed
  BY <1>1, MemoryAfter
<1>3. /\ ring' = ring /\ loaded' = loaded /\ phase' = phase
      /\ ~h.failed => jNext' = jNext + 1
      /\ ~journal.failed /\ end \in BatchEnds
  BY DEF Handles
<1>4. /\ Processor.buffer = journal.buffer /\ Processor.file = journal.file
      /\ Processor.filesCounter = journal.filesCounter
      /\ Processor.writtenBytes = journal.writtenBytes
      /\ Processor.baseSnapshotId = journal.baseSnapshotId
      /\ Processor.failed = journal.failed /\ Processor.files = disk.files
  BY ProcessorIs
<1>5. ~h.failed
  BY <1>3, <1>4 DEF Passes, Goes
<1>6. FirstRequest' = FirstRequest
  BY <1>3 DEF FirstRequest
<1>7. /\ ~journal'.failed
      /\ phase' = "running" => journal'.enableJournalAfterSeq = journal'.baseSeq
      /\ phase' = "startup" => journal'.enableJournalAfterSeq = -1 /\ Len(ring') = 1
      /\ \A i \in 1 .. FirstRequest' - 1 : ~IsMutate(ring'[i])
  BY <1>1, <1>2, <1>3, <1>5, <1>6 DEF Live
<1>8. jNext \in Nat /\ jNext + 1 <= Len(ring) /\ jNext' = jNext + 1
  BY <1>3, <1>5, CommandIsThere
<1>9. CASE Passes(S, h) /\ Waits(S)
  <2>1. ~IsMutate(ring[jNext + 1]) \/ Frozen(S)
    BY <1>9 DEF Passes
  <2>2. Waits(S) /\ ~Frozen(S)
    <3>1. \A f \in DOMAIN disk.files : f[1] < S
      BY <1>9 DEF Waits
    <3>2. <<S, 1>>[1] = S /\ S \in Int
      BY DEF RunOK, RingOK
    <3>3. <<S, 1>> \notin DOMAIN disk.files
      BY <3>1, <3>2
    <3> QED
      BY <1>9, <3>3 DEF Frozen
  <2>3. h = Processor
    BY <1>9 DEF Passes
  <2>4. \A i \in 1 .. jNext' : ~IsMutate(ring'[i])
    <3>1. ASSUME NEW i \in 1 .. jNext + 1 PROVE ~IsMutate(ring[i])
      <4>1. i \in 1 .. jNext \/ i = jNext + 1
        BY <1>8
      <4> QED
        BY <2>1, <2>2, <4>1 DEF Waits
    <3> QED
      BY <1>3, <1>8, <3>1
  <2>5. Unwritten(journal, S)' /\ journal'.filesCounter = 0 /\ disk'.files = disk.files
    BY <1>2, <1>4, <2>2, <2>3 DEF Waits, Unwritten
  <2>6. Waits(S)'
    BY <2>2, <2>4, <2>5 DEF Waits
  <2> QED
    BY <1>7, <2>6 DEF Live
<1>10. CASE Goes(S, h)
  <2>1. PICK r : Follows(h, S, r, jNext + 1) /\ Begins(h.files, S, r)
    BY <1>10 DEF Goes, InSomeSeries
  <2>2. PICK q \in 0 .. Len(ring) : q = jNext + 1
    BY <1>8 DEF RunOK, RingOK
  <2>3. PICK files : files = h.files
    OBVIOUS
  <2>4. Follows(h, S, r, q) /\ Begins(files, S, r)
    BY <2>1, <2>2, <2>3
  <2>5. Follows(h, S, r, q)' /\ Begins(files, S, r)'
    BY <1>1, <2>4, FollowsStays
  <2>6. Follows(Processor, S, r, jNext)' /\ Begins(disk.files, S, r)'
    BY <1>2, <1>8, <2>2, <2>3, <2>5
  <2>7. jNext' > 0 /\ ring'[jNext'].command = "SHUTDOWN_SIGNAL" => journal'.buffer = <<>>
    BY <1>2, <1>3, <1>8, <1>10 DEF Goes
  <2>8. Writes(S)'
    BY <2>6, <2>7 DEF Writes
  <2> QED
    BY <1>7, <2>8 DEF Live
<1> QED
  BY <1>9, <1>10

\* J goes on.
LEMMA JournalKeeps ==
  ASSUME TypeInv, Progress, NEW S, RunOK(S), JournalCommand
  PROVE  TypeInv' /\ Progress' /\ RunOK(S)'
<1>1. PICK end, h : Handles(end, h)
  BY CommandHandles
<1>2. /\ end \in BatchEnds /\ h = Handled(end) /\ phase # "crashed" /\ ~journal.failed
      /\ jEnd' = end
      /\ h.failed => jNext' = jNext /\ jSequence' = jSequence
      /\ ~h.failed => jNext' = jNext + 1 /\ jSequence' = IF jNext = end THEN end ELSE jSequence
      /\ ring' = ring /\ loaded' = loaded /\ applied' = applied /\ phase' = phase
      /\ requests' = requests /\ restarts' = restarts /\ logged' = logged
  BY <1>1 DEF Handles
<1>3. Outcome(S, h)
  BY <1>2, Outcomes
<1>4. h \in Writers
  BY <1>3 DEF Outcome
<1>5. /\ journal' \in Memories /\ Processor' = h
      /\ disk'.files = h.files /\ disk'.snapshots = disk.snapshots
      /\ disk' \in [files : FileSets, snapshots : SnapshotSets]
      /\ journal'.buffer = h.buffer /\ journal'.baseSeq = h.baseSeq
  BY <1>1, <1>4, MemoryAfter
<1>6. Floor(S, 0)' = Floor(S, 0)
  BY <1>2, <1>5 DEF Floor
<1>7. /\ Continues(S) /\ FirstRequest' = FirstRequest
      /\ \A files : NewIds(files, S)
  BY <1>2, <1>6, SameRunContinues
<1>8. /\ end \in Int /\ jNext <= end /\ end < Len(ring) /\ jNext \in Nat
  BY <1>2, CommandIsThere
<1>9. TypeInv'
  <2>1. jNext' \in Nat /\ jEnd' \in Int /\ jSequence' \in Int
    BY <1>2, <1>8 DEF TypeInv
  <2> QED
    BY <1>2, <1>5, <2>1 DEF TypeInv
<1>10. Progress'
  <2>1. jSequence \in Int /\ jEnd \in Int
    BY DEF TypeInv
  <2>2. jSequence < jNext /\ applied \in -1 .. Len(ring) - 1
    BY DEF Progress
  <2>3. jSequence' < jNext' /\ jSequence' <= jEnd' /\ jNext' <= jEnd' + 1
    BY <1>2, <1>8, <2>1, <2>2
  <2> QED
    BY <1>2, <1>8, <2>2, <2>3 DEF Progress
<1>11. FilesOK(disk.files, S)'
  <2>1. FilesOK(h.files, S)
    <3>1. Processor.files = disk.files
      BY ProcessorIs
    <3> QED
      BY <1>3, <3>1 DEF Outcome, Passes, Throws, Goes, InSomeSeries, RunOK
  <2>2. PICK files : files = h.files
    OBVIOUS
  <2>3. FilesOK(files, S) /\ NewIds(files, S)
    BY <1>7, <2>1, <2>2
  <2>4. FilesOK(files, S)'
    BY <1>7, <2>3, FilesStay
  <2> QED
    BY <1>5, <2>2, <2>4
<1>12. SnapshotsOK(S)'
  <2>1. SnapshotsOK(S) /\ disk.snapshots \in SnapshotSets /\ NewIds(disk.snapshots, S)
    BY <1>7 DEF RunOK, TypeInv
  <2>2. applied \in Int /\ applied' \in Int /\ phase # "crashed" /\ applied <= applied'
    BY <1>2 DEF TypeInv
  <2> QED
    BY <1>5, <1>7, <2>1, <2>2, SnapshotsStay
<1>13. StartOK'
  BY <1>2, <1>7 DEF RunOK, StartOK
<1>14. RingOK(S)'
  BY <1>7 DEF Continues
<1>15. MemoryOK(S)'
  <2>1. Frozen(S) \/ Live(S)
    BY <1>2 DEF RunOK, MemoryOK
  <2>2. Frozen(S)' \/ Live(S)'
    <3>1. CASE Passes(S, h)
      <4>1. Frozen(S) \/ (Waits(S) /\ Live(S))
        BY <3>1 DEF Passes
      <4> QED
        BY <1>1, <1>3, <1>7, <3>1, <4>1, FrozenGoesOn, LiveGoesOn
    <3>2. CASE Throws(S, h)
      BY <1>1, <1>3, <3>2, FrozenGoesOn DEF Throws
    <3>3. CASE Goes(S, h)
      BY <1>1, <1>3, <1>7, <3>3, LiveGoesOn DEF Goes
    <3> QED
      BY <1>3, <3>1, <3>2, <3>3 DEF Outcome
  <2>3. phase' = "startup" => journal' = NewProcessor(S, Floor(S, 0)')
    <3>1. ASSUME phase = "startup" PROVE journal' = journal
      <4>1. h = Processor
        BY <1>3, <3>1 DEF Outcome, Passes, Throws, Goes
      <4>2. journal' = [f \in DOMAIN journal |-> h[f]]
        BY <1>1 DEF Handles
      <4>3. "files" \notin DOMAIN journal
        BY DEF TypeInv, Memories
      <4>4. \A f \in DOMAIN journal : Processor[f] = journal[f]
        BY <4>3 DEF Processor, Put
      <4>5. journal = [f \in DOMAIN journal |-> journal[f]]
        BY DEF TypeInv, Memories
      <4> QED
        BY <4>1, <4>2, <4>4, <4>5
    <3> QED
      BY <1>2, <1>6, <3>1 DEF RunOK, MemoryOK
  <2>4. phase' # "crashed" /\ journal'.baseSeq = Floor(S, 0)'
    BY <1>2, <1>3, <1>5, <1>6 DEF RunOK, MemoryOK, Outcome
  <2>5. Len(journal'.buffer) <= JournalBufferSize
    BY <1>3, <1>5 DEF Outcome
  <2> QED
    BY <2>2, <2>3, <2>4, <2>5 DEF MemoryOK
<1> QED
  BY <1>9, <1>10, <1>11, <1>12, <1>13, <1>14, <1>15 DEF RunOK

\* A processor that does not exist any more.
LEMMA NewMemory ==
  ASSUME NEW S \in 0 .. MaxRequests, NEW B \in Nat
  PROVE  NewProcessor(S, B) \in Memories
<1>1. <<>> \in Seq(Records) /\ -1 \in Int
  OBVIOUS
<1> QED
  BY <1>1 DEF NewProcessor, Memories, NoFile

\* The process stops, and the files are good.
LEMMA StopKeeps ==
  ASSUME TypeInv, Progress, NEW S, RunOK(S), Stop,
         disk'.snapshots = disk.snapshots, FilesOK(disk'.files, S),
         disk' \in [files : FileSets, snapshots : SnapshotSets]
  PROVE  TypeInv' /\ Progress' /\ RunOK(S)'
<1>1. /\ phase' = "crashed" /\ journal' = NewProcessor(0, 0)
      /\ jNext' = 0 /\ jEnd' = -1 /\ jSequence' = -1 /\ applied' = -1
      /\ ring' = ring /\ loaded' = loaded /\ requests' = requests
      /\ restarts' = restarts /\ logged' = logged
  BY DEF Stop
<1>2. Floor(S, 0)' = Floor(S, 0)
  BY <1>1 DEF Floor
<1>3. /\ Continues(S) /\ FirstRequest' = FirstRequest
      /\ \A files : NewIds(files, S)
  BY <1>1, <1>2, SameRunContinues
<1>4. ring \in Seq(Commands) /\ Len(ring) \in Nat /\ Len(ring) >= 1
  BY DEF RunOK, RingOK
<1>5. TypeInv'
  <2>1. journal' \in Memories
    BY <1>1, NewMemory, JournalSizes
  <2> QED
    BY <1>1, <2>1 DEF TypeInv
<1>6. Progress'
  BY <1>1, <1>4 DEF Progress
<1>7. FilesOK(disk.files, S)'
  <2>1. PICK files : files = disk'.files
    OBVIOUS
  <2>2. FilesOK(files, S) /\ NewIds(files, S)
    BY <1>3, <2>1
  <2>3. FilesOK(files, S)'
    BY <1>3, <2>2, FilesStay
  <2> QED
    BY <2>1, <2>3
<1>8. SnapshotsOK(S)'
  <2>1. SnapshotsOK(S) /\ disk.snapshots \in SnapshotSets /\ NewIds(disk.snapshots, S)
    BY <1>3 DEF RunOK, TypeInv
  <2>2. applied \in Int /\ applied' \in Int
    BY <1>1 DEF TypeInv
  <2> QED
    BY <1>1, <1>3, <2>1, <2>2, SnapshotsStay
<1>9. StartOK'
  BY <1>1, <1>3 DEF RunOK, StartOK
<1>10. MemoryOK(S)'
  <2>1. Len(journal'.buffer) <= JournalBufferSize
    BY <1>1, JournalSizes DEF NewProcessor
  <2> QED
    BY <1>1, <2>1 DEF MemoryOK
<1>11. RingOK(S)'
  BY <1>3 DEF Continues
<1> QED
  BY <1>5, <1>6, <1>7, <1>8, <1>9, <1>10, <1>11 DEF RunOK

\* It stops while J writes to its file.
LEMMA CrashInFlushKeeps ==
  ASSUME TypeInv, Progress, NEW S, RunOK(S), CrashInFlush
  PROVE  TypeInv' /\ Progress' /\ RunOK(S)'
<1>1. Stop /\ phase # "crashed" /\ ~journal.failed /\ journal.file # NoFile
  BY DEF CrashInFlush, Stop
<1>2. PICK end \in BatchEnds :
        \E n \in Len(disk.files[journal.file]) + 1 .. Len(Handled(end).files[journal.file]) - 1 :
          disk' = [disk EXCEPT !.files[journal.file] =
                     SubSeq(Handled(end).files[journal.file], 1, n)]
  BY DEF CrashInFlush
<1>3. PICK h : h = Handled(end)
  OBVIOUS
<1>4. PICK n \in Len(disk.files[journal.file]) + 1 .. Len(h.files[journal.file]) - 1 :
        disk' = [disk EXCEPT !.files[journal.file] = SubSeq(h.files[journal.file], 1, n)]
  BY <1>2, <1>3
<1>5. Live(S) /\ Writes(S)
  BY <1>1 DEF RunOK, MemoryOK, Live, Frozen, Waits, Unwritten
<1>6. PICK p : Follows(Processor, S, p, jNext) /\ Begins(disk.files, S, p)
  BY <1>5 DEF Writes
<1>7. EndOf(Processor, h, jNext) /\ jNext + 1 <= Len(ring)
  BY <1>1, <1>3, <1>5, <1>6, WritingHandles, CommandIsThere
<1>8. /\ Processor \in Writers /\ Processor.files = disk.files /\ Processor.file = journal.file
      /\ Processor.baseSeq = journal.baseSeq
  BY ProcessorIs
<1>9. PICK j \in Writers : j = Processor
  BY <1>8
<1>10. PICK q \in Nat : q = jNext
  BY DEF TypeInv
<1>11. /\ RingOK(S) /\ loaded \in States /\ requests \in Nat
       /\ FilesOK(j.files, S) /\ Follows(j, S, p, q) /\ q + 1 <= Len(ring)
       /\ j.baseSeq = Floor(S, 0) /\ Begins(j.files, S, p) /\ EndOf(j, h, q)
  BY <1>1, <1>6, <1>7, <1>8, <1>9, <1>10 DEF RunOK, MemoryOK, TypeInv
<1>12. n \in Len(j.files[j.file]) + 1 .. Len(h.files[j.file]) - 1
  BY <1>4, <1>8, <1>9
<1>13. PICK files : files = disk'.files
  OBVIOUS
<1>14. Truncated(j, h, n, files) /\ disk'.snapshots = disk.snapshots
  <2>1. disk \in [files : FileSets, snapshots : SnapshotSets]
    BY DEF TypeInv
  <2>2. disk' = [disk EXCEPT !.files =
                   [disk.files EXCEPT ![journal.file] = SubSeq(h.files[journal.file], 1, n)]]
    BY <1>4
  <2>3. /\ disk'.files = [disk.files EXCEPT ![journal.file] = SubSeq(h.files[journal.file], 1, n)]
        /\ disk'.snapshots = disk.snapshots
    BY <2>1, <2>2
  <2> QED
    BY <1>8, <1>9, <1>13, <2>3 DEF Truncated
<1>15. FilesOK(files, S)
  BY <1>11, <1>12, <1>14, TruncatedOK
<1>16. disk' \in [files : FileSets, snapshots : SnapshotSets]
  <2>1. files \in FileSets
    BY <1>15 DEF FilesOK
  <2>2. disk \in [files : FileSets, snapshots : SnapshotSets]
    BY DEF TypeInv
  <2> QED
    BY <1>4, <1>13, <2>1, <2>2
<1> QED
  BY <1>1, <1>13, <1>14, <1>15, <1>16, StopKeeps

-----------------------------------------------------------------------------
(***************************************************************************)
(* Starting again.                                                         *)
(***************************************************************************)

\* The newest complete snapshot is that of p.
Newest(S, p) ==
  /\ p \in Bases
  /\ NewestSnapshot = Id(S, p)
  /\ LoadData(Id(S, p)) = StateOfRun(p)
  /\ Id(S, p) = 0 \/ Complete(Id(S, p))
  /\ p # 0 => /\ disk.snapshots[<<Id(S, p), "RISK_ENGINE">>].seq = p - 1
              /\ phase # "crashed" => p <= applied + 1
  /\ \A r \in Bases \ {0} : Complete(Id(S, r)) => r <= p
  /\ \A id \in 1 .. MaxRequests : Complete(id) => id <= Id(S, p)

\* It is that of some base.
LEMMA NewestIs ==
  ASSUME TypeInv, NEW S, RunOK(S)
  PROVE  \E p : Newest(S, p)
<1>1. RingOK(S) /\ SnapshotsOK(S) /\ S \in 0 .. MaxRequests /\ MaxRequests \in Nat
  BY JournalSizes DEF RunOK, RingOK
<1>2. PICK D : D = {0} \cup {id \in 1 .. MaxRequests : Complete(id)}
  OBVIOUS
<1>3. D \in SUBSET Int /\ 0 \in D /\ (\A y \in D : y <= MaxRequests) /\ MaxRequests \in Int
  BY <1>1, <1>2
<1>4. PICK m : m = Max(D)
  OBVIOUS
<1>5. m \in D /\ m \in Int /\ \A y \in D : y <= m
  BY <1>3, <1>4, MaxOf
<1>6. NewestSnapshot = m
  BY <1>2, <1>4 DEF NewestSnapshot
<1>7. S \in D /\ S <= m
  BY <1>1, <1>2, <1>5 DEF SnapshotsOK
<1>8. \A id \in 1 .. MaxRequests : Complete(id) => id <= m
  BY <1>2, <1>5
<1>9. ASSUME NEW p \in Bases, Id(S, p) = m, NEW r \in Bases \ {0}, Complete(Id(S, r))
      PROVE  r <= p
  <2>1. Id(S, r) \in 0 .. MaxRequests /\ 0 \in Bases /\ Id(S, 0) = S /\ r \in Nat
    BY <1>1, BasesAre DEF Bases, Id
  <2>2. S < Id(S, r)
    BY <1>1, <2>1 DEF RingOK
  <2>3. Id(S, r) <= Id(S, p)
    BY <1>1, <1>8, <1>9, <2>1, <2>2
  <2> QED
    BY <1>1, <2>3, IdOrder
<1>10. CASE m = S
  <2>1. 0 \in Bases /\ Id(S, 0) = S
    BY DEF Bases, Id
  <2>2. LoadData(Id(S, 0)) = StateOfRun(0)
    <3>1. loaded \in States /\ ring \in Seq(Commands)
      BY <1>1 DEF TypeInv, RingOK
    <3> QED
      BY <1>1, <2>1, <3>1, StatesOfRun DEF SnapshotsOK
  <2>3. Newest(S, 0)
    BY <1>1, <1>6, <1>8, <1>9, <1>10, <2>1, <2>2 DEF Newest, SnapshotsOK
  <2> QED
    BY <2>3
<1>11. CASE m # S
  <2>1. m \in 1 .. MaxRequests /\ Complete(m) /\ ~(m <= S)
    BY <1>1, <1>2, <1>5, <1>7, <1>11
  <2>2. PICK p \in Bases \ {0} : m = Id(S, p)
    BY <1>1, <2>1 DEF SnapshotsOK
  <2>3. <<Id(S, p), "RISK_ENGINE">> \in DOMAIN disk.snapshots
    BY <2>1, <2>2 DEF Complete, Processors
  <2>4. /\ disk.snapshots[<<Id(S, p), "RISK_ENGINE">>] = [seq |-> p - 1, state |-> StateOfRun(p)]
        /\ phase # "crashed" => p <= applied + 1
    BY <1>1, <2>2, <2>3 DEF SnapshotsOK
  <2>5. LoadData(Id(S, p)) = StateOfRun(p)
    BY <2>1, <2>2, <2>4 DEF LoadData
  <2>6. disk.snapshots[<<Id(S, p), "RISK_ENGINE">>].seq = p - 1
    BY <2>4
  <2>7. Newest(S, p)
    BY <1>6, <1>8, <1>9, <2>1, <2>2, <2>4, <2>5, <2>6 DEF Newest
  <2> QED
    BY <2>7
<1> QED
  BY <1>10, <1>11

\* Y has c before the elements of X.
OneThen(Y, c, X) == Y = <<c>> \o X

\* An element before others.
LEMMA FirstThenOthers ==
  ASSUME NEW S, NEW c \in S, NEW X \in Seq(S), NEW Y, OneThen(Y, c, X)
  PROVE  /\ Y \in Seq(S) /\ Len(Y) = Len(X) + 1 /\ Y[1] = c
         /\ \A i \in 1 .. Len(X) : Y[i + 1] = X[i]
<1>1. <<c>> \in Seq(S) /\ Len(<<c>>) = 1 /\ <<c>>[1] = c
  OBVIOUS
<1>2. PICK one : one = <<c>>
  OBVIOUS
<1>3. one \in Seq(S) /\ Len(one) = 1 /\ one[1] = c
  BY <1>1, <1>2
<1>4. /\ one \o X \in Seq(S) /\ Len(one \o X) = Len(one) + Len(X)
      /\ \A i \in 1 .. Len(one) + Len(X) :
           (one \o X)[i] = IF i <= Len(one) THEN one[i] ELSE X[i - Len(one)]
  BY <1>3, ConcatProperties
<1>5. Y = one \o X
  BY <1>2 DEF OneThen
<1>6. /\ Y \in Seq(S) /\ Len(Y) = 1 + Len(X) /\ Len(X) \in Nat
      /\ \A i \in 1 .. 1 + Len(X) : Y[i] = IF i <= 1 THEN one[i] ELSE X[i - 1]
  BY <1>3, <1>4, <1>5
<1>7. Y[1] = c
  <2>1. 1 \in 1 .. 1 + Len(X)
    BY <1>6
  <2> QED
    BY <1>3, <1>6, <2>1
<1>8. ASSUME NEW i \in 1 .. Len(X) PROVE Y[i + 1] = X[i]
  <2>1. i + 1 \in 1 .. 1 + Len(X) /\ ~(i + 1 <= 1) /\ (i + 1) - 1 = i
    BY <1>6
  <2> QED
    BY <1>6, <2>1
<1> QED
  BY <1>6, <1>7, <1>8

\* A command that changes nothing, at the start.
LEMMA IdleFirst ==
  ASSUME NEW state \in States, NEW c \in Commands, Idle(c), NEW X \in Seq(Commands),
         NEW Y, OneThen(Y, c, X)
  PROVE  StateAfter(state, Y) = StateAfter(state, X)
<1>1. /\ Y \in Seq(Commands) /\ Len(Y) = Len(X) + 1 /\ Y[1] = c
      /\ \A i \in 1 .. Len(X) : Y[i + 1] = X[i]
  BY FirstThenOthers
<1>2. PICK run : Leads(run, state, Y) /\ StateAfter(state, Y) = run[Len(Y)]
  BY <1>1, StatesAfter
<1>3. /\ run \in [0 .. Len(Y) -> States] /\ run[0] = state
      /\ \A i \in 1 .. Len(Y) : run[i] = Effect(run[i - 1], Y[i])
  BY <1>2 DEF Leads
<1>4. run[1] = state
  <2>1. 1 \in 1 .. Len(Y) /\ 1 - 1 = 0
    BY <1>1
  <2>2. run[1] = Effect(state, c)
    BY <1>1, <1>3, <2>1
  <2> QED
    BY <2>2, IdleKeeps
<1>5. PICK short : short = [i \in 0 .. Len(X) |-> run[i + 1]]
  OBVIOUS
<1>6. Len(X) \in Nat
  OBVIOUS
<1>7. short \in [0 .. Len(X) -> States]
  BY <1>1, <1>3, <1>5, <1>6
<1>8. short[0] = state
  <2>1. 0 \in 0 .. Len(X) /\ 0 + 1 = 1
    BY <1>6
  <2> QED
    BY <1>4, <1>5, <2>1
<1>9. ASSUME NEW i \in 1 .. Len(X) PROVE short[i] = Effect(short[i - 1], X[i])
  <2>1. i \in 0 .. Len(X) /\ i - 1 \in 0 .. Len(X) /\ (i - 1) + 1 = i
    BY <1>6
  <2>2. short[i] = run[i + 1] /\ short[i - 1] = run[i]
    BY <1>5, <2>1
  <2>3. i + 1 \in 1 .. Len(Y) /\ (i + 1) - 1 = i
    BY <1>1, <1>6
  <2>4. run[i + 1] = Effect(run[i], Y[i + 1])
    BY <1>3, <2>3
  <2> QED
    BY <1>1, <2>2, <2>4
<1>10. Leads(short, state, X)
  BY <1>7, <1>8, <1>9 DEF Leads
<1>11. Starts(X, X)
  BY DEF Starts
<1>12. StateAfter(state, X) = short[Len(X)]
  BY <1>10, <1>11, StateOnTheWay
<1>13. short[Len(X)] = run[Len(Y)]
  BY <1>1, <1>5, <1>6
<1> QED
  BY <1>2, <1>12, <1>13

\* What a restart puts in the ring: the replay of some records.
Restarted(records) ==
  /\ records \in Seq(Records)
  /\ ring' = <<GroupingControl(0)>> \o ReplayedOf(records)

\* It is a ring.
LEMMA RestartedRing ==
  ASSUME NEW N \in 0 .. MaxRequests, requests' \in Nat, N <= requests',
         NEW records, Restarted(records)
  PROVE  /\ RingOK(N)' /\ Bases' = {0} /\ Len(ring') >= 1
         /\ Len(ring') <= Len(records) + 1
         /\ \A i \in 1 .. Len(ring') : ~IsPersist(ring'[i]) /\ ring'[i].command # "SHUTDOWN_SIGNAL"
         /\ NoBinary => Len(ReplayedOf(records)) = Len(Submitting(records))
         /\ records = <<>> => Len(ring') = 1
<1>1. PICK c : c = GroupingControl(0)
  OBVIOUS
<1>2. c \in Commands /\ c.command = "GROUPING_CONTROL"
  BY <1>1, JournalSizes DEF GroupingControl, Command, Commands, Names
<1>4. /\ ReplayedOf(records) \in Seq(Replayable)
      /\ Len(ReplayedOf(records)) \in 0 .. Len(records)
      /\ NoBinary => ReplayedOf(records) = Submitting(records)
  BY ReplayedCommands DEF Restarted, NoBinary
<1>5. PICK X \in Seq(Replayable) : X = ReplayedOf(records)
  BY <1>4
<1>6. X \in Seq(Commands) /\ \A i \in 1 .. Len(X) : X[i] \in Replayable
  <2>1. \A x \in Replayable : x \in Commands
    BY DEF Replayable
  <2> QED
    BY <1>5, <2>1, SeqOfSubset
<1>7. PICK Y : Y = ring'
  OBVIOUS
<1>8. OneThen(Y, c, X)
  BY <1>1, <1>5, <1>7 DEF Restarted, OneThen
<1>9. /\ ring' \in Seq(Commands) /\ Len(ring') = Len(X) + 1 /\ Len(X) \in Nat
      /\ ring'[1] = c
      /\ \A i \in 1 .. Len(X) : ring'[i + 1] = X[i]
  <2>1. /\ Y \in Seq(Commands) /\ Len(Y) = Len(X) + 1 /\ Y[1] = c
        /\ \A i \in 1 .. Len(X) : Y[i + 1] = X[i]
    BY <1>2, <1>6, <1>8, FirstThenOthers
  <2> QED
    BY <1>7, <2>1
<1>10. ring'[1] = c
  BY <1>9
<1>11. ASSUME NEW i \in 1 .. Len(ring')
       PROVE  ~IsPersist(ring'[i]) /\ ring'[i].command # "SHUTDOWN_SIGNAL"
  <2>1. CASE i = 1
    BY <1>2, <1>10, <2>1 DEF IsPersist
  <2>2. CASE i # 1
    <3>1. i - 1 \in 1 .. Len(X) /\ (i - 1) + 1 = i
      BY <1>9, <2>2
    <3>2. ring'[i] \in Replayable
      BY <1>6, <1>9, <3>1
    <3> QED
      BY <3>2 DEF Replayable, IsMutate
  <2> QED
    BY <2>1, <2>2
<1>12. \A i \in 1 .. Len(ring') : ~IsMatching(ring'[i]) /\ ~IsRisk(ring'[i])
  BY <1>11 DEF IsPersist, IsMatching, IsRisk
<1>13. Bases' = {0}
  BY <1>12 DEF Bases
<1>14. Id(N, 0)' = N
  BY DEF Id
<1>15. 1 <= Len(ring') /\ ring'[1].command = "GROUPING_CONTROL"
  BY <1>2, <1>9, <1>10
<1>16. RingOK(N)'
  BY <1>9, <1>12, <1>13, <1>14, <1>15 DEF RingOK
<1>17. Len(ring') <= Len(records) + 1
  BY <1>4, <1>5, <1>9 DEF Restarted
<1>18. records = <<>> => Len(ring') = 1
  <2>1. records = <<>> => Len(X) = 0
    BY <1>4, <1>5
  <2> QED
    BY <1>9, <2>1
<1> QED
  BY <1>4, <1>11, <1>13, <1>15, <1>16, <1>17, <1>18

\* All of it leads from the snapshot to where the replay leads.
LEMMA RestartedState ==
  ASSUME NEW N, RingOK(N)', loaded' \in States, NEW records, Restarted(records)
  PROVE  /\ StateOfRun(0)' = loaded'
         /\ \A n \in Nat : n = Len(ring') => Recovers(records, 0, n)'
<1>1. PICK c : c = GroupingControl(0)
  OBVIOUS
<1>2. c \in Commands /\ Idle(c)
  BY <1>1, JournalSizes DEF GroupingControl, Command, Commands, Names, Idle, IsMutate, IsPersist
<1>3. PICK X \in Seq(Commands) : X = ReplayedOf(records)
  <2>1. ReplayedOf(records) \in Seq(Replayable)
    BY ReplayedCommands DEF Restarted
  <2>2. \A x \in Replayable : x \in Commands
    BY DEF Replayable
  <2> QED
    BY <2>1, <2>2, SeqOfSubset
<1>4. PICK Y : Y = ring'
  OBVIOUS
<1>5. OneThen(Y, c, X) /\ Y \in Seq(Commands) /\ Len(Y) \in Nat
  BY <1>1, <1>3, <1>4 DEF Restarted, RingOK, OneThen
<1>6. PICK st \in States : st = loaded'
  OBVIOUS
<1>7. StateAfter(st, Y) = StateAfter(st, X)
  BY <1>2, <1>5, IdleFirst
<1>8. SubSeq(Y, 1, 0) = <<>>
  <2>1. 0 \in 0 .. Len(Y)
    BY <1>5
  <2>2. SubSeq(Y, 1, 0) \in Seq(Commands) /\ Len(SubSeq(Y, 1, 0)) = 0
    BY <1>5, <2>1, FirstElements
  <2> QED
    BY <2>2
<1>9. StateAfter(st, <<>>) = st
  BY StateEmpty
<1>10. StateOfRun(0)' = st
  BY <1>4, <1>6, <1>8, <1>9 DEF StateOfRun
<1>11. SubSeq(Y, 1, Len(Y)) = Y
  <2>1. Len(Y) \in 0 .. Len(Y)
    BY <1>5
  <2>2. /\ SubSeq(Y, 1, Len(Y)) \in Seq(Commands) /\ Len(SubSeq(Y, 1, Len(Y))) = Len(Y)
        /\ \A i \in 1 .. Len(Y) : SubSeq(Y, 1, Len(Y))[i] = Y[i]
    BY <1>5, <2>1, FirstElements
  <2>3. PICK Z \in Seq(Commands) : Z = SubSeq(Y, 1, Len(Y))
    BY <2>2
  <2>4. Len(Z) = Len(Y) /\ \A i \in 1 .. Len(Z) : Z[i] = Y[i]
    BY <2>2, <2>3
  <2>5. Z = Y
    BY <1>5, <2>4, SeqEqual
  <2> QED
    BY <2>3, <2>5
<1>12. ASSUME NEW n \in Nat, n = Len(ring') PROVE Recovers(records, 0, n)'
  <2>1. StateOfRun(n)' = StateAfter(st, Y)
    BY <1>4, <1>6, <1>11, <1>12 DEF StateOfRun
  <2> QED
    BY <1>3, <1>7, <1>10, <2>1 DEF Recovers
<1> QED
  BY <1>6, <1>10, <1>12

\* The files are good for the run that starts from one of their series.
LEMMA RestartedFiles ==
  ASSUME TypeInv, NEW S, RunOK(S), NEW p, Newest(S, p), NEW N, N = Id(S, p),
         NEW files, FilesOK(files, S), requests' = requests, disk' = disk, logged' = logged,
         loaded' = StateOfRun(p), NEW records, NEW k \in Nat, Reads(records, files, N, k),
         Good(records, files, S, p), Restarted(records)
  PROVE  /\ RingOK(N)' /\ FilesOK(files, N)'
         /\ NoBinary => Recovers(records, 0, Len(ring))'
         /\ \A i \in 1 .. Len(records) : records[i].seq >= Floor(N, 0)' + i
<1>1. p \in Bases /\ RingOK(S) /\ loaded \in States /\ ring \in Seq(Commands) /\ requests \in Nat
  BY DEF Newest, RunOK, TypeInv, RingOK
<1>2. p \in 0 .. Len(ring) /\ p \in Nat /\ N \in 0 .. MaxRequests /\ N <= requests
  <2>1. Id(S, p) <= requests
    BY <1>1 DEF RingOK
  <2> QED
    BY <1>1, <2>1, BasesAre
<1>3. /\ RingOK(N)' /\ Bases' = {0} /\ Len(ring') >= 1
  BY <1>1, <1>2, RestartedRing
<1>4. loaded' \in States
  BY <1>1, <1>2, StatesOfRun
<1>5. Len(ring') \in Nat
  BY <1>3 DEF RingOK
<1>6. PICK n \in Nat : n = Len(ring')
  BY <1>5
<1>7. Recovers(records, 0, n)'
  BY <1>3, <1>4, <1>6, RestartedState
<1>8. Id(N, 0)' = N
  BY DEF Id
<1>9. \A i \in 1 .. Len(records) : records[i].seq >= Floor(N, 0)' + i
  <2>1. Floor(N, 0)' \in Int /\ Floor(S, p) \in Int /\ Floor(N, 0)' <= Floor(S, p)
    <3>1. Floor(N, 0)' = IF logged /\ N # 0 THEN disk.snapshots[<<N, "RISK_ENGINE">>].seq ELSE 0
      BY DEF Floor
    <3>2. CASE p = 0
      <4>1. N = S
        BY <3>2 DEF Id
      <4>2. Floor(S, p) = Floor(N, 0)'
        BY <3>1, <3>2, <4>1 DEF Floor
      <4>3. Floor(N, 0)' \in Int
        <5>1. CASE logged /\ N # 0
          <6>1. <<N, "RISK_ENGINE">> \in DOMAIN disk.snapshots
            BY <5>1 DEF Newest, Complete, Processors
          <6>2. disk.snapshots[<<N, "RISK_ENGINE">>].seq \in Nat
            BY <6>1 DEF TypeInv, SnapshotSets
          <6> QED
            BY <3>1, <5>1, <6>2
        <5>2. CASE ~(logged /\ N # 0)
          BY <3>1, <5>2
        <5> QED
          BY <5>1, <5>2
      <4> QED
        BY <4>2, <4>3
    <3>3. CASE p # 0
      <4>1. disk.snapshots[<<N, "RISK_ENGINE">>].seq = p - 1
        BY <3>3 DEF Newest
      <4>2. Floor(S, p) = p - 1
        BY <3>3 DEF Floor
      <4> QED
        BY <1>2, <3>1, <3>3, <4>1, <4>2
    <3> QED
      BY <3>2, <3>3
  <2>2. records \in Seq(Records)
    BY DEF Restarted
  <2>3. ASSUME NEW i \in 1 .. Len(records) PROVE records[i].seq >= Floor(N, 0)' + i
    <3>1. records[i].seq >= Floor(S, p) + i
      BY DEF Good
    <3>2. records[i] \in Records
      BY <2>2, ElementOfSeq
    <3>3. records[i].seq \in Nat
      BY <3>2 DEF Records
    <3> QED
      BY <2>1, <3>1, <3>3
  <2> QED
    BY <2>3
<1>10. ~Ends(files, N, 0)'
  BY <1>3 DEF Ends
<1>11. Good(records, files, N, 0)'
  <2>1. n \in 0 .. Len(ring')
    BY <1>6
  <2>2. NoBinary => \E m \in 0 .. Len(ring') :
                      /\ Recovers(records, 0, m)'
                      /\ Ends(files, N, 0)' => \E r \in Bases' : 0 < r /\ r <= m
    BY <1>7, <1>10, <2>1
  <2> QED
    BY <1>9, <2>2 DEF Good
<1>12. SeriesGood(files, N, 0)'
  <2>1. Reads(records, files, Id(N, 0)', k)
    BY <1>8
  <2> QED
    BY <1>11, <2>1 DEF SeriesGood
<1>13. \A q \in Bases' : SeriesGood(files, N, q)'
  BY <1>3, <1>12
<1>14. \A q \in Bases' : \A f \in DOMAIN files : f[1] > Id(N, q)' => <<Id(N, q)', 1>> \in DOMAIN files
  <2>1. \A f \in DOMAIN files : f[1] > N => <<N, 1>> \in DOMAIN files
    BY <1>1 DEF FilesOK
  <2> QED
    BY <1>3, <1>8, <2>1
<1>15. FilesOK(files, N)'
  BY <1>13, <1>14 DEF FilesOK
<1>16. Recovers(records, 0, Len(ring))'
  BY <1>6, <1>7 DEF Recovers
<1> QED
  BY <1>3, <1>9, <1>15, <1>16

\* A restart.
LEMMA RestartKeeps ==
  ASSUME TypeInv, Progress, NEW S, RunOK(S), Restart
  PROVE  TypeInv' /\ Progress' /\ \E N : RunOK(N)'
<1>1. /\ phase = "crashed" /\ restarts' = restarts + 1 /\ restarts' \in 0 .. MaxRestarts
      /\ phase' = "startup"
      /\ journal' = NewProcessor(NewestSnapshot, SnapshotBaseSeq)
      /\ loaded' = LoadData(NewestSnapshot)
      /\ ring' = <<GroupingControl(0)>> \o Replayed(NewestSnapshot)
      /\ disk' = disk /\ jNext' = jNext /\ jEnd' = jEnd /\ jSequence' = jSequence
      /\ applied' = applied /\ requests' = requests /\ logged' = logged
  BY JournalSizes DEF Restart, TypeInv
<1>2. PICK p : Newest(S, p)
  BY NewestIs
<1>3. PICK N : N = Id(S, p)
  OBVIOUS
<1>4. /\ p \in Bases /\ NewestSnapshot = N /\ LoadData(N) = StateOfRun(p)
      /\ N = 0 \/ Complete(N)
      /\ \A id \in 1 .. MaxRequests : Complete(id) => id <= N
  BY <1>2, <1>3 DEF Newest
<1>5. /\ RingOK(S) /\ loaded \in States /\ ring \in Seq(Commands) /\ requests \in Nat
      /\ FilesOK(disk.files, S) /\ SnapshotsOK(S)
  <2>1. RingOK(S) /\ FilesOK(disk.files, S) /\ SnapshotsOK(S)
    BY DEF RunOK
  <2>2. loaded \in States /\ requests \in Nat
    BY DEF TypeInv
  <2>3. ring \in Seq(Commands)
    BY <2>1 DEF RingOK
  <2> QED
    BY <2>1, <2>2, <2>3
<1>6. p \in 0 .. Len(ring) /\ p \in Nat /\ N \in 0 .. MaxRequests /\ N <= requests
  <2>1. Id(S, p) <= requests
    BY <1>4, <1>5 DEF RingOK
  <2> QED
    BY <1>3, <1>4, <1>5, <2>1, BasesAre
<1>7. PICK files : files = disk.files
  OBVIOUS
<1>8. PICK records, k : /\ k \in Nat
                        /\ Reads(records, files, N, k)
                        /\ Good(records, files, S, p)
  BY <1>3, <1>4, <1>5, <1>7 DEF FilesOK, SeriesGood
<1>9. IsFiles(disk.files) /\ HasFiles(disk.files, N, k)
  BY <1>7, <1>8, FilesAreFiles DEF TypeInv, Reads
<1>10. RecordsRead(N) = records
  <2>1. Reads(records, disk.files, N, k)
    BY <1>7, <1>8
  <2> QED
    BY <1>8, <1>9, <2>1, RecordsAreRead
<1>11. Restarted(records)
  <2>1. Replayed(N) = ReplayedOf(records)
    BY <1>10, ReplayedIs
  <2>2. records \in Seq(Records)
    BY <1>8, ReadType
  <2> QED
    BY <1>1, <1>4, <2>1, <2>2 DEF Restarted
<1>12. FilesOK(files, S) /\ loaded' = StateOfRun(p)
  BY <1>1, <1>4, <1>5, <1>7
<1>13. /\ RingOK(N)' /\ FilesOK(files, N)'
       /\ NoBinary => Recovers(records, 0, Len(ring))'
       /\ \A i \in 1 .. Len(records) : records[i].seq >= Floor(N, 0)' + i
  BY <1>1, <1>2, <1>3, <1>8, <1>11, <1>12, RestartedFiles
<1>14. /\ Bases' = {0} /\ Len(ring') >= 1 /\ Len(ring') <= Len(records) + 1
       /\ \A i \in 1 .. Len(ring') : ~IsPersist(ring'[i]) /\ ring'[i].command # "SHUTDOWN_SIGNAL"
       /\ records = <<>> => Len(ring') = 1
  BY <1>1, <1>5, <1>6, <1>11, RestartedRing
<1>15. SnapshotBaseSeq = Floor(N, 0)'
  BY <1>1, <1>4 DEF SnapshotBaseSeq, Floor
<1>16. SnapshotBaseSeq \in Nat
  <2>1. CASE logged /\ N # 0
    <3>1. <<N, "RISK_ENGINE">> \in DOMAIN disk.snapshots
      BY <1>4, <2>1 DEF Complete, Processors
    <3>2. disk.snapshots[<<N, "RISK_ENGINE">>].seq \in Nat
      BY <3>1 DEF TypeInv, SnapshotSets
    <3> QED
      BY <1>4, <2>1, <3>2 DEF SnapshotBaseSeq
  <2>2. CASE ~(logged /\ N # 0)
    BY <1>4, <2>2 DEF SnapshotBaseSeq
  <2> QED
    BY <2>1, <2>2
<1>17. PICK B \in Nat : B = SnapshotBaseSeq
  BY <1>16
<1>18. journal' = NewProcessor(N, B)
  BY <1>1, <1>4, <1>17
<1>19. jNext = 0 /\ jEnd = -1 /\ jSequence = -1 /\ applied = -1
  BY <1>1 DEF RunOK, MemoryOK
<1>20. TypeInv'
  <2>1. loaded' \in States
    BY <1>5, <1>6, <1>12, StatesOfRun
  <2>2. journal' \in Memories
    BY <1>6, <1>18, NewMemory
  <2> QED
    BY <1>1, <2>1, <2>2 DEF TypeInv
<1>21. Progress'
  <2>1. Len(ring') \in Nat
    BY <1>13 DEF RingOK
  <2> QED
    BY <1>1, <1>14, <1>19, <2>1 DEF Progress
<1>22. StartOK'
  BY <1>14 DEF StartOK
<1>23. FilesOK(disk.files, N)'
  BY <1>1, <1>7, <1>13
<1>24. SnapshotsOK(N)'
  <2>1. \A f \in DOMAIN disk.snapshots : f[1] <= requests
    BY <1>5 DEF SnapshotsOK
  <2>2. \A id : Complete(id)' <=> Complete(id)
    BY <1>1 DEF Complete
  <2>3. LoadData(N)' = LoadData(N)
    BY <1>1 DEF LoadData
  <2> QED
    BY <1>1, <1>4, <1>14, <2>1, <2>2, <2>3 DEF SnapshotsOK
<1>25. Unwritten(journal, N)' /\ journal'.filesCounter = 0 /\ ~journal'.failed
       /\ journal'.enableJournalAfterSeq = -1 /\ journal'.baseSeq = B /\ journal'.buffer = <<>>
  BY <1>18 DEF NewProcessor, Unwritten
<1>26. \A i : ~Due(i)'
  BY <1>25 DEF Due, Journaled
<1>27. CASE <<N, 1>> \in DOMAIN disk.files
  <2>1. Replays(N)'
    <3>1. Reads(records, disk'.files, N, k)
      BY <1>1, <1>7, <1>8
    <3>2. NoBinary =>
            Recovers(records, 0, IF phase = "startup" THEN Len(ring) ELSE FirstRequest - 1)'
      BY <1>1, <1>13 DEF Recovers
    <3> QED
      BY <1>8, <1>14, <3>1, <3>2 DEF Replays
  <2>2. Frozen(N)'
    BY <1>1, <1>14, <1>25, <1>26, <1>27, <2>1 DEF Frozen
  <2> QED
    BY <1>1, <1>13, <1>15, <1>17, <1>18, <1>20, <1>21, <1>22, <1>23, <1>24, <1>25, <2>2, JournalSizes
       DEF RunOK, MemoryOK
<1>28. CASE <<N, 1>> \notin DOMAIN disk.files
  <2>1. \A f \in DOMAIN disk.files : f[1] < N
    <3>1. ASSUME NEW f \in DOMAIN disk.files PROVE f[1] < N
      <4>1. DOMAIN disk.files \subseteq FileNames
        BY <1>9 DEF IsFiles
      <4>2. PICK a \in 0 .. MaxRequests, b \in Nat \ {0} : f = <<a, b>>
        BY <4>1 DEF FileNames
      <4>3. a <= N
        <5>1. f[1] > Id(S, p) => <<Id(S, p), 1>> \in DOMAIN disk.files
          BY <1>4, <1>5 DEF FilesOK
        <5>2. ~(a > N)
          BY <1>3, <1>28, <4>2, <5>1
        <5> QED
          BY <1>6, <4>2, <5>2
      <4>4. a # N
        <5>1. ASSUME a = N PROVE FALSE
          <6>1. b <= k
            BY <1>9, <4>2, <5>1 DEF HasFiles
          <6>2. 1 <= k /\ 1 \in Nat \ {0}
            BY <1>8, <4>2, <6>1
          <6> QED
            BY <1>9, <1>28, <6>2 DEF HasFiles
        <5> QED
          BY <5>1
      <4> QED
        BY <1>6, <4>2, <4>3, <4>4
    <3> QED
      BY <3>1
  <2>2. records = <<>>
    <3>1. HasFiles(files, N, 0)
      <4>1. \A i \in Nat \ {0} : <<N, i>> \notin DOMAIN disk.files
        <5>1. \A i : <<N, i>>[1] = N
          OBVIOUS
        <5> QED
          BY <1>6, <2>1, <5>1
      <4> QED
        BY <1>7, <4>1 DEF HasFiles
    <3>2. Reads(<<>>, files, N, 0)
      BY <3>1, NoSeries
    <3>3. 0 \in Nat
      OBVIOUS
    <3> QED
      BY <1>8, <3>2, <3>3, ReadUnique
  <2>3. Len(ring') = 1
    BY <1>14, <2>2
  <2>4. Waits(N)'
    <3>1. \A i \in 1 .. jNext' : ~IsMutate(ring'[i])
      BY <1>1, <1>19
    <3> QED
      BY <1>1, <1>25, <2>1, <3>1 DEF Waits
  <2>5. \A i \in 1 .. FirstRequest' - 1 : ~IsMutate(ring'[i])
    <3>1. ring' \in Seq(Commands) /\ ring'[1].command = "GROUPING_CONTROL"
      BY <1>13 DEF RingOK
    <3>2. PICK Y \in Seq(Commands) : Y = ring'
      BY <3>1
    <3>3. FirstOf(Y) \in 2 .. Len(Y) + 1
      BY <2>3, <3>1, <3>2, FirstExists
    <3>4. FirstRequest' = FirstOf(Y)
      BY <3>2 DEF FirstRequest, FirstOf
    <3>5. ~IsMutate(ring'[1])
      BY <3>1 DEF IsMutate, IsPersist
    <3>6. FirstRequest' = 2
      <4>1. Len(Y) = 1
        BY <2>3, <3>2
      <4>2. FirstOf(Y) = 2
        BY <3>3, <4>1
      <4> QED
        BY <3>4, <4>2
    <3> QED
      BY <3>5, <3>6
  <2>6. Live(N)'
    BY <1>1, <1>25, <2>3, <2>4, <2>5 DEF Live
  <2> QED
    BY <1>1, <1>13, <1>15, <1>17, <1>18, <1>20, <1>21, <1>22, <1>23, <1>24, <1>25, <2>6, JournalSizes
       DEF RunOK, MemoryOK
<1> QED
  BY <1>27, <1>28

\* The end of startup: a command more, of the core.
LEMMA EnableGrows ==
  ASSUME TypeInv, Progress, NEW S, RunOK(S), EnableJournaling
  PROVE  /\ Continues(S) /\ NewIds(disk.files, S) /\ NewIds(disk.snapshots, S)
         /\ Len(ring') = Len(ring) + 1 /\ ring'[Len(ring) + 1].command = "GROUPING_CONTROL"
         /\ FirstRequest' = Len(ring) + 2
<1>1. /\ ring' = Append(ring, GroupingControl(1)) /\ loaded' = loaded /\ requests' = requests
      /\ disk' = disk /\ logged' = logged
  BY DEF EnableJournaling
<1>2. PICK c : c = GroupingControl(1)
  OBVIOUS
<1>3. c \in Commands /\ c.command = "GROUPING_CONTROL"
  BY <1>2, JournalSizes DEF GroupingControl, Command, Commands, Names
<1>4. PICK new : new = <<c>>
  OBVIOUS
<1>5. new \in Seq(Commands) /\ Len(new) = 1 /\ new[1] = c
  BY <1>3, <1>4
<1>6. RingOK(S) /\ ring \in Seq(Commands) /\ Len(ring) \in Nat /\ requests \in 0 .. MaxRequests /\ loaded \in States
  BY DEF RunOK, RingOK, TypeInv
<1>7. ring' = ring \o new
  BY <1>1, <1>2, <1>4, <1>6
<1>8. IsMore(new, requests + 1)
  BY <1>3, <1>5 DEF IsMore, IsPersist
<1>9. /\ requests \in Nat /\ requests' \in Nat /\ requests <= requests'
      /\ (Len(new) = 2 => requests' = requests + 1) /\ requests' <= MaxRequests
  BY <1>1, <1>5, <1>6, JournalSizes
<1>10. /\ RingOK(S)' /\ Starts(ring, ring')
       /\ Len(ring') = Len(ring) + Len(new)
       /\ \A i \in 1 .. Len(new) : ring'[Len(ring) + i] = new[i]
       /\ \A p \in Bases' : p <= Len(ring) \/ Id(S, p)' = requests + 1
  BY <1>6, <1>7, <1>8, <1>9, RingGrows
<1>11. Floor(S, 0)' = Floor(S, 0)
  BY <1>1 DEF Floor
<1>12. Continues(S)
  BY <1>1, <1>6, <1>9, <1>10, <1>11 DEF Continues
<1>13. NewIds(disk.files, S) /\ NewIds(disk.snapshots, S)
  BY <1>10, NewIdsAbove
<1>14. Len(ring') = Len(ring) + 1 /\ ring'[Len(ring) + 1].command = "GROUPING_CONTROL"
  BY <1>3, <1>5, <1>10
<1>15. FirstRequest' = Len(ring) + 2
  <2>1. PICK Y \in Seq(Commands) : Y = ring'
    BY <1>10 DEF RingOK
  <2>2. PICK n \in 1 .. Len(Y) : n = Len(ring) + 1
    BY <1>6, <1>14, <2>1
  <2>3. Y[n].command = "GROUPING_CONTROL" /\ \A i \in n + 1 .. Len(Y) : Y[i].command # "GROUPING_CONTROL"
    BY <1>6, <1>14, <2>1, <2>2
  <2>4. FirstOf(Y) = n + 1
    BY <2>3, FirstIs
  <2> QED
    BY <1>6, <2>1, <2>2, <2>4 DEF FirstRequest, FirstOf
<1> QED
  BY <1>12, <1>13, <1>14, <1>15

\* Where journaling starts: after all that has been replayed.
LEMMA EnabledAfter ==
  ASSUME TypeInv, NEW S, RunOK(S), phase = "startup",
         NEW records, NEW k \in Nat, Reads(records, disk.files, S, k)
  PROVE  /\ LastSeq(journal.baseSnapshotId, journal.baseSeq) \in Nat
         /\ journal.baseSeq = Floor(S, 0) /\ journal.baseSeq \in Nat
         /\ LastSeq(journal.baseSnapshotId, journal.baseSeq) >= journal.baseSeq + Len(records)
         /\ records = <<>> => LastSeq(journal.baseSnapshotId, journal.baseSeq) = journal.baseSeq
<1>1. journal = NewProcessor(S, Floor(S, 0)) /\ journal.baseSeq = Floor(S, 0)
  BY DEF RunOK, MemoryOK
<1>2. journal.baseSnapshotId = S
  BY <1>1 DEF NewProcessor
<1>3. PICK B \in Nat : B = journal.baseSeq
  BY DEF TypeInv, Memories
<1>4. IsFiles(disk.files)
  BY FilesAreFiles DEF TypeInv
<1>5. RecordsRead(S) = records
  BY <1>4, RecordsAreRead DEF Reads
<1>6. records \in Seq(Records)
  BY ReadType
<1>7. LastSeq(S, B) = IF records = <<>> THEN B ELSE records[Len(records)].seq
  BY <1>5 DEF LastSeq, Last
<1>8. \A i \in 1 .. Len(records) : records[i].seq >= B + i
  <2>1. 0 \in Bases /\ Id(S, 0) = S
    BY DEF Bases, Id
  <2>2. PICK others, l : /\ l \in Nat
                         /\ Reads(others, disk.files, S, l)
                         /\ Good(others, disk.files, S, 0)
    BY <2>1 DEF RunOK, FilesOK, SeriesGood
  <2>3. others = records
    BY <2>2, ReadUnique
  <2> QED
    BY <1>1, <1>3, <2>2, <2>3 DEF Good
<1>9. CASE records = <<>>
  BY <1>1, <1>2, <1>3, <1>7, <1>9
<1>10. CASE records # <<>>
  <2>1. Len(records) \in 1 .. Len(records)
    BY <1>6, <1>10
  <2>2. records[Len(records)] \in Records
    BY <1>6, <2>1, ElementOfSeq
  <2>3. records[Len(records)].seq \in Nat
    BY <2>2 DEF Records
  <2> QED
    BY <1>1, <1>2, <1>3, <1>7, <1>8, <1>10, <2>1, <2>3
<1> QED
  BY <1>9, <1>10

\* Journaling is enabled.
LEMMA EnableKeeps ==
  ASSUME TypeInv, Progress, NEW S, RunOK(S), EnableJournaling
  PROVE  TypeInv' /\ Progress' /\ RunOK(S)'
<1>1. /\ phase = "startup" /\ phase' = "running"
      /\ journal' = [journal EXCEPT !.enableJournalAfterSeq =
                       LastSeq(journal.baseSnapshotId, journal.baseSeq)]
      /\ disk' = disk /\ loaded' = loaded /\ jNext' = jNext /\ jEnd' = jEnd
      /\ jSequence' = jSequence /\ applied' = applied /\ requests' = requests
      /\ restarts' = restarts /\ logged' = logged
  BY DEF EnableJournaling
<1>2. /\ Continues(S) /\ NewIds(disk.files, S) /\ NewIds(disk.snapshots, S)
      /\ Len(ring') = Len(ring) + 1 /\ ring'[Len(ring) + 1].command = "GROUPING_CONTROL"
      /\ FirstRequest' = Len(ring) + 2
  BY EnableGrows
<1>3. /\ Len(ring) \in Nat
      /\ \A i \in 1 .. Len(ring) : ring'[i] = ring[i]
      /\ \A p \in Bases : p \in Bases' /\ Id(S, p)' = Id(S, p)
      /\ \A p \in Bases' : p <= Len(ring) => p \in Bases
      /\ \A n \in 0 .. Len(ring) : StateOfRun(n)' = StateOfRun(n)
  BY <1>2, RunStays
<1>4. /\ RingOK(S) /\ jNext \in 0 .. Len(ring) /\ loaded \in States /\ ring \in Seq(Commands)
      /\ journal \in Memories
  BY Positions DEF RunOK, TypeInv, RingOK
<1>5. PICK after : after = LastSeq(journal.baseSnapshotId, journal.baseSeq)
  OBVIOUS
<1>6. journal' = [journal EXCEPT !.enableJournalAfterSeq = after]
  BY <1>1, <1>5
<1>7. 0 \in Bases /\ Id(S, 0) = S /\ FilesOK(disk.files, S) /\ IsFiles(disk.files)
  BY FilesAreFiles DEF Bases, Id, RunOK, TypeInv
<1>8. /\ after \in Nat /\ journal.baseSeq = Floor(S, 0) /\ journal.baseSeq \in Nat
  <2>1. PICK records, k : k \in Nat /\ Reads(records, disk.files, S, k)
    BY <1>7 DEF FilesOK, SeriesGood
  <2> QED
    BY <1>1, <1>5, <2>1, EnabledAfter
<1>9. /\ journal' \in Memories
      /\ journal'.buffer = journal.buffer /\ journal'.file = journal.file
      /\ journal'.filesCounter = journal.filesCounter
      /\ journal'.writtenBytes = journal.writtenBytes
      /\ journal'.baseSnapshotId = journal.baseSnapshotId
      /\ journal'.baseSeq = journal.baseSeq
      /\ journal'.enableJournalAfterSeq = after
      /\ journal'.failed = journal.failed
  BY <1>4, <1>6, <1>8 DEF Memories
<1>10. TypeInv'
  BY <1>1, <1>9 DEF TypeInv
<1>11. Progress'
  BY <1>1, <1>2, <1>3 DEF Progress, TypeInv
<1>12. ~IsMutate(ring'[Len(ring) + 1]) /\ ~IsPersist(ring'[Len(ring) + 1])
       /\ ring'[Len(ring) + 1].command # "SHUTDOWN_SIGNAL"
  BY <1>2 DEF IsMutate, IsPersist
<1>13. \A i \in 1 .. Len(ring') : i \in 1 .. Len(ring) \/ i = Len(ring) + 1
  BY <1>2, <1>3
<1>14. StartOK'
  <2>1. \A i \in 1 .. Len(ring) : ~IsPersist(ring[i]) /\ ring[i].command # "SHUTDOWN_SIGNAL"
    BY <1>1 DEF RunOK, StartOK
  <2>2. \A i \in 1 .. Len(ring') : ~IsPersist(ring'[i]) /\ ring'[i].command # "SHUTDOWN_SIGNAL"
    BY <1>3, <1>12, <1>13, <2>1
  <2> QED
    BY <2>2 DEF StartOK
<1>15. FilesOK(disk.files, S)'
  <2>1. PICK files : files = disk.files
    OBVIOUS
  <2>2. FilesOK(files, S) /\ NewIds(files, S)
    BY <1>2, <1>7, <2>1
  <2>3. FilesOK(files, S)'
    BY <1>2, <2>2, FilesStay
  <2> QED
    BY <1>1, <2>1, <2>3
<1>16. SnapshotsOK(S)'
  <2>1. SnapshotsOK(S) /\ disk.snapshots \in SnapshotSets /\ disk'.snapshots = disk.snapshots
    BY <1>1 DEF RunOK, TypeInv
  <2>2. applied \in Int /\ applied' \in Int /\ phase # "crashed" /\ applied <= applied'
    BY <1>1 DEF TypeInv
  <2> QED
    BY <1>2, <2>1, <2>2, SnapshotsStay
<1>17. journal.enableJournalAfterSeq = -1 /\ ~journal.failed /\ Unwritten(journal, S)
       /\ journal.filesCounter = 0
  BY <1>1 DEF RunOK, MemoryOK, NewProcessor, Unwritten
<1>18. Unwritten(journal, S)' /\ journal'.filesCounter = 0 /\ ~journal'.failed
  BY <1>9, <1>17 DEF Unwritten
<1>19. Floor(S, 0)' = Floor(S, 0)
  BY <1>2 DEF Continues
<1>20. CASE Frozen(S)
  <2>1. PICK records, k :
          /\ k \in Nat
          /\ Reads(records, disk.files, S, k)
          /\ Len(ring) <= Len(records) + 1
          /\ NoBinary => Recovers(records, 0, Len(ring))
    BY <1>1, <1>20 DEF Frozen, Replays
  <2>2. after >= journal.baseSeq + Len(records)
    BY <1>1, <1>5, <2>1, EnabledAfter
  <2>3. Len(records) \in Nat
    BY <2>1, ReadType
  <2>4. ASSUME NEW i \in 1 .. Len(ring') PROVE ~Due(i)'
    <3>1. CASE i \in 1 .. Len(ring)
      <4>1. ~(i - 1 + journal.baseSeq > after)
        BY <1>3, <1>8, <2>1, <2>2, <2>3, <3>1
      <4> QED
        BY <1>9, <4>1 DEF Due, Journaled
    <3>2. CASE i = Len(ring) + 1
      BY <1>12, <3>2 DEF Due
    <3> QED
      BY <1>13, <3>1, <3>2
  <2>5. Replays(S)'
    <3>1. PICK n \in 0 .. Len(ring') : n = Len(ring) + 1
      BY <1>2, <1>3
    <3>2. n = IF phase' = "startup" THEN Len(ring') ELSE FirstRequest' - 1
      BY <1>1, <1>2, <1>3, <3>1
    <3>7. PICK m \in 0 .. Len(ring) : m = Len(ring)
      BY <1>3
    <3>3. StateOfRun(n)' = StateOfRun(m)'
      <4>1. PICK st \in States, Y \in Seq(Commands) : st = loaded' /\ Y = ring'
        BY <1>1, <1>2, <1>4 DEF Continues, RingOK
      <4>2. PICK run : Leads(run, st, Y) /\ StateAfter(st, Y) = run[Len(Y)]
        BY StatesAfter
      <4>3. Len(Y) = n /\ Len(ring) \in 0 .. Len(Y) /\ n \in Len(ring) .. Len(Y)
        BY <1>2, <1>3, <3>1, <4>1
      <4>4. \A i \in Len(ring) + 1 .. n : Idle(Y[i])
        BY <1>3, <1>12, <3>1, <4>1 DEF Idle
      <4>5. run[n] = run[Len(ring)]
        BY <4>2, <4>3, <4>4, IdleStretch
      <4>6. \A l \in 0 .. Len(Y) : StateAfter(st, SubSeq(Y, 1, l)) = run[l]
        <5>1. ASSUME NEW l \in 0 .. Len(Y) PROVE StateAfter(st, SubSeq(Y, 1, l)) = run[l]
          <6>1. PICK first \in Seq(Commands) : first = SubSeq(Y, 1, l)
            BY FirstElements
          <6>2. Len(first) = l /\ \A i \in 1 .. l : first[i] = Y[i]
            BY <6>1, FirstElements
          <6>3. Starts(first, Y)
            BY <6>2 DEF Starts
          <6>4. StateAfter(st, first) = run[Len(first)]
            BY <4>2, <6>3, StateOnTheWay
          <6> QED
            BY <6>1, <6>2, <6>4
        <5> QED
          BY <5>1
      <4> QED
        BY <3>7, <4>1, <4>3, <4>5, <4>6 DEF StateOfRun
    <3>4. NoBinary => Recovers(records, 0, n)'
      <4>1. 0 \in 0 .. Len(ring)
        BY <1>3
      <4>2. StateOfRun(0)' = StateOfRun(0) /\ StateOfRun(m)' = StateOfRun(m)
        BY <1>3, <4>1
      <4>3. NoBinary => Recovers(records, 0, m)
        BY <2>1, <3>7
      <4> QED
        BY <3>3, <4>2, <4>3 DEF Recovers
    <3>5. NoBinary =>
            Recovers(records, 0, IF phase = "startup" THEN Len(ring) ELSE FirstRequest - 1)'
      BY <3>2, <3>4 DEF Recovers
    <3>6. Reads(records, disk'.files, S, k)
      BY <1>1, <2>1
    <3> QED
      BY <1>1, <2>1, <3>5, <3>6 DEF Replays
  <2>6. \A p \in Bases' \ {0} : \A f \in DOMAIN disk'.files : f[1] < Id(S, p)'
    <3>1. ASSUME NEW p \in Bases' \ {0}, NEW f \in DOMAIN disk.files PROVE f[1] < Id(S, p)'
      <4>1. p <= Len(ring) \/ f[1] < Id(S, p)'
        BY <1>2 DEF NewIds
      <4>2. CASE p <= Len(ring)
        <5>1. p \in Bases \ {0} /\ Id(S, p)' = Id(S, p)
          BY <1>3, <4>2
        <5> QED
          BY <1>20, <5>1 DEF Frozen
      <4> QED
        BY <4>1, <4>2
    <3> QED
      BY <1>1, <3>1
  <2>7. <<S, 1>> \in DOMAIN disk'.files
    BY <1>1, <1>20 DEF Frozen
  <2>8. Frozen(S)'
    BY <1>18, <2>4, <2>5, <2>6, <2>7 DEF Frozen
  <2>9. MemoryOK(S)'
    BY <1>1, <1>8, <1>9, <1>19, <2>8 DEF RunOK, MemoryOK
  <2> QED
    BY <1>2, <1>10, <1>11, <1>14, <1>15, <1>16, <2>9 DEF RunOK, Continues
<1>21. CASE Live(S)
  <2>1. Waits(S) /\ Len(ring) = 1
    <3>1. ASSUME Writes(S) PROVE FALSE
      <4>1. PICK p : Follows(Processor, S, p, jNext)
        BY <3>1 DEF Writes
      <4>2. Processor.file = <<Id(S, p), Processor.filesCounter>>
        BY <4>1 DEF Follows, InSeries
      <4>3. Processor.file = <<>>
        BY <1>17, ProcessorIs DEF Unwritten, NoFile
      <4>4. <<Id(S, p), Processor.filesCounter>> # <<>>
        OBVIOUS
      <4> QED
        BY <4>2, <4>3, <4>4
    <3> QED
      BY <1>1, <1>21, <3>1 DEF Live
  <2>2. HasFiles(disk.files, S, 0)
    <3>1. \A i : <<S, i>>[1] = S
      OBVIOUS
    <3>2. \A f \in DOMAIN disk.files : f[1] < S
      BY <2>1 DEF Waits
    <3>3. S \in Int
      BY <1>4 DEF RingOK
    <3>4. \A i : <<S, i>> \notin DOMAIN disk.files
      BY <3>1, <3>2, <3>3
    <3> QED
      BY <3>4 DEF HasFiles
  <2>3. after = journal.baseSeq
    <3>1. Reads(<<>>, disk.files, S, 0) /\ 0 \in Nat
      BY <2>2, NoSeries
    <3> QED
      BY <1>1, <1>5, <3>1, EnabledAfter
  <2>4. \A i \in 1 .. Len(ring') : ~IsMutate(ring'[i])
    <3>1. ~IsMutate(ring[1])
      BY <1>4, FirstCommand
    <3> QED
      BY <1>3, <1>12, <1>13, <2>1, <3>1
  <2>5. Waits(S)'
    <3>1. \A i \in 1 .. jNext : ~IsMutate(ring'[i])
      <4>1. \A i \in 1 .. jNext : i \in 1 .. Len(ring')
        BY <1>2, <1>3, <1>4
      <4> QED
        BY <2>4, <4>1
    <3> QED
      BY <1>1, <1>18, <2>1, <3>1 DEF Waits
  <2>6. \A i \in 1 .. FirstRequest' - 1 : ~IsMutate(ring'[i])
    <3>1. \A i \in 1 .. FirstRequest' - 1 : i \in 1 .. Len(ring')
      BY <1>2, <1>3
    <3> QED
      BY <2>4, <3>1
  <2>7. Live(S)'
    BY <1>1, <1>9, <1>18, <2>3, <2>5, <2>6 DEF Live
  <2>8. MemoryOK(S)'
    BY <1>1, <1>8, <1>9, <1>19, <2>7 DEF RunOK, MemoryOK
  <2> QED
    BY <1>2, <1>10, <1>11, <1>14, <1>15, <1>16, <2>8 DEF RunOK, Continues
<1> QED
  BY <1>1, <1>20, <1>21 DEF RunOK, MemoryOK

\* The process stops between two commands.
LEMMA CrashKeeps ==
  ASSUME TypeInv, Progress, NEW S, RunOK(S), Crash
  PROVE  TypeInv' /\ Progress' /\ RunOK(S)'
<1>1. Stop /\ disk' = disk
  BY DEF Crash
<1>2. FilesOK(disk'.files, S)
  BY <1>1 DEF RunOK
<1>3. disk' \in [files : FileSets, snapshots : SnapshotSets]
  BY <1>1 DEF TypeInv
<1> QED
  BY <1>1, <1>2, <1>3, StopKeeps

\* Nothing happens.
LEMMA StutterKeeps ==
  ASSUME TypeInv, Progress, NEW S, RunOK(S), UNCHANGED vars
  PROVE  TypeInv' /\ Progress' /\ RunOK(S)'
<1>1. /\ disk' = disk /\ journal' = journal /\ ring' = ring /\ loaded' = loaded
      /\ jNext' = jNext /\ jEnd' = jEnd /\ jSequence' = jSequence /\ applied' = applied
      /\ phase' = phase /\ requests' = requests /\ restarts' = restarts /\ logged' = logged
  BY DEF vars
<1>2. Floor(S, 0)' = Floor(S, 0)
  BY <1>1 DEF Floor
<1>3. /\ Continues(S) /\ FirstRequest' = FirstRequest
      /\ \A files : NewIds(files, S)
  BY <1>1, <1>2, SameRunContinues
<1>4. TypeInv'
  BY <1>1 DEF TypeInv
<1>5. Progress'
  BY <1>1 DEF Progress
<1>6. FilesOK(disk.files, S)'
  <2>1. PICK files : files = disk'.files
    OBVIOUS
  <2>2. FilesOK(files, S) /\ NewIds(files, S)
    BY <1>1, <1>3, <2>1 DEF RunOK
  <2>3. FilesOK(files, S)'
    BY <1>3, <2>2, FilesStay
  <2> QED
    BY <2>1, <2>3
<1>7. SnapshotsOK(S)'
  <2>1. SnapshotsOK(S) /\ disk.snapshots \in SnapshotSets /\ NewIds(disk.snapshots, S)
    BY <1>3 DEF RunOK, TypeInv
  <2>2. applied \in Int /\ applied' = applied /\ applied <= applied'
    BY <1>1 DEF TypeInv
  <2>3. phase' = "crashed" \/ (phase # "crashed" /\ applied <= applied')
    BY <1>1, <2>2
  <2> QED
    BY <1>1, <1>3, <2>1, <2>2, <2>3, SnapshotsStay
<1>8. StartOK'
  BY <1>1, <1>3 DEF RunOK, StartOK
<1>9. MemoryOK(S)'
  <2>1. CASE phase = "crashed"
    BY <1>1, <2>1 DEF RunOK, MemoryOK
  <2>2. CASE phase # "crashed"
    <3>1. Rests
      BY <1>1, <1>3, <2>2 DEF Rests
    <3>2. MemoryOK(S) /\ NewIds(disk.files, S)
      BY <1>3 DEF RunOK
    <3> QED
      BY <1>3, <3>1, <3>2, MemoryStays
  <2> QED
    BY <2>1, <2>2
<1>10. RingOK(S)'
  BY <1>3 DEF Continues
<1> QED
  BY <1>4, <1>5, <1>6, <1>7, <1>8, <1>9, <1>10 DEF RunOK

\* A clean start.
LEMMA InitKeeps ==
  ASSUME Init
  PROVE  IInv
<1>1. /\ disk = [files |-> <<>>, snapshots |-> <<>>]
      /\ journal = [NewProcessor(0, 0) EXCEPT !.enableJournalAfterSeq = 0]
      /\ ring = <<GroupingControl(1)>>
      /\ loaded = <<>>
      /\ jNext = 0 /\ jEnd = -1 /\ jSequence = -1 /\ applied = -1
      /\ phase = "running"
      /\ requests = 0 /\ restarts = 0
      /\ logged \in BOOLEAN
  BY DEF Init
<1>2. MaxRequests \in Nat \ {0} /\ MaxRestarts \in Nat /\ JournalBufferSize \in Nat \ {0}
  BY JournalSizes
<1>3. PICK c \in Commands : c = GroupingControl(1)
  <2>1. "GROUPING_CONTROL" \in Names /\ 1 \in 0 .. MaxRequests /\ 0 \in {-1, 0, 255}
    BY <1>2 DEF Names
  <2> QED
    <3>1. GroupingControl(1) = [command |-> "GROUPING_CONTROL", orderId |-> 1, symbol |-> 0]
      BY DEF GroupingControl, Command
    <3>2. GroupingControl(1) \in Commands
      BY <2>1, <3>1 DEF Commands
    <3> QED
      BY <3>2
<1>4. c.command = "GROUPING_CONTROL" /\ ~IsPersist(c) /\ ~IsMutate(c)
  BY <1>3 DEF GroupingControl, Command, IsMutate, IsPersist
<1>5. ring \in Seq(Commands) /\ Len(ring) = 1 /\ ring[1] = c
  BY <1>1, <1>3
<1>6. \A i \in 1 .. Len(ring) : i = 1 /\ ring[i] = c
  BY <1>5
<1>7. DOMAIN disk.files = {} /\ DOMAIN disk.snapshots = {}
  BY <1>1
<1>8. disk.files \in FileSets /\ disk.snapshots \in SnapshotSets
  <2>1. disk.files \in [{} -> Seq(Records)] /\ {} \in SUBSET FileNames
    BY <1>1
  <2>2. disk.snapshots \in [{} -> [seq : Nat, state : States]]
        /\ {} \in SUBSET ((1 .. MaxRequests) \X Processors)
    BY <1>1
  <2> QED
    BY <2>1, <2>2 DEF FileSets, SnapshotSets
<1>9. loaded \in States
  BY <1>1 DEF States
<1>10. /\ journal.buffer = <<>> /\ journal.file = NoFile /\ journal.filesCounter = 0
       /\ journal.writtenBytes = 0 /\ journal.baseSnapshotId = 0 /\ journal.baseSeq = 0
       /\ journal.enableJournalAfterSeq = 0 /\ journal.failed = FALSE
       /\ journal \in Memories
  <2>1. 0 \in 0 .. MaxRequests /\ <<>> \in Seq(Records)
    BY <1>2
  <2>2. journal = [buffer |-> <<>>, file |-> NoFile, filesCounter |-> 0, writtenBytes |-> 0,
                   baseSnapshotId |-> 0, baseSeq |-> 0, enableJournalAfterSeq |-> 0,
                   failed |-> FALSE]
    BY <1>1 DEF NewProcessor
  <2> QED
    BY <2>1, <2>2 DEF Memories
<1>11. TypeInv
  <2>1. disk \in [files : FileSets, snapshots : SnapshotSets]
    BY <1>1, <1>8
  <2>2. 0 \in 0 .. MaxRequests /\ 0 \in 0 .. MaxRestarts
    BY <1>2
  <2> QED
    BY <1>1, <1>9, <1>10, <2>1, <2>2 DEF TypeInv
<1>12. Progress
  BY <1>1, <1>5 DEF Progress
<1>13. Bases = {0} /\ Id(0, 0) = 0
  BY <1>4, <1>6 DEF Bases, Id, IsRisk, IsPersist
<1>14. RingOK(0)
  <2>1. \A i \in 1 .. Len(ring) : ~IsMatching(ring[i]) /\ ~IsRisk(ring[i])
    BY <1>4, <1>6 DEF IsMatching, IsRisk
  <2>2. 0 \in 0 .. MaxRequests
    BY <1>2
  <2>3. \A p \in Bases : p = 0 /\ Id(0, p) <= requests
    BY <1>1, <1>13
  <2>4. \A p, r \in Bases : p < r => Id(0, p) < Id(0, r)
    BY <1>13
  <2>5. 1 <= Len(ring) /\ ring[1].command = "GROUPING_CONTROL"
    BY <1>4, <1>5
  <2> QED
    BY <1>5, <2>1, <2>2, <2>3, <2>4, <2>5 DEF RingOK
<1>15. FirstRequest = 2
  <2>1. FirstOf(ring) \in 2 .. Len(ring) + 1
    BY <1>4, <1>5, FirstExists
  <2>2. FirstOf(ring) = 2
    BY <1>5, <2>1
  <2> QED
    BY <2>2 DEF FirstOf, FirstRequest
<1>16. StartOK
  BY <1>4, <1>6 DEF StartOK
<1>17. Floor(0, 0) = 0
  BY DEF Floor
<1>18. FilesOK(disk.files, 0)
  <2>1. \A T : HasFiles(disk.files, T, 0)
    BY <1>7 DEF HasFiles
  <2>2. Reads(<<>>, disk.files, Id(0, 0), 0)
    BY <2>1, NoSeries
  <2>3. <<>> \in Seq(Records) /\ Chain(<<>>, 0, 0, ring) /\ Len(<<>>) = 0
    BY DEF Chain
  <2>4. ~Ends(disk.files, 0, 0)
    BY <1>7 DEF Ends
  <2>5. Good(<<>>, disk.files, 0, 0)
    BY <1>9, <1>13, <1>14, <1>17, <2>3, <2>4, OpenIsGood
  <2>6. SeriesGood(disk.files, 0, 0)
    BY <2>2, <2>5 DEF SeriesGood
  <2> QED
    BY <1>7, <1>8, <1>13, <2>1, <2>6 DEF FilesOK
<1>19. SnapshotsOK(0)
  <2>1. ASSUME NEW id \in 1 .. MaxRequests PROVE ~Complete(id)
    BY <1>7 DEF Complete, Processors
  <2>2. loaded = LoadData(0)
    BY <1>1 DEF LoadData
  <2> QED
    BY <1>7, <1>13, <2>1, <2>2 DEF SnapshotsOK
<1>20. Live(0)
  <2>1. Unwritten(journal, 0)
    BY <1>10 DEF Unwritten
  <2>2. Waits(0)
    BY <1>1, <1>7, <1>10, <2>1 DEF Waits
  <2>3. \A i \in 1 .. FirstRequest - 1 : ~IsMutate(ring[i])
    BY <1>4, <1>5, <1>15
  <2> QED
    BY <1>1, <1>10, <2>2, <2>3 DEF Live
<1>21. MemoryOK(0)
  BY <1>1, <1>2, <1>10, <1>17, <1>20 DEF MemoryOK
<1> QED
  BY <1>11, <1>12, <1>14, <1>16, <1>18, <1>19, <1>21 DEF RunOK, IInv

\* Every step keeps the invariant.
LEMMA StepKeeps ==
  ASSUME IInv, [Next]_vars
  PROVE  IInv'
<1>1. PICK S : RunOK(S)
  BY DEF IInv
<1>2. TypeInv /\ Progress
  BY DEF IInv
<1>3. ASSUME NEW request \in Requests, Submit(request) PROVE IInv'
  BY <1>1, <1>2, <1>3, SubmitKeeps DEF IInv
<1>4. CASE JournalCommand
  BY <1>1, <1>2, <1>4, JournalKeeps DEF IInv
<1>5. CASE Apply
  BY <1>1, <1>2, <1>5, ApplyKeeps DEF IInv
<1>6. CASE Crash
  BY <1>1, <1>2, <1>6, CrashKeeps DEF IInv
<1>7. CASE CrashInFlush
  BY <1>1, <1>2, <1>7, CrashInFlushKeeps DEF IInv
<1>8. CASE Restart
  BY <1>1, <1>2, <1>8, RestartKeeps DEF IInv
<1>9. CASE EnableJournaling
  BY <1>1, <1>2, <1>9, EnableKeeps DEF IInv
<1>10. CASE UNCHANGED vars
  BY <1>1, <1>2, <1>10, StutterKeeps DEF IInv
<1> QED
  BY <1>3, <1>4, <1>5, <1>6, <1>7, <1>8, <1>9, <1>10 DEF Next

\* The invariant holds in every state, however the process stops and starts.
THEOREM JournalInv == Spec => []IInv
<1>1. Init => IInv
  BY InitKeeps
<1>2. IInv /\ [Next]_vars => IInv'
  BY StepKeeps
<1> QED
  BY <1>1, <1>2, PTL DEF Spec

-----------------------------------------------------------------------------
(***************************************************************************)
(* What follows from the invariant.                                        *)
(***************************************************************************)

\* Commands are what TypeOK takes for one.
LEMMA CommandsAre ==
  ASSUME NEW c \in Commands
  PROVE  IsCommand(c)
<1>1. Names \subseteq CommandNames
  BY RequestsKnown DEF Names, CommandNames
<1> QED
  BY <1>1 DEF Commands, IsCommand

\* The file J writes to exists.
LEMMA FileIsThere ==
  ASSUME IInv
  PROVE  journal.file \in DOMAIN disk.files \cup {NoFile}
<1>1. PICK S : TypeInv /\ RunOK(S)
  BY DEF IInv
<1>2. CASE phase = "crashed"
  BY <1>1, <1>2 DEF RunOK, MemoryOK, NewProcessor
<1>3. CASE phase # "crashed" /\ Unwritten(journal, S)
  BY <1>3 DEF Unwritten
<1>4. CASE phase # "crashed" /\ ~Unwritten(journal, S)
  <2>1. Writes(S)
    BY <1>1, <1>4 DEF RunOK, MemoryOK, Frozen, Live, Waits
  <2>2. PICK p : Follows(Processor, S, p, jNext)
    BY <2>1 DEF Writes
  <2>3. Processor \in Writers /\ Processor.file = journal.file /\ Processor.files = disk.files
    BY <1>1, ProcessorIs
  <2>4. RingOK(S)
    BY <1>1 DEF RunOK
  <2>5. Processor.file \in DOMAIN Processor.files
    BY <2>2, <2>3, <2>4, OpenFile
  <2> QED
    BY <2>3, <2>5
<1> QED
  BY <1>2, <1>3, <1>4

\* TypeOK holds: the shapes of the disk, the memory and the ring, the bound of the
\* buffer, and the order in which J publishes.
THEOREM TypeCorrect == Spec => []TypeOK
<1>1. ASSUME IInv PROVE TypeOK
  <2>1. PICK S : TypeInv /\ Progress /\ RunOK(S)
    BY <1>1 DEF IInv
  <2>2. ASSUME NEW f \in DOMAIN disk.files, NEW i \in DOMAIN disk.files[f]
        PROVE  disk.files[f][i].seq \in Nat /\ IsCommand(disk.files[f][i].command)
    <3>1. disk.files[f] \in Seq(Records)
      BY <2>1, FilesAreFiles DEF TypeInv, IsFiles
    <3>2. disk.files[f][i] \in Records
      BY <3>1, ElementOfSeq
    <3>3. disk.files[f][i].command \in Commands
      BY <3>2 DEF Records
    <3> QED
      BY <3>2, <3>3, CommandsAre DEF Records
  <2>3. DOMAIN disk.snapshots \subseteq (1 .. MaxRequests) \X Processors
    BY <2>1 DEF TypeInv, SnapshotSets
  <2>4. Len(journal.buffer) \in 0 .. JournalBufferSize
    <3>1. journal.buffer \in Seq(Records) /\ Len(journal.buffer) <= JournalBufferSize
      BY <2>1 DEF TypeInv, Memories, RunOK, MemoryOK
    <3> QED
      BY <3>1, JournalSizes
  <2>5. ASSUME NEW i \in DOMAIN ring PROVE IsCommand(ring[i])
    <3>1. ring[i] \in Commands
      BY <2>1, ElementOfSeq DEF RunOK, RingOK
    <3> QED
      BY <3>1, CommandsAre
  <2>6. journal.failed \in BOOLEAN
    BY <2>1 DEF TypeInv, Memories
  <2>7. journal.file \in DOMAIN disk.files \cup {NoFile}
    BY <1>1, FileIsThere
  <2> QED
    BY <2>1, <2>2, <2>3, <2>4, <2>5, <2>6, <2>7 DEF TypeOK, TypeInv, Progress
<1> QED
  BY <1>1, JournalInv, PTL

\* The records in the buffer are those of commands of the run.
LEMMA BufferIsOfRun ==
  ASSUME TypeInv, NEW S, RingOK(S), NEW p, NEW q, Follows(Processor, S, p, q),
         NEW i \in DOMAIN journal.buffer
  PROVE  \E n \in 1 .. Len(ring) :
           IsMutate(ring[n]) /\ journal.buffer[i].seq - journal.baseSeq + 1 = n
<1>1. /\ Processor \in Writers /\ Processor.buffer = journal.buffer
      /\ Processor.baseSeq = journal.baseSeq
  BY ProcessorIs
<1>2. /\ p \in Bases
      /\ InSeries(Processor, S, p)
      /\ WroteTo(Processor, S, p, q)
  BY DEF Follows, NewestBase
<1>3. PICK records :
        /\ Reads(records, Processor.files, Id(S, p), Processor.filesCounter)
        /\ ChainTo(records \o Processor.buffer, p, Processor.baseSeq, ring, q)
  BY <1>2 DEF WroteTo
<1>4. records \in Seq(Records) /\ journal.buffer \in Seq(Records) /\ journal.baseSeq \in Nat
  BY <1>1, <1>2, <1>3, SeriesOf
<1>5. PICK L : L = records \o journal.buffer
  OBVIOUS
<1>6. L \in Seq(Records) /\ Chain(L, p, journal.baseSeq, ring)
  BY <1>1, <1>3, <1>4, <1>5 DEF ChainTo
<1>7. PICK k \in Nat : k = Len(records)
  BY <1>4
<1>8. i \in 1 .. Len(journal.buffer) /\ i \in Nat
  BY <1>4
<1>9. k + i \in 1 .. Len(L) /\ L[k + i] = journal.buffer[i] /\ k + i # 0
  BY <1>4, <1>5, <1>7, <1>8
<1>10. p \in Nat /\ ring \in Seq(Commands)
  BY <1>2, BasesAre DEF RingOK
<1>11. Link(L, k + i, p, journal.baseSeq, ring)
  BY <1>6, <1>9 DEF Chain
<1>12. PICK n : n = At(L, k + i, p, journal.baseSeq)
  OBVIOUS
<1>13. n = journal.buffer[i].seq - journal.baseSeq + 1
  BY <1>9, <1>12 DEF At
<1>14. L[k + i].command = ring[n]
  BY <1>11, <1>12 DEF Link
<1>15. IsMutate(ring[n])
  <2>1. L[k + i] \in Records
    BY <1>6, <1>9, ElementOfSeq
  <2> QED
    BY <1>14, <2>1 DEF Records
<1>16. n \in 1 .. Len(ring)
  <2>1. n \in Nat /\ n >= p + (k + i)
    BY <1>4, <1>6, <1>9, <1>10, <1>12, ChainPositions
  <2>2. PICK B, l : B = journal.baseSeq /\ l = k + i
    OBVIOUS
  <2>3. Link(L, l, p, B, ring) /\ n = At(L, l, p, B)
    BY <1>11, <1>12, <2>2
  <2>4. n \in At(L, l - 1, p, B) + 1 .. Len(ring)
    BY <2>3 DEF Link
  <2>5. l - 1 \in 0 .. Len(L) /\ B \in Nat
    BY <1>4, <1>6, <1>7, <1>8, <1>9, <2>2
  <2>6. Chain(L, p, B, ring)
    BY <1>6, <2>2
  <2>7. At(L, l - 1, p, B) \in Nat
    BY <1>6, <1>10, <2>5, <2>6, ChainPositions
  <2>8. n <= Len(ring)
    BY <1>10, <2>1, <2>4, <2>7
  <2> QED
    BY <1>7, <1>8, <1>10, <2>1, <2>8
<1> QED
  BY <1>13, <1>15, <1>16

\* J does not write replayed commands again (ReplayNotJournaled): an exception of J
\* and all records in its buffer are of commands of clients.
THEOREM ReplayIsNotJournaled == Spec => []ReplayNotJournaled
<1>1. ASSUME IInv PROVE ReplayNotJournaled
  <2>1. PICK S : TypeInv /\ Progress /\ RunOK(S)
    BY <1>1 DEF IInv
  <2>2. /\ RingOK(S) /\ Len(ring) \in Nat /\ jNext \in 0 .. Len(ring)
        /\ FirstRequest \in 2 .. Len(ring) + 1
    BY <2>1, Positions DEF RunOK
  <2>3. CASE phase = "crashed"
    <3>1. journal.failed = FALSE /\ journal.buffer = <<>>
      BY <2>1, <2>3 DEF RunOK, MemoryOK, NewProcessor
    <3>2. DOMAIN journal.buffer = {}
      BY <3>1
    <3> QED
      BY <3>1, <3>2 DEF ReplayNotJournaled
  <2>4. CASE phase # "crashed" /\ Frozen(S)
    <3>1. journal.buffer = <<>>
      BY <2>4 DEF Frozen, Unwritten
    <3>2. DOMAIN journal.buffer = {}
      BY <3>1
    <3>3. ASSUME journal.failed PROVE jNext + 1 >= FirstRequest
      <4>1. jNext + 1 <= Len(ring) /\ Due(jNext + 1)
        BY <2>4, <3>3 DEF Frozen
      <4>2. jNext + 1 \in 1 .. Len(ring)
        BY <2>2, <4>1
      <4>3. ~(jNext + 1 < FirstRequest)
        BY <2>4, <4>1, <4>2 DEF Frozen
      <4> QED
        BY <2>2, <4>3
    <3> QED
      BY <3>2, <3>3 DEF ReplayNotJournaled
  <2>5. CASE phase # "crashed" /\ Live(S)
    <3>1. ~journal.failed /\ \A i \in 1 .. FirstRequest - 1 : ~IsMutate(ring[i])
      BY <2>5 DEF Live
    <3>2. ASSUME NEW i \in DOMAIN journal.buffer
          PROVE  journal.buffer[i].seq - journal.baseSeq + 1 >= FirstRequest
      <4>1. CASE Waits(S)
        <5>1. journal.buffer = <<>>
          BY <4>1 DEF Waits, Unwritten
        <5> QED
          BY <3>2, <5>1
      <4>2. CASE Writes(S)
        <5>1. PICK p : Follows(Processor, S, p, jNext)
          BY <4>2 DEF Writes
        <5>2. PICK n \in 1 .. Len(ring) :
                IsMutate(ring[n]) /\ journal.buffer[i].seq - journal.baseSeq + 1 = n
          BY <2>1, <2>2, <3>2, <5>1, BufferIsOfRun
        <5>3. ~(n \in 1 .. FirstRequest - 1)
          BY <3>1, <5>2
        <5> QED
          BY <2>2, <5>2, <5>3
      <4> QED
        BY <2>5, <4>1, <4>2 DEF Live
    <3> QED
      BY <3>1, <3>2 DEF ReplayNotJournaled
  <2> QED
    BY <2>1, <2>3, <2>4, <2>5 DEF RunOK, MemoryOK
<1> QED
  BY <1>1, JournalInv, PTL

\* What a start from the series of p rebuilds.
LEMMA RecoversFrom ==
  ASSUME NEW S, NEW p, Newest(S, p), IsFiles(disk.files),
         NEW records, NEW k \in Nat, Reads(records, disk.files, Id(S, p), k)
  PROVE  RecoveredState = StateAfter(StateOfRun(p), ReplayedOf(records))
<1>1. NewestSnapshot = Id(S, p) /\ LoadData(Id(S, p)) = StateOfRun(p)
  BY DEF Newest
<1>2. RecordsRead(Id(S, p)) = records
  BY RecordsAreRead
<1>3. Replayed(Id(S, p)) = ReplayedOf(records)
  BY <1>2, ReplayedIs
<1> QED
  BY <1>1, <1>3 DEF RecoveredState

\* RecoversPrefix holds, wherever J, the engines, the files and the snapshots are when
\* the process stops.  The exception is the replay of binary messages, whose last
\* frames lose their mark in ExchangeApi::BinaryData and take no effect.
THEOREM RecoversToPrefix ==
  ASSUME "BINARY_DATA_COMMAND" \notin Requests
  PROVE  Spec => []RecoversPrefix
<1>1. ASSUME IInv PROVE RecoversPrefix
  <2>1. PICK S : TypeInv /\ RunOK(S)
    BY <1>1 DEF IInv
  <2>2. PICK p : Newest(S, p)
    BY <2>1, NewestIs
  <2>3. p \in Bases /\ FilesOK(disk.files, S) /\ IsFiles(disk.files)
    BY <2>1, <2>2, FilesAreFiles DEF Newest, RunOK, TypeInv
  <2>4. PICK records, k :
          /\ k \in Nat
          /\ Reads(records, disk.files, Id(S, p), k)
          /\ Good(records, disk.files, S, p)
    BY <2>3 DEF FilesOK, SeriesGood
  <2>5. RecoveredState = StateAfter(StateOfRun(p), ReplayedOf(records))
    BY <2>2, <2>3, <2>4, RecoversFrom
  <2>6. PICK n \in 0 .. Len(ring) : Recovers(records, p, n)
    BY <2>4 DEF Good, NoBinary
  <2>7. RecoveredState = StateOfRun(n)
    BY <2>5, <2>6 DEF Recovers
  <2> QED
    BY <2>6, <2>7 DEF RecoversPrefix
<1> QED
  BY <1>1, JournalInv, PTL

\* The rest of a chain, applied as it is, leads to its last position.
LEMMA ChainAfter ==
  ASSUME NEW state \in States, NEW commands \in Seq(Commands), NEW run, Leads(run, state, commands),
         NEW p \in 0 .. Len(commands), NEW B \in Nat,
         NEW L \in Seq(Records), Chain(L, p, B, commands),
         NEW k \in 0 .. Len(L), NEW cs \in Seq(Commands), k + Len(cs) = Len(L),
         \A i \in 1 .. Len(cs) : cs[i] = L[k + i].command,
         At(L, k, p, B) \in 0 .. Len(commands)
  PROVE  StateAfter(run[At(L, k, p, B)], cs) = run[LastAt(L, p, B)]
<1>1. PICK st \in States : st = run[At(L, k, p, B)]
  BY DEF Leads
<1>2. PICK r : Leads(r, st, cs) /\ StateAfter(st, cs) = r[Len(cs)]
  BY StatesAfter
<1>3. PICK l \in Nat : l = Len(cs)
  BY LenProperties
<1>4. Len(commands) \in Nat /\ p \in Nat /\ Len(L) \in Nat /\ k \in Nat /\ k + l = Len(L)
  BY <1>3, LenProperties
<1>5. \A i \in 0 .. Len(L) : At(L, i, p, B) \in Nat
  BY <1>4, ChainPositions
<1> DEFINE T == {i \in 0 .. l : r[i] = run[At(L, k + i, p, B)]}
<1>6. 0 \in T
  <2>1. k + 0 = k /\ r[0] = st
    BY <1>2, <1>4 DEF Leads
  <2>2. r[0] = run[At(L, k + 0, p, B)]
    BY <1>1, <2>1
  <2>3. 0 \in 0 .. l
    BY <1>3
  <2> QED
    BY <2>2, <2>3
<1>7. ASSUME NEW i \in 0 .. l - 1, i \in T PROVE i + 1 \in T
  <2>1. i + 1 \in 1 .. l /\ i + 1 \in 0 .. l /\ (i + 1) - 1 = i
    BY <1>3
  <2>2. PICK n \in 1 .. Len(L) : n = k + (i + 1) /\ n - 1 = k + i
    <3>1. k + (i + 1) \in 1 .. Len(L) /\ k + (i + 1) - 1 = k + i
      BY <1>4, <2>1
    <3> QED
      BY <3>1
  <2>3. n \in 0 .. Len(L) /\ n - 1 \in 0 .. Len(L)
    BY <1>4, <2>2
  <2>4. PICK a \in Nat : a = At(L, n - 1, p, B)
    BY <1>5, <2>3
  <2>5. PICK b \in Nat : b = At(L, n, p, B)
    BY <1>5, <2>3
  <2>6. Link(L, n, p, B, commands)
    BY <2>2 DEF Chain
  <2>7. b \in a + 1 .. Len(commands) /\ L[n].command = commands[b] /\ Quiet(commands, a, b)
    BY <2>4, <2>5, <2>6 DEF Link
  <2>8. PICK m \in Nat : b = m + 1
    <3>1. b - 1 \in Nat /\ b = (b - 1) + 1
      BY <2>7
    <3> QED
      BY <3>1
  <2>9. a \in 0 .. Len(commands) /\ m \in a .. Len(commands) /\ b \in 1 .. Len(commands) /\ b - 1 = m
    BY <1>4, <2>7, <2>8
  <2>10. \A x \in a + 1 .. m : Idle(commands[x])
    BY <2>7, <2>8 DEF Quiet, Idle
  <2>11. run[m] = run[a]
    <3>1. a \in 0 .. Len(commands) /\ m \in a .. Len(commands)
      BY <2>9
    <3> QED
      BY <2>10, <3>1, IdleStretch
  <2>12. run[b] = Effect(run[m], commands[b])
    BY <2>9 DEF Leads
  <2>13. cs[i + 1] = commands[b]
    BY <1>3, <2>1, <2>2, <2>7
  <2>14. r[i + 1] = Effect(r[i], cs[i + 1])
    BY <1>2, <1>3, <2>1 DEF Leads
  <2>15. r[i] = run[a]
    BY <1>7, <2>2, <2>4
  <2>16. r[i + 1] = run[b]
    BY <2>11, <2>12, <2>13, <2>14, <2>15
  <2> QED
    BY <2>1, <2>2, <2>5, <2>16
<1> HIDE DEF T
<1>8. \A i \in 0 .. l : i \in T
  BY <1>3, <1>6, <1>7, InductionOverInterval
<1>9. l \in T
  BY <1>3, <1>8
<1>10. r[l] = run[At(L, k + l, p, B)]
  BY <1>9 DEF T
<1> QED
  BY <1>1, <1>2, <1>3, <1>4, <1>10 DEF LastAt

\* What clients may have been told: n commands, which J and the engines have passed,
\* with all their snapshots stored.
Told(n) ==
  /\ phase # "crashed"
  /\ n \in Int /\ n <= jNext /\ n <= applied + 1
  /\ SnapshotsStored(applied + 1)
  /\ AllJournaled(n)

\* A start would rebuild that.
KeptAt(n) == \E m \in n .. Len(ring) : RecoveredState = StateOfRun(m)

\* When all snapshots are stored, the newest is that of the newest base.
LEMMA NewestOfStored ==
  ASSUME TypeInv, Progress, NEW S, RunOK(S), NEW p, Newest(S, p), phase # "crashed",
         SnapshotsStored(applied + 1)
  PROVE  /\ p \in Bases /\ p \in 0 .. Len(ring) /\ p <= applied + 1
         /\ \A r \in Bases : r <= applied + 1 => r <= p
<1>1. RingOK(S) /\ p \in Bases /\ applied \in Int /\ 0 <= applied + 1 /\ applied + 1 <= Len(ring)
      /\ Len(ring) \in Nat
  <2>1. RingOK(S) /\ p \in Bases
    BY DEF RunOK, Newest
  <2>2. Len(ring) \in Nat
    BY <2>1 DEF RingOK
  <2>3. applied \in Int /\ applied \in -1 .. Len(ring) - 1
    BY DEF TypeInv, Progress
  <2> QED
    BY <2>1, <2>2, <2>3
<1>2. p \in 0 .. Len(ring)
  BY <1>1, BasesAre
<1>3. p <= applied + 1
  BY <1>1 DEF Newest
<1>4. ASSUME NEW r \in Bases, r <= applied + 1 PROVE r <= p
  <2>1. CASE r = 0
    BY <1>2, <2>1
  <2>2. CASE r # 0
    <3>1. r \in 1 .. Len(ring) /\ IsRisk(ring[r])
      BY <2>2, <1>4 DEF Bases
    <3>2. r - 1 \in 1 .. Len(ring) /\ IsMatching(ring[r - 1]) /\ r - 1 + 1 = r
      BY <1>1, <3>1 DEF RingOK
    <3>3. ring[r - 1].orderId = ring[r].orderId
      BY <1>1, <3>2 DEF RingOK
    <3>4. Id(S, r) = ring[r].orderId
      BY <2>2 DEF Id
    <3>5. r \in 1 .. applied + 1 /\ r - 1 \in 1 .. applied + 1
      BY <1>1, <1>4, <3>1, <3>2
    <3>6. <<Id(S, r), "RISK_ENGINE">> \in DOMAIN disk.snapshots
      BY <3>1, <3>4, <3>5 DEF SnapshotsStored, IsRisk, IsPersist
    <3>7. <<Id(S, r), "MATCHING_ENGINE_ROUTER">> \in DOMAIN disk.snapshots
      BY <3>2, <3>3, <3>4, <3>5 DEF SnapshotsStored, IsMatching, IsPersist
    <3>8. Complete(Id(S, r))
      BY <3>6, <3>7 DEF Complete, Processors
    <3> QED
      BY <1>4, <2>2, <3>8 DEF Newest
  <2> QED
    BY <2>1, <2>2
<1> QED
  BY <1>1, <1>2, <1>3, <1>4

\* A snapshot without a series: a start rebuilds it.
LEMMA NothingAfter ==
  ASSUME TypeInv, NEW S, RunOK(S), NEW p, Newest(S, p), HasFiles(disk.files, Id(S, p), 0)
  PROVE  RecoveredState = StateOfRun(p)
<1>1. Reads(<<>>, disk.files, Id(S, p), 0) /\ 0 \in Nat
  BY NoSeries
<1>2. IsFiles(disk.files)
  BY FilesAreFiles DEF TypeInv
<1>3. RecoveredState = StateAfter(StateOfRun(p), ReplayedOf(<<>>))
  BY <1>1, <1>2, RecoversFrom
<1>4. StateOfRun(p) \in States
  <2>1. RingOK(S) /\ loaded \in States /\ ring \in Seq(Commands) /\ p \in Bases
    BY DEF RunOK, RingOK, TypeInv, Newest
  <2> QED
    BY <2>1, BasesAre, StatesOfRun
<1> QED
  BY <1>3, <1>4, EmptyReplay, StateEmpty

\* No file of a series.
LEMMA NoFilesOf ==
  ASSUME NEW files, NEW T, T \in Int, \A f \in DOMAIN files : f[1] # T
  PROVE  HasFiles(files, T, 0)
<1>1. \A i : <<T, i>>[1] = T
  OBVIOUS
<1>2. \A i : <<T, i>> \notin DOMAIN files
  BY <1>1
<1> QED
  BY <1>2 DEF HasFiles

\* In a run that replays a series.
LEMMA FrozenKeeps ==
  ASSUME TypeInv, Progress, NEW S, RunOK(S), NEW p, Newest(S, p), Frozen(S), NEW n, Told(n), NoBinary
  PROVE  KeptAt(n)
<1>1. /\ RingOK(S) /\ Len(ring) \in Nat /\ jNext \in 0 .. Len(ring)
      /\ FirstRequest \in 2 .. Len(ring) + 1
      /\ loaded \in States /\ ring \in Seq(Commands)
  BY Positions DEF RunOK, TypeInv, RingOK
<1>2. n \in Int /\ n <= jNext /\ n <= Len(ring) /\ n <= applied + 1
  BY <1>1 DEF Told
<1>3. p \in Bases /\ p \in 0 .. Len(ring)
  BY NewestOfStored DEF Told
<1>4. ASSUME NEW i \in FirstRequest .. n PROVE ~IsMutate(ring[i])
  <2>1. i \in 1 .. Len(ring) /\ i <= jNext
    BY <1>1, <1>2
  <2>2. ~Due(i)
    BY <2>1 DEF Frozen
  <2>3. Journaled(journal, i - 1)
    BY DEF Told, AllJournaled
  <2> QED
    BY <2>2, <2>3 DEF Due
<1>5. CASE p = 0
  <2>1. Id(S, p) = S
    BY <1>5 DEF Id
  <2>2. PICK records, k :
          /\ k \in Nat
          /\ Reads(records, disk.files, S, k)
          /\ Recovers(records, 0, IF phase = "startup" THEN Len(ring) ELSE FirstRequest - 1)
    BY DEF Frozen, Replays
  <2>3. IsFiles(disk.files)
    BY FilesAreFiles DEF TypeInv
  <2>4. RecoveredState = StateAfter(StateOfRun(0), ReplayedOf(records))
    BY <1>5, <2>1, <2>2, <2>3, RecoversFrom
  <2>5. PICK m \in 0 .. Len(ring) : m = IF phase = "startup" THEN Len(ring) ELSE FirstRequest - 1
    BY <1>1
  <2>6. RecoveredState = StateOfRun(m)
    BY <2>2, <2>4, <2>5 DEF Recovers
  <2>7. CASE n <= m
    <3>1. m \in n .. Len(ring)
      BY <1>1, <1>2, <2>7
    <3> QED
      BY <2>6, <3>1 DEF KeptAt
  <2>8. CASE ~(n <= m)
    <3>1. m = FirstRequest - 1
      BY <1>1, <1>2, <2>5, <2>8
    <3>2. n \in m .. Len(ring)
      BY <1>1, <1>2, <2>8
    <3>3. \A i \in m + 1 .. n : i \in FirstRequest .. n
      BY <1>1, <1>2, <3>1
    <3>4. \A i \in m + 1 .. n : Idle(ring[i])
      BY <1>4, <3>3 DEF Idle
    <3>5. StateOfRun(n) = StateOfRun(m)
      BY <1>1, <3>2, <3>4, IdlePart
    <3>6. n \in n .. Len(ring)
      BY <1>1, <1>2
    <3> QED
      BY <2>6, <3>5, <3>6 DEF KeptAt
  <2> QED
    BY <2>7, <2>8
<1>6. CASE p # 0
  <2>1. HasFiles(disk.files, Id(S, p), 0)
    <3>1. \A f \in DOMAIN disk.files : f[1] < Id(S, p)
      BY <1>3, <1>6 DEF Frozen
    <3>2. \A f \in DOMAIN disk.files : f[1] \in Int
      <4>1. DOMAIN disk.files \subseteq FileNames
        BY FilesAreFiles DEF TypeInv, IsFiles
      <4> QED
        BY <4>1 DEF FileNames
    <3>3. Id(S, p) \in Int
      BY <1>1, <1>3, BasesAre
    <3>4. \A f \in DOMAIN disk.files : f[1] # Id(S, p)
      BY <3>1, <3>2, <3>3
    <3> QED
      BY <3>3, <3>4, NoFilesOf
  <2>2. RecoveredState = StateOfRun(p)
    BY <2>1, NothingAfter
  <2>3. p \in 1 .. Len(ring) /\ IsMutate(ring[p]) /\ IsPersist(ring[p])
    BY <1>3, <1>6 DEF Bases, IsRisk, IsMutate, IsPersist
  <2>4. ~(p < FirstRequest)
    BY <2>3 DEF RunOK, StartOK
  <2>5. ~(p \in FirstRequest .. n)
    BY <1>4, <2>3
  <2>6. p \in n .. Len(ring)
    BY <1>1, <1>2, <2>3, <2>4, <2>5
  <2> QED
    BY <2>2, <2>6 DEF KeptAt
<1> QED
  BY <1>5, <1>6

\* In a run that has not begun to write.
LEMMA WaitingKeeps ==
  ASSUME TypeInv, Progress, NEW S, RunOK(S), NEW p, Newest(S, p), Waits(S), NEW n, Told(n)
  PROVE  KeptAt(n)
<1>1. /\ RingOK(S) /\ Len(ring) \in Nat /\ jNext \in 0 .. Len(ring)
      /\ loaded \in States /\ ring \in Seq(Commands)
  BY Positions DEF RunOK, TypeInv, RingOK
<1>2. n \in Int /\ n <= jNext /\ n <= Len(ring)
  BY <1>1 DEF Told
<1>3. p \in Bases /\ p \in 0 .. Len(ring)
  BY NewestOfStored DEF Told
<1>4. HasFiles(disk.files, Id(S, p), 0)
  <2>1. S \in Int /\ Id(S, p) \in Int /\ 0 \in Bases /\ Id(S, 0) = S
    BY <1>1, <1>3, BasesAre DEF RingOK, Bases, Id
  <2>2. S <= Id(S, p)
    <3>1. CASE p = 0
      BY <2>1, <3>1
    <3>2. CASE p # 0
      <4>1. 0 < p
        BY <1>3, <3>2
      <4>2. Id(S, 0) < Id(S, p)
        BY <1>1, <1>3, <2>1, <4>1 DEF RingOK
      <4> QED
        BY <2>1, <4>2
    <3> QED
      BY <3>1, <3>2
  <2>3. \A f \in DOMAIN disk.files : f[1] \in Int /\ f[1] < S
    <3>1. DOMAIN disk.files \subseteq FileNames
      BY FilesAreFiles DEF TypeInv, IsFiles
    <3> QED
      BY <3>1 DEF FileNames, Waits
  <2>4. \A f \in DOMAIN disk.files : f[1] # Id(S, p)
    BY <2>1, <2>2, <2>3
  <2> QED
    BY <2>1, <2>4, NoFilesOf
<1>5. RecoveredState = StateOfRun(p)
  BY <1>4, NothingAfter
<1>6. CASE p = 0
  <2>1. \A i \in 0 + 1 .. jNext : Idle(ring[i])
    BY DEF Waits, Idle
  <2>2. 0 \in 0 .. Len(ring) /\ jNext \in 0 .. Len(ring)
    BY <1>1
  <2>3. StateOfRun(jNext) = StateOfRun(0)
    BY <1>1, <2>1, <2>2, IdlePart
  <2>4. jNext \in n .. Len(ring)
    BY <1>1, <1>2
  <2> QED
    BY <1>5, <1>6, <2>3, <2>4 DEF KeptAt
<1>7. CASE p # 0
  <2>1. p \in 1 .. Len(ring) /\ IsMutate(ring[p])
    BY <1>3, <1>7 DEF Bases, IsRisk, IsMutate, IsPersist
  <2>2. ~(p \in 1 .. jNext)
    BY <2>1 DEF Waits
  <2>3. p \in n .. Len(ring)
    BY <1>1, <1>2, <2>1, <2>2
  <2> QED
    BY <1>5, <2>3 DEF KeptAt
<1> QED
  BY <1>6, <1>7

\* In a run that writes: with the buffer, everything J has been through is there.
LEMMA WritingKeeps ==
  ASSUME TypeInv, Progress, NEW S, RunOK(S), NEW p, Newest(S, p), Writes(S), NEW n, Told(n), NoBinary
  PROVE  KeptAt(n) \/ StateAfter(RecoveredState, CommandsOf(journal.buffer)) = StateOfRun(jNext)
<1>1. /\ RingOK(S) /\ Len(ring) \in Nat /\ jNext \in 0 .. Len(ring)
      /\ loaded \in States /\ ring \in Seq(Commands)
  BY Positions DEF RunOK, TypeInv, RingOK
<1>2. n \in Int /\ n <= jNext /\ n <= Len(ring) /\ n <= applied + 1 /\ applied \in Int
  BY <1>1 DEF Told, TypeInv
<1>3. /\ p \in Bases /\ p \in 0 .. Len(ring) /\ p <= applied + 1
      /\ \A r \in Bases : r <= applied + 1 => r <= p
  BY NewestOfStored DEF Told
<1>4. PICK b : Follows(Processor, S, b, jNext)
  BY DEF Writes
<1>5. /\ Processor \in Writers /\ Processor.buffer = journal.buffer
      /\ Processor.baseSeq = journal.baseSeq /\ Processor.files = disk.files
  BY ProcessorIs
<1>6. journal.baseSeq = Floor(S, 0) /\ journal.baseSeq \in Nat /\ journal.buffer \in Seq(Records)
  <2>1. journal.baseSeq = Floor(S, 0)
    BY DEF Told, RunOK, MemoryOK
  <2> QED
    BY <2>1 DEF TypeInv, Memories
<1>7. /\ b \in Bases
      /\ <<Id(S, b), 1>> \in DOMAIN disk.files
      /\ \A f \in DOMAIN disk.files : f[1] <= Id(S, b)
  BY <1>1, <1>4, <1>5, <1>6, FollowedIsGood
<1>8. b \in 0 .. Len(ring) /\ b <= jNext /\ \A r \in Bases : r <= jNext => r <= b
  BY <1>1, <1>4, <1>7, BasesAre DEF Follows, NewestBase
<1>9. IsFiles(disk.files) /\ FilesOK(disk.files, S)
  BY FilesAreFiles DEF TypeInv, RunOK
<1>10. CASE p < b
  <2>1. PICK records, k :
          /\ k \in Nat
          /\ Reads(records, disk.files, Id(S, p), k)
          /\ Good(records, disk.files, S, p)
    BY <1>3, <1>9 DEF FilesOK, SeriesGood
  <2>2. Ends(disk.files, S, p)
    BY <1>7, <1>10 DEF Ends
  <2>3. PICK m \in 0 .. Len(ring) :
          Recovers(records, p, m) /\ \E r \in Bases : p < r /\ r <= m
    BY <2>1, <2>2 DEF Good
  <2>4. PICK r \in Bases : p < r /\ r <= m
    BY <2>3
  <2>5. r \in 0 .. Len(ring)
    BY <1>1, BasesAre
  <2>6. ~(r <= applied + 1)
    BY <1>3, <2>4, <2>5
  <2>7. m \in n .. Len(ring)
    BY <1>1, <1>2, <2>3, <2>4, <2>5, <2>6
  <2>8. RecoveredState = StateOfRun(m)
    BY <1>9, <2>1, <2>3, RecoversFrom DEF Recovers
  <2> QED
    BY <2>7, <2>8 DEF KeptAt
<1>11. CASE p > b
  <2>1. ~(p <= jNext)
    BY <1>1, <1>3, <1>8, <1>11
  <2>2. HasFiles(disk.files, Id(S, p), 0)
    <3>1. Id(S, b) < Id(S, p)
      BY <1>1, <1>3, <1>7, <1>8, <1>11 DEF RingOK
    <3>2. Id(S, p) \in Int /\ Id(S, b) \in Int
      BY <1>1, <1>3, <1>7, BasesAre
    <3>3. \A f \in DOMAIN disk.files : f[1] \in Int
      BY <1>9 DEF IsFiles, FileNames
    <3>4. \A f \in DOMAIN disk.files : f[1] # Id(S, p)
      BY <1>7, <3>1, <3>2, <3>3
    <3> QED
      BY <3>2, <3>4, NoFilesOf
  <2>3. RecoveredState = StateOfRun(p)
    BY <2>2, NothingAfter
  <2>4. p \in n .. Len(ring)
    BY <1>1, <1>2, <1>3, <2>1
  <2> QED
    BY <2>3, <2>4 DEF KeptAt
<1>12. CASE p = b
  <2>1. PICK B \in Nat, buffer \in Seq(Records) : B = journal.baseSeq /\ buffer = journal.buffer
    BY <1>6
  <2>2. PICK records, k :
          /\ k \in Nat
          /\ Reads(records, disk.files, Id(S, b), k)
          /\ ChainTo(records \o buffer, b, B, ring, jNext)
    <3>1. WroteTo(Processor, S, b, jNext) /\ InSeries(Processor, S, b)
      BY <1>4 DEF Follows
    <3>2. Processor.filesCounter \in Nat
      BY <3>1 DEF InSeries
    <3> QED
      BY <1>5, <2>1, <3>1, <3>2 DEF WroteTo
  <2>3. records \in Seq(Records)
    BY <2>2, ReadType
  <2>4. PICK L \in Seq(Records) : L = records \o buffer
    <3>1. records \o buffer \in Seq(Records)
      BY <2>3
    <3> QED
      BY <3>1
  <2>5. PICK k0 \in Nat, l \in Nat : k0 = Len(records) /\ l = Len(buffer)
    BY <2>3
  <2>6. /\ Len(L) = k0 + l
        /\ \A i \in 1 .. k0 : L[i] = records[i]
        /\ \A i \in 1 .. l : L[k0 + i] = buffer[i]
    BY <2>3, <2>4, <2>5
  <2>7. Chain(L, b, B, ring) /\ LastAt(L, b, B) \in b .. jNext /\ Quiet(ring, LastAt(L, b, B), jNext + 1)
    BY <2>2, <2>4 DEF ChainTo
  <2>8. Starts(records, L)
    BY <2>5, <2>6 DEF Starts
  <2>9. Chain(records, b, B, ring)
    BY <2>3, <2>7, <2>8, ChainStart
  <2>10. PICK x \in 0 .. Len(ring) : x = LastAt(records, b, B)
    <3>1. LastAt(records, b, B) \in b .. Len(ring)
      BY <1>1, <1>7, <2>3, <2>9, LastPosition
    <3> QED
      BY <1>8, <3>1
  <2>11. Recovers(records, b, x)
    BY <1>1, <1>7, <2>3, <2>9, <2>10, ChainRecovers
  <2>12. RecoveredState = StateOfRun(x)
    BY <1>9, <1>12, <2>2, <2>11, RecoversFrom DEF Recovers
  <2>13. PICK run : RunIs(run)
    BY <1>1, RunOfRing
  <2>14. Leads(run, loaded, ring) /\ \A i \in 0 .. Len(ring) : StateOfRun(i) = run[i]
    BY <2>13 DEF RunIs
  <2>15. x = At(L, k0, b, B)
    <3>1. k0 \in 0 .. Len(records)
      BY <2>5
    <3>2. At(records, k0, b, B) = At(L, k0, b, B)
      BY <2>8, <3>1, StartPositions
    <3> QED
      BY <2>5, <2>10, <3>2 DEF LastAt
  <2>16. PICK cs \in Seq(Commands) : cs = CommandsOf(buffer)
    BY CommandsOfRecords
  <2>17. Len(cs) = l /\ \A i \in 1 .. l : cs[i] = buffer[i].command
    BY <2>5, <2>16, CommandsOfRecords
  <2>18. k0 \in 0 .. Len(L) /\ k0 + Len(cs) = Len(L)
         /\ \A i \in 1 .. Len(cs) : cs[i] = L[k0 + i].command
    BY <2>6, <2>17
  <2>19. At(L, k0, b, B) \in 0 .. Len(ring)
    BY <2>10, <2>15
  <2>20. StateAfter(run[At(L, k0, b, B)], cs) = run[LastAt(L, b, B)]
    BY <1>1, <1>8, <2>7, <2>14, <2>18, <2>19, ChainAfter
  <2>21. PICK y \in 0 .. Len(ring) : y = LastAt(L, b, B) /\ jNext \in y .. Len(ring)
    <3>1. LastAt(L, b, B) \in Nat /\ LastAt(L, b, B) \in 0 .. Len(ring) /\ LastAt(L, b, B) <= jNext
      BY <1>1, <1>8, <2>7
    <3> QED
      BY <1>1, <3>1
  <2>22. StateOfRun(jNext) = StateOfRun(y)
    <3>1. \A i \in y + 1 .. jNext : Idle(ring[i])
      <4>1. \A i \in y + 1 .. jNext : i \in y + 1 .. (jNext + 1) - 1
        BY <1>1, <2>21
      <4> QED
        BY <2>7, <2>21, <4>1 DEF Quiet, Idle
    <3> QED
      BY <1>1, <2>21, <3>1, IdlePart
  <2>23. StateAfter(RecoveredState, cs) = StateOfRun(jNext)
    BY <2>12, <2>10, <2>14, <2>15, <2>20, <2>21, <2>22
  <2> QED
    BY <2>1, <2>16, <2>23
<1> QED
  BY <1>3, <1>8, <1>10, <1>11, <1>12

\* In every run, what clients have been told is kept or, with the buffer, reached.
LEMMA ToldIsKept ==
  ASSUME IInv, NoBinary, NEW n, Told(n)
  PROVE  \/ KeptAt(n)
         \/ /\ StateAfter(RecoveredState, CommandsOf(journal.buffer)) = StateOfRun(jNext)
            /\ jNext > 0 /\ ring[jNext].command = "SHUTDOWN_SIGNAL" => journal.buffer = <<>>
<1>1. PICK S : TypeInv /\ Progress /\ RunOK(S)
  BY DEF IInv
<1>2. PICK p : Newest(S, p)
  BY <1>1, NewestIs
<1>3. CASE Frozen(S)
  BY <1>1, <1>2, <1>3, FrozenKeeps
<1>4. CASE Waits(S)
  BY <1>1, <1>2, <1>4, WaitingKeeps
<1>5. CASE Writes(S)
  <2>1. jNext > 0 /\ ring[jNext].command = "SHUTDOWN_SIGNAL" => journal.buffer = <<>>
    BY <1>5 DEF Writes
  <2> QED
    BY <1>1, <1>2, <1>5, <2>1, WritingKeeps
<1> QED
  BY <1>1, <1>3, <1>4, <1>5 DEF Told, RunOK, MemoryOK, Live

\* The lesser of two numbers.
LEMMA MinOfTwo ==
  ASSUME NEW a \in Int, NEW b \in Int
  PROVE  Min({a, b}) \in Int /\ Min({a, b}) <= a /\ Min({a, b}) <= b
<1>1. \E m \in {a, b} : \A x \in {a, b} : m <= x
  <2>1. CASE a <= b
    BY <2>1
  <2>2. CASE ~(a <= b)
    BY <2>2
  <2> QED
    BY <2>1, <2>2
<1> QED
  BY <1>1 DEF Min

\* ReleasedIsKept holds.  While the process lives, what clients have seen done is on
\* disk or in the buffer; after a shutdown signal it is on disk.  Binary messages are
\* excepted, as in RecoversToPrefix.
THEOREM ReleasedAreKept ==
  ASSUME "BINARY_DATA_COMMAND" \notin Requests
  PROVE  Spec => []ReleasedIsKept
<1>1. ASSUME IInv PROVE ReleasedIsKept
  <2>1. PICK S : TypeInv /\ Progress /\ RunOK(S)
    BY <1>1 DEF IInv
  <2>2. /\ Len(ring) \in Nat /\ jNext \in 0 .. Len(ring) /\ loaded \in States
        /\ ring \in Seq(Commands) /\ jSequence \in Int /\ applied \in Int /\ jSequence < jNext
    <3>1. RingOK(S)
      BY <2>1 DEF RunOK
    <3>2. Len(ring) \in Nat /\ jNext \in 0 .. Len(ring)
      BY <2>1, <3>1, Positions
    <3> QED
      BY <2>1, <3>1, <3>2 DEF TypeInv, Progress, RingOK
  <2>3. NoBinary
    BY DEF NoBinary
  <2>4. PICK n : n = Released
    OBVIOUS
  <2>5. n \in Int /\ n <= jNext /\ n <= applied + 1
    <3>1. PICK m : m = Min({jSequence, applied})
      OBVIOUS
    <3>2. m \in Int /\ m <= jSequence /\ m <= applied
      BY <2>2, <3>1, MinOfTwo
    <3>3. n = m + 1
      BY <2>4, <3>1 DEF Released
    <3> QED
      BY <2>2, <3>2, <3>3
  <2>6. PICK buffered : buffered = CommandsOf(journal.buffer)
    OBVIOUS
  <2>7. [i \in DOMAIN journal.buffer |-> journal.buffer[i].command] = buffered
    BY <2>6 DEF CommandsOf
  <2>8. ASSUME phase = "running", SnapshotsStored(applied + 1), AllJournaled(n)
        PROVE  \/ \E m \in n .. Len(ring) : RecoveredState = StateOfRun(m)
               \/ \E m \in n .. Len(ring) : StateAfter(RecoveredState, buffered) = StateOfRun(m)
    <3>1. Told(n)
      BY <2>5, <2>8 DEF Told
    <3>2. jNext \in n .. Len(ring)
      BY <2>2, <2>5
    <3> QED
      BY <1>1, <2>3, <2>6, <3>1, <3>2, ToldIsKept DEF KeptAt
  <2>9. ASSUME jNext > 0, ring[jNext].command = "SHUTDOWN_SIGNAL", applied >= jNext - 1,
               SnapshotsStored(applied + 1), AllJournaled(jNext)
        PROVE  \E m \in jNext .. Len(ring) : RecoveredState = StateOfRun(m)
    <3>1. PICK l \in 0 .. Len(ring) : l = jNext
      BY <2>2
    <3>2. phase # "crashed"
      BY <2>1, <2>9 DEF RunOK, MemoryOK
    <3>3. Told(l)
      BY <2>2, <2>9, <3>1, <3>2 DEF Told
    <3>4. CASE KeptAt(l)
      BY <3>1, <3>4 DEF KeptAt
    <3>5. CASE StateAfter(RecoveredState, CommandsOf(journal.buffer)) = StateOfRun(jNext)
               /\ journal.buffer = <<>>
      <4>1. CommandsOf(journal.buffer) = <<>>
        BY <3>5 DEF CommandsOf
      <4>2. PICK p : Newest(S, p)
        BY <2>1, NewestIs
      <4>3. RecoveredState \in States
        <5>1. p \in Bases /\ FilesOK(disk.files, S) /\ IsFiles(disk.files)
          BY <2>1, <4>2, FilesAreFiles DEF Newest, RunOK, TypeInv
        <5>2. PICK records, k :
                /\ k \in Nat
                /\ Reads(records, disk.files, Id(S, p), k)
                /\ Good(records, disk.files, S, p)
          BY <5>1 DEF FilesOK, SeriesGood
        <5>3. PICK m \in 0 .. Len(ring) : Recovers(records, p, m)
          BY <2>3, <5>2 DEF Good
        <5>4. RecoveredState = StateOfRun(m)
          BY <4>2, <5>1, <5>2, <5>3, RecoversFrom DEF Recovers
        <5> QED
          BY <2>2, <5>4, StatesOfRun
      <4>4. RecoveredState = StateOfRun(jNext)
        BY <3>5, <4>1, <4>3, StateEmpty
      <4>5. jNext \in jNext .. Len(ring)
        BY <2>2
      <4> QED
        BY <4>4, <4>5
    <3> QED
      BY <1>1, <2>3, <2>9, <3>3, <3>4, <3>5, ToldIsKept
  <2> QED
    BY <2>4, <2>7, <2>8, <2>9 DEF ReleasedIsKept
<1> QED
  BY <1>1, JournalInv, PTL

-----------------------------------------------------------------------------
(***************************************************************************)
(* All records on the disk.                                                *)
(***************************************************************************)
FilePieces(files, T, k) == [i \in 1 .. k |-> files[<<T, i>>]]

\* x are the records in the files of the series of T.
SeriesHolds(x, files, T) ==
  \E k \in Nat : HasFiles(files, T, k) /\ JoinOf(x, FilePieces(files, T, k), k, Records)

\* x[T + 1] are those of T.
AllSeries(x, files) ==
  /\ IsPieces(x, MaxRequests + 1, Records)
  /\ \A T \in 0 .. MaxRequests : SeriesHolds(x[T + 1], files, T)

\* all are the records in all files.
DiskHolds(all, files) ==
  \E x : AllSeries(x, files) /\ JoinOf(all, x, MaxRequests + 1, Records)

\* Files are pieces of the whole.
LEMMA FilePiecesTyped ==
  ASSUME NEW files, IsFiles(files), NEW T, NEW k \in Nat, HasFiles(files, T, k)
  PROVE  IsPieces(FilePieces(files, T, k), k, Records)
<1>1. \A i \in 1 .. k : files[<<T, i>>] \in Seq(Records)
  BY FileOfSeries
<1> QED
  BY <1>1 DEF FilePieces, IsPieces

\* There are such records.
LEMMA SeriesHoldsSome ==
  ASSUME NEW files, IsFiles(files), NEW T, \E k \in Nat : HasFiles(files, T, k)
  PROVE  \E x \in Seq(Records) : SeriesHolds(x, files, T)
<1>1. PICK k \in Nat : HasFiles(files, T, k)
  OBVIOUS
<1>2. IsPieces(FilePieces(files, T, k), k, Records)
  BY <1>1, FilePiecesTyped
<1>3. PICK x \in Seq(Records) : JoinOf(x, FilePieces(files, T, k), k, Records)
  BY <1>2, JoinExists
<1> QED
  BY <1>1, <1>3 DEF SeriesHolds

\* For all series, too.
LEMMA DiskHoldsSome ==
  ASSUME NEW files, IsFiles(files), \A T \in 0 .. MaxRequests : \E k \in Nat : HasFiles(files, T, k)
  PROVE  \E all \in Seq(Records) : DiskHolds(all, files)
<1>1. \A T \in 0 .. MaxRequests : \E x \in Seq(Records) : SeriesHolds(x, files, T)
  BY SeriesHoldsSome
<1>2. MaxRequests \in Nat /\ MaxRequests + 1 \in Nat
  BY JournalSizes
<1>3. PICK x : x = [i \in 1 .. MaxRequests + 1 |->
                      CHOOSE y \in Seq(Records) : SeriesHolds(y, files, i - 1)]
  OBVIOUS
<1>4. ASSUME NEW i \in 1 .. MaxRequests + 1
      PROVE  x[i] \in Seq(Records) /\ SeriesHolds(x[i], files, i - 1)
  <2>1. i - 1 \in 0 .. MaxRequests
    BY <1>2
  <2>2. \E y \in Seq(Records) : SeriesHolds(y, files, i - 1)
    BY <1>1, <2>1
  <2> QED
    BY <1>3, <2>2
<1>5. IsPieces(x, MaxRequests + 1, Records)
  <2>1. x = [i \in 1 .. MaxRequests + 1 |-> x[i]]
    BY <1>3
  <2> QED
    BY <1>4, <2>1 DEF IsPieces
<1>6. ASSUME NEW T \in 0 .. MaxRequests PROVE SeriesHolds(x[T + 1], files, T)
  <2>1. T + 1 \in 1 .. MaxRequests + 1 /\ (T + 1) - 1 = T
    BY <1>2
  <2> QED
    BY <1>4, <2>1
<1>7. PICK all \in Seq(Records) : JoinOf(all, x, MaxRequests + 1, Records)
  BY <1>2, <1>5, JoinExists
<1> QED
  BY <1>5, <1>6, <1>7 DEF DiskHolds, AllSeries

\* They are records.
LEMMA DiskHoldsRecords ==
  ASSUME NEW all, NEW files, DiskHolds(all, files)
  PROVE  all \in Seq(Records)
<1>1. MaxRequests + 1 \in Nat
  BY JournalSizes
<1> QED
  BY <1>1, JoinType DEF DiskHolds

\* A series that is the same has the same records.
LEMMA SeriesHoldsSame ==
  ASSUME NEW files, NEW others, IsFiles(others), NEW T, SameSeries(files, others, T),
         NEW x, SeriesHolds(x, files, T)
  PROVE  SeriesHolds(x, others, T)
<1>1. PICK k \in Nat : HasFiles(files, T, k) /\ JoinOf(x, FilePieces(files, T, k), k, Records)
  BY DEF SeriesHolds
<1>2. HasFiles(others, T, k)
  BY <1>1 DEF HasFiles, SameSeries
<1>3. IsPieces(FilePieces(others, T, k), k, Records)
  BY <1>2, FilePiecesTyped
<1>4. ASSUME NEW i \in 1 .. k PROVE FilePieces(files, T, k)[i] = FilePieces(others, T, k)[i]
  <2>1. i \in Nat \ {0} /\ i <= k
    OBVIOUS
  <2>2. <<T, i>> \in DOMAIN files
    BY <1>1, <2>1 DEF HasFiles
  <2>3. others[<<T, i>>] = files[<<T, i>>]
    BY <2>1, <2>2 DEF SameSeries
  <2> QED
    BY <2>3 DEF FilePieces
<1>5. JoinOf(x, FilePieces(others, T, k), k, Records)
  BY <1>1, <1>3, <1>4, JoinSame
<1> QED
  BY <1>2, <1>5 DEF SeriesHolds

\* An empty file more adds nothing.
LEMMA SeriesHoldsNext ==
  ASSUME NEW files, NEW others, IsFiles(others), NEW T, NEW k \in Nat, HasFiles(files, T, k),
         NEW x, SeriesHolds(x, files, T),
         OnlyFile(files, others, <<T, k + 1>>), others[<<T, k + 1>>] = <<>>
  PROVE  SeriesHolds(x, others, T)
<1>1. JoinOf(x, FilePieces(files, T, k), k, Records)
  <2>1. PICK l \in Nat : HasFiles(files, T, l) /\ JoinOf(x, FilePieces(files, T, l), l, Records)
    BY DEF SeriesHolds
  <2>2. l = k
    BY <2>1, SeriesLength
  <2> QED
    BY <2>1, <2>2
<1>2. HasFiles(others, T, k + 1)
  <2> SUFFICES ASSUME NEW i \in Nat \ {0} PROVE <<T, i>> \in DOMAIN others <=> i <= k + 1
    BY DEF HasFiles
  <2>1. <<T, i>> \in DOMAIN files <=> i <= k
    BY DEF HasFiles
  <2>2. <<T, i>> \in DOMAIN others <=> <<T, i>> \in DOMAIN files \/ i = k + 1
    BY DEF OnlyFile
  <2> QED
    BY <2>1, <2>2
<1>3. k + 1 \in Nat
  OBVIOUS
<1>4. IsPieces(FilePieces(others, T, k + 1), k + 1, Records)
  BY <1>2, <1>3, FilePiecesTyped
<1>5. ASSUME NEW i \in 1 .. k PROVE FilePieces(files, T, k)[i] = FilePieces(others, T, k + 1)[i]
  <2>1. i \in Nat \ {0} /\ i <= k /\ i # k + 1 /\ i \in 1 .. k + 1
    OBVIOUS
  <2>2. <<T, i>> \in DOMAIN files /\ <<T, i>> # <<T, k + 1>>
    BY <2>1 DEF HasFiles
  <2>3. others[<<T, i>>] = files[<<T, i>>]
    BY <2>2 DEF OnlyFile
  <2> QED
    BY <2>1, <2>3 DEF FilePieces
<1>6. JoinOf(x \o FilePieces(others, T, k + 1)[k + 1], FilePieces(others, T, k + 1), k + 1, Records)
  BY <1>1, <1>4, <1>5, JoinMore
<1>7. k + 1 \in 1 .. k + 1
  OBVIOUS
<1>8. FilePieces(others, T, k + 1)[k + 1] = <<>>
  BY <1>7 DEF FilePieces
<1>9. x \o <<>> = x
  BY <1>1, JoinType, ConcatEmptySeq
<1>10. JoinOf(x, FilePieces(others, T, k + 1), k + 1, Records)
  BY <1>6, <1>8, <1>9
<1> QED
  BY <1>2, <1>3, <1>10 DEF SeriesHolds

\* More records in the last file are more records.
LEMMA SeriesHoldsMore ==
  ASSUME NEW files, NEW others, IsFiles(files), IsFiles(others),
         NEW T, NEW k \in Nat \ {0}, HasFiles(files, T, k),
         NEW x, SeriesHolds(x, files, T), OnlyFile(files, others, <<T, k>>),
         NEW more \in Seq(Records), others[<<T, k>>] = files[<<T, k>>] \o more
  PROVE  SeriesHolds(x \o more, others, T)
<1>1. k \in Nat /\ k \in 1 .. k
  OBVIOUS
<1>2. JoinOf(x, FilePieces(files, T, k), k, Records)
  <2>1. PICK l \in Nat : HasFiles(files, T, l) /\ JoinOf(x, FilePieces(files, T, l), l, Records)
    BY DEF SeriesHolds
  <2>2. l = k
    BY <1>1, <2>1, SeriesLength
  <2> QED
    BY <2>1, <2>2
<1>3. <<T, k>> \in DOMAIN files /\ files[<<T, k>>] \in Seq(Records)
  BY <1>1, FileOfSeries
<1>4. DOMAIN others = DOMAIN files
  BY <1>3 DEF OnlyFile
<1>5. HasFiles(others, T, k)
  BY <1>4 DEF HasFiles
<1>6. PICK m \in Nat : k = m + 1
  <2>1. k - 1 \in Nat /\ k = (k - 1) + 1
    OBVIOUS
  <2> QED
    BY <2>1
<1> DEFINE c == FilePieces(files, T, k)
           d == FilePieces(others, T, k)
           F == files[<<T, k>>]
<1>7. IsPieces(d, k, Records)
  BY <1>1, <1>5, FilePiecesTyped
<1>8. ASSUME NEW i \in 1 .. m PROVE c[i] = d[i]
  <2>1. i \in Nat \ {0} /\ i <= k /\ i # k /\ i \in 1 .. k
    BY <1>6
  <2>2. <<T, i>> \in DOMAIN files /\ <<T, i>> # <<T, k>>
    BY <2>1 DEF HasFiles
  <2>3. others[<<T, i>>] = files[<<T, i>>]
    BY <2>2 DEF OnlyFile
  <2> QED
    BY <2>1, <2>3 DEF FilePieces
<1>9. c[k] = F /\ d[k] = F \o more /\ F \in Seq(Records)
  BY <1>1, <1>3 DEF FilePieces
<1> HIDE DEF F
<1>10. JoinOf(x, c, m + 1, Records) /\ IsPieces(d, m + 1, Records)
  BY <1>2, <1>6, <1>7
<1> HIDE DEF c, d
<1>11. PICK front : IsFront(front, x, c, m, Records)
  BY <1>10, JoinLast
<1>12. front \in Seq(Records) /\ JoinOf(front, c, m, Records) /\ x = front \o F
  BY <1>6, <1>9, <1>11 DEF IsFront
<1>13. JoinOf(front \o d[m + 1], d, m + 1, Records)
  BY <1>8, <1>10, <1>12, JoinMore
<1>14. (front \o F) \o more = front \o (F \o more)
  BY <1>9, <1>12, ConcatAssociative
<1>15. JoinOf(x \o more, d, k, Records)
  BY <1>6, <1>9, <1>12, <1>13, <1>14
<1> QED
  BY <1>1, <1>5, <1>15 DEF SeriesHolds, d

\* An empty file more, in some series, adds nothing to the disk.
LEMMA DiskHoldsNext ==
  ASSUME NEW files, NEW others, IsFiles(others), NEW T \in 0 .. MaxRequests,
         NEW k \in Nat, HasFiles(files, T, k),
         NEW all, DiskHolds(all, files),
         OnlyFile(files, others, <<T, k + 1>>), others[<<T, k + 1>>] = <<>>
  PROVE  DiskHolds(all, others)
<1>1. PICK x : AllSeries(x, files) /\ JoinOf(all, x, MaxRequests + 1, Records)
  BY DEF DiskHolds
<1>2. Grown(files, others, T)
  BY FileGrows
<1>3. ASSUME NEW U \in 0 .. MaxRequests PROVE SeriesHolds(x[U + 1], others, U)
  <2>1. SeriesHolds(x[U + 1], files, U)
    BY <1>1 DEF AllSeries
  <2>2. CASE U = T
    <3>1. SeriesHolds(x[U + 1], files, T)
      BY <2>1, <2>2
    <3>2. SeriesHolds(x[U + 1], others, T)
      BY <3>1, SeriesHoldsNext
    <3> QED
      BY <2>2, <3>2
  <2>3. CASE U # T
    <3>1. SameSeries(files, others, U)
      BY <1>2, <2>3 DEF Grown
    <3> QED
      BY <2>1, <3>1, SeriesHoldsSame
  <2> QED
    BY <2>2, <2>3
<1>4. AllSeries(x, others)
  BY <1>1, <1>3 DEF AllSeries
<1> QED
  BY <1>1, <1>4 DEF DiskHolds

\* More at the end of the last piece that is not empty.
LEMMA JoinGrows ==
  ASSUME NEW V, NEW n \in Nat, NEW x, IsPieces(x, n, V), NEW t \in 1 .. n,
         \A i \in t + 1 .. n : x[i] = <<>>,
         NEW more \in Seq(V), NEW y, IsPieces(y, n, V), y[t] = x[t] \o more,
         \A i \in 1 .. n : i # t => y[i] = x[i],
         NEW all, JoinOf(all, x, n, V)
  PROVE  JoinOf(all \o more, y, n, V)
<1>1. PICK g : Joins(g, x, n, V) /\ all = g[n]
  BY DEF JoinOf
<1>2. /\ \A i \in 0 .. n : g[i] \in Seq(V)
      /\ g[0] = <<>>
      /\ \A i \in 1 .. n : g[i] = g[i - 1] \o x[i]
  BY <1>1 DEF Joins
<1>3. \A i \in 1 .. n : x[i] \in Seq(V)
  BY DEF IsPieces
<1> DEFINE h == [i \in 0 .. n |-> IF i < t THEN g[i] ELSE g[i] \o more]
<1>4. h \in [0 .. n -> Seq(V)]
  <2>1. ASSUME NEW i \in 0 .. n PROVE g[i] \o more \in Seq(V)
    BY <1>2, ConcatProperties
  <2> QED
    BY <1>2, <2>1
<1>5. h[0] = <<>>
  <2>1. 0 \in 0 .. n /\ 0 < t
    OBVIOUS
  <2> QED
    BY <1>2, <2>1
<1>6. \A i \in 0 .. n : i < t => h[i] = g[i]
  OBVIOUS
<1>7. \A i \in 0 .. n : i >= t => h[i] = g[i] \o more
  OBVIOUS
<1> HIDE DEF h
<1>8. ASSUME NEW i \in 1 .. n PROVE h[i] = h[i - 1] \o y[i]
  <2>1. i \in 0 .. n /\ i - 1 \in 0 .. n
    OBVIOUS
  <2>2. g[i] = g[i - 1] \o x[i] /\ g[i - 1] \in Seq(V) /\ x[i] \in Seq(V) /\ g[i] \in Seq(V)
    BY <1>2, <1>3, <2>1
  <2>3. CASE i < t
    <3>1. i - 1 < t /\ i # t
      BY <2>3
    <3>2. h[i] = g[i] /\ h[i - 1] = g[i - 1] /\ y[i] = x[i]
      BY <1>6, <2>1, <2>3, <3>1
    <3> QED
      BY <2>2, <3>2
  <2>4. CASE i = t
    <3>1. i - 1 < t /\ i >= t
      BY <2>4
    <3>2. h[i] = g[i] \o more /\ h[i - 1] = g[i - 1] /\ y[i] = x[i] \o more
      BY <1>6, <1>7, <2>1, <2>4, <3>1
    <3>3. PICK a \in Seq(V), b \in Seq(V) : a = g[i - 1] /\ b = x[i]
      BY <2>2
    <3>4. (a \o b) \o more = a \o (b \o more)
      BY ConcatAssociative
    <3> QED
      BY <2>2, <3>2, <3>3, <3>4
  <2>5. CASE i > t
    <3>1. i - 1 >= t /\ i >= t /\ i # t /\ i \in t + 1 .. n
      BY <2>5
    <3>2. h[i] = g[i] \o more /\ h[i - 1] = g[i - 1] \o more /\ y[i] = <<>> /\ x[i] = <<>>
      BY <1>7, <2>1, <3>1
    <3>3. g[i - 1] \o <<>> = g[i - 1]
      BY <2>2, ConcatEmptySeq
    <3>4. g[i - 1] \o more \in Seq(V)
      BY <2>2, ConcatProperties
    <3>5. (g[i - 1] \o more) \o <<>> = g[i - 1] \o more
      BY <3>4, ConcatEmptySeq
    <3>6. h[i] = (g[i - 1] \o <<>>) \o more
      BY <2>2, <3>2
    <3> QED
      BY <3>2, <3>3, <3>5, <3>6
  <2>6. i < t \/ i = t \/ i > t
    OBVIOUS
  <2> QED
    BY <2>3, <2>4, <2>5, <2>6
<1>9. Joins(h, y, n, V)
  BY <1>4, <1>5, <1>8 DEF Joins
<1>10. n \in 0 .. n /\ n >= t
  OBVIOUS
<1>11. h[n] = all \o more
  BY <1>1, <1>7, <1>10
<1> QED
  BY <1>9, <1>11 DEF JoinOf

\* A series without files holds nothing.
LEMMA NothingHeld ==
  ASSUME NEW files, NEW T, HasFiles(files, T, 0), NEW x, SeriesHolds(x, files, T)
  PROVE  x = <<>>
<1>1. PICK l \in Nat : HasFiles(files, T, l) /\ JoinOf(x, FilePieces(files, T, l), l, Records)
  BY DEF SeriesHolds
<1>2. l = 0
  BY <1>1, SeriesLength
<1> QED
  BY <1>1, <1>2 DEF JoinOf, Joins

\* More records in the last file of the last series are more records of the disk.
LEMMA DiskHoldsMore ==
  ASSUME NEW files, NEW others, IsFiles(files), IsFiles(others), NEW T \in 0 .. MaxRequests,
         NEW k \in Nat \ {0}, HasFiles(files, T, k), \A f \in DOMAIN files : f[1] <= T,
         NEW all, DiskHolds(all, files), OnlyFile(files, others, <<T, k>>),
         NEW more \in Seq(Records), others[<<T, k>>] = files[<<T, k>>] \o more
  PROVE  DiskHolds(all \o more, others)
<1> DEFINE N == MaxRequests + 1
<1>1. MaxRequests \in Nat /\ N \in Nat /\ T + 1 \in 1 .. N
  BY JournalSizes
<1>2. PICK x : AllSeries(x, files) /\ JoinOf(all, x, N, Records)
  BY DEF DiskHolds
<1>3. /\ x \in [1 .. N -> Seq(Records)]
      /\ \A U \in 0 .. MaxRequests : SeriesHolds(x[U + 1], files, U)
  BY <1>2 DEF AllSeries, IsPieces
<1>4. PICK X \in Seq(Records) : X = x[T + 1]
  BY <1>1, <1>3
<1>5. PICK Y \in Seq(Records) : Y = X \o more
  BY <1>4, ConcatProperties
<1> DEFINE y == [i \in 1 .. N |-> IF i = T + 1 THEN Y ELSE x[i]]
<1>6. y \in [1 .. N -> Seq(Records)]
  BY <1>3, <1>5
<1>7. y[T + 1] = Y /\ \A i \in 1 .. N : i # T + 1 => y[i] = x[i]
  BY <1>1
<1> HIDE DEF y
<1>8. ASSUME NEW i \in T + 2 .. N PROVE x[i] = <<>>
  <2>1. i - 1 \in 0 .. MaxRequests /\ i - 1 > T /\ (i - 1) + 1 = i /\ i - 1 \in Int
    BY <1>1
  <2>2. SeriesHolds(x[i], files, i - 1)
    BY <1>3, <2>1
  <2>3. \A f \in DOMAIN files : f[1] # i - 1
    BY <2>1
  <2>4. HasFiles(files, i - 1, 0)
    BY <2>1, <2>3, NoFilesOf
  <2> QED
    BY <2>2, <2>4, NothingHeld
<1>9. SeriesHolds(Y, others, T)
  <2>1. SeriesHolds(X, files, T)
    BY <1>3, <1>4
  <2> QED
    BY <1>5, <2>1, SeriesHoldsMore
<1>10. Grown(files, others, T)
  BY FileGrows
<1>11. ASSUME NEW U \in 0 .. MaxRequests PROVE SeriesHolds(y[U + 1], others, U)
  <2>1. U + 1 \in 1 .. N
    BY <1>1
  <2>2. CASE U = T
    BY <1>7, <1>9, <2>2
  <2>3. CASE U # T
    <3>1. SameSeries(files, others, U)
      BY <1>10, <2>3 DEF Grown
    <3>2. SeriesHolds(x[U + 1], files, U)
      BY <1>3
    <3>3. SeriesHolds(x[U + 1], others, U)
      BY <3>1, <3>2, SeriesHoldsSame
    <3>4. U + 1 # T + 1
      BY <2>3
    <3> QED
      BY <1>7, <2>1, <3>3, <3>4
  <2> QED
    BY <2>2, <2>3
<1>12. IsPieces(x, N, Records) /\ IsPieces(y, N, Records)
  BY <1>3, <1>6 DEF IsPieces
<1>13. AllSeries(y, others)
  BY <1>11, <1>12 DEF AllSeries
<1>14. PICK t : t = T + 1
  OBVIOUS
<1>15. t \in 1 .. N /\ \A i \in t + 1 .. N : x[i] = <<>>
  BY <1>1, <1>8, <1>14
<1>16. y[t] = x[t] \o more /\ \A i \in 1 .. N : i # t => y[i] = x[i]
  BY <1>4, <1>5, <1>7, <1>14
<1> HIDE DEF N
<1>17. JoinOf(all \o more, y, N, Records)
  BY <1>1, <1>2, <1>12, <1>15, <1>16, JoinGrows
<1> QED
  BY <1>13, <1>17 DEF DiskHolds, N

\* h joins the pieces.
Joining(h, pieces, n) == h[0] = <<>> /\ \A i \in 1 .. n : h[i] = h[i - 1] \o pieces[i]

\* Two functions that join the same pieces.
LEMMA JoinedAlike ==
  ASSUME NEW V, NEW n \in Nat, NEW pieces, NEW g, Joins(g, pieces, n, V), NEW h,
         Joining(h, pieces, n)
  PROVE  h[n] = g[n]
<1>1. g[0] = <<>> /\ \A i \in 1 .. n : g[i] = g[i - 1] \o pieces[i]
  BY DEF Joins
<1> DEFINE S == {i \in 0 .. n : h[i] = g[i]}
<1>2. 0 \in S
  BY <1>1 DEF Joining
<1>3. ASSUME NEW i \in 0 .. n - 1, i \in S PROVE i + 1 \in S
  <2>1. i + 1 \in 1 .. n /\ i + 1 \in 0 .. n /\ (i + 1) - 1 = i
    OBVIOUS
  <2>2. h[i] = g[i]
    BY <1>3
  <2>3. h[i + 1] = h[i] \o pieces[i + 1] /\ g[i + 1] = g[i] \o pieces[i + 1]
    BY <1>1, <2>1 DEF Joining
  <2> QED
    BY <2>1, <2>2, <2>3
<1> HIDE DEF S
<1>4. \A i \in 0 .. n : i \in S
  BY <1>2, <1>3, InductionOverInterval
<1>5. n \in S
  BY <1>4
<1> QED
  BY <1>5 DEF S

\* SeriesRecords are those the series holds.
LEMMA SeriesIs ==
  ASSUME IsFiles(disk.files), NEW T, NEW x, SeriesHolds(x, disk.files, T)
  PROVE  SeriesRecords(T) = x
<1>1. PICK k \in Nat : HasFiles(disk.files, T, k)
                       /\ JoinOf(x, FilePieces(disk.files, T, k), k, Records)
  BY DEF SeriesHolds
<1> DEFINE files == JournalFiles(T)
           value(g, n) == IF n = 0 THEN <<>> ELSE g[n - 1] \o files[n]
           pieces == FilePieces(disk.files, T, k)
           all == CHOOSE g : g = [n \in 0 .. k |-> value(g, n)]
<1>2. files = pieces
  BY <1>1, FilesFound DEF FilePieces
<1>3. Len(files) = k
  <2>1. pieces \in [1 .. k -> Seq(Records)]
    BY <1>1, FilePiecesTyped DEF IsPieces
  <2> HIDE DEF files, pieces
  <2> QED
    BY <1>2, <2>1, FunctionIsSeq
<1>4. SeriesRecords(T) = all[k]
  BY <1>3 DEF SeriesRecords
<1> HIDE DEF files, pieces
<1>5. PICK f : Joins(f, pieces, k, Records) /\ x = f[k]
  BY <1>1 DEF JoinOf, pieces
<1>6. f \in [0 .. k -> Seq(Records)] /\ f[0] = <<>> /\ \A i \in 1 .. k : f[i] = f[i - 1] \o files[i]
  BY <1>2, <1>5 DEF Joins
<1>7. f = [n \in 0 .. k |-> value(f, n)]
  <2>1. ASSUME NEW n \in 0 .. k PROVE f[n] = value(f, n)
    <3>1. CASE n = 0
      BY <1>6, <3>1
    <3>2. CASE n # 0
      <4>1. n \in 1 .. k
        BY <3>2
      <4> QED
        BY <1>6, <3>2, <4>1
    <3> QED
      BY <3>1, <3>2
  <2> QED
    BY <1>6, <2>1
<1>8. all = [n \in 0 .. k |-> value(all, n)]
  BY <1>7
<1> HIDE DEF all
<1>9. \A n \in 0 .. k : all[n] = value(all, n)
  BY <1>8
<1>10. Joining(all, pieces, k)
  <2>1. all[0] = <<>>
    BY <1>9
  <2>2. ASSUME NEW i \in 1 .. k PROVE all[i] = all[i - 1] \o pieces[i]
    <3>1. i \in 0 .. k /\ i # 0
      OBVIOUS
    <3> QED
      BY <1>2, <1>9, <3>1
  <2> QED
    BY <2>1, <2>2 DEF Joining
<1>11. all[k] = f[k]
  BY <1>5, <1>10, JoinedAlike
<1> QED
  BY <1>4, <1>5, <1>11

\* AllRecords are those the disk holds.
LEMMA AllIs ==
  ASSUME IsFiles(disk.files), NEW all, DiskHolds(all, disk.files)
  PROVE  AllRecords = all
<1> DEFINE N == MaxRequests + 1
           value(g, n) == IF n = 0 THEN <<>> ELSE g[n - 1] \o SeriesRecords(n - 1)
           joined == CHOOSE g : g = [n \in 0 .. N |-> value(g, n)]
<1>1. N \in Nat
  BY JournalSizes
<1>2. PICK x : AllSeries(x, disk.files) /\ JoinOf(all, x, N, Records)
  BY DEF DiskHolds
<1>3. PICK f : Joins(f, x, N, Records) /\ all = f[N]
  BY <1>2 DEF JoinOf
<1>4. ASSUME NEW i \in 1 .. N PROVE x[i] = SeriesRecords(i - 1)
  <2>1. i - 1 \in 0 .. MaxRequests /\ (i - 1) + 1 = i
    BY <1>1, JournalSizes
  <2>2. SeriesHolds(x[(i - 1) + 1], disk.files, i - 1)
    BY <1>2, <2>1 DEF AllSeries
  <2>3. SeriesHolds(x[i], disk.files, i - 1)
    BY <2>1, <2>2
  <2> QED
    BY <2>3, SeriesIs
<1>5. f \in [0 .. N -> Seq(Records)] /\ f[0] = <<>> /\ \A i \in 1 .. N : f[i] = f[i - 1] \o SeriesRecords(i - 1)
  BY <1>3, <1>4 DEF Joins
<1>6. AllRecords = joined[N]
  BY DEF AllRecords
<1>7. f = [n \in 0 .. N |-> value(f, n)]
  <2>1. ASSUME NEW n \in 0 .. N PROVE f[n] = value(f, n)
    <3>1. CASE n = 0
      BY <1>5, <3>1
    <3>2. CASE n # 0
      <4>1. n \in 1 .. N
        BY <1>1, <3>2
      <4> QED
        BY <1>5, <3>2, <4>1
    <3> QED
      BY <3>1, <3>2
  <2> QED
    BY <1>5, <2>1
<1>8. joined = [n \in 0 .. N |-> value(joined, n)]
  BY <1>7
<1> HIDE DEF joined
<1>9. \A n \in 0 .. N : joined[n] = value(joined, n)
  BY <1>8
<1>10. Joining(joined, x, N)
  <2>1. joined[0] = <<>>
    BY <1>1, <1>9
  <2>2. ASSUME NEW i \in 1 .. N PROVE joined[i] = joined[i - 1] \o x[i]
    <3>1. i \in 0 .. N /\ i # 0
      BY <1>1
    <3> QED
      BY <1>4, <1>9, <3>1
  <2> QED
    BY <2>1, <2>2 DEF Joining
<1>11. joined[N] = f[N]
  BY <1>1, <1>3, <1>10, JoinedAlike
<1> QED
  BY <1>3, <1>6, <1>11

-----------------------------------------------------------------------------
(***************************************************************************)
(* What is on the disk and in the buffer, through the operations of the    *)
(* processor.                                                              *)
(***************************************************************************)

\* all are the records on the disk, followed by the buffer.
Holding(j, all) == \E onDisk : DiskHolds(onDisk, j.files) /\ all = onDisk \o j.buffer

\* They are records.
LEMMA HoldingRecords ==
  ASSUME NEW j \in Writers, NEW all, Holding(j, all)
  PROVE  all \in Seq(Records)
<1>1. PICK onDisk : DiskHolds(onDisk, j.files) /\ all = onDisk \o j.buffer
  BY DEF Holding
<1>2. onDisk \in Seq(Records)
  BY <1>1, DiskHoldsRecords
<1>3. j.buffer \in Seq(Records)
  BY DEF Writers
<1> QED
  BY <1>1, <1>2, <1>3, ConcatProperties

\* The rest of the processor does not matter.
LEMMA SameHolding ==
  ASSUME NEW j, NEW r, r.files = j.files, r.buffer = j.buffer, NEW all, Holding(j, all)
  PROVE  Holding(r, all)
BY DEF Holding

\* The open file is the last one.
LEMMA LastFile ==
  ASSUME NEW S, RingOK(S), NEW j \in Writers, NEW p, NEW q, Follows(j, S, p, q)
  PROVE  /\ Id(S, p) \in 0 .. MaxRequests /\ j.baseSnapshotId = Id(S, p)
         /\ j.filesCounter \in Nat \ {0}
         /\ HasFiles(j.files, Id(S, p), j.filesCounter)
         /\ j.file = <<Id(S, p), j.filesCounter>>
         /\ \A f \in DOMAIN j.files : f[1] <= Id(S, p)
         /\ IsFiles(j.files)
<1>1. p \in Bases /\ InSeries(j, S, p)
  BY DEF Follows, NewestBase
<1>2. PICK records : Reads(records, j.files, Id(S, p), j.filesCounter)
  BY DEF Follows, WroteTo
<1>3. Id(S, p) \in 0 .. MaxRequests
  BY <1>1, BasesAre
<1>4. IsFiles(j.files) /\ HasFiles(j.files, Id(S, p), j.filesCounter)
  BY <1>1, <1>2, SeriesOf
<1> QED
  BY <1>1, <1>3, <1>4 DEF InSeries

\* Writing the buffer to the last file.
LEMMA WrittenHolds ==
  ASSUME NEW j \in Writers, NEW r, Written(j, r), NEW T \in 0 .. MaxRequests,
         NEW k \in Nat \ {0}, HasFiles(j.files, T, k), j.file = <<T, k>>,
         \A f \in DOMAIN j.files : f[1] <= T, NEW all, Holding(j, all)
  PROVE  Holding(r, all)
<1>1. PICK onDisk : DiskHolds(onDisk, j.files) /\ all = onDisk \o j.buffer
  BY DEF Holding
<1>2. j.files \in FileSets /\ r.files \in FileSets /\ j.buffer \in Seq(Records)
  BY DEF Written, Writers
<1>3. IsFiles(j.files) /\ IsFiles(r.files)
  BY <1>2, FilesAreFiles
<1>4. PICK more \in Seq(Records) : more = j.buffer
  BY <1>2
<1>5. r.files[<<T, k>>] = j.files[<<T, k>>] \o more /\ OnlyFile(j.files, r.files, <<T, k>>)
      /\ r.buffer = <<>>
  BY <1>4 DEF Written
<1>6. PICK old, new : old = j.files /\ new = r.files
  OBVIOUS
<1>7. IsFiles(old) /\ IsFiles(new) /\ new[<<T, k>>] = old[<<T, k>>] \o more
      /\ OnlyFile(old, new, <<T, k>>) /\ DiskHolds(onDisk, old)
      /\ HasFiles(old, T, k) /\ \A f \in DOMAIN old : f[1] <= T
  BY <1>1, <1>3, <1>5, <1>6
<1>8. DiskHolds(onDisk \o more, new)
  BY <1>7, DiskHoldsMore
<1>9. onDisk \o more \in Seq(Records)
  BY <1>8, DiskHoldsRecords
<1>10. PICK a \in Seq(Records) : a = onDisk \o more
  BY <1>9
<1>11. a \o <<>> = a
  BY ConcatEmptySeq
<1>12. all = a /\ DiskHolds(a, r.files)
  BY <1>1, <1>4, <1>6, <1>8, <1>10
<1> QED
  BY <1>5, <1>11, <1>12 DEF Holding

\* Opening the next file of a series.
LEMMA OpenedHolds ==
  ASSUME NEW j \in Writers, NEW r, Opened(j, r),
         HasFiles(j.files, j.baseSnapshotId, j.filesCounter), NEW all, Holding(j, all)
  PROVE  Holding(r, all)
<1>1. PICK onDisk : DiskHolds(onDisk, j.files) /\ all = onDisk \o j.buffer
  BY DEF Holding
<1>2. r.files \in FileSets /\ j.baseSnapshotId \in 0 .. MaxRequests /\ j.filesCounter \in Nat
  BY DEF Opened, Writers
<1>3. IsFiles(r.files)
  BY <1>2, FilesAreFiles
<1>4. PICK old, new, T, k : old = j.files /\ new = r.files
                            /\ T = j.baseSnapshotId /\ k = j.filesCounter
  OBVIOUS
<1>5. T \in 0 .. MaxRequests /\ k \in Nat /\ IsFiles(new) /\ HasFiles(old, T, k)
      /\ DiskHolds(onDisk, old) /\ OnlyFile(old, new, <<T, k + 1>>) /\ new[<<T, k + 1>>] = <<>>
      /\ r.buffer = j.buffer
  BY <1>1, <1>2, <1>3, <1>4 DEF Opened
<1>6. DiskHolds(onDisk, new)
  BY <1>5, DiskHoldsNext
<1> QED
  BY <1>1, <1>4, <1>5, <1>6 DEF Holding

\* The bytes written to the file do not matter here either.
LEMMA BytesHold ==
  ASSUME NEW j \in Writers, NEW r, r = [j EXCEPT !.writtenBytes = 0], NEW all, Holding(j, all)
  PROVE  Holding(r, all)
<1>1. r.files = j.files /\ r.buffer = j.buffer
  BY DEF Writers
<1> QED
  BY <1>1, SameHolding

\* A flush.
LEMMA FlushHolds ==
  ASSUME NEW S, RingOK(S), NEW j \in Writers, NEW p, NEW q, Follows(j, S, p, q),
         NEW force, NEW r, r = FlushBufferSync(j, force), NEW all, Holding(j, all)
  PROVE  Holding(r, all)
<1>1. PICK f : f = Flushed(j)
  OBVIOUS
<1>2. Written(j, f)
  BY <1>1, OpenFile, FlushWrites
<1>3. PICK T, k : T = Id(S, p) /\ k = j.filesCounter
  OBVIOUS
<1>4. /\ T \in 0 .. MaxRequests /\ k \in Nat \ {0} /\ HasFiles(j.files, T, k) /\ j.file = <<T, k>>
      /\ \A x \in DOMAIN j.files : x[1] <= T
  BY <1>3, LastFile
<1>5. Holding(f, all)
  BY <1>2, <1>4, WrittenHolds
<1>6. f \in Writers /\ Follows(f, S, p, q)
  BY <1>2, WrittenFollows DEF Written
<1>7. r = f \/ r = [StartNewFile(f) EXCEPT !.writtenBytes = 0]
  BY <1>1, FlushIs
<1>8. PICK g : g = StartNewFile(f)
  OBVIOUS
<1>9. Opened(f, g)
  BY <1>6, <1>8, NextFileFree, StartOpens
<1>10. HasFiles(f.files, f.baseSnapshotId, f.filesCounter)
  BY <1>6, LastFile
<1>11. Holding(g, all) /\ g \in Writers
  BY <1>5, <1>6, <1>9, <1>10, OpenedHolds DEF Opened
<1>12. CASE r = [g EXCEPT !.writtenBytes = 0]
  BY <1>11, <1>12, BytesHold
<1> QED
  BY <1>5, <1>7, <1>8, <1>12

\* A record more.
LEMMA RecordHolds ==
  ASSUME NEW S, RingOK(S), NEW j \in Writers, NEW q \in Nat, q + 1 <= Len(ring),
         IsMutate(ring[q + 1]), NEW w, Recorded(j, w, q), NEW all, Holding(j, all)
  PROVE  Holding(w, Append(all, RecordOf(j, q)))
<1>1. PICK onDisk : DiskHolds(onDisk, j.files) /\ all = onDisk \o j.buffer
  BY DEF Holding
<1>2. PICK x \in Records : x = RecordOf(j, q)
  BY RecordIsRecord
<1>3. PICK b \in Seq(Records) : b = j.buffer
  BY DEF Writers
<1>4. PICK a \in Seq(Records) : a = onDisk
  BY <1>1, DiskHoldsRecords
<1>5. Append(a \o b, x) = a \o Append(b, x)
  OBVIOUS
<1>6. w.buffer = Append(b, x) /\ w.files = j.files
  BY <1>2, <1>3 DEF Recorded
<1> QED
  BY <1>1, <1>2, <1>3, <1>4, <1>5, <1>6 DEF Holding

\* The switch to the series of a snapshot.
LEMMA PersistHolds ==
  ASSUME NEW S, RingOK(S), NEW j \in Writers, NEW p, NEW q \in Nat, Follows(j, S, p, q),
         q + 1 <= Len(ring), IsRisk(ring[q + 1]),
         NEW w, Recorded(j, w, q), NEW h, h = OnPersist(w, ring[q + 1].orderId),
         NEW all, Holding(w, all)
  PROVE  Holding(h, all)
<1>1. PICK T, k, id : T = Id(S, p) /\ k = j.filesCounter /\ id = ring[q + 1].orderId
  OBVIOUS
<1>2. /\ T \in 0 .. MaxRequests /\ k \in Nat \ {0} /\ HasFiles(j.files, T, k) /\ j.file = <<T, k>>
      /\ \A x \in DOMAIN j.files : x[1] <= T
      /\ IsFiles(j.files)
  BY <1>1, LastFile
<1>3. T < id /\ id \in 0 .. MaxRequests
  BY <1>1, NextIdentity DEF Follows
<1>4. PICK w2 : w2 = [w EXCEPT !.baseSnapshotId = id, !.filesCounter = 0]
  OBVIOUS
<1>5. h = FlushBufferSync(w2, TRUE)
  BY <1>1, <1>4 DEF OnPersist
<1>6. w \in Writers /\ w.file = j.file /\ w.files = j.files
  BY DEF Recorded
<1>7. /\ w2 \in Writers /\ w2.baseSnapshotId = id /\ w2.filesCounter = 0 /\ w2.file = j.file
      /\ w2.files = j.files /\ w2.files = w.files /\ w2.buffer = w.buffer
  BY <1>3, <1>4, <1>6 DEF Writers
<1>8. Holding(w2, all)
  BY <1>7, SameHolding
<1>9. PICK f : f = Flushed(w2)
  OBVIOUS
<1>10. w2.file \in DOMAIN w2.files
  BY <1>7, OpenFile
<1>11. Written(w2, f)
  BY <1>7, <1>9, <1>10, FlushWrites
<1>12. /\ HasFiles(w2.files, T, k) /\ w2.file = <<T, k>>
       /\ \A x \in DOMAIN w2.files : x[1] <= T
  BY <1>2, <1>7
<1>13. Holding(f, all)
  BY <1>2, <1>7, <1>8, <1>11, <1>12, WrittenHolds
<1>14. f \in Writers /\ f.baseSnapshotId = id /\ f.filesCounter = 0 /\ DOMAIN f.files = DOMAIN j.files
  BY <1>7, <1>10, <1>11 DEF Written, OnlyFile
<1>15. ASSUME NEW x \in DOMAIN f.files PROVE x[1] # id
  <2>1. x \in DOMAIN j.files /\ x \in FileNames
    BY <1>2, <1>14 DEF IsFiles
  <2>2. x[1] <= T /\ x[1] \in Nat
    BY <1>2, <2>1 DEF FileNames
  <2> QED
    BY <1>2, <1>3, <2>2
<1>16. HasFiles(f.files, id, 0)
  BY <1>3, <1>15, NoFilesOf
<1>17. <<f.baseSnapshotId, f.filesCounter + 1>> \notin DOMAIN f.files
  BY <1>14, <1>15
<1>18. PICK g : g = StartNewFile(f)
  OBVIOUS
<1>19. Opened(f, g)
  BY <1>14, <1>17, <1>18, StartOpens
<1>20. HasFiles(f.files, f.baseSnapshotId, f.filesCounter)
  BY <1>14, <1>16
<1>21. Holding(g, all) /\ g \in Writers
  BY <1>13, <1>14, <1>19, <1>20, OpenedHolds DEF Opened
<1>22. h = [g EXCEPT !.writtenBytes = 0]
  BY <1>5, <1>9, <1>18, FlushIs
<1> QED
  BY <1>21, <1>22, BytesHold

\* Making room in the buffer.
LEMMA PreparedHolds ==
  ASSUME NEW S, RingOK(S), NEW j \in Writers, NEW p, NEW q, Follows(j, S, p, q),
         NEW r, r = Prepared(j), NEW all, Holding(j, all)
  PROVE  Holding(r, all)
<1>1. j.file # NoFile
  <2>1. j.file \in FileNames
    BY OpenFile
  <2>2. PICK a, b : j.file = <<a, b>>
    BY <2>1 DEF FileNames
  <2> QED
    BY <2>2 DEF NoFile
<1>2. r = j \/ r = FlushBufferSync(j, FALSE)
  BY <1>1 DEF Prepared
<1> QED
  BY <1>2, FlushHolds

\* What becomes of a new record.
LEMMA LeftHolds ==
  ASSUME NEW S, RingOK(S), NEW j \in Writers, NEW p, NEW q \in Nat, Follows(j, S, p, q),
         q + 1 <= Len(ring), IsMutate(ring[q + 1]),
         NEW w, Recorded(j, w, q), NEW h, LeftOf(w, h, q), NEW all, Holding(w, all)
  PROVE  Holding(h, all)
<1>1. CASE IsRisk(ring[q + 1])
  <2>1. h = OnPersist(w, ring[q + 1].orderId)
    BY <1>1 DEF LeftOf
  <2> QED
    BY <1>1, <2>1, PersistHolds
<1>2. CASE ~IsRisk(ring[q + 1]) /\ h # w
  <2>1. PICK force : h = FlushBufferSync(w, force)
    BY <1>2 DEF LeftOf
  <2>2. PICK q1 : q1 = q + 1
    OBVIOUS
  <2>3. w \in Writers /\ Follows(w, S, p, q1)
    BY <1>2, <2>2, RecordFollows DEF Recorded
  <2> QED
    BY <2>1, <2>3, FlushHolds
<1> QED
  BY <1>1, <1>2

\* What handling the command at q + 1 adds.
Adds(j, h, q) ==
  \A all : Holding(j, all) =>
    Holding(h, IF IsMutate(ring[q + 1]) THEN Append(all, RecordOf(j, q)) ELSE all)

\* A processor in a series adds the record.
LEMMA WriteAdds ==
  ASSUME NEW S, RingOK(S), NEW j \in Writers, NEW p, NEW q \in Nat, Follows(j, S, p, q),
         q + 1 <= Len(ring), ~j.failed, Len(j.buffer) <= JournalBufferSize,
         Journaled(j, q) \/ ~IsMutate(ring[q + 1]),
         NEW eob, NEW h, h = WriteToJournal(j, ring[q + 1], q, eob)
  PROVE  Adds(j, h, q)
<1> SUFFICES ASSUME NEW all, Holding(j, all)
             PROVE  Holding(h, IF IsMutate(ring[q + 1]) THEN Append(all, RecordOf(j, q)) ELSE all)
  BY DEF Adds
<1>1. CASE ~IsMutate(ring[q + 1])
  <2>1. h = j \/ h = FlushBufferSync(j, FALSE)
    BY <1>1 DEF WriteToJournal, OnShutdown
  <2>2. Holding(h, all)
    BY <2>1, FlushHolds
  <2> QED
    BY <1>1, <2>2
<1>2. CASE IsMutate(ring[q + 1])
  <2>1. PICK r : r = Prepared(j)
    OBVIOUS
  <2>2. HasRoom(j, r, S, p, q)
    BY <2>1, PreparedHasRoom
  <2>3. r \in Writers /\ ~r.failed /\ r.baseSeq = j.baseSeq /\ Follows(r, S, p, q)
    BY <2>2 DEF HasRoom, Survives
  <2>4. PICK w : Recorded(r, w, q) /\ LeftOf(w, h, q)
    BY <1>2, <2>1, <2>3, WriteRecords
  <2>5. Holding(r, all)
    BY <2>1, PreparedHolds
  <2>6. RecordOf(r, q) = RecordOf(j, q)
    BY <2>3 DEF RecordOf
  <2>7. PICK more : more = Append(all, RecordOf(j, q))
    OBVIOUS
  <2>8. Holding(w, Append(all, RecordOf(r, q)))
    BY <1>2, <2>3, <2>4, <2>5, RecordHolds
  <2>9. Holding(w, more)
    BY <2>6, <2>7, <2>8
  <2>10. Holding(h, more)
    BY <1>2, <2>3, <2>4, <2>9, LeftHolds
  <2> QED
    BY <1>2, <2>7, <2>10
<1> QED
  BY <1>1, <1>2

\* So does one that starts its series with it.
LEMMA FirstWriteAdds ==
  ASSUME NEW S, RingOK(S), NEW j \in Writers, Unwritten(j, S), j.filesCounter = 0, ~j.failed,
         \A f \in DOMAIN j.files : f[1] < S,
         NEW q \in Nat, q + 1 <= Len(ring), \A n \in 1 .. q : ~IsMutate(ring[n]),
         Journaled(j, q), IsMutate(ring[q + 1]),
         NEW eob, NEW h, h = WriteToJournal(j, ring[q + 1], q, eob)
  PROVE  Adds(j, h, q)
<1>1. PICK r : r = StartNewFile(j)
  OBVIOUS
<1>2. 0 \in Bases /\ Id(S, 0) = S /\ 0 \in Nat /\ 0 <= q
  BY DEF Bases, Id
<1>3. ASSUME NEW x \in Bases, x <= q PROVE x <= 0
  <2>1. x \in Nat
    BY BasesAre
  <2>2. CASE x \in 1 .. q
    <3>1. IsRisk(ring[x])
      BY <2>2 DEF Bases
    <3> QED
      BY <2>2, <3>1 DEF IsRisk, IsMutate, IsPersist
  <2> QED
    BY <1>3, <2>1, <2>2
<1>4. NewestBase(0, q) /\ NewestBase(0, 0)
  BY <1>2, <1>3 DEF NewestBase
<1>5. Opened(j, r) /\ Survives(j, r) /\ Follows(r, S, 0, q)
  <2>1. \A n \in 0 + 1 .. q : ~IsMutate(ring[n])
    OBVIOUS
  <2>2. j.baseSnapshotId = Id(S, 0) /\ j.buffer = <<>> /\ \A f \in DOMAIN j.files : f[1] < Id(S, 0)
    BY <1>2 DEF Unwritten
  <2> QED
    BY <1>1, <1>2, <1>4, <2>1, <2>2, SeriesStarts
<1>6. r \in Writers /\ ~r.failed /\ r.baseSeq = j.baseSeq
  BY <1>5 DEF Survives
<1>7. r = Prepared(j)
  <2>1. JournalBufferSize \in Nat \ {0} /\ Len(r.buffer) = 0
    BY <1>5, JournalSizes DEF Opened, Unwritten
  <2>2. ~(Len(r.buffer) + 1 > JournalBufferSize)
    BY <2>1
  <2> QED
    BY <1>1, <2>2 DEF Prepared, Unwritten
<1>8. PICK w : Recorded(r, w, q) /\ LeftOf(w, h, q)
  BY <1>6, <1>7, WriteRecords
<1>9. HasFiles(j.files, j.baseSnapshotId, j.filesCounter)
  <2>1. S \in Int /\ \A f \in DOMAIN j.files : f[1] # S
    <3>1. S \in 0 .. MaxRequests /\ j.files \in FileSets
      BY DEF RingOK, Writers
    <3>2. ASSUME NEW f \in DOMAIN j.files PROVE f[1] # S
      <4>1. f \in FileNames
        BY <3>1, FilesAreFiles DEF IsFiles
      <4>2. f[1] \in Nat /\ f[1] < S
        BY <4>1 DEF FileNames
      <4> QED
        BY <3>1, <4>2
    <3> QED
      BY <3>1, <3>2
  <2> QED
    BY <2>1, NoFilesOf DEF Unwritten
<1>10. ASSUME NEW all, Holding(j, all) PROVE Holding(h, Append(all, RecordOf(j, q)))
  <2>1. Holding(r, all)
    BY <1>5, <1>9, <1>10, OpenedHolds
  <2>2. RecordOf(r, q) = RecordOf(j, q)
    BY <1>6 DEF RecordOf
  <2>3. PICK more : more = Append(all, RecordOf(j, q))
    OBVIOUS
  <2>4. Holding(w, Append(all, RecordOf(r, q)))
    BY <1>6, <1>8, <2>1, RecordHolds
  <2>5. Holding(w, more)
    BY <2>2, <2>3, <2>4
  <2>6. Holding(h, more)
    BY <1>5, <1>6, <1>8, <2>5, LeftHolds
  <2> QED
    BY <2>3, <2>6
<1> QED
  BY <1>10 DEF Adds

-----------------------------------------------------------------------------
(***************************************************************************)
(* What J had to write.                                                    *)
(***************************************************************************)
IsDue(j, commands, i) == Journaled(j, i - 1) /\ IsMutate(commands[i])

RecordAt(j, commands, i) == [seq |-> j.baseSeq + i - 1, command |-> commands[i]]

\* g[i] are the records due up to position i.
Dues(g, j, commands, n) ==
  /\ g \in [0 .. n -> Seq(Records)]
  /\ g[0] = <<>>
  /\ \A i \in 1 .. n :
       g[i] = IF IsDue(j, commands, i) THEN Append(g[i - 1], RecordAt(j, commands, i)) ELSE g[i - 1]

DueTo(d, j, commands, n) == \E g : Dues(g, j, commands, n) /\ d = g[n]

\* When nothing is due.
LEMMA NothingIsDue ==
  ASSUME NEW j, NEW commands, NEW n \in Nat, \A i \in 1 .. n : ~IsDue(j, commands, i)
  PROVE  DueTo(<<>>, j, commands, n)
<1>1. PICK none \in Seq(Records) : none = <<>>
  BY EmptySeq
<1> DEFINE g == [i \in 0 .. n |-> none]
<1>2. g \in [0 .. n -> Seq(Records)] /\ g[0] = <<>> /\ g[n] = <<>>
  BY <1>1
<1>3. \A i \in 1 .. n : g[i] = g[i - 1]
  OBVIOUS
<1> HIDE DEF g
<1>4. Dues(g, j, commands, n)
  BY <1>2, <1>3 DEF Dues
<1> QED
  BY <1>2, <1>4 DEF DueTo

\* What is due so far depends on the commands so far, and where journaling starts.
LEMMA DueSame ==
  ASSUME NEW j, NEW r, r.baseSeq = j.baseSeq, r.enableJournalAfterSeq = j.enableJournalAfterSeq,
         NEW n, NEW commands, NEW others, \A i \in 1 .. n : others[i] = commands[i],
         NEW d, DueTo(d, j, commands, n)
  PROVE  DueTo(d, r, others, n)
<1>1. PICK g : Dues(g, j, commands, n) /\ d = g[n]
  BY DEF DueTo
<1>2. ASSUME NEW i \in 1 .. n
      PROVE  /\ IsDue(j, commands, i) <=> IsDue(r, others, i)
             /\ RecordAt(j, commands, i) = RecordAt(r, others, i)
  <2>1. others[i] = commands[i]
    OBVIOUS
  <2> QED
    BY <2>1 DEF IsDue, RecordAt, Journaled
<1>3. Dues(g, r, others, n)
  BY <1>1, <1>2 DEF Dues
<1> QED
  BY <1>1, <1>3 DEF DueTo

\* A command more.
LEMMA DueNext ==
  ASSUME NEW j, NEW commands, NEW n \in Nat, NEW d, DueTo(d, j, commands, n),
         IsDue(j, commands, n + 1) => RecordAt(j, commands, n + 1) \in Records,
         NEW e, e = IF IsDue(j, commands, n + 1) THEN Append(d, RecordAt(j, commands, n + 1)) ELSE d
  PROVE  DueTo(e, j, commands, n + 1)
<1>1. PICK g : Dues(g, j, commands, n) /\ d = g[n]
  BY DEF DueTo
<1>2. d \in Seq(Records) /\ g \in [0 .. n -> Seq(Records)]
  BY <1>1 DEF Dues
<1>3. e \in Seq(Records)
  <2>1. CASE IsDue(j, commands, n + 1)
    <3>1. PICK x \in Records : x = RecordAt(j, commands, n + 1)
      BY <2>1
    <3>2. e = Append(d, x)
      BY <2>1, <3>1
    <3> QED
      BY <1>2, <3>2, AppendElements
  <2>2. CASE ~IsDue(j, commands, n + 1)
    BY <1>2, <2>2
  <2> QED
    BY <2>1, <2>2
<1> DEFINE h == [i \in 0 .. n + 1 |-> IF i = n + 1 THEN e ELSE g[i]]
<1>4. h \in [0 .. n + 1 -> Seq(Records)]
  BY <1>2, <1>3
<1>5. h[n + 1] = e /\ \A i \in 0 .. n : h[i] = g[i]
  OBVIOUS
<1> HIDE DEF h
<1>6. h[0] = <<>>
  BY <1>1, <1>5 DEF Dues
<1>7. ASSUME NEW i \in 1 .. n + 1
      PROVE  h[i] = IF IsDue(j, commands, i) THEN Append(h[i - 1], RecordAt(j, commands, i)) ELSE h[i - 1]
  <2>1. CASE i = n + 1
    <3>1. i - 1 = n /\ n \in 0 .. n
      BY <2>1
    <3>2. h[i - 1] = d
      BY <1>1, <1>5, <3>1
    <3> QED
      BY <1>5, <2>1, <3>2
  <2>2. CASE i # n + 1
    <3>1. i \in 1 .. n /\ i \in 0 .. n /\ i - 1 \in 0 .. n
      BY <2>2
    <3>2. h[i] = g[i] /\ h[i - 1] = g[i - 1]
      BY <1>5, <3>1
    <3> QED
      BY <1>1, <3>1, <3>2 DEF Dues
  <2> QED
    BY <2>1, <2>2
<1>8. Dues(h, j, commands, n + 1)
  BY <1>4, <1>6, <1>7 DEF Dues
<1> QED
  BY <1>5, <1>8 DEF DueTo

\* The end of a sequence, in the words of SequencesExt.
LEMMA SuffixOf ==
  ASSUME NEW V, NEW u \in Seq(V), NEW s \in Seq(V), NEW t, t = u \o s
  PROVE  IsSuffix(s, t)
<1>1. PICK m \in Nat, l \in Nat : m = Len(u) /\ l = Len(s)
  BY LenProperties
<1>2. t \in Seq(V) /\ Len(t) = m + l /\ \A i \in 1 .. l : t[m + i] = s[i]
  BY <1>1
<1>3. /\ Reverse(s) = [i \in 1 .. l |-> s[(l - i) + 1]]
      /\ Reverse(t) = [i \in 1 .. m + l |-> t[(m + l - i) + 1]]
  BY <1>1, <1>2 DEF Reverse
<1>4. \A i \in 1 .. l : s[i] \in V
  BY <1>1, ElementOfSeq
<1>5. \A i \in 1 .. m + l : t[i] \in V
  BY <1>2, ElementOfSeq
<1>6. PICK a, b : a = Reverse(s) /\ b = Reverse(t)
  OBVIOUS
<1>7. a \in [1 .. l -> V]
  <2>1. \A i \in 1 .. l : (l - i) + 1 \in 1 .. l
    OBVIOUS
  <2> QED
    BY <1>3, <1>4, <1>6, <2>1
<1>8. b \in [1 .. m + l -> V]
  <2>1. \A i \in 1 .. m + l : (m + l - i) + 1 \in 1 .. m + l
    OBVIOUS
  <2> QED
    BY <1>3, <1>5, <1>6, <2>1
<1>9. a \in Seq(V) /\ Len(a) = l /\ b \in Seq(V) /\ Len(b) = m + l
  <2>1. m + l \in Nat
    OBVIOUS
  <2> QED
    BY <1>7, <1>8, <2>1, FunctionIsSeq
<1>10. ASSUME NEW i \in 1 .. l PROVE a[i] = b[i]
  <2>1. i \in 1 .. m + l /\ (l - i) + 1 \in 1 .. l /\ (m + l - i) + 1 = m + ((l - i) + 1)
    OBVIOUS
  <2>2. a[i] = s[(l - i) + 1] /\ b[i] = t[m + ((l - i) + 1)]
    BY <1>3, <1>6, <2>1
  <2> QED
    BY <1>2, <2>1, <2>2
<1>11. Starts(a, b)
  BY <1>9, <1>10 DEF Starts
<1>12. l \in 0 .. Len(a)
  BY <1>9
<1>13. SubSeq(a, 1, l) = SubSeq(b, 1, l)
  BY <1>9, <1>11, <1>12, FirstOfStart
<1>14. Len(a) <= Len(b)
  BY <1>9
<1> QED
  BY <1>6, <1>9, <1>13, <1>14 DEF IsSuffix, IsPrefix

-----------------------------------------------------------------------------
(***************************************************************************)
(* What J has been through is on the disk or in the buffer.                *)
(***************************************************************************)

\* The commands due to the processor of the run are those due to J.
LEMMA DueIsDue ==
  ASSUME TypeInv, NEW i
  PROVE  /\ Due(i) <=> IsDue(Processor, ring, i)
         /\ IsDue(Processor, ring, i) <=> IsDue(journal, ring, i)
<1>1. /\ Processor.baseSeq = journal.baseSeq
      /\ Processor.enableJournalAfterSeq = journal.enableJournalAfterSeq
  BY ProcessorIs
<1> QED
  BY <1>1 DEF Due, IsDue, Journaled

\* A command that J handles without an exception adds its record, if it is due.
LEMMA CommandAdds ==
  ASSUME TypeInv, Progress, NEW S, RunOK(S), phase # "crashed", ~journal.failed,
         NEW end \in BatchEnds, NEW h, h = Handled(end), ~h.failed,
         NEW all, Holding(Processor, all)
  PROVE  Holding(h, IF Due(jNext + 1) THEN Append(all, RecordOf(Processor, jNext)) ELSE all)
<1>1. /\ Processor \in Writers
      /\ Processor.buffer = journal.buffer /\ Processor.file = journal.file
      /\ Processor.filesCounter = journal.filesCounter
      /\ Processor.writtenBytes = journal.writtenBytes
      /\ Processor.baseSnapshotId = journal.baseSnapshotId
      /\ Processor.baseSeq = journal.baseSeq
      /\ Processor.enableJournalAfterSeq = journal.enableJournalAfterSeq
      /\ Processor.failed = journal.failed /\ Processor.files = disk.files
  BY ProcessorIs
<1>2. PICK j \in Writers : j = Processor
  BY <1>1
<1>3. PICK q \in Nat : q = jNext
  BY DEF TypeInv
<1>4. q + 1 <= Len(ring) /\ Len(ring) \in Nat
  BY <1>3, CommandIsThere DEF RunOK, RingOK
<1>5. h = WriteToJournal(j, ring[q + 1], q, q = end)
  BY <1>2, <1>3, CommandIsThere
<1>6. Passes(S, h) \/ Goes(S, h)
  <2>1. Outcome(S, h)
    BY Outcomes
  <2> QED
    BY <2>1 DEF Outcome, Throws
<1>7. Due(q + 1) <=> Journaled(j, q) /\ IsMutate(ring[q + 1])
  <2>1. (q + 1) - 1 = q
    OBVIOUS
  <2> QED
    BY <1>1, <1>2, <2>1 DEF Due, Journaled
<1>8. CASE Passes(S, h)
  <2>1. h = Processor /\ ~Due(jNext + 1)
    BY <1>8 DEF Passes
  <2> QED
    BY <2>1
<1>9. CASE Goes(S, h)
  <2>1. Live(S) /\ RingOK(S)
    BY <1>9 DEF Goes, RunOK
  <2>2. Journaled(j, q) \/ ~IsMutate(ring[q + 1])
    BY <1>2, <1>3, <1>4, <2>1, LiveJournals
  <2>3. Due(q + 1) <=> IsMutate(ring[q + 1])
    BY <1>7, <2>2
  <2>4. ~j.failed /\ Len(j.buffer) <= JournalBufferSize
    BY <1>1, <1>2, <2>1 DEF Live, RunOK, MemoryOK
  <2>5. CASE Adds(j, h, q)
    <3>1. Holding(h, IF IsMutate(ring[q + 1]) THEN Append(all, RecordOf(j, q)) ELSE all)
      BY <1>2, <2>5 DEF Adds
    <3> QED
      BY <1>2, <1>3, <2>3, <3>1
  <2>6. CASE Writes(S)
    <3>1. PICK p : Follows(Processor, S, p, jNext)
      BY <2>6 DEF Writes
    <3>2. Follows(j, S, p, q)
      BY <1>2, <1>3, <3>1
    <3>3. Adds(j, h, q)
      BY <1>4, <1>5, <2>1, <2>2, <2>4, <3>2, WriteAdds
    <3> QED
      BY <2>5, <3>3
  <2>7. CASE Waits(S)
    <3>1. Unwritten(j, S) /\ j.filesCounter = 0
      BY <1>1, <1>2, <2>7 DEF Waits, Unwritten
    <3>2. /\ \A f \in DOMAIN j.files : f[1] < S
          /\ \A n \in 1 .. q : ~IsMutate(ring[n])
      BY <1>1, <1>2, <1>3, <2>7 DEF Waits
    <3>3. CASE IsMutate(ring[q + 1])
      <4>1. Adds(j, h, q)
        BY <1>4, <1>5, <2>1, <2>2, <2>4, <3>1, <3>2, <3>3, FirstWriteAdds
      <4> QED
        BY <2>5, <4>1
    <3>4. CASE ~IsMutate(ring[q + 1])
      <4>1. PICK c : c = ring[q + 1]
        OBVIOUS
      <4>2. h = WriteToJournal(j, c, q, q = end) /\ ~IsMutate(c)
        BY <1>5, <3>4, <4>1
      <4>3. h = j
        BY <3>1, <4>2, NothingWritten
      <4> QED
        BY <1>2, <1>3, <2>3, <3>4, <4>3
    <3> QED
      BY <3>3, <3>4
  <2> QED
    BY <2>1, <2>6, <2>7 DEF Live
<1> QED
  BY <1>6, <1>8, <1>9

\* What J had to write ends what it has written.
Wrote ==
  \E all, d :
    /\ Holding(Processor, all)
    /\ DueTo(d, Processor, ring, jNext)
    /\ \E u \in Seq(Records) : all = u \o d

\* When it has no file open it had to write nothing.
LEMMA UnbegunWrote ==
  ASSUME IInv, phase # "crashed", journal.file = NoFile
  PROVE  Wrote
<1>1. PICK S : TypeInv /\ Progress /\ RunOK(S)
  BY DEF IInv
<1>2. /\ Processor \in Writers /\ Processor.files = disk.files
      /\ Processor.buffer = journal.buffer /\ Processor.file = journal.file
  BY <1>1, ProcessorIs
<1>3. Frozen(S) \/ Waits(S)
  <2>1. ASSUME Writes(S) PROVE FALSE
    <3>1. PICK p : Follows(Processor, S, p, jNext)
      BY <2>1 DEF Writes
    <3>2. journal.file = <<Id(S, p), Processor.filesCounter>>
      BY <1>2, <3>1 DEF Follows, InSeries
    <3>3. PICK a, b : a = Id(S, p) /\ b = Processor.filesCounter
      OBVIOUS
    <3>4. <<a, b>> # <<>>
      OBVIOUS
    <3> QED
      BY <3>2, <3>3, <3>4 DEF NoFile
  <2> QED
    BY <1>1, <2>1 DEF RunOK, MemoryOK, Live
<1>4. journal.buffer = <<>>
  BY <1>3 DEF Frozen, Waits, Unwritten
<1>5. jNext \in Nat /\ jNext <= Len(ring) /\ Len(ring) \in Nat
  BY <1>1, Positions DEF RunOK
<1>6. ASSUME NEW i \in 1 .. jNext PROVE ~IsDue(Processor, ring, i)
  <2>1. i \in 1 .. Len(ring) /\ i <= jNext
    BY <1>5
  <2>2. ~Due(i)
    BY <1>3, <2>1 DEF Frozen, Waits, Due
  <2> QED
    BY <1>1, <2>2, DueIsDue
<1>7. DueTo(<<>>, Processor, ring, jNext)
  BY <1>5, <1>6, NothingIsDue
<1>8. PICK all \in Seq(Records) : DiskHolds(all, disk.files)
  <2>1. \A T \in 0 .. MaxRequests : \E k \in Nat : HasFiles(disk.files, T, k)
    BY <1>1 DEF RunOK, FilesOK
  <2>2. IsFiles(disk.files)
    <3>1. disk.files \in FileSets
      BY <1>1 DEF RunOK, FilesOK
    <3> QED
      BY <3>1, FilesAreFiles
  <2> QED
    BY <2>1, <2>2, DiskHoldsSome
<1>9. all = all \o <<>>
  BY ConcatEmptySeq
<1>10. Holding(Processor, all)
  BY <1>2, <1>4, <1>8, <1>9 DEF Holding
<1> QED
  BY <1>7, <1>9, <1>10 DEF Wrote

\* The same after a step.
LEMMA UnbegunWroteNext ==
  (IInv /\ phase # "crashed" /\ journal.file = NoFile => Wrote)'
<1>1. IInv /\ phase # "crashed" /\ journal.file = NoFile => Wrote
  BY UnbegunWrote
<1> QED
  BY <1>1, PTL

\* Other steps than those of J.
LEMMA RestingWrote ==
  ASSUME Wrote, journal' = journal, disk'.files = disk.files, jNext' = jNext,
         \A i \in 1 .. jNext : ring'[i] = ring[i]
  PROVE  Wrote'
<1>1. PICK all, d : /\ Holding(Processor, all)
                    /\ DueTo(d, Processor, ring, jNext)
                    /\ \E u \in Seq(Records) : all = u \o d
  BY DEF Wrote
<1>2. Processor' = Processor
  BY DEF Processor
<1>3. PICK j, n, others : j = Processor /\ n = jNext /\ others = ring'
  OBVIOUS
<1>4. DueTo(d, j, others, n)
  <2>1. DueTo(d, j, ring, n) /\ \A i \in 1 .. n : others[i] = ring[i]
    BY <1>1, <1>3
  <2> QED
    BY <2>1, DueSame
<1>5. /\ Holding(Processor', all)
      /\ DueTo(d, Processor', ring', jNext')
      /\ \E u \in Seq(Records) : all = u \o d
  BY <1>1, <1>2, <1>3, <1>4
<1> QED
  BY <1>5 DEF Wrote

\* J handles a command.
LEMMA CommandWrote ==
  ASSUME IInv, IInv', Wrote, JournalCommand
  PROVE  Wrote'
<1>1. PICK S : TypeInv /\ Progress /\ RunOK(S)
  BY DEF IInv
<1>2. PICK end, h : Handles(end, h)
  BY CommandHandles
<1>3. /\ end \in BatchEnds /\ h = Handled(end) /\ phase # "crashed" /\ ~journal.failed
      /\ ring' = ring /\ phase' = phase
      /\ ~h.failed => jNext' = jNext + 1
  BY <1>2 DEF Handles
<1>4. Outcome(S, h)
  BY <1>1, <1>3, Outcomes
<1>5. h \in Writers /\ h.baseSeq = journal.baseSeq
      /\ h.enableJournalAfterSeq = journal.enableJournalAfterSeq
  BY <1>4 DEF Outcome
<1>6. Processor' = h /\ journal'.file = h.file
  BY <1>1, <1>2, <1>5, MemoryAfter
<1>7. CASE h.failed
  <2>1. ~Processor.failed
    BY <1>1, <1>3, ProcessorIs
  <2>2. Throws(S, h)
    BY <1>4, <1>7, <2>1 DEF Outcome, Passes, Goes
  <2>3. h.file = NoFile
    BY <2>2 DEF Throws, Unwritten
  <2> QED
    BY <1>3, <1>6, <2>3, UnbegunWroteNext
<1>8. CASE ~h.failed
  <2>1. PICK all, d, u : /\ Holding(Processor, all)
                         /\ DueTo(d, Processor, ring, jNext)
                         /\ u \in Seq(Records) /\ all = u \o d
    BY DEF Wrote
  <2>2. PICK q \in Nat : q = jNext
    BY <1>1 DEF TypeInv
  <2>3. q + 1 <= Len(ring) /\ RingOK(S)
    BY <1>1, <1>3, <2>2, CommandIsThere DEF RunOK
  <2>4. Processor \in Writers /\ Processor.baseSeq = journal.baseSeq
        /\ Processor.enableJournalAfterSeq = journal.enableJournalAfterSeq
    BY <1>1, ProcessorIs
  <2>5. PICK j \in Writers : j = Processor
    BY <2>4
  <2>6. PICK x : x = RecordOf(j, q)
    OBVIOUS
  <2>7. x = RecordAt(j, ring, q + 1)
    <3>1. j.baseSeq \in Nat
      BY DEF Writers
    <3>2. j.baseSeq + q = j.baseSeq + (q + 1) - 1
      BY <3>1
    <3> QED
      BY <2>6, <3>2 DEF RecordOf, RecordAt
  <2>8. IsDue(j, ring, q + 1) => x \in Records
    BY <2>3, <2>6, RecordIsRecord DEF IsDue
  <2>9. Due(q + 1) <=> IsDue(j, ring, q + 1)
    BY <1>1, <2>5, DueIsDue
  <2>10. d \in Seq(Records)
    <3>1. PICK g : Dues(g, j, ring, q) /\ d = g[q]
      BY <2>1, <2>2, <2>5 DEF DueTo
    <3> QED
      BY <3>1 DEF Dues
  <2>11. PICK more, e : /\ more = IF Due(q + 1) THEN Append(all, x) ELSE all
                        /\ e = IF IsDue(j, ring, q + 1) THEN Append(d, x) ELSE d
    OBVIOUS
  <2>12. Holding(h, more)
    <3>1. Holding(h, IF Due(jNext + 1) THEN Append(all, RecordOf(Processor, jNext)) ELSE all)
      BY <1>1, <1>3, <1>8, <2>1, CommandAdds
    <3> QED
      BY <2>2, <2>5, <2>6, <2>11, <3>1
  <2>13. DueTo(e, j, ring, q + 1)
    <3>1. DueTo(d, j, ring, q)
      BY <2>1, <2>2, <2>5
    <3> QED
      BY <2>7, <2>8, <2>11, <3>1, DueNext
  <2>14. DueTo(e, h, ring, q + 1)
    <3>1. h.baseSeq = j.baseSeq /\ h.enableJournalAfterSeq = j.enableJournalAfterSeq
      BY <1>5, <2>4, <2>5
    <3>2. PICK commands, n : commands = ring /\ n = q + 1
      OBVIOUS
    <3>3. DueTo(e, j, commands, n)
      BY <2>13, <3>2
    <3>4. DueTo(e, h, commands, n)
      BY <3>1, <3>3, DueSame
    <3> QED
      BY <3>2, <3>4
  <2>15. more = u \o e
    <3>1. CASE Due(q + 1)
      <4>1. PICK y \in Records : y = x
        BY <2>8, <2>9, <3>1
      <4>2. Append(u \o d, y) = u \o Append(d, y)
        BY <2>1, <2>10
      <4> QED
        BY <2>1, <2>9, <2>11, <3>1, <4>1, <4>2
    <3>2. CASE ~Due(q + 1)
      BY <2>1, <2>9, <2>11, <3>2
    <3> QED
      BY <3>1, <3>2
  <2>16. /\ Holding(Processor', more)
         /\ DueTo(e, Processor', ring', jNext')
         /\ \E v \in Seq(Records) : more = v \o e
    BY <1>3, <1>6, <1>8, <2>1, <2>2, <2>12, <2>14, <2>15
  <2> QED
    BY <2>16 DEF Wrote
<1> QED
  BY <1>7, <1>8

\* Every step.
LEMMA StepWrote ==
  ASSUME IInv, IInv', phase # "crashed" => Wrote, [Next]_vars, phase' # "crashed"
  PROVE  Wrote'
<1>1. PICK S : TypeInv /\ Progress /\ RunOK(S)
  BY DEF IInv
<1>2. jNext \in Nat /\ jNext <= Len(ring) /\ Len(ring) \in Nat /\ ring \in Seq(Commands)
  BY <1>1, Positions DEF RunOK, RingOK
<1>3. ASSUME NEW request \in Requests, Submit(request) PROVE Wrote'
  <2>1. /\ phase = "running" /\ requests' \in 1 .. MaxRequests
        /\ journal' = journal /\ disk' = disk /\ jNext' = jNext
        /\ ring' = ring \o Submitted(request, requests')
    BY <1>1, <1>3, JournalSizes DEF Submit, TypeInv
  <2>2. PICK id \in 1 .. MaxRequests : id = requests'
    BY <2>1
  <2>3. PICK new \in Seq(Commands) : new = Submitted(request, id)
    BY SubmittedIsMore DEF IsMore
  <2>4. ring' = ring \o new
    BY <2>1, <2>2, <2>3
  <2>5. \A i \in 1 .. Len(ring) : ring'[i] = ring[i]
    BY <1>2, <2>4
  <2>6. \A i \in 1 .. jNext : ring'[i] = ring[i]
    BY <1>2, <2>5
  <2> QED
    BY <2>1, <2>6, RestingWrote
<1>4. CASE JournalCommand
  <2>1. phase # "crashed"
    BY <1>4 DEF JournalCommand
  <2> QED
    BY <1>4, <2>1, CommandWrote
<1>5. CASE Apply
  <2>1. phase # "crashed" /\ journal' = journal /\ jNext' = jNext /\ ring' = ring
    BY <1>5 DEF Apply
  <2>2. disk'.files = disk.files
    <3>1. disk' = disk \/ \E p, processor, content : Stores(S, p, processor, content)
      BY <1>1, <1>5, ApplyStores
    <3>2. ASSUME NEW p, NEW processor, NEW content, Stores(S, p, processor, content)
          PROVE  disk'.files = disk.files
      <4>1. disk \in [files : FileSets, snapshots : SnapshotSets]
        BY <1>1 DEF TypeInv
      <4> QED
        BY <3>2, <4>1 DEF Stores
    <3> QED
      BY <3>1, <3>2
  <2> QED
    BY <2>1, <2>2, RestingWrote
<1>6. CASE Crash
  BY <1>6 DEF Crash, Stop
<1>7. CASE CrashInFlush
  BY <1>7 DEF CrashInFlush, Stop
<1>8. CASE Restart
  <2>1. journal' = NewProcessor(NewestSnapshot, SnapshotBaseSeq)
    BY <1>8 DEF Restart
  <2>2. journal'.file = NoFile
    BY <2>1 DEF NewProcessor
  <2> QED
    BY <2>2, UnbegunWroteNext
<1>9. CASE EnableJournaling
  <2>1. phase = "startup"
    BY <1>9 DEF EnableJournaling
  <2>2. journal = NewProcessor(S, Floor(S, 0))
    BY <1>1, <2>1 DEF RunOK, MemoryOK
  <2>3. journal.file = NoFile
    BY <2>2 DEF NewProcessor
  <2>4. journal'.file = journal.file
    <3>1. journal \in Memories
      BY <1>1 DEF TypeInv
    <3>2. journal' = [journal EXCEPT !.enableJournalAfterSeq =
                        LastSeq(journal.baseSnapshotId, journal.baseSeq)]
      BY <1>9 DEF EnableJournaling
    <3> QED
      BY <3>1, <3>2 DEF Memories
  <2> QED
    BY <2>3, <2>4, UnbegunWroteNext
<1>10. CASE UNCHANGED vars
  <2>1. phase' = phase /\ journal' = journal /\ disk' = disk /\ jNext' = jNext /\ ring' = ring
    BY <1>10 DEF vars
  <2> QED
    BY <2>1, RestingWrote
<1> QED
  BY <1>3, <1>4, <1>5, <1>6, <1>7, <1>8, <1>9, <1>10 DEF Next

\* The records that JournalComplete speaks of.
Passed(n) ==
  [i \in 1 .. n |-> [seq |-> journal.baseSeq + i - 1, command |-> ring[i]]]

IsDueRecord(r) == Journaled(journal, r.seq - journal.baseSeq) /\ IsMutate(r.command)

\* They are those that are due.
LEMMA DueIs ==
  ASSUME TypeInv, ring \in Seq(Commands), jNext <= Len(ring),
         NEW d, DueTo(d, journal, ring, jNext)
  PROVE  Kept(Passed(jNext), {r \in ToSet(Passed(jNext)) : IsDueRecord(r)}) = d
<1>1. PICK n \in Nat : n = jNext
  BY DEF TypeInv
<1>2. n <= Len(ring) /\ Len(ring) \in Nat /\ journal.baseSeq \in Nat
  BY <1>1, LenProperties DEF TypeInv, Memories
<1> DEFINE V == [seq : Int, command : Commands]
<1>3. PICK through : through = Passed(n)
  OBVIOUS
<1>4. \A i \in 1 .. n : ring[i] \in Commands
  BY <1>2, ElementOfSeq
<1>5. through \in [1 .. n -> V]
  <2>1. ASSUME NEW i \in 1 .. n
        PROVE  [seq |-> journal.baseSeq + i - 1, command |-> ring[i]] \in V
    <3>1. journal.baseSeq + i - 1 \in Int
      BY <1>2
    <3> QED
      BY <1>4, <3>1
  <2> QED
    BY <1>3, <2>1 DEF Passed
<1>6. \A i \in 1 .. n : through[i] = [seq |-> journal.baseSeq + i - 1, command |-> ring[i]]
  BY <1>3 DEF Passed
<1> HIDE DEF V
<1>7. through \in Seq(V) /\ Len(through) = n /\ DOMAIN through = 1 .. n
  BY <1>5, FunctionIsSeq
<1>8. PICK K : K = {r \in ToSet(through) : IsDueRecord(r)}
  OBVIOUS
<1>9. ASSUME NEW i \in 1 .. n
      PROVE  /\ through[i] \in K <=> IsDue(journal, ring, i)
             /\ through[i] = RecordAt(journal, ring, i)
  <2>1. through[i] \in ToSet(through)
    BY <1>7 DEF ToSet, Range
  <2>2. (journal.baseSeq + i - 1) - journal.baseSeq = i - 1
    BY <1>2
  <2>3. PICK r : r = through[i]
    OBVIOUS
  <2>4. r.seq = journal.baseSeq + i - 1 /\ r.command = ring[i]
    <3>1. r = [seq |-> journal.baseSeq + i - 1, command |-> ring[i]]
      BY <1>6, <2>3
    <3> QED
      BY <3>1
  <2>5. r.seq - journal.baseSeq = i - 1
    BY <2>2, <2>4
  <2>6. IsDueRecord(r) <=> IsDue(journal, ring, i)
    BY <2>4, <2>5 DEF IsDueRecord, IsDue
  <2>7. r \in K <=> IsDueRecord(r)
    BY <1>8, <2>1, <2>3
  <2> QED
    BY <1>6, <2>3, <2>6, <2>7 DEF RecordAt
<1>10. PICK kept : IsKept(kept, through, K)
  BY <1>7, KeptSteps
<1>11. PICK g : Dues(g, journal, ring, n) /\ d = g[n]
  BY <1>1 DEF DueTo
<1> DEFINE T == {i \in 0 .. n : kept[i] = g[i]}
<1>12. 0 \in T
  BY <1>10, <1>11 DEF IsKept, Dues
<1>13. ASSUME NEW i \in 0 .. n - 1, i \in T PROVE i + 1 \in T
  <2>1. i + 1 \in 1 .. n /\ i + 1 \in 0 .. n /\ (i + 1) - 1 = i
    OBVIOUS
  <2>2. kept[i] = g[i]
    BY <1>13
  <2>3. kept[i + 1] = IF through[i + 1] \in K THEN Append(kept[i], through[i + 1]) ELSE kept[i]
    BY <1>7, <1>10, <2>1 DEF IsKept
  <2>4. g[i + 1] = IF IsDue(journal, ring, i + 1)
                   THEN Append(g[i], RecordAt(journal, ring, i + 1)) ELSE g[i]
    BY <1>11, <2>1 DEF Dues
  <2>5. kept[i + 1] = g[i + 1]
    BY <1>9, <2>1, <2>2, <2>3, <2>4
  <2> QED
    BY <2>1, <2>5
<1> HIDE DEF T
<1>14. \A i \in 0 .. n : i \in T
  BY <1>12, <1>13, InductionOverInterval
<1>15. n \in T
  BY <1>14
<1>16. kept[n] = d
  BY <1>11, <1>15 DEF T
<1>17. Kept(through, K) = d
  BY <1>7, <1>10, <1>16 DEF IsKept
<1> QED
  BY <1>1, <1>3, <1>8, <1>17

\* What J has written is complete.
LEMMA WroteIsComplete ==
  ASSUME IInv, phase # "crashed" => Wrote
  PROVE  JournalComplete
<1> SUFFICES ASSUME phase # "crashed"
             PROVE  IsSuffix(Kept(Passed(jNext), {r \in ToSet(Passed(jNext)) : IsDueRecord(r)}),
                             AllRecords \o journal.buffer)
  BY DEF JournalComplete, Passed, IsDueRecord
<1>1. PICK S : TypeInv /\ Progress /\ RunOK(S)
  BY DEF IInv
<1>2. PICK all, d, u : /\ Holding(Processor, all)
                       /\ DueTo(d, Processor, ring, jNext)
                       /\ u \in Seq(Records) /\ all = u \o d
  BY DEF Wrote
<1>3. /\ Processor.files = disk.files /\ Processor.buffer = journal.buffer
      /\ Processor.baseSeq = journal.baseSeq
      /\ Processor.enableJournalAfterSeq = journal.enableJournalAfterSeq
  BY <1>1, ProcessorIs
<1>4. jNext \in Nat /\ jNext <= Len(ring) /\ Len(ring) \in Nat /\ ring \in Seq(Commands)
  BY <1>1, Positions DEF RunOK, RingOK
<1>5. DueTo(d, journal, ring, jNext)
  BY <1>2, <1>3, DueSame
<1>6. Kept(Passed(jNext), {r \in ToSet(Passed(jNext)) : IsDueRecord(r)}) = d
  BY <1>1, <1>4, <1>5, DueIs
<1>7. PICK onDisk : DiskHolds(onDisk, disk.files) /\ all = onDisk \o journal.buffer
  BY <1>2, <1>3 DEF Holding
<1>8. IsFiles(disk.files)
  <2>1. disk.files \in FileSets
    BY <1>1 DEF RunOK, FilesOK
  <2> QED
    BY <2>1, FilesAreFiles
<1>9. AllRecords = onDisk
  BY <1>7, <1>8, AllIs
<1>10. d \in Seq(Records)
  <2>1. PICK g : Dues(g, journal, ring, jNext) /\ d = g[jNext]
    BY <1>5 DEF DueTo
  <2>2. jNext \in 0 .. jNext
    BY <1>4
  <2> QED
    BY <2>1, <2>2 DEF Dues
<1>11. IsSuffix(d, all)
  BY <1>2, <1>10, SuffixOf
<1> QED
  BY <1>6, <1>7, <1>9, <1>11

\* JournalComplete holds: what J has been through and had to write is on the disk,
\* followed by its buffer, complete and in order, over all switches of files and
\* snapshots, crashes and restarts.
THEOREM JournalIsComplete == Spec => []JournalComplete
<1>1. Init => (phase # "crashed" => Wrote)
  <2> SUFFICES ASSUME Init PROVE Wrote
    OBVIOUS
  <2>1. phase # "crashed" /\ journal.file = NoFile
    BY DEF Init, NewProcessor
  <2> QED
    BY <2>1, InitKeeps, UnbegunWrote
<1>2. IInv /\ IInv' /\ (phase # "crashed" => Wrote) /\ [Next]_vars => (phase # "crashed" => Wrote)'
  BY StepWrote
<1>3. IInv /\ (phase # "crashed" => Wrote) => JournalComplete
  BY WroteIsComplete
<1> QED
  BY <1>1, <1>2, <1>3, JournalInv, PTL DEF Spec
=============================================================================
