---------------------------- MODULE EventPoolProofs ----------------------------
(***************************************************************************)
(* Proofs about module EventPool.  The first part is about any set of      *)
(* holders of chains and what may be done with chains: hand one over, join *)
(* two, take the first event of one, create one, let one go.  The second   *)
(* part says which of these each action of EventPool does.                 *)
(***************************************************************************)
EXTENDS EventPool, Induction

-----------------------------------------------------------------------------
(***************************************************************************)
(* Chains.                                                                 *)
(***************************************************************************)

\* The events of s are linked from head on.
IsPath(next, head, s) ==
  /\ s \in Seq(DOMAIN next)
  /\ head = IF Len(s) = 0 THEN 0 ELSE s[1]
  /\ \A i \in 1 .. Len(s) : next[s[i]] = IF i = Len(s) THEN 0 ELSE s[i + 1]

Injective(s) == \A i, j \in 1 .. Len(s) : s[i] = s[j] => i = j

\* The events are numbered.
IsMemory(next, n) == n \in Nat /\ DOMAIN next = 1 .. n

\* A chain is no longer than there are events.
LEMMA PathFits ==
  ASSUME NEW n \in Nat, NEW s \in Seq(1 .. n), Injective(s)
  PROVE  Len(s) <= n
<1>1. Len(s) \in Nat /\ \A i \in 1 .. Len(s) : s[i] \in 1 .. n
  BY LenProperties, ElementOfSeq
<1>2. PICK m \in Nat : m = Len(s)
  BY <1>1
<1>3. /\ IsFiniteSet(1 .. n) /\ Cardinality(1 .. n) = n
      /\ IsFiniteSet(1 .. m) /\ Cardinality(1 .. m) = m
  BY <1>2, NumbersTo
<1>4. s \in [1 .. m -> 1 .. n]
  BY <1>2, LenProperties
<1>5. s \in Injection(1 .. m, 1 .. n)
  BY <1>2, <1>4 DEF Injective, Injection, IsInjective
<1>6. Cardinality(1 .. m) <= Cardinality(1 .. n)
  BY <1>3, <1>5, FS_Injection
<1> QED
  BY <1>2, <1>3, <1>6

\* The first i elements of s, or all of them.
Front(s, i) == SubSeq(s, 1, IF i <= Len(s) THEN i ELSE Len(s))

\* A step of the walk from head on.
Farther(next, head, before) ==
  LET e == IF before = <<>> THEN head ELSE next[before[Len(before)]]
  IN IF e = 0 THEN before ELSE Append(before, e)

\* With each step the walk has one more event of the chain, until it has all.
LEMMA FrontIs ==
  ASSUME NEW next, NEW n, IsMemory(next, n), NEW head, NEW s, IsPath(next, head, s),
         NEW i \in Nat \ {0}
  PROVE  Front(s, i) = Farther(next, head, Front(s, i - 1))
<1>1. /\ s \in Seq(1 .. n) /\ Len(s) \in Nat /\ n \in Nat
      /\ \A j \in 1 .. Len(s) : s[j] \in 1 .. n
  BY LenProperties, ElementOfSeq DEF IsPath, IsMemory
<1>2. \A m \in 0 .. Len(s) :
        /\ SubSeq(s, 1, m) \in Seq(1 .. n) /\ Len(SubSeq(s, 1, m)) = m
        /\ \A j \in 1 .. m : SubSeq(s, 1, m)[j] = s[j]
  <2> SUFFICES ASSUME NEW m \in 0 .. Len(s)
               PROVE  /\ SubSeq(s, 1, m) \in Seq(1 .. n) /\ Len(SubSeq(s, 1, m)) = m
                      /\ \A j \in 1 .. m : SubSeq(s, 1, m)[j] = s[j]
    OBVIOUS
  <2>1. \A j \in 1 .. m : s[j] \in 1 .. n
    BY <1>1
  <2>2. 1 \in Int /\ m \in Int /\ m - 1 + 1 = m
    BY <1>1
  <2> QED
    BY <1>1, <2>1, <2>2, SubSeqProperties
<1>3. CASE i <= Len(s)
  <2>1. PICK t : t = SubSeq(s, 1, i - 1)
    OBVIOUS
  <2>2. PICK u : u = SubSeq(s, 1, i)
    OBVIOUS
  <2>3. i - 1 \in 0 .. Len(s) /\ i \in 0 .. Len(s) /\ i \in 1 .. Len(s)
    BY <1>1, <1>3
  <2>4. /\ t \in Seq(1 .. n) /\ Len(t) = i - 1 /\ \A j \in 1 .. i - 1 : t[j] = s[j]
        /\ u \in Seq(1 .. n) /\ Len(u) = i /\ \A j \in 1 .. i : u[j] = s[j]
    BY <1>2, <2>1, <2>2, <2>3
  <2>5. Front(s, i) = u /\ Front(s, i - 1) = t
    BY <1>1, <1>3, <2>1, <2>2 DEF Front
  <2>6. s[i] \in 1 .. n /\ s[i] # 0
    BY <1>1, <2>3
  <2>7. u = Append(t, s[i])
    <3>1. /\ Append(t, s[i]) \in Seq(1 .. n) /\ Len(Append(t, s[i])) = i
          /\ \A j \in 1 .. i - 1 : Append(t, s[i])[j] = t[j]
          /\ Append(t, s[i])[i] = s[i]
      BY <2>4, <2>6, AppendElements
    <3>2. \A j \in 1 .. Len(u) : u[j] = Append(t, s[i])[j]
      BY <2>4, <3>1
    <3> QED
      BY <2>4, <3>1, <3>2, SeqEqual
  <2>8. (IF t = <<>> THEN head ELSE next[t[Len(t)]]) = s[i]
    <3>1. CASE i = 1
      <4>1. t = <<>>
        BY <2>4, <3>1, EmptySeq
      <4> QED
        BY <1>1, <1>3, <3>1, <4>1 DEF IsPath
    <3>2. CASE i # 1
      <4>0. i - 1 \in 1 .. Len(s) /\ i - 1 \in 1 .. i - 1 /\ i - 1 # 0
        BY <1>1, <1>3, <3>2
      <4>3. t # <<>>
        <5>1. t = <<>> => Len(t) = 0
          BY EmptySeq
        <5> QED
          BY <2>4, <4>0, <5>1
      <4>1. t # <<>> /\ Len(t) = i - 1 /\ i - 1 \in 1 .. Len(s) /\ t[i - 1] = s[i - 1]
        BY <2>4, <4>0, <4>3
      <4>2. PICK j \in 1 .. Len(s) : j = i - 1
        BY <4>1
      <4>4. j # Len(s) /\ j + 1 = i
        BY <1>1, <1>3, <4>2
      <4>5. next[s[j]] = s[j + 1]
        BY <4>4 DEF IsPath
      <4> QED
        BY <4>1, <4>2, <4>4, <4>5
    <3> QED
      BY <3>1, <3>2
  <2> QED
    BY <2>5, <2>6, <2>7, <2>8 DEF Farther
<1>4. CASE ~ (i <= Len(s))
  <2>1. SubSeq(s, 1, Len(s)) = s
    BY <1>1, SubSeqFull
  <2>2. Front(s, i) = s /\ Front(s, i - 1) = s
    <3>1. i - 1 <= Len(s) => i - 1 = Len(s)
      BY <1>1, <1>4
    <3> QED
      BY <1>4, <2>1, <3>1 DEF Front
  <2>3. (IF s = <<>> THEN head ELSE next[s[Len(s)]]) = 0
    <3>1. CASE s = <<>>
      BY <3>1, EmptySeq DEF IsPath
    <3>2. CASE s # <<>>
      <4>1. Len(s) \in 1 .. Len(s)
        BY <1>1, <3>2, EmptySeq
      <4> QED
        BY <3>2, <4>1 DEF IsPath
    <3> QED
      BY <3>1, <3>2
  <2> QED
    BY <2>2, <2>3 DEF Farther
<1> QED
  BY <1>3, <1>4

\* Chain walks along the whole chain.
LEMMA ChainIs ==
  ASSUME NEW n, IsMemory(nextEvent, n), NEW head, NEW s, IsPath(nextEvent, head, s),
         Injective(s)
  PROVE  Chain(head) = s
<1> DEFINE value(g, i) == IF i = 0 THEN <<>> ELSE Farther(nextEvent, head, g[i - 1])
           walk == CHOOSE g : g = [i \in 0 .. n |-> value(g, i)]
<1>1. n \in Nat /\ Cardinality(DOMAIN nextEvent) = n /\ s \in Seq(1 .. n)
  BY NumbersTo DEF IsMemory, IsPath
<1>2. Chain(head) = walk[n]
  BY <1>1 DEF Chain, Farther
<1>3. Front(s, 0) = <<>> /\ Front(s, n) = s
  <2>1. Len(s) \in Nat /\ Len(s) <= n
    BY <1>1, PathFits, LenProperties
  <2>2. SubSeq(s, 1, 0) = <<>>
    BY SubSeqEmpty
  <2>3. SubSeq(s, 1, Len(s)) = s
    BY <1>1, SubSeqFull
  <2>4. (n <= Len(s) => n = Len(s)) /\ 0 <= Len(s)
    BY <1>1, <2>1
  <2>5. Front(s, 0) = <<>>
    BY <2>2, <2>4 DEF Front
  <2>6. Front(s, n) = s
    BY <2>3, <2>4 DEF Front
  <2> QED
    BY <2>5, <2>6
<1>4. \A i \in 1 .. n : Front(s, i) = Farther(nextEvent, head, Front(s, i - 1))
  BY FrontIs
<1> DEFINE front == [i \in 0 .. n |-> Front(s, i)]
<1>5. front = [i \in 0 .. n |-> value(front, i)]
  <2>1. ASSUME NEW i \in 0 .. n PROVE Front(s, i) = value(front, i)
    <3>1. CASE i = 0
      BY <1>3, <3>1
    <3>2. CASE i # 0
      <4>1. i \in 1 .. n /\ i - 1 \in 0 .. n
        BY <1>1, <3>2
      <4> QED
        BY <1>4, <3>2, <4>1
    <3> QED
      BY <3>1, <3>2
  <2> QED
    BY <2>1
<1>6. walk = [i \in 0 .. n |-> value(walk, i)]
  BY <1>5
<1> HIDE DEF walk
<1>7. \A i \in 0 .. n : walk[i] = value(walk, i)
  BY <1>6
<1> DEFINE S == {i \in 0 .. n : walk[i] = Front(s, i)}
<1>8. 0 \in S
  BY <1>1, <1>3, <1>7
<1>9. ASSUME NEW i \in 0 .. n - 1, i \in S PROVE i + 1 \in S
  <2>1. i + 1 \in 0 .. n /\ i + 1 \in 1 .. n /\ (i + 1) - 1 = i /\ i + 1 # 0
    BY <1>1
  <2> QED
    BY <1>4, <1>7, <1>9, <2>1
<1> HIDE DEF S
<1>10. n \in S
  <2>1. \A i \in 0 .. n : i \in S
    BY <1>1, <1>8, <1>9, InductionOverInterval
  <2> QED
    BY <1>1, <2>1
<1> QED
  BY <1>2, <1>3, <1>10 DEF S

-----------------------------------------------------------------------------
(***************************************************************************)
(* Holders.  Each holder k in K has a chain c[k] that it holds by its first*)
(* event, head[k]; gone are the events that nobody holds.                  *)
(***************************************************************************)

\* The events are in one place each: at[e] is the holder of e and pos[e] its
\* position in the chain.
Places(next, K, c, gone, at, pos) ==
  /\ \A k \in K : \A i \in 1 .. Len(c[k]) :
       c[k][i] \notin gone /\ at[c[k][i]] = k /\ pos[c[k][i]] = i
  /\ \A e \in DOMAIN next :
       e \notin gone => /\ at[e] \in K /\ pos[e] \in 1 .. Len(c[at[e]])
                        /\ c[at[e]][pos[e]] = e

Paths(next, K, head, c) == \A k \in K : IsPath(next, head[k], c[k])

Owned(next, K, head, c, gone) ==
  /\ Paths(next, K, head, c)
  /\ \E at, pos : Places(next, K, c, gone, at, pos)

\* All but these holders keep what they have.
Others(K, head, c, head2, c2, k, l) ==
  \A x \in K : x # k /\ x # l => c2[x] = c[x] /\ head2[x] = head[x]

\* k holds nothing any more.
Empty(head, c, k) == head[k] = 0 /\ c[k] = <<>>

\* An empty chain has no first event.
LEMMA EmptyPath ==
  ASSUME NEW next
  PROVE  IsPath(next, 0, <<>>)
  BY EmptySeq DEF IsPath

\* What a chain is.
LEMMA PathIs ==
  ASSUME NEW next, NEW head, NEW s, IsPath(next, head, s)
  PROVE  /\ s \in Seq(DOMAIN next) /\ Len(s) \in Nat
         /\ \A i \in 1 .. Len(s) : s[i] \in DOMAIN next
         /\ (s = <<>> <=> Len(s) = 0)
         /\ (s = <<>> => head = 0)
         /\ (s # <<>> => head = s[1] /\ next[s[Len(s)]] = 0)
<1>1. s \in Seq(DOMAIN next)
  BY DEF IsPath
<1>2. Len(s) \in Nat /\ \A i \in 1 .. Len(s) : s[i] \in DOMAIN next
  BY <1>1, LenProperties, ElementOfSeq
<1>3. s = <<>> <=> Len(s) = 0
  BY <1>1, <1>2, EmptySeq
<1>4. Len(s) # 0 => Len(s) \in 1 .. Len(s)
  BY <1>2
<1> QED
  BY <1>1, <1>2, <1>3, <1>4 DEF IsPath

\* A chain is not changed when other events are.
LEMMA PathKept ==
  ASSUME NEW next, NEW next2, \A e \in DOMAIN next : e \in DOMAIN next2,
         NEW head, NEW s, IsPath(next, head, s),
         \A i \in 1 .. Len(s) : next2[s[i]] = next[s[i]]
  PROVE  IsPath(next2, head, s)
<1>1. s \in Seq(DOMAIN next2)
  BY SeqOfSubset DEF IsPath
<1> QED
  BY <1>1 DEF IsPath

\* Nobody has an event twice.
LEMMA OwnedOnce ==
  ASSUME NEW next, NEW K, NEW c, NEW gone, NEW at, NEW pos,
         Places(next, K, c, gone, at, pos), NEW k \in K
  PROVE  Injective(c[k])
  BY DEF Places, Injective

\* Handing over a chain.
Handed(K, head, c, head2, c2, k, l) ==
  /\ head2[l] = head[k] /\ c2[l] = c[k]
  /\ Empty(head2, c2, k)
  /\ Others(K, head, c, head2, c2, k, l)

\* A chain that changes hands leaves every event with one owner.
LEMMA HandOver ==
  ASSUME NEW next, NEW K, NEW head, NEW c, NEW gone, Owned(next, K, head, c, gone),
         NEW k \in K, NEW l \in K, k # l, Empty(head, c, l),
         NEW head2, NEW c2, Handed(K, head, c, head2, c2, k, l)
  PROVE  Owned(next, K, head2, c2, gone)
<1>1. PICK at, pos : Places(next, K, c, gone, at, pos)
  BY DEF Owned
<1>2. Paths(next, K, head2, c2)
  <2> SUFFICES ASSUME NEW x \in K PROVE IsPath(next, head2[x], c2[x])
    BY DEF Paths
  <2>1. IsPath(next, head[x], c[x]) /\ IsPath(next, head[k], c[k])
    BY DEF Owned, Paths
  <2> QED
    BY <2>1, EmptyPath DEF Handed, Others, Empty
<1>3. PICK at2 : at2 = [e \in DOMAIN next |-> IF at[e] = k THEN l ELSE at[e]]
  OBVIOUS
<1>4. Len(c[l]) = 0 /\ Len(c2[k]) = 0
  BY EmptySeq DEF Empty, Handed
<1>5. ASSUME NEW x \in K, NEW i \in 1 .. Len(c2[x])
      PROVE  c2[x][i] \notin gone /\ at2[c2[x][i]] = x /\ pos[c2[x][i]] = i
  <2>1. x # k
    BY <1>4
  <2>2. \A y \in K : \A j \in 1 .. Len(c[y]) : c[y][j] \in DOMAIN next
    BY PathIs DEF Owned, Paths
  <2>3. CASE x = l
    <3>1. c2[x] = c[k]
      BY <2>3 DEF Handed
    <3>2. c[k][i] \in DOMAIN next /\ at[c[k][i]] = k /\ pos[c[k][i]] = i /\ c[k][i] \notin gone
      BY <1>1, <2>2, <3>1 DEF Places
    <3> QED
      BY <1>3, <2>3, <3>1, <3>2
  <2>4. CASE x # l
    <3>1. c2[x] = c[x]
      BY <2>1, <2>4 DEF Handed, Others
    <3>2. c[x][i] \in DOMAIN next /\ at[c[x][i]] = x /\ pos[c[x][i]] = i /\ c[x][i] \notin gone
      BY <1>1, <2>2, <3>1 DEF Places
    <3> QED
      BY <1>3, <2>1, <3>1, <3>2
  <2> QED
    BY <2>3, <2>4
<1>6. ASSUME NEW e \in DOMAIN next, e \notin gone
      PROVE  /\ at2[e] \in K /\ pos[e] \in 1 .. Len(c2[at2[e]])
             /\ c2[at2[e]][pos[e]] = e
  <2>1. at[e] \in K /\ pos[e] \in 1 .. Len(c[at[e]]) /\ c[at[e]][pos[e]] = e
    BY <1>1, <1>6 DEF Places
  <2>2. at[e] # l
    BY <1>4, <2>1
  <2>3. at2[e] \in K /\ c2[at2[e]] = c[at[e]]
    BY <1>3, <2>1, <2>2 DEF Handed, Others
  <2> QED
    BY <2>1, <2>3
<1>7. Places(next, K, c2, gone, at2, pos)
  BY <1>5, <1>6 DEF Places
<1> QED
  BY <1>2, <1>7 DEF Owned

\* Letting a chain go.
LetGo(K, head, c, head2, c2, k) ==
  Empty(head2, c2, k) /\ Others(K, head, c, head2, c2, k, k)

\* The events of a chain that is let go are gone, the others stay as they are.
LEMMA Drop ==
  ASSUME NEW next, NEW K, NEW head, NEW c, NEW gone, Owned(next, K, head, c, gone),
         NEW k \in K, NEW head2, NEW c2, LetGo(K, head, c, head2, c2, k)
  PROVE  Owned(next, K, head2, c2, gone \cup ElementsOf(c[k]))
<1>1. PICK at, pos : Places(next, K, c, gone, at, pos)
  BY DEF Owned
<1>2. \A x \in K : x # k => c2[x] = c[x] /\ head2[x] = head[x]
  BY DEF LetGo, Others
<1>3. Paths(next, K, head2, c2)
  BY <1>2, EmptyPath DEF LetGo, Empty, Owned, Paths
<1>4. Len(c2[k]) = 0
  BY EmptySeq DEF LetGo, Empty
<1>5. PICK gone2 : gone2 = gone \cup ElementsOf(c[k])
  OBVIOUS
<1>6. DOMAIN c[k] = 1 .. Len(c[k])
  BY LenProperties, PathIs DEF Owned, Paths
<1>7. ASSUME NEW x \in K, NEW i \in 1 .. Len(c2[x])
      PROVE  c2[x][i] \notin gone2 /\ at[c2[x][i]] = x /\ pos[c2[x][i]] = i
  <2>1. x # k /\ c2[x] = c[x] /\ i \in 1 .. Len(c[x])
    BY <1>2, <1>4
  <2>2. c[x][i] \notin gone /\ at[c[x][i]] = x /\ pos[c[x][i]] = i
    BY <1>1, <2>1 DEF Places
  <2>3. c[x][i] \notin ElementsOf(c[k])
    BY <1>1, <1>6, <2>1, <2>2 DEF Places, ElementsOf
  <2> QED
    BY <1>5, <2>1, <2>2, <2>3
<1>8. ASSUME NEW e \in DOMAIN next, e \notin gone2
      PROVE  /\ at[e] \in K /\ pos[e] \in 1 .. Len(c2[at[e]])
             /\ c2[at[e]][pos[e]] = e
  <2>1. at[e] \in K /\ pos[e] \in 1 .. Len(c[at[e]]) /\ c[at[e]][pos[e]] = e
    BY <1>1, <1>5, <1>8 DEF Places
  <2>2. at[e] # k
    BY <1>5, <1>6, <1>8, <2>1 DEF ElementsOf
  <2> QED
    BY <1>2, <2>1, <2>2
<1>9. Places(next, K, c2, gone2, at, pos)
  BY <1>7, <1>8 DEF Places
<1> QED
  BY <1>3, <1>5, <1>9 DEF Owned

\* One event is linked to another one than before.
Relinked(next, next2, t, head) ==
  /\ DOMAIN next2 = DOMAIN next
  /\ next2[t] = head
  /\ \A e \in DOMAIN next : e # t => next2[e] = next[e]

\* Linking a chain to the end of another one.
LEMMA PathJoined ==
  ASSUME NEW next, NEW head, NEW s, IsPath(next, head, s), Injective(s), s # <<>>,
         NEW first, NEW r, IsPath(next, first, r),
         \A i \in 1 .. Len(r) : r[i] # s[Len(s)],
         NEW next2, Relinked(next, next2, s[Len(s)], first)
  PROVE  IsPath(next2, head, s \o r)
<1> DEFINE m == Len(s)
           n == Len(r)
<1>1. /\ s \in Seq(DOMAIN next) /\ m \in Nat \ {0} /\ \A i \in 1 .. m : s[i] \in DOMAIN next
      /\ head = s[1]
  BY PathIs
<1>2. r \in Seq(DOMAIN next) /\ n \in Nat /\ \A i \in 1 .. n : r[i] \in DOMAIN next
  BY PathIs
<1>3. first = IF n = 0 THEN 0 ELSE r[1]
  BY DEF IsPath
<1>4. PICK p : p = s \o r
  OBVIOUS
<1>5. /\ p \in Seq(DOMAIN next) /\ Len(p) = m + n
      /\ \A i \in 1 .. m + n : p[i] = IF i <= m THEN s[i] ELSE r[i - m]
  BY <1>1, <1>2, <1>4, ConcatProperties
<1>6. DOMAIN next2 = DOMAIN next
  BY DEF Relinked
<1>7. p[1] = head /\ m + n # 0
  BY <1>1, <1>2, <1>5
<1>8. ASSUME NEW i \in 1 .. m + n
      PROVE  next2[p[i]] = IF i = m + n THEN 0 ELSE p[i + 1]
  <2>1. CASE i < m
    <3>1. i \in 1 .. m /\ i + 1 \in 1 .. m /\ i # m + n /\ i + 1 \in 1 .. m + n /\ m \in 1 .. m
      BY <1>1, <1>2, <2>1
    <3>2. p[i] = s[i] /\ p[i + 1] = s[i + 1]
      BY <1>1, <1>5, <2>1, <3>1
    <3>3. s[i] # s[m]
      BY <2>1, <3>1 DEF Injective
    <3>4. next2[s[i]] = next[s[i]]
      BY <1>1, <3>1, <3>3 DEF Relinked
    <3>5. next[s[i]] = s[i + 1]
      BY <2>1, <3>1 DEF IsPath
    <3> QED
      BY <3>1, <3>2, <3>4, <3>5
  <2>2. CASE i = m
    <3>1. p[i] = s[m] /\ next2[s[m]] = first
      BY <1>1, <1>2, <1>5, <2>2 DEF Relinked
    <3>2. CASE n = 0
      BY <1>1, <1>3, <2>2, <3>1, <3>2
    <3>3. CASE n # 0
      <4>1. i # m + n /\ i + 1 \in 1 .. m + n /\ ~ (i + 1 <= m) /\ (i + 1) - m = 1
        BY <1>1, <1>2, <2>2, <3>3
      <4>2. p[i + 1] = r[1]
        BY <1>5, <4>1
      <4> QED
        BY <1>3, <3>1, <3>3, <4>1, <4>2
    <3> QED
      BY <3>2, <3>3
  <2>3. CASE i > m
    <3>1. PICK j : j = i - m
      OBVIOUS
    <3>2. j \in 1 .. n /\ (i = m + n <=> j = n) /\ (i + 1) - m = j + 1 /\ ~ (i <= m)
          /\ ~ (i + 1 <= m)
      BY <1>1, <1>2, <2>3, <3>1
    <3>3. p[i] = r[j]
      BY <1>5, <3>1, <3>2
    <3>4. next2[r[j]] = next[r[j]]
      BY <1>2, <3>2 DEF Relinked
    <3>5. next[r[j]] = IF j = n THEN 0 ELSE r[j + 1]
      BY <3>2 DEF IsPath
    <3>6. j # n => p[i + 1] = r[j + 1]
      <4> SUFFICES ASSUME j # n PROVE p[i + 1] = r[j + 1]
        OBVIOUS
      <4>1. i + 1 \in 1 .. m + n
        BY <1>1, <1>2, <3>2
      <4> QED
        BY <1>5, <3>2, <4>1
    <3> QED
      BY <3>2, <3>3, <3>4, <3>5, <3>6
  <2> QED
    BY <1>1, <2>1, <2>2, <2>3
<1>9. IsPath(next2, head, p)
  BY <1>5, <1>6, <1>7, <1>8 DEF IsPath
<1> QED
  BY <1>4, <1>9

\* Linking the chain of k to the end of that of l.
Joined(K, head, c, head2, c2, k, l) ==
  /\ head2[l] = head[l] /\ c2[l] = c[l] \o c[k]
  /\ Empty(head2, c2, k)
  /\ Others(K, head, c, head2, c2, k, l)

\* Two chains in one still have the events of both, each once.
LEMMA Join ==
  ASSUME NEW next, NEW K, NEW head, NEW c, NEW gone, Owned(next, K, head, c, gone),
         NEW k \in K, NEW l \in K, k # l, c[l] # <<>>,
         NEW next2, Relinked(next, next2, c[l][Len(c[l])], head[k]),
         NEW head2, NEW c2, Joined(K, head, c, head2, c2, k, l)
  PROVE  Owned(next2, K, head2, c2, gone)
<1>1. PICK at, pos : Places(next, K, c, gone, at, pos)
  BY DEF Owned
<1>2. \A x \in K : IsPath(next, head[x], c[x])
  BY DEF Owned, Paths
<1>3. \A y \in K : \A j \in 1 .. Len(c[y]) : c[y][j] \in DOMAIN next
  BY <1>2, PathIs
<1>4. PICK m \in Nat \ {0} : m = Len(c[l])
  BY <1>2, PathIs
<1>5. PICK n \in Nat : n = Len(c[k])
  BY <1>2, PathIs
<1>6. PICK t : t = c[l][m]
  OBVIOUS
<1>7. t \in DOMAIN next /\ at[t] = l
  BY <1>1, <1>3, <1>4, <1>6 DEF Places
<1>8. DOMAIN next2 = DOMAIN next
  BY DEF Relinked
<1>9. \A x \in K : x # l => \A i \in 1 .. Len(c[x]) : c[x][i] # t
  BY <1>1, <1>7 DEF Places
<1>10. /\ Len(c2[l]) = m + n
       /\ \A i \in 1 .. m + n : c2[l][i] = IF i <= m THEN c[l][i] ELSE c[k][i - m]
  <2>0. PICK S : S = DOMAIN next
    OBVIOUS
  <2>1. c[l] \in Seq(S) /\ c[k] \in Seq(S)
    BY <1>2, <2>0, PathIs
  <2>2. PICK s \in Seq(S) : s = c[l]
    BY <2>1
  <2>3. PICK r \in Seq(S) : r = c[k]
    BY <2>1
  <2>4. /\ Len(s \o r) = Len(s) + Len(r)
        /\ \A i \in 1 .. Len(s) + Len(r) : (s \o r)[i] = IF i <= Len(s) THEN s[i] ELSE r[i - Len(s)]
    BY ConcatProperties
  <2>5. c2[l] = s \o r
    BY <2>2, <2>3 DEF Joined
  <2> QED
    BY <1>4, <1>5, <2>2, <2>3, <2>4, <2>5
<1>11. Paths(next2, K, head2, c2)
  <2> SUFFICES ASSUME NEW x \in K PROVE IsPath(next2, head2[x], c2[x])
    BY DEF Paths
  <2>1. CASE x = l
    <3>1. Injective(c[l])
      BY <1>1, OwnedOnce
    <3>2. IsPath(next2, head[l], c[l] \o c[k])
      BY <1>2, <1>4, <1>6, <1>9, <3>1, PathJoined
    <3> QED
      BY <2>1, <3>2 DEF Joined
  <2>2. CASE x = k
    BY <2>2, EmptyPath DEF Joined, Empty
  <2>3. CASE x # k /\ x # l
    <3>1. \A i \in 1 .. Len(c[x]) : next2[c[x][i]] = next[c[x][i]]
      BY <1>3, <1>4, <1>6, <1>9, <2>3 DEF Relinked
    <3>2. IsPath(next2, head[x], c[x])
      BY <1>2, <1>8, <3>1, PathKept
    <3> QED
      BY <2>3, <3>2 DEF Joined, Others
  <2> QED
    BY <2>1, <2>2, <2>3
<1>12. PICK at2 : at2 = [e \in DOMAIN next |-> IF at[e] = k THEN l ELSE at[e]]
  OBVIOUS
<1>13. PICK pos2 : pos2 = [e \in DOMAIN next |-> IF at[e] = k THEN m + pos[e] ELSE pos[e]]
  OBVIOUS
<1>14. Len(c2[k]) = 0
  BY EmptySeq DEF Empty, Joined
<1>15. \A x \in K : x # k /\ x # l => c2[x] = c[x]
  BY DEF Joined, Others
<1>16. ASSUME NEW x \in K, NEW i \in 1 .. Len(c2[x])
       PROVE  c2[x][i] \notin gone /\ at2[c2[x][i]] = x /\ pos2[c2[x][i]] = i
  <2>1. x # k
    BY <1>14
  <2>2. CASE x = l /\ i <= m
    <3>1. i \in 1 .. m /\ c2[x][i] = c[l][i]
      BY <1>10, <2>2
    <3>2. c[l][i] \in DOMAIN next /\ at[c[l][i]] = l /\ pos[c[l][i]] = i /\ c[l][i] \notin gone
      BY <1>1, <1>3, <1>4, <3>1 DEF Places
    <3> QED
      BY <1>12, <1>13, <2>2, <3>1, <3>2
  <2>3. CASE x = l /\ ~ (i <= m)
    <3>1. PICK j : j = i - m
      OBVIOUS
    <3>2. j \in 1 .. n /\ m + j = i /\ c2[x][i] = c[k][j]
      BY <1>10, <2>3, <3>1
    <3>3. c[k][j] \in DOMAIN next /\ at[c[k][j]] = k /\ pos[c[k][j]] = j /\ c[k][j] \notin gone
      BY <1>1, <1>3, <1>5, <3>2 DEF Places
    <3> QED
      BY <1>12, <1>13, <2>3, <3>2, <3>3
  <2>4. CASE x # l
    <3>1. c2[x] = c[x]
      BY <1>15, <2>1, <2>4
    <3>2. c[x][i] \in DOMAIN next /\ at[c[x][i]] = x /\ pos[c[x][i]] = i /\ c[x][i] \notin gone
      BY <1>1, <1>3, <3>1 DEF Places
    <3> QED
      BY <1>12, <1>13, <2>1, <3>1, <3>2
  <2> QED
    BY <2>2, <2>3, <2>4
<1>17. ASSUME NEW e \in DOMAIN next, e \notin gone
       PROVE  /\ at2[e] \in K /\ pos2[e] \in 1 .. Len(c2[at2[e]])
              /\ c2[at2[e]][pos2[e]] = e
  <2>1. at[e] \in K /\ pos[e] \in 1 .. Len(c[at[e]]) /\ c[at[e]][pos[e]] = e
    BY <1>1, <1>17 DEF Places
  <2>2. CASE at[e] = k
    <3>1. PICK j \in 1 .. n : j = pos[e]
      BY <1>5, <2>1, <2>2
    <3>2. m + j \in 1 .. m + n /\ ~ (m + j <= m) /\ (m + j) - m = j
      OBVIOUS
    <3>3. at2[e] = l /\ pos2[e] = m + j
      BY <1>12, <1>13, <2>2, <3>1
    <3>4. c2[l][m + j] = c[k][j]
      BY <1>10, <3>2
    <3> QED
      BY <1>10, <2>1, <2>2, <3>1, <3>2, <3>3, <3>4
  <2>3. CASE at[e] = l
    <3>1. PICK j \in 1 .. m : j = pos[e]
      BY <1>4, <2>1, <2>3
    <3>2. j \in 1 .. m + n /\ j <= m
      OBVIOUS
    <3>3. at2[e] = l /\ pos2[e] = j
      BY <1>12, <1>13, <2>3, <3>1
    <3>4. c2[l][j] = c[l][j]
      BY <1>10, <3>2
    <3> QED
      BY <1>10, <2>1, <2>3, <3>1, <3>2, <3>3, <3>4
  <2>4. CASE at[e] # k /\ at[e] # l
    <3>1. at2[e] = at[e] /\ pos2[e] = pos[e] /\ c2[at[e]] = c[at[e]]
      BY <1>12, <1>13, <1>15, <2>1, <2>4
    <3> QED
      BY <2>1, <3>1
  <2> QED
    BY <2>2, <2>3, <2>4
<1>18. Places(next2, K, c2, gone, at2, pos2)
  BY <1>8, <1>16, <1>17 DEF Places
<1> QED
  BY <1>11, <1>18 DEF Owned

\* A chain without its first event.
LEMMA PathOfTail ==
  ASSUME NEW next, NEW head, NEW s, IsPath(next, head, s), Injective(s), s # <<>>,
         NEW next2, Relinked(next, next2, head, 0)
  PROVE  /\ IsPath(next2, next[head], Tail(s))
         /\ Len(Tail(s)) = Len(s) - 1 /\ Len(s) \in Nat \ {0}
         /\ \A i \in 1 .. Len(s) - 1 : Tail(s)[i] = s[i + 1]
<1>1. /\ s \in Seq(DOMAIN next) /\ Len(s) \in Nat \ {0} /\ head = s[1]
      /\ \A i \in 1 .. Len(s) : s[i] \in DOMAIN next
  BY PathIs
<1>2. PICK t : t = Tail(s)
  OBVIOUS
<1>3. /\ t \in Seq(DOMAIN next) /\ Len(t) = Len(s) - 1
      /\ \A i \in 1 .. Len(s) - 1 : t[i] = s[i + 1]
  <2>1. PICK S : S = DOMAIN next
    OBVIOUS
  <2>2. s \in Seq(S)
    BY <1>1, <2>1
  <2>3. /\ Tail(s) \in Seq(S) /\ Len(Tail(s)) = Len(s) - 1
        /\ \A i \in 1 .. Len(Tail(s)) : Tail(s)[i] = s[i + 1]
    BY <2>2, HeadTailProperties
  <2> QED
    BY <1>2, <2>1, <2>3
<1>4. DOMAIN next2 = DOMAIN next
  BY DEF Relinked
<1>5. next[head] = IF Len(t) = 0 THEN 0 ELSE t[1]
  <2>1. PICK i \in 1 .. Len(s) : i = 1
    BY <1>1
  <2>2. next[s[i]] = IF i = Len(s) THEN 0 ELSE s[i + 1]
    BY DEF IsPath
  <2>3. i = Len(s) <=> Len(t) = 0
    BY <1>1, <1>3, <2>1
  <2>4. Len(t) # 0 => t[1] = s[i + 1]
    BY <1>1, <1>3, <2>1
  <2> QED
    BY <1>1, <2>1, <2>2, <2>3, <2>4
<1>6. ASSUME NEW i \in 1 .. Len(t)
      PROVE  next2[t[i]] = IF i = Len(t) THEN 0 ELSE t[i + 1]
  <2>1. PICK j \in 1 .. Len(s) : j = i + 1
    BY <1>1, <1>3
  <2>2. t[i] = s[j] /\ (i = Len(t) <=> j = Len(s))
    BY <1>1, <1>3, <2>1
  <2>3. j # Len(s) => t[i + 1] = s[j + 1]
    BY <1>1, <1>3, <2>1
  <2>4. s[j] # s[1] /\ s[j] \in DOMAIN next
    BY <1>1, <2>1 DEF Injective
  <2>5. next2[s[j]] = next[s[j]]
    BY <1>1, <2>4 DEF Relinked
  <2>6. next[s[j]] = IF j = Len(s) THEN 0 ELSE s[j + 1]
    BY DEF IsPath
  <2> QED
    BY <2>2, <2>3, <2>5, <2>6
<1>7. IsPath(next2, next[head], t)
  BY <1>3, <1>4, <1>5, <1>6 DEF IsPath
<1> QED
  BY <1>1, <1>2, <1>3, <1>7

\* Cutting off the first event of k for l.
Cut(next, K, head, c, head2, c2, k, l) ==
  /\ head2[l] = head[k] /\ c2[l] = <<head[k]>>
  /\ head2[k] = next[head[k]] /\ c2[k] = Tail(c[k])
  /\ Others(K, head, c, head2, c2, k, l)

\* The first event of a chain becomes a chain of its own.
LEMMA CutOff ==
  ASSUME NEW next, NEW K, NEW head, NEW c, NEW gone, Owned(next, K, head, c, gone),
         NEW k \in K, NEW l \in K, k # l, c[k] # <<>>, Empty(head, c, l),
         NEW next2, Relinked(next, next2, head[k], 0),
         NEW head2, NEW c2, Cut(next, K, head, c, head2, c2, k, l)
  PROVE  Owned(next2, K, head2, c2, gone)
<1>1. PICK at, pos : Places(next, K, c, gone, at, pos)
  BY DEF Owned
<1>2. \A x \in K : IsPath(next, head[x], c[x])
  BY DEF Owned, Paths
<1>3. \A y \in K : \A j \in 1 .. Len(c[y]) : c[y][j] \in DOMAIN next
  BY <1>2, PathIs
<1>4. Injective(c[k])
  BY <1>1, OwnedOnce
<1>5. PICK n \in Nat : n = Len(c[k]) - 1 /\ Len(c[k]) = n + 1
  <2>1. Len(c[k]) \in Nat \ {0}
    BY <1>2, PathIs
  <2> QED
    BY <2>1
<1>6. /\ IsPath(next2, head2[k], c2[k]) /\ Len(c2[k]) = n
      /\ \A i \in 1 .. n : c2[k][i] = c[k][i + 1]
  <2>1. /\ IsPath(next2, next[head[k]], Tail(c[k])) /\ Len(Tail(c[k])) = Len(c[k]) - 1
        /\ \A i \in 1 .. Len(c[k]) - 1 : Tail(c[k])[i] = c[k][i + 1]
    BY <1>2, <1>4, PathOfTail
  <2> QED
    BY <1>5, <2>1 DEF Cut
<1>7. PICK t : t = head[k]
  OBVIOUS
<1>8. t = c[k][1] /\ t \in DOMAIN next /\ at[t] = k /\ pos[t] = 1 /\ t \notin gone
  <2>1. t = c[k][1] /\ 1 \in 1 .. Len(c[k])
    BY <1>2, <1>5, <1>7, PathIs
  <2> QED
    BY <1>1, <1>3, <2>1 DEF Places
<1>9. DOMAIN next2 = DOMAIN next /\ next2[t] = 0
  BY <1>7 DEF Relinked
<1>10. c2[l] = <<t>> /\ Len(c2[l]) = 1 /\ c2[l][1] = t /\ head2[l] = t
  BY <1>7 DEF Cut
<1>11. Len(c[l]) = 0
  BY EmptySeq DEF Empty
<1>12. Paths(next2, K, head2, c2)
  <2> SUFFICES ASSUME NEW x \in K PROVE IsPath(next2, head2[x], c2[x])
    BY DEF Paths
  <2>1. CASE x = k
    BY <1>6, <2>1
  <2>2. CASE x = l
    <3>1. \A i \in 1 .. 1 : i = 1
      OBVIOUS
    <3>2. <<t>> \in Seq(DOMAIN next2)
      BY <1>8, <1>9
    <3>3. Len(<<t>>) = 1 /\ <<t>>[1] = t
      OBVIOUS
    <3>4. IsPath(next2, t, <<t>>)
      BY <1>9, <3>1, <3>2, <3>3 DEF IsPath
    <3> QED
      BY <1>10, <2>2, <3>4
  <2>3. CASE x # k /\ x # l
    <3>1. \A i \in 1 .. Len(c[x]) : c[x][i] # t
      BY <1>1, <1>8, <2>3 DEF Places
    <3>2. \A i \in 1 .. Len(c[x]) : next2[c[x][i]] = next[c[x][i]]
      BY <1>3, <1>7, <3>1 DEF Relinked
    <3>3. IsPath(next2, head[x], c[x])
      BY <1>2, <1>9, <3>2, PathKept
    <3> QED
      BY <2>3, <3>3 DEF Cut, Others
  <2> QED
    BY <2>1, <2>2, <2>3
<1>13. PICK at2 : at2 = [e \in DOMAIN next |-> IF e = t THEN l ELSE at[e]]
  OBVIOUS
<1>14. PICK pos2 : pos2 = [e \in DOMAIN next |->
                             IF e # t /\ at[e] = k THEN pos[e] - 1 ELSE pos[e]]
  OBVIOUS
<1>15. \A x \in K : x # k /\ x # l => c2[x] = c[x]
  BY DEF Cut, Others
<1>16. ASSUME NEW x \in K, NEW i \in 1 .. Len(c2[x])
       PROVE  c2[x][i] \notin gone /\ at2[c2[x][i]] = x /\ pos2[c2[x][i]] = i
  <2>1. CASE x = l
    <3>0. Len(c2[x]) = 1
      BY <1>10, <2>1
    <3>1. i = 1
      BY <3>0
    <3>2. c2[x][i] = t
      BY <1>10, <2>1, <3>1
    <3>3. at2[t] = l /\ pos2[t] = 1
      BY <1>8, <1>13, <1>14
    <3> QED
      BY <1>8, <2>1, <3>1, <3>2, <3>3
  <2>2. CASE x = k
    <3>1. PICK j \in 1 .. Len(c[k]) : j = i + 1
      BY <1>5, <1>6, <2>2
    <3>2. c2[x][i] = c[k][j] /\ j - 1 = i /\ j # 1
      BY <1>6, <2>2, <3>1
    <3>3. c[k][j] \in DOMAIN next /\ at[c[k][j]] = k /\ pos[c[k][j]] = j /\ c[k][j] \notin gone
      BY <1>1, <1>3 DEF Places
    <3>4. c[k][j] # t
      BY <1>8, <3>2, <3>3
    <3> QED
      BY <1>13, <1>14, <2>2, <3>2, <3>3, <3>4
  <2>3. CASE x # k /\ x # l
    <3>1. c2[x] = c[x]
      BY <1>15, <2>3
    <3>2. c[x][i] \in DOMAIN next /\ at[c[x][i]] = x /\ pos[c[x][i]] = i /\ c[x][i] \notin gone
      BY <1>1, <1>3, <3>1 DEF Places
    <3> QED
      BY <1>8, <1>13, <1>14, <2>3, <3>1, <3>2
  <2> QED
    BY <2>1, <2>2, <2>3
<1>17. ASSUME NEW e \in DOMAIN next, e \notin gone
       PROVE  /\ at2[e] \in K /\ pos2[e] \in 1 .. Len(c2[at2[e]])
              /\ c2[at2[e]][pos2[e]] = e
  <2>1. at[e] \in K /\ pos[e] \in 1 .. Len(c[at[e]]) /\ c[at[e]][pos[e]] = e
    BY <1>1, <1>17 DEF Places
  <2>2. CASE e = t
    <3>1. at2[e] = l /\ pos2[e] = 1
      BY <1>8, <1>13, <1>14, <2>2
    <3>2. 1 \in 1 .. 1
      OBVIOUS
    <3> QED
      BY <1>10, <2>2, <3>1, <3>2
  <2>3. CASE e # t /\ at[e] = k
    <3>1. PICK j \in 1 .. n + 1 : j = pos[e]
      BY <1>5, <2>1, <2>3
    <3>2. j # 1
      BY <1>8, <2>1, <2>3, <3>1
    <3>3. PICK i \in 1 .. n : i = j - 1 /\ j = i + 1
      BY <3>2
    <3>4. at2[e] = k /\ pos2[e] = i
      BY <1>13, <1>14, <2>3, <3>1, <3>3
    <3>5. c2[k][i] = e
      BY <1>6, <2>1, <2>3, <3>1, <3>3
    <3> QED
      BY <1>6, <3>4, <3>5
  <2>4. CASE e # t /\ at[e] # k
    <3>1. at[e] # l
      BY <1>11, <2>1
    <3>2. at2[e] = at[e] /\ pos2[e] = pos[e] /\ c2[at[e]] = c[at[e]]
      BY <1>13, <1>14, <1>15, <2>1, <2>4, <3>1
    <3> QED
      BY <2>1, <3>2
  <2> QED
    BY <2>2, <2>3, <2>4
<1>18. Places(next2, K, c2, gone, at2, pos2)
  BY <1>9, <1>16, <1>17 DEF Places
<1> QED
  BY <1>12, <1>18 DEF Owned

\* The events after the first n, linked in order.
Fresh(n, length) == [j \in 1 .. length |-> n + j]

\* A new chain for l.
Created(K, head, c, head2, c2, l, n, length) ==
  /\ head2[l] = n + 1 /\ c2[l] = Fresh(n, length)
  /\ Others(K, head, c, head2, c2, l, l)

\* The memory with a new chain.
Extended(next, next2, n, length) ==
  /\ IsMemory(next, n) /\ DOMAIN next2 = 1 .. n + length
  /\ \A e \in 1 .. n : next2[e] = next[e]
  /\ \A j \in 1 .. length : next2[n + j] = IF j = length THEN 0 ELSE n + j + 1

\* New events have no other owner than the chain they are made for.
LEMMA Create ==
  ASSUME NEW next, NEW K, NEW head, NEW c, NEW gone, Owned(next, K, head, c, gone),
         NEW l \in K, Empty(head, c, l),
         NEW n \in Nat, NEW length \in Nat \ {0}, NEW next2,
         Extended(next, next2, n, length), \A e \in gone : e \in DOMAIN next,
         NEW head2, NEW c2, Created(K, head, c, head2, c2, l, n, length)
  PROVE  Owned(next2, K, head2, c2, gone)
<1>1. PICK at, pos : Places(next, K, c, gone, at, pos)
  BY DEF Owned
<1>2. \A x \in K : IsPath(next, head[x], c[x])
  BY DEF Owned, Paths
<1>3. DOMAIN next = 1 .. n /\ DOMAIN next2 = 1 .. n + length
  BY DEF Extended, IsMemory
<1>4. \A y \in K : \A j \in 1 .. Len(c[y]) : c[y][j] \in 1 .. n
  BY <1>2, <1>3, PathIs
<1>5. /\ c2[l] \in Seq(1 .. n + length) /\ Len(c2[l]) = length
      /\ \A j \in 1 .. length : c2[l][j] = n + j
  <2>1. PICK s : s = Fresh(n, length)
    OBVIOUS
  <2>2. s \in [1 .. length -> 1 .. n + length] /\ \A j \in 1 .. length : s[j] = n + j
    BY <2>1 DEF Fresh
  <2>3. s \in Seq(1 .. n + length) /\ Len(s) = length
    BY <2>2, FunctionIsSeq
  <2> QED
    BY <2>1, <2>2, <2>3 DEF Created
<1>6. \A x \in K : x # l => c2[x] = c[x] /\ head2[x] = head[x]
  BY DEF Created, Others
<1>7. Paths(next2, K, head2, c2)
  <2> SUFFICES ASSUME NEW x \in K PROVE IsPath(next2, head2[x], c2[x])
    BY DEF Paths
  <2>1. CASE x = l
    <3>1. ASSUME NEW j \in 1 .. length
          PROVE  next2[c2[l][j]] = IF j = length THEN 0 ELSE c2[l][j + 1]
      <4>1. next2[n + j] = IF j = length THEN 0 ELSE n + j + 1
        BY DEF Extended
      <4>2. c2[l][j] = n + j
        BY <1>5
      <4>3. j # length => c2[l][j + 1] = n + j + 1
        <5> SUFFICES ASSUME j # length PROVE c2[l][j + 1] = n + j + 1
          OBVIOUS
        <5>1. j + 1 \in 1 .. length /\ n + (j + 1) = n + j + 1
          OBVIOUS
        <5> QED
          BY <1>5, <5>1
      <4> QED
        BY <4>1, <4>2, <4>3
    <3>2. head2[l] = c2[l][1] /\ length # 0
      BY <1>5 DEF Created
    <3> QED
      BY <1>3, <1>5, <2>1, <3>1, <3>2 DEF IsPath
  <2>2. CASE x # l
    <3>1. \A i \in 1 .. Len(c[x]) : next2[c[x][i]] = next[c[x][i]]
      BY <1>4 DEF Extended
    <3>2. \A e \in DOMAIN next : e \in DOMAIN next2
      BY <1>3
    <3>3. IsPath(next2, head[x], c[x])
      BY <1>2, <3>1, <3>2, PathKept
    <3> QED
      BY <1>6, <2>2, <3>3
  <2> QED
    BY <2>1, <2>2
<1>8. PICK at2 : at2 = [e \in 1 .. n + length |-> IF e <= n THEN at[e] ELSE l]
  OBVIOUS
<1>9. PICK pos2 : pos2 = [e \in 1 .. n + length |-> IF e <= n THEN pos[e] ELSE e - n]
  OBVIOUS
<1>10. \A e \in 1 .. n : e \in 1 .. n + length /\ at2[e] = at[e] /\ pos2[e] = pos[e]
  BY <1>8, <1>9
<1>11. ASSUME NEW x \in K, NEW i \in 1 .. Len(c2[x])
       PROVE  c2[x][i] \notin gone /\ at2[c2[x][i]] = x /\ pos2[c2[x][i]] = i
  <2>1. CASE x = l
    <3>1. i \in 1 .. length /\ c2[x][i] = n + i
      BY <1>5, <2>1
    <3>2. n + i \in 1 .. n + length /\ ~ (n + i <= n) /\ (n + i) - n = i /\ n + i \notin 1 .. n
      BY <3>1
    <3>3. n + i \notin gone
      BY <1>3, <3>2
    <3> QED
      BY <1>8, <1>9, <2>1, <3>1, <3>2, <3>3
  <2>2. CASE x # l
    <3>1. c2[x] = c[x]
      BY <1>6, <2>2
    <3>2. c[x][i] \in 1 .. n /\ at[c[x][i]] = x /\ pos[c[x][i]] = i /\ c[x][i] \notin gone
      BY <1>1, <1>4, <3>1 DEF Places
    <3> QED
      BY <1>10, <3>1, <3>2
  <2> QED
    BY <2>1, <2>2
<1>12. ASSUME NEW e \in DOMAIN next2, e \notin gone
       PROVE  /\ at2[e] \in K /\ pos2[e] \in 1 .. Len(c2[at2[e]])
              /\ c2[at2[e]][pos2[e]] = e
  <2>0. e \in 1 .. n + length
    BY <1>3
  <2>1. CASE e <= n
    <3>1. e \in 1 .. n
      BY <2>0, <2>1
    <3>2. at[e] \in K /\ pos[e] \in 1 .. Len(c[at[e]]) /\ c[at[e]][pos[e]] = e
      BY <1>1, <1>3, <1>12, <3>1 DEF Places
    <3>3. Len(c[l]) = 0
      BY EmptySeq DEF Empty
    <3>4. at[e] # l
      BY <3>2, <3>3
    <3>5. c2[at[e]] = c[at[e]]
      BY <1>6, <3>2, <3>4
    <3> QED
      BY <1>10, <3>1, <3>2, <3>5
  <2>2. CASE ~ (e <= n)
    <3>1. PICK j \in 1 .. length : j = e - n /\ e = n + j
      BY <2>0, <2>2
    <3>2. at2[e] = l /\ pos2[e] = j
      BY <1>8, <1>9, <2>0, <2>2, <3>1
    <3>3. c2[l][j] = e
      BY <1>5, <3>1
    <3> QED
      BY <1>5, <3>2, <3>3
  <2> QED
    BY <2>1, <2>2
<1>13. Places(next2, K, c2, gone, at2, pos2)
  BY <1>11, <1>12 DEF Places
<1> QED
  BY <1>7, <1>13 DEF Owned

-----------------------------------------------------------------------------
(***************************************************************************)
(* The holders of EventPool: the pool for each chain in it, the helpers,   *)
(* the engines for what they are sending, the slots, and G.  The spare one *)
(* has an event between being cut off a chain and linked to another one.   *)
(***************************************************************************)
PoolKey(x) == <<"pool", x>>
HelperKey(h) == <<"helper", h>>
EngineKey(e) == <<"engine", e>>
SlotKey(i) == <<"slot", i>>
GKey == <<"G", 0>>
SpareKey == <<"spare", 0>>

Keys ==
  {PoolKey(x) : x \in Nat \ {0}} \cup {HelperKey(h) : h \in Helpers}
    \cup {EngineKey(e) : e \in Engines} \cup {SlotKey(i) : i \in Slots}
    \cup {GKey, SpareKey}

\* The keys and their kinds.
LEMMA KeysAre ==
  /\ \A x \in Nat \ {0} : PoolKey(x) \in Keys /\ PoolKey(x)[1] = "pool" /\ PoolKey(x)[2] = x
  /\ \A h \in Helpers : HelperKey(h) \in Keys /\ HelperKey(h)[1] = "helper" /\ HelperKey(h)[2] = h
  /\ \A e \in Engines : EngineKey(e) \in Keys /\ EngineKey(e)[1] = "engine" /\ EngineKey(e)[2] = e
  /\ \A i \in Slots : SlotKey(i) \in Keys /\ SlotKey(i)[1] = "slot" /\ SlotKey(i)[2] = i
  /\ GKey \in Keys /\ GKey[1] = "G" /\ SpareKey \in Keys /\ SpareKey[1] = "spare"
  BY DEF Keys, PoolKey, HelperKey, EngineKey, SlotKey, GKey, SpareKey

\* Every key is one of these.
LEMMA KeyIs ==
  ASSUME NEW k \in Keys
  PROVE  \/ \E x \in Nat \ {0} : k = PoolKey(x)
         \/ \E h \in Helpers : k = HelperKey(h)
         \/ \E e \in Engines : k = EngineKey(e)
         \/ \E i \in Slots : k = SlotKey(i)
         \/ k = GKey \/ k = SpareKey
  BY DEF Keys

OfPool(f, B) ==
  /\ \A x \in B : x \in Nat \ {0}
  /\ \A x \in Nat \ {0} : f[PoolKey(x)] = IF x \in B THEN x ELSE 0

OfHelpers(f, H) == \A h \in Helpers : f[HelperKey(h)] = H[h]

OfEngines(c, E) == \A e \in Engines : c[EngineKey(e)] = E[e]

OfSlots(f, c, M, S) == \A i \in Slots : f[SlotKey(i)] = M[i] /\ c[SlotKey(i)] = S[i]

OfG(f, c, first, last) ==
  /\ f[GKey] = first
  /\ last = IF Len(c[GKey]) = 0 THEN 0 ELSE c[GKey][Len(c[GKey])]

\* Who has what: B is in the pool, H with the helpers, E being sent, M and S in
\* the slots, and G has a chain from first to last.
Holds(f, c, B, H, E, M, S, first, last) ==
  /\ OfPool(f, B) /\ OfHelpers(f, H) /\ OfEngines(c, E) /\ OfSlots(f, c, M, S)
  /\ OfG(f, c, first, last) /\ Empty(f, c, SpareKey)

Stock(next, gone, B, H, E, M, S, first, last) ==
  \E f, c : /\ Owned(next, Keys, f, c, gone)
            /\ Holds(f, c, B, H, E, M, S, first, last)

\* Holders of other kinds than k and l keep what they have.
LEMMA OthersHold ==
  ASSUME NEW f, NEW c, NEW f2, NEW c2, NEW k, NEW l, Others(Keys, f, c, f2, c2, k, l),
         NEW B, NEW H, NEW E, NEW M, NEW S, NEW first, NEW last,
         Holds(f, c, B, H, E, M, S, first, last)
  PROVE  /\ k[1] # "pool" /\ l[1] # "pool" => OfPool(f2, B)
         /\ k[1] # "helper" /\ l[1] # "helper" => OfHelpers(f2, H)
         /\ k[1] # "engine" /\ l[1] # "engine" => OfEngines(c2, E)
         /\ k[1] # "slot" /\ l[1] # "slot" => OfSlots(f2, c2, M, S)
         /\ k[1] # "G" /\ l[1] # "G" => OfG(f2, c2, first, last)
         /\ k[1] # "spare" /\ l[1] # "spare" => Empty(f2, c2, SpareKey)
<1>1. k[1] # "pool" /\ l[1] # "pool" => OfPool(f2, B)
  BY KeysAre DEF Others, Holds, OfPool
<1>2. k[1] # "helper" /\ l[1] # "helper" => OfHelpers(f2, H)
  BY KeysAre DEF Others, Holds, OfHelpers
<1>3. k[1] # "engine" /\ l[1] # "engine" => OfEngines(c2, E)
  BY KeysAre DEF Others, Holds, OfEngines
<1>4. k[1] # "slot" /\ l[1] # "slot" => OfSlots(f2, c2, M, S)
  BY KeysAre DEF Others, Holds, OfSlots
<1>5. k[1] # "G" /\ l[1] # "G" => OfG(f2, c2, first, last)
  BY KeysAre DEF Others, Holds, OfG
<1>6. k[1] # "spare" /\ l[1] # "spare" => Empty(f2, c2, SpareKey)
  BY KeysAre DEF Others, Holds, Empty
<1> QED
  BY <1>1, <1>2, <1>3, <1>4, <1>5, <1>6

\* Who holds no first event holds no chain, for no event is numbered 0.
LEMMA NoHead ==
  ASSUME NEW next, NEW n, IsMemory(next, n), NEW head, NEW s, IsPath(next, head, s)
  PROVE  (head = 0 <=> s = <<>>) /\ (s # <<>> => s[Len(s)] \in 1 .. n)
<1>1. s # <<>> => Len(s) \in 1 .. Len(s) /\ 1 \in 1 .. Len(s)
  BY PathIs
<1>2. \A i \in 1 .. Len(s) : s[i] \in 1 .. n /\ s[i] # 0
  BY PathIs DEF IsMemory
<1> QED
  BY <1>1, <1>2, PathIs

\* k and l have these, and the others what they had.
Both(f, c, f2, c2, k, l, a, b, s, t) ==
  /\ f2[k] = a /\ f2[l] = b /\ c2[k] = s /\ c2[l] = t
  /\ Others(Keys, f, c, f2, c2, k, l)

\* There are holders who have done each of these.
LEMMA Done ==
  ASSUME NEW next, NEW f, NEW c, NEW k \in Keys, NEW l \in Keys, k # l
  PROVE  /\ \E f2, c2 : Handed(Keys, f, c, f2, c2, k, l)
         /\ \E f2, c2 : LetGo(Keys, f, c, f2, c2, k)
         /\ \E f2, c2 : Joined(Keys, f, c, f2, c2, k, l)
         /\ \E f2, c2 : Cut(next, Keys, f, c, f2, c2, k, l)
<1>1. \A a, b, s, t : \E f2, c2 : Both(f, c, f2, c2, k, l, a, b, s, t)
  <2> TAKE a, b, s, t
  <2>1. PICK f2 : f2 = [x \in Keys |-> IF x = k THEN a ELSE IF x = l THEN b ELSE f[x]]
    OBVIOUS
  <2>2. PICK c2 : c2 = [x \in Keys |-> IF x = k THEN s ELSE IF x = l THEN t ELSE c[x]]
    OBVIOUS
  <2>3. f2[k] = a /\ f2[l] = b /\ c2[k] = s /\ c2[l] = t
    BY <2>1, <2>2
  <2>4. Others(Keys, f, c, f2, c2, k, l)
    BY <2>1, <2>2 DEF Others
  <2> QED
    BY <2>3, <2>4 DEF Both
<1>2. \E f2, c2 : Handed(Keys, f, c, f2, c2, k, l)
  <2>1. PICK f2, c2 : Both(f, c, f2, c2, k, l, 0, f[k], <<>>, c[k])
    BY <1>1
  <2> QED
    BY <2>1 DEF Both, Handed, Empty
<1>3. \E f2, c2 : LetGo(Keys, f, c, f2, c2, k)
  <2>1. PICK f2, c2 : Both(f, c, f2, c2, k, l, 0, f[l], <<>>, c[l])
    BY <1>1
  <2>2. Others(Keys, f, c, f2, c2, k, k)
    BY <2>1 DEF Both, Others
  <2> QED
    BY <2>1, <2>2 DEF Both, LetGo, Empty
<1>4. \E f2, c2 : Joined(Keys, f, c, f2, c2, k, l)
  <2>1. PICK f2, c2 : Both(f, c, f2, c2, k, l, 0, f[l], <<>>, c[l] \o c[k])
    BY <1>1
  <2> QED
    BY <2>1 DEF Both, Joined, Empty
<1>5. \E f2, c2 : Cut(next, Keys, f, c, f2, c2, k, l)
  <2>1. PICK f2, c2 : Both(f, c, f2, c2, k, l, next[f[k]], f[k], Tail(c[k]), <<f[k]>>)
    BY <1>1
  <2> QED
    BY <2>1 DEF Both, Cut
<1> QED
  BY <1>2, <1>3, <1>4, <1>5

-----------------------------------------------------------------------------
(***************************************************************************)
(* What the actions do with the chains.                                    *)
(***************************************************************************)

\* G returns what it has collected to the pool.
LEMMA Returned ==
  ASSUME NEW next, NEW n, IsMemory(next, n), NEW gone,
         NEW B, NEW H, NEW E, NEW M, NEW S, NEW first, NEW last,
         Stock(next, gone, B, H, E, M, S, first, last)
  PROVE  Stock(next, gone, B \cup ({first} \ {0}), H, E, M, S, 0, 0)
<1>1. PICK f, c : Owned(next, Keys, f, c, gone) /\ Holds(f, c, B, H, E, M, S, first, last)
  BY DEF Stock
<1>2. \A x \in Keys : IsPath(next, f[x], c[x])
  BY <1>1 DEF Owned, Paths
<1>3. GKey \in Keys /\ f[GKey] = first
  BY <1>1, KeysAre DEF Holds, OfG
<1>4. CASE first = 0
  <2>1. c[GKey] = <<>>
    BY <1>2, <1>3, <1>4, NoHead
  <2>2. last = 0
    BY <1>1, <2>1, EmptySeq DEF Holds, OfG
  <2>3. B \cup ({first} \ {0}) = B
    BY <1>4
  <2> QED
    BY <1>4, <2>2, <2>3
<1>5. CASE first # 0
  <2>1. c[GKey] # <<>>
    BY <1>2, <1>3, <1>5, NoHead
  <2>2. Len(c[GKey]) \in Nat \ {0} /\ first = c[GKey][1] /\ first \in 1 .. n
    <3>1. Len(c[GKey]) \in Nat \ {0} /\ first = c[GKey][1]
      BY <1>2, <1>3, <2>1, PathIs
    <3>2. 1 \in 1 .. Len(c[GKey])
      BY <3>1
    <3> QED
      BY <1>2, <1>3, <3>1, <3>2, PathIs DEF IsMemory
  <2>3. PICK l : l = PoolKey(first)
    OBVIOUS
  <2>4. l \in Keys /\ l[1] = "pool" /\ GKey[1] = "G" /\ l # GKey
    BY <2>2, <2>3, KeysAre
  <2>5. first \notin B
    <3> SUFFICES ASSUME first \in B PROVE FALSE
      OBVIOUS
    <3>1. f[l] = first
      BY <1>1, <2>2, <2>3 DEF Holds, OfPool
    <3>2. c[l] # <<>>
      BY <1>2, <1>5, <2>4, <3>1, NoHead
    <3>3. c[l][1] = first /\ 1 \in 1 .. Len(c[l])
      BY <1>2, <2>4, <3>1, <3>2, PathIs
    <3>4. PICK at, pos : Places(next, Keys, c, gone, at, pos)
      BY <1>1 DEF Owned
    <3>5. at[first] = l
      BY <2>4, <3>3, <3>4 DEF Places
    <3>6. at[first] = GKey
      BY <1>3, <2>2, <3>4 DEF Places
    <3> QED
      BY <2>4, <3>5, <3>6
  <2>6. Empty(f, c, l)
    <3>1. f[l] = 0
      BY <1>1, <2>2, <2>3, <2>5 DEF Holds, OfPool
    <3>2. c[l] = <<>>
      BY <1>2, <2>4, <3>1, NoHead
    <3> QED
      BY <3>1, <3>2 DEF Empty
  <2>8. PICK f2, c2 : Handed(Keys, f, c, f2, c2, GKey, l)
    BY <1>3, <2>4, Done
  <2>7. /\ f2[GKey] = 0 /\ f2[l] = f[GKey] /\ c2[GKey] = <<>> /\ c2[l] = c[GKey]
        /\ Others(Keys, f, c, f2, c2, GKey, l)
    BY <2>8 DEF Handed, Empty
  <2>9. Owned(next, Keys, f2, c2, gone)
    BY <1>1, <1>3, <2>4, <2>6, <2>8, HandOver
  <2>10. PICK B2 : B2 = B \cup ({first} \ {0})
    OBVIOUS
  <2>11. OfHelpers(f2, H) /\ OfEngines(c2, E) /\ OfSlots(f2, c2, M, S) /\ Empty(f2, c2, SpareKey)
    BY <1>1, <2>4, <2>7, OthersHold
  <2>12. OfG(f2, c2, 0, 0)
    BY <2>7, EmptySeq DEF OfG
  <2>13. OfPool(f2, B2)
    <3>1. \A x \in B2 : x \in Nat \ {0}
      BY <1>1, <2>2, <2>10 DEF Holds, OfPool
    <3>2. ASSUME NEW x \in Nat \ {0} PROVE f2[PoolKey(x)] = IF x \in B2 THEN x ELSE 0
      <4>1. CASE x = first
        BY <1>3, <1>5, <2>3, <2>7, <2>10, <4>1
      <4>2. CASE x # first
        <5>1. PoolKey(x) \in Keys /\ PoolKey(x) # l /\ PoolKey(x) # GKey
          BY <2>2, <2>3, <2>4, <4>2, KeysAre
        <5>2. f2[PoolKey(x)] = f[PoolKey(x)]
          BY <2>7, <5>1 DEF Others
        <5>3. x \in B2 <=> x \in B
          BY <2>10, <4>2
        <5>4. f[PoolKey(x)] = IF x \in B THEN x ELSE 0
          BY <1>1 DEF Holds, OfPool
        <5> QED
          BY <5>2, <5>3, <5>4
      <4> QED
        BY <4>1, <4>2
    <3> QED
      BY <3>1, <3>2 DEF OfPool
  <2>14. Stock(next, gone, B2, H, E, M, S, 0, 0)
    BY <2>9, <2>11, <2>12, <2>13 DEF Stock, Holds
  <2> QED
    BY <2>10, <2>14
<1> QED
  BY <1>4, <1>5

\* A helper takes a chain of the pool.
LEMMA TakenFromPool ==
  ASSUME NEW next, NEW n, IsMemory(next, n), NEW gone,
         NEW B, NEW H, NEW E, NEW M, NEW S, NEW first, NEW last,
         Stock(next, gone, B, H, E, M, S, first, last),
         NEW x \in B, NEW h \in Helpers, DOMAIN H = Helpers, H[h] = 0
  PROVE  Stock(next, gone, B \ {x}, [H EXCEPT ![h] = x], E, M, S, first, last)
<1>1. PICK f, c : Owned(next, Keys, f, c, gone) /\ Holds(f, c, B, H, E, M, S, first, last)
  BY DEF Stock
<1>2. \A y \in Keys : IsPath(next, f[y], c[y])
  BY <1>1 DEF Owned, Paths
<1>3. x \in Nat \ {0}
  BY <1>1 DEF Holds, OfPool
<1>4. PICK k : k = PoolKey(x)
  OBVIOUS
<1>5. PICK l : l = HelperKey(h)
  OBVIOUS
<1>6. k \in Keys /\ l \in Keys /\ k[1] = "pool" /\ l[1] = "helper" /\ k # l
  BY <1>3, <1>4, <1>5, KeysAre
<1>7. f[k] = x /\ f[l] = 0
  BY <1>1, <1>3, <1>4, <1>5 DEF Holds, OfPool, OfHelpers
<1>8. Empty(f, c, l)
  BY <1>2, <1>6, <1>7, NoHead DEF Empty
<1>9. PICK f2, c2 : Handed(Keys, f, c, f2, c2, k, l)
  BY <1>6, Done
<1>10. Owned(next, Keys, f2, c2, gone)
  BY <1>1, <1>6, <1>8, <1>9, HandOver
<1>11. f2[k] = 0 /\ f2[l] = x /\ Others(Keys, f, c, f2, c2, k, l)
  BY <1>7, <1>9 DEF Handed, Empty
<1>12. /\ OfEngines(c2, E) /\ OfSlots(f2, c2, M, S) /\ OfG(f2, c2, first, last)
       /\ Empty(f2, c2, SpareKey)
  BY <1>1, <1>6, <1>11, OthersHold
<1>13. PICK B2 : B2 = B \ {x}
  OBVIOUS
<1>14. OfPool(f2, B2)
  <2>1. \A y \in B2 : y \in Nat \ {0}
    BY <1>1, <1>13 DEF Holds, OfPool
  <2>2. ASSUME NEW y \in Nat \ {0} PROVE f2[PoolKey(y)] = IF y \in B2 THEN y ELSE 0
    <3>1. CASE y = x
      BY <1>4, <1>11, <1>13, <3>1
    <3>2. CASE y # x
      <4>1. PoolKey(y) \in Keys /\ PoolKey(y) # l /\ PoolKey(y) # k
        BY <1>3, <1>4, <1>6, <3>2, KeysAre
      <4>2. f2[PoolKey(y)] = f[PoolKey(y)]
        BY <1>11, <4>1 DEF Others
      <4>3. f[PoolKey(y)] = IF y \in B THEN y ELSE 0
        BY <1>1 DEF Holds, OfPool
      <4>4. y \in B2 <=> y \in B
        BY <1>13, <3>2
      <4> QED
        BY <4>2, <4>3, <4>4
    <3> QED
      BY <3>1, <3>2
  <2> QED
    BY <2>1, <2>2 DEF OfPool
<1>15. PICK H2 : H2 = [H EXCEPT ![h] = x]
  OBVIOUS
<1>16. OfHelpers(f2, H2)
  <2> SUFFICES ASSUME NEW y \in Helpers PROVE f2[HelperKey(y)] = H2[y]
    BY DEF OfHelpers
  <2>1. CASE y = h
    BY <1>5, <1>11, <1>15, <2>1
  <2>2. CASE y # h
    <3>1. HelperKey(y) \in Keys /\ HelperKey(y) # l /\ HelperKey(y) # k
      BY <1>5, <1>6, <2>2, KeysAre
    <3>2. f2[HelperKey(y)] = f[HelperKey(y)]
      BY <1>11, <3>1 DEF Others
    <3>3. f[HelperKey(y)] = H[y]
      BY <1>1 DEF Holds, OfHelpers
    <3> QED
      BY <1>15, <2>2, <3>2, <3>3
  <2> QED
    BY <2>1, <2>2
<1>17. Stock(next, gone, B2, H2, E, M, S, first, last)
  BY <1>10, <1>12, <1>14, <1>16 DEF Stock, Holds
<1> QED
  BY <1>13, <1>15, <1>17

\* A helper gets a new chain.
LEMMA NewlyCreated ==
  ASSUME NEW next, NEW n, IsMemory(next, n), NEW gone, \A e \in gone : e \in DOMAIN next,
         NEW B, NEW H, NEW E, NEW M, NEW S, NEW first, NEW last,
         Stock(next, gone, B, H, E, M, S, first, last),
         NEW h \in Helpers, DOMAIN H = Helpers, H[h] = 0,
         NEW length \in Nat \ {0}, NEW next2, Extended(next, next2, n, length)
  PROVE  Stock(next2, gone, B, [H EXCEPT ![h] = n + 1], E, M, S, first, last)
<1>1. PICK f, c : Owned(next, Keys, f, c, gone) /\ Holds(f, c, B, H, E, M, S, first, last)
  BY DEF Stock
<1>2. \A y \in Keys : IsPath(next, f[y], c[y])
  BY <1>1 DEF Owned, Paths
<1>3. PICK l : l = HelperKey(h)
  OBVIOUS
<1>4. l \in Keys /\ l[1] = "helper"
  BY <1>3, KeysAre
<1>5. f[l] = 0
  BY <1>1, <1>3 DEF Holds, OfHelpers
<1>6. Empty(f, c, l)
  BY <1>2, <1>4, <1>5, NoHead DEF Empty
<1>7. PICK f2 : f2 = [x \in Keys |-> IF x = l THEN n + 1 ELSE f[x]]
  OBVIOUS
<1>8. PICK c2 : c2 = [x \in Keys |-> IF x = l THEN Fresh(n, length) ELSE c[x]]
  OBVIOUS
<1>9. Others(Keys, f, c, f2, c2, l, l) /\ f2[l] = n + 1
  BY <1>4, <1>7, <1>8 DEF Others
<1>10. Created(Keys, f, c, f2, c2, l, n, length)
  BY <1>4, <1>8, <1>9 DEF Created
<1>11. n \in Nat
  BY DEF IsMemory
<1>12. Owned(next2, Keys, f2, c2, gone)
  BY <1>1, <1>4, <1>6, <1>10, <1>11, Create
<1>13. /\ OfPool(f2, B) /\ OfEngines(c2, E) /\ OfSlots(f2, c2, M, S)
       /\ OfG(f2, c2, first, last) /\ Empty(f2, c2, SpareKey)
  BY <1>1, <1>4, <1>9, OthersHold
<1>14. PICK H2 : H2 = [H EXCEPT ![h] = n + 1]
  OBVIOUS
<1>15. OfHelpers(f2, H2)
  <2> SUFFICES ASSUME NEW y \in Helpers PROVE f2[HelperKey(y)] = H2[y]
    BY DEF OfHelpers
  <2>1. CASE y = h
    BY <1>3, <1>9, <1>14, <2>1
  <2>2. CASE y # h
    <3>1. HelperKey(y) \in Keys /\ HelperKey(y) # l
      BY <1>3, <2>2, KeysAre
    <3>2. f2[HelperKey(y)] = f[HelperKey(y)]
      BY <1>9, <3>1 DEF Others
    <3>3. f[HelperKey(y)] = H[y]
      BY <1>1 DEF Holds, OfHelpers
    <3> QED
      BY <1>14, <2>2, <3>2, <3>3
  <2> QED
    BY <2>1, <2>2
<1>16. Stock(next2, gone, B, H2, E, M, S, first, last)
  BY <1>12, <1>13, <1>15 DEF Stock, Holds
<1> QED
  BY <1>14, <1>16

\* Slots with one of them emptied.
LEMMA SlotEmptied ==
  ASSUME NEW f, NEW c, NEW M, NEW S, DOMAIN M = Slots, DOMAIN S = Slots,
         OfSlots(f, c, M, S), NEW i \in Slots, NEW f2, NEW c2,
         Empty(f2, c2, SlotKey(i)), NEW l, l[1] # "slot",
         Others(Keys, f, c, f2, c2, SlotKey(i), l)
  PROVE  OfSlots(f2, c2, [M EXCEPT ![i] = 0], [S EXCEPT ![i] = <<>>])
<1>1. PICK M2 : M2 = [M EXCEPT ![i] = 0]
  OBVIOUS
<1>2. PICK S2 : S2 = [S EXCEPT ![i] = <<>>]
  OBVIOUS
<1>3. ASSUME NEW y \in Slots PROVE f2[SlotKey(y)] = M2[y] /\ c2[SlotKey(y)] = S2[y]
  <2>1. CASE y = i
    BY <1>1, <1>2, <2>1 DEF Empty
  <2>2. CASE y # i
    <3>1. SlotKey(y) \in Keys /\ SlotKey(y) # SlotKey(i) /\ SlotKey(y) # l
      BY <2>2, KeysAre
    <3>2. f2[SlotKey(y)] = f[SlotKey(y)] /\ c2[SlotKey(y)] = c[SlotKey(y)]
      BY <3>1 DEF Others
    <3>3. f[SlotKey(y)] = M[y] /\ c[SlotKey(y)] = S[y]
      BY DEF OfSlots
    <3> QED
      BY <1>1, <1>2, <2>2, <3>2, <3>3
  <2> QED
    BY <2>1, <2>2
<1>4. OfSlots(f2, c2, M2, S2)
  BY <1>3 DEF OfSlots
<1> QED
  BY <1>1, <1>2, <1>4

\* What is in a slot.
LEMMA SlotIs ==
  ASSUME NEW next, NEW n, IsMemory(next, n), NEW gone,
         NEW B, NEW H, NEW E, NEW M, NEW S, NEW first, NEW last,
         Stock(next, gone, B, H, E, M, S, first, last), NEW i \in Slots
  PROVE  IsPath(next, M[i], S[i]) /\ Injective(S[i])
<1>1. PICK f, c : Owned(next, Keys, f, c, gone) /\ Holds(f, c, B, H, E, M, S, first, last)
  BY DEF Stock
<1>2. PICK at, pos : Places(next, Keys, c, gone, at, pos)
  BY <1>1 DEF Owned
<1>3. SlotKey(i) \in Keys
  BY KeysAre
<1>4. f[SlotKey(i)] = M[i] /\ c[SlotKey(i)] = S[i]
  BY <1>1 DEF Holds, OfSlots
<1>5. IsPath(next, f[SlotKey(i)], c[SlotKey(i)])
  BY <1>1, <1>3 DEF Owned, Paths
<1>6. Injective(c[SlotKey(i)])
  BY <1>2, <1>3, OwnedOnce
<1> QED
  BY <1>4, <1>5, <1>6

\* G lets the chain of a slot go.
LEMMA Forgotten ==
  ASSUME NEW next, NEW n, IsMemory(next, n), NEW gone,
         NEW B, NEW H, NEW E, NEW M, NEW S, NEW first, NEW last,
         Stock(next, gone, B, H, E, M, S, first, last), NEW i \in Slots,
         DOMAIN M = Slots, DOMAIN S = Slots
  PROVE  Stock(next, gone \cup ElementsOf(S[i]), B, H, E, [M EXCEPT ![i] = 0],
               [S EXCEPT ![i] = <<>>], first, last)
<1>1. PICK f, c : Owned(next, Keys, f, c, gone) /\ Holds(f, c, B, H, E, M, S, first, last)
  BY DEF Stock
<1>2. PICK k : k = SlotKey(i)
  OBVIOUS
<1>3. k \in Keys /\ k[1] = "slot" /\ SpareKey \in Keys /\ SpareKey[1] = "spare" /\ k # SpareKey
  BY <1>2, KeysAre
<1>4. c[k] = S[i] /\ OfSlots(f, c, M, S)
  BY <1>1, <1>2 DEF Holds, OfSlots
<1>5. PICK f2, c2 : LetGo(Keys, f, c, f2, c2, k)
  BY <1>3, Done
<1>6. Owned(next, Keys, f2, c2, gone \cup ElementsOf(c[k]))
  BY <1>1, <1>3, <1>5, Drop
<1>7. Empty(f2, c2, k) /\ Others(Keys, f, c, f2, c2, k, k)
  BY <1>5 DEF LetGo
<1>8. /\ OfPool(f2, B) /\ OfHelpers(f2, H) /\ OfEngines(c2, E) /\ OfG(f2, c2, first, last)
      /\ Empty(f2, c2, SpareKey)
  BY <1>1, <1>3, <1>7, OthersHold
<1>9. Others(Keys, f, c, f2, c2, k, SpareKey)
  BY <1>7 DEF Others
<1>10. OfSlots(f2, c2, [M EXCEPT ![i] = 0], [S EXCEPT ![i] = <<>>])
  BY <1>2, <1>3, <1>4, <1>7, <1>9, SlotEmptied
<1> QED
  BY <1>4, <1>6, <1>8, <1>10 DEF Stock, Holds

\* G takes the chain of a slot behind what it has collected.
LEMMA TakenFromSlot ==
  ASSUME NEW next, NEW n, IsMemory(next, n), NEW gone,
         NEW B, NEW H, NEW E, NEW M, NEW S, NEW first, NEW last,
         Stock(next, gone, B, H, E, M, S, first, last), NEW i \in Slots,
         DOMAIN M = Slots, DOMAIN S = Slots, M[i] # 0
  PROVE  Stock(IF last # 0 THEN [next EXCEPT ![last] = M[i]] ELSE next, gone, B, H, E,
               [M EXCEPT ![i] = 0], [S EXCEPT ![i] = <<>>],
               IF last = 0 THEN M[i] ELSE first, S[i][Len(S[i])])
<1>1. PICK f, c : Owned(next, Keys, f, c, gone) /\ Holds(f, c, B, H, E, M, S, first, last)
  BY DEF Stock
<1>2. \A y \in Keys : IsPath(next, f[y], c[y])
  BY <1>1 DEF Owned, Paths
<1>3. PICK k : k = SlotKey(i)
  OBVIOUS
<1>4. k \in Keys /\ k[1] = "slot" /\ GKey \in Keys /\ GKey[1] = "G" /\ k # GKey
  BY <1>3, KeysAre
<1>5. f[k] = M[i] /\ c[k] = S[i] /\ OfSlots(f, c, M, S) /\ OfG(f, c, first, last)
  BY <1>1, <1>3 DEF Holds, OfSlots
<1>6. c[k] # <<>> /\ Len(c[k]) \in Nat \ {0}
  BY <1>2, <1>4, <1>5, NoHead, PathIs
<1>7. Len(c[GKey]) \in Nat /\ (last = 0 <=> c[GKey] = <<>>)
      /\ (last # 0 => last = c[GKey][Len(c[GKey])])
  <2>1. Len(c[GKey]) \in Nat /\ (Len(c[GKey]) = 0 <=> c[GKey] = <<>>)
    BY <1>2, <1>4, PathIs
  <2>2. c[GKey] # <<>> => c[GKey][Len(c[GKey])] \in 1 .. n
    BY <1>2, <1>4, NoHead
  <2>3. n \in Nat
    BY DEF IsMemory
  <2> QED
    BY <1>5, <2>1, <2>2, <2>3 DEF OfG
<1>8. PICK M2 : M2 = [M EXCEPT ![i] = 0]
  OBVIOUS
<1>9. PICK S2 : S2 = [S EXCEPT ![i] = <<>>]
  OBVIOUS
<1>10. PICK next2 : next2 = IF last # 0 THEN [next EXCEPT ![last] = M[i]] ELSE next
  OBVIOUS
<1>11. \E f2, c2 : /\ Owned(next2, Keys, f2, c2, gone)
                   /\ Empty(f2, c2, k) /\ Others(Keys, f, c, f2, c2, k, GKey)
                   /\ OfG(f2, c2, IF last = 0 THEN M[i] ELSE first, S[i][Len(S[i])])
  <2>1. CASE last = 0
    <3>1. Empty(f, c, GKey)
      BY <1>2, <1>4, <1>7, <2>1, NoHead DEF Empty
    <3>2. PICK f2, c2 : Handed(Keys, f, c, f2, c2, k, GKey)
      BY <1>4, Done
    <3>3. Owned(next, Keys, f2, c2, gone)
      BY <1>1, <1>4, <3>1, <3>2, HandOver
    <3>4. f2[GKey] = M[i] /\ c2[GKey] = c[k] /\ Empty(f2, c2, k)
          /\ Others(Keys, f, c, f2, c2, k, GKey)
      BY <1>5, <3>2 DEF Handed
    <3>5. OfG(f2, c2, IF last = 0 THEN M[i] ELSE first, S[i][Len(S[i])])
      BY <1>5, <1>6, <2>1, <3>4 DEF OfG
    <3> QED
      BY <1>10, <2>1, <3>3, <3>4, <3>5
  <2>2. CASE last # 0
    <3>1. PICK f2, c2 : Joined(Keys, f, c, f2, c2, k, GKey)
      BY <1>4, Done
    <3>2. Relinked(next, next2, last, f[k])
      <4>1. next2 = [next EXCEPT ![last] = M[i]]
        BY <1>10, <2>2
      <4>2. last \in DOMAIN next
        BY <1>2, <1>4, <1>7, <2>2, NoHead DEF IsMemory
      <4> QED
        BY <1>5, <4>1, <4>2 DEF Relinked
    <3>3. Relinked(next, next2, c[GKey][Len(c[GKey])], f[k]) /\ c[GKey] # <<>>
      BY <1>7, <2>2, <3>2
    <3>4. Owned(next2, Keys, f2, c2, gone)
      BY <1>1, <1>4, <3>1, <3>3, Join
    <3>5. f2[GKey] = first /\ c2[GKey] = c[GKey] \o c[k] /\ Empty(f2, c2, k)
          /\ Others(Keys, f, c, f2, c2, k, GKey)
      BY <1>5, <3>1 DEF Joined, OfG
    <3>6. Len(c2[GKey]) # 0 /\ c2[GKey][Len(c2[GKey])] = c[k][Len(c[k])]
      <4>1. PICK p : p = c[GKey]
        OBVIOUS
      <4>2. PICK q : q = c[k]
        OBVIOUS
      <4>3. p \in Seq(DOMAIN next) /\ q \in Seq(DOMAIN next)
        BY <1>2, <1>4, <4>1, <4>2, PathIs
      <4>4. /\ Len(p \o q) = Len(p) + Len(q)
            /\ \A j \in 1 .. Len(p) + Len(q) :
                 (p \o q)[j] = IF j <= Len(p) THEN p[j] ELSE q[j - Len(p)]
        BY <4>3, ConcatProperties
      <4>5. PICK a \in Nat : a = Len(p)
        BY <1>7, <4>1
      <4>6. PICK b \in Nat \ {0} : b = Len(q)
        BY <1>6, <4>2
      <4>7. a + b \in 1 .. a + b /\ ~ (a + b <= a) /\ (a + b) - a = b /\ a + b # 0
        OBVIOUS
      <4>8. Len(p \o q) = a + b /\ (p \o q)[a + b] = q[b]
        BY <4>4, <4>5, <4>6, <4>7
      <4> QED
        BY <3>5, <4>1, <4>2, <4>6, <4>7, <4>8
    <3>7. OfG(f2, c2, IF last = 0 THEN M[i] ELSE first, S[i][Len(S[i])])
      BY <1>5, <2>2, <3>5, <3>6 DEF OfG
    <3> QED
      BY <3>4, <3>5, <3>7
  <2> QED
    BY <2>1, <2>2
<1>12. PICK f2, c2 : /\ Owned(next2, Keys, f2, c2, gone)
                     /\ Empty(f2, c2, k) /\ Others(Keys, f, c, f2, c2, k, GKey)
                     /\ OfG(f2, c2, IF last = 0 THEN M[i] ELSE first, S[i][Len(S[i])])
  BY <1>11
<1>13. OfPool(f2, B) /\ OfHelpers(f2, H) /\ OfEngines(c2, E) /\ Empty(f2, c2, SpareKey)
  BY <1>1, <1>4, <1>12, OthersHold
<1>14. OfSlots(f2, c2, M2, S2)
  BY <1>3, <1>4, <1>5, <1>8, <1>9, <1>12, SlotEmptied
<1>15. Stock(next2, gone, B, H, E, M2, S2,
             IF last = 0 THEN M[i] ELSE first, S[i][Len(S[i])])
  BY <1>12, <1>13, <1>14 DEF Stock, Holds
<1> QED
  BY <1>8, <1>9, <1>10, <1>15

\* Two changes by way of a holder m that is as before afterwards.
LEMMA OthersTwice ==
  ASSUME NEW f, NEW c, NEW f1, NEW c1, NEW f2, NEW c2, NEW k, NEW l, NEW m,
         Others(Keys, f, c, f1, c1, k, m), Others(Keys, f1, c1, f2, c2, m, l),
         f2[m] = f[m], c2[m] = c[m]
  PROVE  Others(Keys, f, c, f2, c2, k, l)
<1> SUFFICES ASSUME NEW x \in Keys, x # k, x # l
             PROVE  c2[x] = c[x] /\ f2[x] = f[x]
  BY DEF Others
<1>1. CASE x = m
  BY <1>1
<1>2. CASE x # m
  BY <1>2 DEF Others
<1> QED
  BY <1>1, <1>2

\* The memory after an event is cut off its chain and linked to the one before.
SentNext(next, event, before) ==
  [x \in DOMAIN next |->
     IF x = event THEN 0
     ELSE IF before # <<>> /\ x = Tail_(before) THEN event
     ELSE next[x]]

\* An engine sends an event.
LEMMA Sent ==
  ASSUME NEW next, NEW n, IsMemory(next, n), NEW gone,
         NEW B, NEW H, NEW E, NEW M, NEW S, NEW first, NEW last,
         Stock(next, gone, B, H, E, M, S, first, last),
         NEW h \in Helpers, DOMAIN H = Helpers, H[h] # 0,
         NEW e \in Engines, DOMAIN E = Engines
  PROVE  Stock(SentNext(next, H[h], E[e]), gone, B, [H EXCEPT ![h] = next[H[h]]],
               [E EXCEPT ![e] = Append(E[e], H[h])], M, S, first, last)
<1>1. PICK f, c : Owned(next, Keys, f, c, gone) /\ Holds(f, c, B, H, E, M, S, first, last)
  BY DEF Stock
<1>2. \A y \in Keys : IsPath(next, f[y], c[y])
  BY <1>1 DEF Owned, Paths
<1>3. PICK k : k = HelperKey(h)
  OBVIOUS
<1>4. PICK l : l = EngineKey(e)
  OBVIOUS
<1>5. PICK m : m = SpareKey
  OBVIOUS
<1>6. /\ k \in Keys /\ l \in Keys /\ m \in Keys
      /\ k[1] = "helper" /\ l[1] = "engine" /\ m[1] = "spare"
      /\ k # l /\ k # m /\ m # l
  BY <1>3, <1>4, <1>5, KeysAre
<1>7. PICK event : event = H[h]
  OBVIOUS
<1>8. f[k] = event /\ event # 0 /\ c[l] = E[e] /\ Empty(f, c, m)
  BY <1>1, <1>3, <1>4, <1>5, <1>7 DEF Holds, OfHelpers, OfEngines
<1>9. c[k] # <<>>
  BY <1>2, <1>6, <1>8, NoHead
<1>10. event = c[k][1] /\ 1 \in 1 .. Len(c[k]) /\ event \in DOMAIN next
  <2>1. event = c[k][1] /\ Len(c[k]) \in Nat \ {0}
    BY <1>2, <1>6, <1>8, <1>9, PathIs
  <2>2. 1 \in 1 .. Len(c[k])
    BY <2>1
  <2> QED
    BY <1>2, <1>6, <2>1, <2>2, PathIs
<1>11. PICK next1 : next1 = [next EXCEPT ![event] = 0]
  OBVIOUS
<1>12. Relinked(next, next1, f[k], 0) /\ DOMAIN next1 = DOMAIN next
  BY <1>8, <1>10, <1>11 DEF Relinked
<1>13. PICK f1, c1 : Cut(next, Keys, f, c, f1, c1, k, m)
  BY <1>6, Done
<1>14. Owned(next1, Keys, f1, c1, gone)
  BY <1>1, <1>6, <1>8, <1>9, <1>12, <1>13, CutOff
<1>15. /\ f1[m] = event /\ c1[m] = <<event>> /\ f1[k] = next[event]
       /\ Others(Keys, f, c, f1, c1, k, m)
  BY <1>8, <1>13 DEF Cut
<1>16. c1[l] = E[e] /\ f1[l] = f[l]
  BY <1>6, <1>8, <1>15 DEF Others
<1>17. E[e] \in Seq(DOMAIN next)
  <2>1. c[l] \in Seq(DOMAIN next)
    BY <1>2, <1>6, PathIs
  <2> QED
    BY <1>8, <2>1
<1>18. PICK next2 : next2 = SentNext(next, event, E[e])
  OBVIOUS
<1>19. \E f2, c2 : /\ Owned(next2, Keys, f2, c2, gone)
                   /\ c2[l] = Append(E[e], event) /\ Empty(f2, c2, m)
                   /\ Others(Keys, f1, c1, f2, c2, m, l)
  <2>1. CASE E[e] = <<>>
    <3>1. next2 = next1
      BY <1>10, <1>11, <1>18, <2>1 DEF SentNext
    <3>2. Empty(f1, c1, l)
      <4>1. f[l] = 0
        BY <1>2, <1>6, <1>8, <2>1, NoHead
      <4> QED
        BY <1>16, <2>1, <4>1 DEF Empty
    <3>3. PICK f2, c2 : Handed(Keys, f1, c1, f2, c2, m, l)
      BY <1>6, Done
    <3>4. Owned(next1, Keys, f2, c2, gone)
      BY <1>6, <1>14, <3>2, <3>3, HandOver
    <3>5. c2[l] = <<event>> /\ Empty(f2, c2, m) /\ Others(Keys, f1, c1, f2, c2, m, l)
      BY <1>15, <3>3 DEF Handed
    <3>6. Append(E[e], event) = <<event>>
      BY <2>1
    <3> QED
      BY <3>1, <3>4, <3>5, <3>6
  <2>2. CASE E[e] # <<>>
    <3>1. PICK t : t = c1[l][Len(c1[l])]
      OBVIOUS
    <3>2. t = E[e][Len(E[e])] /\ t = Tail_(E[e])
      BY <1>16, <3>1 DEF Tail_
    <3>3. t \in DOMAIN next /\ t # event
      <4>1. c[l] # <<>> /\ t = c[l][Len(c[l])]
        BY <1>8, <2>2, <3>2
      <4>2. Len(c[l]) \in 1 .. Len(c[l])
        BY <1>2, <1>6, <4>1, PathIs
      <4>3. t \in DOMAIN next
        BY <1>2, <1>6, <4>1, <4>2, PathIs
      <4>4. PICK at, pos : Places(next, Keys, c, gone, at, pos)
        BY <1>1 DEF Owned
      <4>5. at[t] = l
        BY <1>6, <4>1, <4>2, <4>4 DEF Places
      <4>6. at[event] = k
        BY <1>6, <1>10, <4>4 DEF Places
      <4> QED
        BY <1>6, <4>3, <4>5, <4>6
    <3>4. Relinked(next1, next2, t, f1[m])
      <4>1. next2 = [x \in DOMAIN next |->
                       IF x = event THEN 0 ELSE IF x = t THEN event ELSE next[x]]
        BY <1>18, <2>2, <3>2 DEF SentNext
      <4>2. DOMAIN next2 = DOMAIN next1 /\ next2[t] = event
        BY <1>12, <3>3, <4>1
      <4>3. \A x \in DOMAIN next1 : x # t => next2[x] = next1[x]
        BY <1>11, <1>12, <4>1
      <4> QED
        BY <1>15, <4>2, <4>3 DEF Relinked
    <3>5. PICK f2, c2 : Joined(Keys, f1, c1, f2, c2, m, l)
      BY <1>6, Done
    <3>6. c1[l] # <<>> /\ Relinked(next1, next2, c1[l][Len(c1[l])], f1[m])
      BY <1>16, <2>2, <3>1, <3>4
    <3>7. Owned(next2, Keys, f2, c2, gone)
      BY <1>6, <1>14, <3>5, <3>6, Join
    <3>8. c2[l] = c1[l] \o c1[m] /\ Empty(f2, c2, m) /\ Others(Keys, f1, c1, f2, c2, m, l)
      BY <3>5 DEF Joined
    <3>9. Append(E[e], event) = E[e] \o <<event>>
      BY <1>10, <1>17, AppendIsConcat
    <3>10. c2[l] = Append(E[e], event)
      BY <1>15, <1>16, <3>8, <3>9
    <3> QED
      BY <3>7, <3>8, <3>10
  <2> QED
    BY <2>1, <2>2
<1>20. PICK f2, c2 : /\ Owned(next2, Keys, f2, c2, gone)
                     /\ c2[l] = Append(E[e], event) /\ Empty(f2, c2, m)
                     /\ Others(Keys, f1, c1, f2, c2, m, l)
  BY <1>19
<1>21. f2[m] = f[m] /\ c2[m] = c[m]
  BY <1>8, <1>20 DEF Empty
<1>22. Others(Keys, f, c, f2, c2, k, l)
  BY <1>15, <1>20, <1>21, OthersTwice
<1>23. f2[k] = next[event]
  BY <1>6, <1>15, <1>20 DEF Others
<1>24. OfPool(f2, B) /\ OfSlots(f2, c2, M, S) /\ OfG(f2, c2, first, last)
  BY <1>1, <1>6, <1>22, OthersHold
<1>25. Empty(f2, c2, SpareKey)
  BY <1>5, <1>20
<1>26. PICK H2 : H2 = [H EXCEPT ![h] = next[event]]
  OBVIOUS
<1>27. OfHelpers(f2, H2)
  <2> SUFFICES ASSUME NEW y \in Helpers PROVE f2[HelperKey(y)] = H2[y]
    BY DEF OfHelpers
  <2>1. CASE y = h
    BY <1>3, <1>23, <1>26, <2>1
  <2>2. CASE y # h
    <3>1. HelperKey(y) \in Keys /\ HelperKey(y) # k /\ HelperKey(y) # l
      BY <1>3, <1>6, <2>2, KeysAre
    <3>2. f2[HelperKey(y)] = f[HelperKey(y)]
      BY <1>22, <3>1 DEF Others
    <3>3. f[HelperKey(y)] = H[y]
      BY <1>1 DEF Holds, OfHelpers
    <3> QED
      BY <1>26, <2>2, <3>2, <3>3
  <2> QED
    BY <2>1, <2>2
<1>28. PICK E2 : E2 = [E EXCEPT ![e] = Append(E[e], event)]
  OBVIOUS
<1>29. OfEngines(c2, E2)
  <2> SUFFICES ASSUME NEW y \in Engines PROVE c2[EngineKey(y)] = E2[y]
    BY DEF OfEngines
  <2>1. CASE y = e
    BY <1>4, <1>20, <1>28, <2>1
  <2>2. CASE y # e
    <3>1. EngineKey(y) \in Keys /\ EngineKey(y) # k /\ EngineKey(y) # l
      BY <1>4, <1>6, <2>2, KeysAre
    <3>2. c2[EngineKey(y)] = c[EngineKey(y)]
      BY <1>22, <3>1 DEF Others
    <3>3. c[EngineKey(y)] = E[y]
      BY <1>1 DEF Holds, OfEngines
    <3> QED
      BY <1>28, <2>2, <3>2, <3>3
  <2> QED
    BY <2>1, <2>2
<1>30. Stock(next2, gone, B, H2, E2, M, S, first, last)
  BY <1>20, <1>24, <1>25, <1>27, <1>29 DEF Stock, Holds
<1> QED
  BY <1>7, <1>18, <1>26, <1>28, <1>30

\* What an engine has sent is hung on the command in a slot, before what hangs there.
LEMMA Hung ==
  ASSUME NEW next, NEW n, IsMemory(next, n), NEW gone,
         NEW B, NEW H, NEW E, NEW M, NEW S, NEW first, NEW last,
         Stock(next, gone, B, H, E, M, S, first, last),
         NEW i \in Slots, DOMAIN M = Slots, DOMAIN S = Slots,
         NEW e \in Engines, DOMAIN E = Engines, E[e] # <<>>
  PROVE  Stock([next EXCEPT ![Tail_(E[e])] = M[i]], gone, B, H, [E EXCEPT ![e] = <<>>],
               [M EXCEPT ![i] = E[e][1]], [S EXCEPT ![i] = E[e] \o S[i]], first, last)
<1>1. PICK f, c : Owned(next, Keys, f, c, gone) /\ Holds(f, c, B, H, E, M, S, first, last)
  BY DEF Stock
<1>2. \A y \in Keys : IsPath(next, f[y], c[y])
  BY <1>1 DEF Owned, Paths
<1>3. PICK k : k = SlotKey(i)
  OBVIOUS
<1>4. PICK l : l = EngineKey(e)
  OBVIOUS
<1>5. k \in Keys /\ l \in Keys /\ k[1] = "slot" /\ l[1] = "engine" /\ k # l
  BY <1>3, <1>4, KeysAre
<1>6. f[k] = M[i] /\ c[k] = S[i] /\ c[l] = E[e] /\ c[l] # <<>>
  BY <1>1, <1>3, <1>4 DEF Holds, OfSlots, OfEngines
<1>7. f[l] = E[e][1]
  BY <1>2, <1>5, <1>6, PathIs
<1>8. PICK next2 : next2 = [next EXCEPT ![Tail_(E[e])] = M[i]]
  OBVIOUS
<1>9. Relinked(next, next2, c[l][Len(c[l])], f[k])
  <2>1. Len(c[l]) \in 1 .. Len(c[l])
    BY <1>2, <1>5, <1>6, PathIs
  <2>2. c[l][Len(c[l])] \in DOMAIN next
    BY <1>2, <1>5, <2>1, PathIs
  <2>3. Tail_(E[e]) = c[l][Len(c[l])]
    BY <1>6 DEF Tail_
  <2> QED
    BY <1>6, <1>8, <2>2, <2>3 DEF Relinked
<1>10. PICK f1, c1 : Joined(Keys, f, c, f1, c1, k, l)
  BY <1>5, Done
<1>11. Owned(next2, Keys, f1, c1, gone)
  BY <1>1, <1>5, <1>6, <1>9, <1>10, Join
<1>12. f1[l] = E[e][1] /\ c1[l] = E[e] \o S[i] /\ Empty(f1, c1, k)
       /\ Others(Keys, f, c, f1, c1, k, l)
  BY <1>6, <1>7, <1>10 DEF Joined
<1>13. PICK f2, c2 : Handed(Keys, f1, c1, f2, c2, l, k)
  BY <1>5, Done
<1>14. Owned(next2, Keys, f2, c2, gone)
  BY <1>5, <1>11, <1>12, <1>13, HandOver
<1>15. f2[k] = E[e][1] /\ c2[k] = E[e] \o S[i] /\ c2[l] = <<>>
       /\ Others(Keys, f1, c1, f2, c2, l, k)
  BY <1>12, <1>13 DEF Handed, Empty
<1>16. Others(Keys, f, c, f2, c2, k, l)
  BY <1>12, <1>15 DEF Others
<1>17. OfPool(f2, B) /\ OfHelpers(f2, H) /\ OfG(f2, c2, first, last) /\ Empty(f2, c2, SpareKey)
  BY <1>1, <1>5, <1>16, OthersHold
<1>18. PICK E2 : E2 = [E EXCEPT ![e] = <<>>]
  OBVIOUS
<1>19. OfEngines(c2, E2)
  <2> SUFFICES ASSUME NEW y \in Engines PROVE c2[EngineKey(y)] = E2[y]
    BY DEF OfEngines
  <2>1. CASE y = e
    BY <1>4, <1>15, <1>18, <2>1
  <2>2. CASE y # e
    <3>1. EngineKey(y) \in Keys /\ EngineKey(y) # k /\ EngineKey(y) # l
      BY <1>4, <1>5, <2>2, KeysAre
    <3>2. c2[EngineKey(y)] = c[EngineKey(y)]
      BY <1>16, <3>1 DEF Others
    <3>3. c[EngineKey(y)] = E[y]
      BY <1>1 DEF Holds, OfEngines
    <3> QED
      BY <1>18, <2>2, <3>2, <3>3
  <2> QED
    BY <2>1, <2>2
<1>20. PICK M2 : M2 = [M EXCEPT ![i] = E[e][1]]
  OBVIOUS
<1>21. PICK S2 : S2 = [S EXCEPT ![i] = E[e] \o S[i]]
  OBVIOUS
<1>22. OfSlots(f2, c2, M2, S2)
  <2> SUFFICES ASSUME NEW y \in Slots
               PROVE  f2[SlotKey(y)] = M2[y] /\ c2[SlotKey(y)] = S2[y]
    BY DEF OfSlots
  <2>1. CASE y = i
    BY <1>3, <1>15, <1>20, <1>21, <2>1
  <2>2. CASE y # i
    <3>1. SlotKey(y) \in Keys /\ SlotKey(y) # k /\ SlotKey(y) # l
      BY <1>3, <1>5, <2>2, KeysAre
    <3>2. f2[SlotKey(y)] = f[SlotKey(y)] /\ c2[SlotKey(y)] = c[SlotKey(y)]
      BY <1>16, <3>1 DEF Others
    <3>3. f[SlotKey(y)] = M[y] /\ c[SlotKey(y)] = S[y]
      BY <1>1 DEF Holds, OfSlots
    <3> QED
      BY <1>20, <1>21, <2>2, <3>2, <3>3
  <2> QED
    BY <2>1, <2>2
<1>23. Stock(next2, gone, B, H, E2, M2, S2, first, last)
  BY <1>14, <1>17, <1>19, <1>22 DEF Stock, Holds
<1> QED
  BY <1>8, <1>18, <1>20, <1>21, <1>23

-----------------------------------------------------------------------------
(***************************************************************************)
(* The initial pool.                                                       *)
(***************************************************************************)

\* Multiples of the length of a chain.
LEMMA Multiples ==
  ASSUME NEW length \in Nat \ {0}
  PROVE  /\ \A q \in Nat : q * length \in Nat /\ (q + 1) * length = q * length + length
         /\ \A q, p \in Nat : q < p => q * length + length <= p * length
         /\ \A q, p \in Nat : \A j \in 1 .. length :
              q * length + j = p * length <=> j = length /\ p = q + 1
         /\ 0 * length = 0
<1>1. ASSUME NEW q \in Nat
      PROVE  q * length \in Nat /\ (q + 1) * length = q * length + length
  BY ProductIsNat, Distributive
<1>2. ASSUME NEW q \in Nat, NEW p \in Nat, q < p
      PROVE  q * length + length <= p * length
  <2>1. PICK d \in Nat : d = p - (q + 1) /\ p = (q + 1) + d
    BY <1>2
  <2>2. PICK a \in Nat : a = q * length
    BY <1>1
  <2>3. PICK b \in Nat : b = d * length
    BY <1>1
  <2>4. p * length = (q + 1) * length + d * length
    BY <2>1, Distributive
  <2>5. (q + 1) * length = a + length
    BY <1>1, <2>2
  <2>6. p * length = (a + length) + b
    BY <2>3, <2>4, <2>5
  <2>7. a + length <= (a + length) + b
    OBVIOUS
  <2> QED
    BY <2>2, <2>6, <2>7
<1>3. ASSUME NEW q \in Nat, NEW p \in Nat, NEW j \in 1 .. length
      PROVE  q * length + j = p * length <=> j = length /\ p = q + 1
  <2>1. PICK a \in Nat : a = q * length
    BY <1>1
  <2>2. PICK b \in Nat : b = p * length
    BY <1>1
  <2>3. CASE p = q + 1
    <3>1. b = a + length
      BY <1>1, <2>1, <2>2, <2>3
    <3> QED
      BY <2>1, <2>2, <2>3, <3>1
  <2>4. CASE p < q + 1
    <3>1. b <= a
      <4>1. p = q \/ p < q
        BY <2>4
      <4>2. p < q => b + length <= a
        BY <1>2, <2>1, <2>2
      <4>3. p = q => b = a
        BY <2>1, <2>2
      <4> QED
        BY <4>1, <4>2, <4>3
    <3> QED
      BY <2>1, <2>2, <2>4, <3>1
  <2>5. CASE q + 1 < p
    <3>1. (q + 1) * length + length <= b /\ (q + 1) * length = a + length
      BY <1>1, <1>2, <2>2, <2>1, <2>5
    <3>2. (a + length) + length <= b
      BY <3>1
    <3>3. a + j # b
      BY <3>2
    <3> QED
      BY <2>1, <2>2, <2>5, <3>3
  <2> QED
    BY <2>3, <2>4, <2>5
<1> QED
  BY <1>1, <1>2, <1>3

\* The first i chains of the pool, and their heads.
FirstEvents(i) ==
  [e \in 1 .. i * ChainLength |->
     IF e \in {q * ChainLength : q \in 1 .. PoolInitialSize} THEN 0 ELSE e + 1]

FirstHeads(i) == {1 + q * ChainLength : q \in 0 .. i - 1}

\* With each chain the memory is extended.
LEMMA FirstExtended ==
  ASSUME NEW i \in Nat, i < PoolInitialSize
  PROVE  /\ i * ChainLength \in Nat
         /\ Extended(FirstEvents(i), FirstEvents(i + 1), i * ChainLength, ChainLength)
<1>1. ChainLength \in Nat \ {0} /\ PoolInitialSize \in Nat
  BY PoolAssumption
<1>2. PICK n \in Nat : n = i * ChainLength
  BY <1>1, Multiples
<1>3. (i + 1) * ChainLength = n + ChainLength
  BY <1>1, <1>2, Multiples
<1>4. PICK last : last = {q * ChainLength : q \in 1 .. PoolInitialSize}
  OBVIOUS
<1>5. PICK next : next = FirstEvents(i)
  OBVIOUS
<1>6. PICK next2 : next2 = FirstEvents(i + 1)
  OBVIOUS
<1>7. next = [e \in 1 .. n |-> IF e \in last THEN 0 ELSE e + 1]
  BY <1>2, <1>4, <1>5 DEF FirstEvents
<1>8. next2 = [e \in 1 .. n + ChainLength |-> IF e \in last THEN 0 ELSE e + 1]
  BY <1>3, <1>4, <1>6 DEF FirstEvents
<1>9. \A e \in 1 .. n : e \in 1 .. n + ChainLength /\ next2[e] = next[e]
  BY <1>1, <1>7, <1>8
<1>10. ASSUME NEW j \in 1 .. ChainLength
       PROVE  next2[n + j] = IF j = ChainLength THEN 0 ELSE n + j + 1
  <2>1. n + j \in 1 .. n + ChainLength
    BY <1>1
  <2>2. n + j \in last <=> j = ChainLength
    <3>1. \A q \in 1 .. PoolInitialSize :
            n + j = q * ChainLength <=> j = ChainLength /\ q = i + 1
      BY <1>1, <1>2, Multiples
    <3>2. i + 1 \in 1 .. PoolInitialSize
      BY <1>1
    <3> QED
      BY <1>4, <3>1, <3>2
  <2> QED
    BY <1>8, <2>1, <2>2
<1>11. IsMemory(next, n) /\ DOMAIN next2 = 1 .. n + ChainLength
  BY <1>7, <1>8 DEF IsMemory
<1>12. Extended(next, next2, n, ChainLength)
  BY <1>9, <1>10, <1>11 DEF Extended
<1> QED
  BY <1>2, <1>5, <1>6, <1>12

\* The pool has the first i chains, and nobody else has one.
Filled(i) ==
  \E f, c : /\ Owned(FirstEvents(i), Keys, f, c, {}) /\ OfPool(f, FirstHeads(i))
            /\ \A k \in Keys : k[1] # "pool" => Empty(f, c, k)

\* That is so for all of them.
LEMMA PoolFilled ==
  \A i \in 0 .. PoolInitialSize : Filled(i)
<1>1. ChainLength \in Nat \ {0} /\ PoolInitialSize \in Nat
  BY PoolAssumption
<1>2. Filled(0)
  <2>1. PICK f : f = [k \in Keys |-> 0]
    OBVIOUS
  <2>2. PICK c : c = [k \in Keys |-> <<>>]
    OBVIOUS
  <2>3. \A k \in Keys : f[k] = 0 /\ c[k] = <<>> /\ Len(c[k]) = 0
    BY <2>1, <2>2, EmptySeq
  <2>4. DOMAIN FirstEvents(0) = {}
    <3>1. 0 * ChainLength = 0
      BY <1>1, Multiples
    <3> QED
      BY <3>1 DEF FirstEvents
  <2>5. Places(FirstEvents(0), Keys, c, {}, f, f)
    BY <2>3, <2>4 DEF Places
  <2>6. Paths(FirstEvents(0), Keys, f, c)
    BY <2>3, EmptyPath DEF Paths
  <2>7. OfPool(f, FirstHeads(0))
    <3>1. FirstHeads(0) = {}
      BY DEF FirstHeads
    <3> QED
      BY <2>3, <3>1, KeysAre DEF OfPool
  <2>8. \A k \in Keys : Empty(f, c, k)
    BY <2>3 DEF Empty
  <2> QED
    BY <2>5, <2>6, <2>7, <2>8 DEF Filled, Owned
<1>3. ASSUME NEW i \in 0 .. PoolInitialSize - 1, Filled(i) PROVE Filled(i + 1)
  <2>1. i \in Nat /\ i < PoolInitialSize
    BY <1>1
  <2>2. PICK n \in Nat : n = i * ChainLength
    BY <2>1, FirstExtended
  <2>3. PICK next : next = FirstEvents(i)
    OBVIOUS
  <2>4. PICK next2 : next2 = FirstEvents(i + 1)
    OBVIOUS
  <2>5. Extended(next, next2, n, ChainLength)
    BY <2>1, <2>2, <2>3, <2>4, FirstExtended
  <2>6. PICK f, c : /\ Owned(next, Keys, f, c, {}) /\ OfPool(f, FirstHeads(i))
                    /\ \A k \in Keys : k[1] # "pool" => Empty(f, c, k)
    BY <1>3, <2>3 DEF Filled
  <2>7. PICK l : l = PoolKey(n + 1)
    OBVIOUS
  <2>8. n + 1 \in Nat \ {0} /\ l \in Keys /\ l[1] = "pool"
    BY <2>7, KeysAre
  <2>9. n + 1 \notin FirstHeads(i)
    <3>1. ASSUME NEW q \in 0 .. i - 1 PROVE n + 1 # 1 + q * ChainLength
      <4>1. q \in Nat /\ q < i
        BY <2>1
      <4>2. PICK a \in Nat : a = q * ChainLength
        BY <1>1, <4>1, Multiples
      <4>3. a + ChainLength <= n
        BY <1>1, <2>1, <2>2, <4>1, <4>2, Multiples
      <4>4. n + 1 # 1 + a
        BY <1>1, <4>3
      <4> QED
        BY <4>2, <4>4
    <3> QED
      BY <3>1 DEF FirstHeads
  <2>10. Empty(f, c, l)
    <3>1. f[l] = 0
      BY <2>6, <2>7, <2>8, <2>9 DEF OfPool
    <3>2. IsPath(next, f[l], c[l]) /\ IsMemory(next, n)
      BY <2>5, <2>6, <2>8 DEF Owned, Paths, Extended
    <3> QED
      BY <3>1, <3>2, NoHead DEF Empty
  <2>11. PICK f2 : f2 = [k \in Keys |-> IF k = l THEN n + 1 ELSE f[k]]
    OBVIOUS
  <2>12. PICK c2 : c2 = [k \in Keys |-> IF k = l THEN Fresh(n, ChainLength) ELSE c[k]]
    OBVIOUS
  <2>13. \A k \in Keys : k # l => f2[k] = f[k] /\ c2[k] = c[k]
    BY <2>11, <2>12
  <2>14. f2[l] = n + 1 /\ c2[l] = Fresh(n, ChainLength)
    BY <2>8, <2>11, <2>12
  <2>15. Created(Keys, f, c, f2, c2, l, n, ChainLength)
    BY <2>13, <2>14 DEF Created, Others
  <2>16. Owned(next2, Keys, f2, c2, {})
    BY <1>1, <2>5, <2>6, <2>8, <2>10, <2>15, Create
  <2>17. \A k \in Keys : k[1] # "pool" => Empty(f2, c2, k)
    BY <2>6, <2>8, <2>13 DEF Empty
  <2>18. PICK B : B = FirstHeads(i)
    OBVIOUS
  <2>19. PICK B2 : B2 = FirstHeads(i + 1)
    OBVIOUS
  <2>20. \A x : x \in B2 <=> x \in B \/ x = n + 1
    <3>1. \A q : q \in 0 .. (i + 1) - 1 <=> q \in 0 .. i - 1 \/ q = i
      BY <2>1
    <3>2. 1 + n = n + 1
      OBVIOUS
    <3> QED
      BY <2>2, <2>18, <2>19, <3>1, <3>2 DEF FirstHeads
  <2>21. OfPool(f2, B2)
    <3>1. \A x \in B : x \in Nat \ {0}
      BY <2>6, <2>18 DEF OfPool
    <3>2. \A x \in B2 : x \in Nat \ {0}
      BY <2>8, <2>20, <3>1
    <3>3. ASSUME NEW x \in Nat \ {0} PROVE f2[PoolKey(x)] = IF x \in B2 THEN x ELSE 0
      <4>1. CASE x = n + 1
        BY <2>7, <2>14, <2>20, <4>1
      <4>2. CASE x # n + 1
        <5>1. PoolKey(x) \in Keys /\ PoolKey(x) # l
          BY <2>7, <2>8, <4>2, KeysAre
        <5>2. f2[PoolKey(x)] = f[PoolKey(x)]
          BY <2>13, <5>1
        <5>3. f[PoolKey(x)] = IF x \in B THEN x ELSE 0
          BY <2>6, <2>18 DEF OfPool
        <5>4. x \in B2 <=> x \in B
          BY <2>20, <4>2
        <5> QED
          BY <5>2, <5>3, <5>4
      <4> QED
        BY <4>1, <4>2
    <3> QED
      BY <3>2, <3>3 DEF OfPool
  <2> QED
    BY <2>4, <2>16, <2>17, <2>19, <2>21 DEF Filled
<1> DEFINE S == {i \in 0 .. PoolInitialSize : Filled(i)}
<1>4. 0 \in S
  BY <1>1, <1>2
<1>5. ASSUME NEW i \in 0 .. PoolInitialSize - 1, i \in S PROVE i + 1 \in S
  <2>1. i + 1 \in 0 .. PoolInitialSize
    BY <1>1
  <2> QED
    BY <1>3, <1>5, <2>1
<1> HIDE DEF S
<1>6. \A i \in 0 .. PoolInitialSize : i \in S
  BY <1>1, <1>4, <1>5, InductionOverInterval
<1> QED
  BY <1>6 DEF S

-----------------------------------------------------------------------------
(***************************************************************************)
(* The invariant: the memory is what the holders have between them.        *)
(***************************************************************************)
IsFunction(f, S) == f = [x \in S |-> f[x]]

Types ==
  /\ \E n : IsMemory(nextEvent, n)
  /\ \A e \in dropped : e \in DOMAIN nextEvent
  /\ IsFunction(eventsChainHead, Helpers) /\ IsFunction(sending, Engines)
  /\ IsFunction(matcherEvent, Slots) /\ IsFunction(sent, Slots)
  /\ gSeq \in Int /\ engineSeq \in [Engines -> Int]

Stocked ==
  Stock(nextEvent, dropped, eventChainsBuffer, eventsChainHead, sending,
        matcherEvent, sent, tradeEvents.head, tradeEvents.tail)

Inv == Types /\ Stocked

\* Functions have their domains.
LEMMA Domains ==
  ASSUME Types
  PROVE  /\ DOMAIN eventsChainHead = Helpers /\ DOMAIN sending = Engines
         /\ DOMAIN matcherEvent = Slots /\ DOMAIN sent = Slots
<1>1. \A f, S : IsFunction(f, S) => DOMAIN f = S
  BY DEF IsFunction
<1> QED
  BY <1>1 DEF Types

\* A function stays one when a value of it is replaced.
LEMMA StaysFunction ==
  ASSUME NEW f, NEW S, IsFunction(f, S), NEW x, NEW v, NEW g, g = [f EXCEPT ![x] = v]
  PROVE  IsFunction(g, S)
  BY DEF IsFunction

\* Replacing a value of a function by itself changes nothing.
LEMMA ReplacedBySame ==
  ASSUME NEW f, NEW S, IsFunction(f, S), NEW x, NEW v, f[x] = v
  PROVE  [f EXCEPT ![x] = v] = f
  BY DEF IsFunction

\* Every sequence number has a slot.
LEMMA SlotOf ==
  ASSUME NEW m \in Int
  PROVE  Slot(m) \in Slots
<1>1. PICK n \in Nat \ {0} : n = RingSize
  BY PoolAssumption
<1>2. m % n \in 0 .. n - 1
  OBVIOUS
<1> QED
  BY <1>1, <1>2 DEF Slot, Slots

\* It holds initially.
LEMMA InitInv ==
  ASSUME Init
  PROVE  Inv
<1>1. ChainLength \in Nat \ {0} /\ PoolInitialSize \in Nat
  BY PoolAssumption
<1>2. PICK n \in Nat : n = PoolInitialSize * ChainLength
  BY <1>1, Multiples
<1>3. nextEvent = FirstEvents(PoolInitialSize)
  BY DEF Init, FirstEvents
<1>4. eventChainsBuffer = FirstHeads(PoolInitialSize)
  BY DEF Init, FirstHeads
<1>5. Types
  <2>1. DOMAIN nextEvent = 1 .. n
    BY <1>2, <1>3 DEF FirstEvents
  <2>2. IsMemory(nextEvent, n)
    BY <2>1 DEF IsMemory
  <2>3. engineSeq \in [Engines -> Int]
    BY DEF Init
  <2>4. \E i : IsMemory(nextEvent, i)
    BY <2>2
  <2>5. /\ IsFunction(eventsChainHead, Helpers) /\ IsFunction(sending, Engines)
        /\ IsFunction(matcherEvent, Slots) /\ IsFunction(sent, Slots)
    BY DEF IsFunction, Init
  <2>6. dropped = {} /\ gSeq \in Int
    BY DEF Init
  <2> QED
    BY <2>3, <2>4, <2>5, <2>6 DEF Types
<1>6. PoolInitialSize \in 0 .. PoolInitialSize
  BY <1>1
<1>7. PICK f, c : /\ Owned(nextEvent, Keys, f, c, {}) /\ OfPool(f, eventChainsBuffer)
                  /\ \A k \in Keys : k[1] # "pool" => Empty(f, c, k)
  BY <1>3, <1>4, <1>6, PoolFilled DEF Filled
<1>8. OfHelpers(f, eventsChainHead)
  BY <1>7, KeysAre DEF OfHelpers, Empty, Init
<1>9. OfEngines(c, sending)
  BY <1>7, KeysAre DEF OfEngines, Empty, Init
<1>10. OfSlots(f, c, matcherEvent, sent)
  BY <1>7, KeysAre DEF OfSlots, Empty, Init
<1>11. Empty(f, c, GKey) /\ Empty(f, c, SpareKey)
  BY <1>7, KeysAre
<1>12. OfG(f, c, 0, 0)
  BY <1>11, EmptySeq DEF OfG, Empty
<1>13. tradeEvents.head = 0 /\ tradeEvents.tail = 0 /\ dropped = {}
  BY DEF Init, NothingCollected
<1>14. Stock(nextEvent, {}, eventChainsBuffer, eventsChainHead, sending, matcherEvent, sent, 0, 0)
  BY <1>7, <1>8, <1>9, <1>10, <1>11, <1>12 DEF Stock, Holds
<1>15. Stocked
  BY <1>13, <1>14 DEF Stocked
<1> QED
  BY <1>5, <1>15 DEF Inv

\* Actions that leave all the chains as they are.
LEMMA NoChainTouched ==
  ASSUME Inv, UNCHANGED <<pool, eventsChainHead, sending, matcherEvent, sent>>,
         UNCHANGED <<tradeEvents, dropped>>,
         gSeq' \in Int, engineSeq' \in [Engines -> Int]
  PROVE  Inv'
<1>1. Types'
  BY DEF Inv, Types, pool
<1>2. Stocked'
  BY DEF Inv, Stocked, pool
<1> QED
  BY <1>1, <1>2 DEF Inv

\* A helper takes a chain of the pool, or a new one.
LEMMA GetChainInv ==
  ASSUME Inv, NEW e \in Engines, GetChain(e)
  PROVE  Inv'
<1>1. PICK n : IsMemory(nextEvent, n)
  BY DEF Inv, Types
<1>2. n \in Nat /\ Cardinality(DOMAIN nextEvent) = n
  BY <1>1, NumbersTo DEF IsMemory
<1>3. PICK h : h = HelperFor(e)
  OBVIOUS
<1>4. h \in Helpers
  <2>1. KindFor(e) = "query" \/ e \in MatchingEngines
    BY DEF GetChain, SendsEvents
  <2> QED
    BY <1>3, <2>1 DEF HelperFor, Helpers
<1>5. eventsChainHead[h] = 0
  BY <1>3 DEF GetChain
<1>6. /\ UNCHANGED <<sending, engineSeq, matcherEvent, sent>>
      /\ UNCHANGED <<tradeEvents, gSeq, dropped>>
  BY DEF GetChain, slots, grouping
<1>7. CASE \E chain \in eventChainsBuffer :
             /\ eventChainsBuffer' = eventChainsBuffer \ {chain}
             /\ eventsChainHead' = [eventsChainHead EXCEPT ![h] = chain]
             /\ UNCHANGED nextEvent
  <2>1. PICK chain \in eventChainsBuffer :
             /\ eventChainsBuffer' = eventChainsBuffer \ {chain}
             /\ eventsChainHead' = [eventsChainHead EXCEPT ![h] = chain]
             /\ UNCHANGED nextEvent
    BY <1>7
  <2>2. Types'
    <3>1. IsFunction(eventsChainHead', Helpers)
      BY <2>1, StaysFunction DEF Inv, Types
    <3> QED
      BY <1>6, <2>1, <3>1 DEF Inv, Types
  <2>3. DOMAIN eventsChainHead = Helpers
    BY Domains DEF Inv
  <2>4. Stock(nextEvent, dropped, eventChainsBuffer \ {chain},
              [eventsChainHead EXCEPT ![h] = chain], sending, matcherEvent, sent,
              tradeEvents.head, tradeEvents.tail)
    BY <1>1, <1>4, <1>5, <2>3, TakenFromPool DEF Inv, Stocked
  <2>5. Stocked'
    BY <1>6, <2>1, <2>4 DEF Stocked
  <2> QED
    BY <2>2, <2>5 DEF Inv
<1>8. CASE /\ UNCHANGED eventChainsBuffer
           /\ nextEvent' = [event \in 1 .. n + ChainLength |->
                IF event \in DOMAIN nextEvent THEN nextEvent[event]
                ELSE CreateEventChain(n, ChainLength)[event]]
           /\ eventsChainHead' = [eventsChainHead EXCEPT ![h] = n + 1]
  <2>1. ChainLength \in Nat \ {0}
    BY PoolAssumption
  <2>2. PICK next2 : next2 = nextEvent'
    OBVIOUS
  <2>3. DOMAIN nextEvent = 1 .. n
    BY <1>1 DEF IsMemory
  <2>4. next2 = [event \in 1 .. n + ChainLength |->
                   IF event \in 1 .. n THEN nextEvent[event]
                   ELSE IF event = n + ChainLength THEN 0 ELSE event + 1]
    <3>1. \A event \in 1 .. n + ChainLength : event \notin 1 .. n =>
            CreateEventChain(n, ChainLength)[event]
              = IF event = n + ChainLength THEN 0 ELSE event + 1
      BY <1>2, <2>1 DEF CreateEventChain
    <3> QED
      BY <1>8, <2>2, <2>3, <3>1
  <2>5. Extended(nextEvent, next2, n, ChainLength)
    <3>1. \A event \in 1 .. n : event \in 1 .. n + ChainLength
      BY <1>2, <2>1
    <3>2. \A j \in 1 .. ChainLength :
            /\ n + j \in 1 .. n + ChainLength /\ n + j \notin 1 .. n
            /\ (n + j = n + ChainLength <=> j = ChainLength)
      BY <1>2, <2>1
    <3> QED
      BY <1>1, <2>4, <3>1, <3>2 DEF Extended
  <2>6. Types'
    <3>1. n + ChainLength \in Nat
      BY <1>2, <2>1
    <3>2. IsMemory(next2, n + ChainLength)
      BY <2>5, <3>1 DEF Extended, IsMemory
    <3>3. (\E i : IsMemory(nextEvent, i))'
      BY <2>2, <3>2
    <3>4. \A event \in dropped : event \in DOMAIN nextEvent'
      <4>1. \A event \in 1 .. n : event \in 1 .. n + ChainLength
        BY <1>2, <2>1
      <4> QED
        BY <2>2, <2>3, <2>5, <4>1 DEF Inv, Types, Extended
    <3>5. IsFunction(eventsChainHead', Helpers)
      BY <1>8, StaysFunction DEF Inv, Types
    <3> QED
      BY <1>6, <3>3, <3>4, <3>5 DEF Inv, Types
  <2>7. DOMAIN eventsChainHead = Helpers /\ \A event \in dropped : event \in DOMAIN nextEvent
    BY Domains DEF Inv, Types
  <2>8. Stock(next2, dropped, eventChainsBuffer,
              [eventsChainHead EXCEPT ![h] = n + 1], sending, matcherEvent, sent,
              tradeEvents.head, tradeEvents.tail)
    BY <1>1, <1>4, <1>5, <2>1, <2>5, <2>7, NewlyCreated DEF Inv, Stocked
  <2>9. Stocked'
    BY <1>6, <1>8, <2>2, <2>8 DEF Stocked
  <2> QED
    BY <2>6, <2>9 DEF Inv
<1> QED
  BY <1>2, <1>3, <1>7, <1>8 DEF GetChain

\* An engine sends an event of its helper's chain.
LEMMA SendEventInv ==
  ASSUME Inv, NEW e \in Engines, SendEvent(e)
  PROVE  Inv'
<1>1. PICK n : IsMemory(nextEvent, n)
  BY DEF Inv, Types
<1>2. PICK h : h = HelperFor(e)
  OBVIOUS
<1>3. h \in Helpers
  <2>1. KindFor(e) = "query" \/ e \in MatchingEngines
    BY DEF SendEvent, SendsEvents
  <2> QED
    BY <1>2, <2>1 DEF HelperFor, Helpers
<1>4. /\ eventsChainHead[h] # 0
      /\ nextEvent' = SentNext(nextEvent, eventsChainHead[h], sending[e])
      /\ eventsChainHead' = [eventsChainHead EXCEPT ![h] = nextEvent[eventsChainHead[h]]]
      /\ sending' = [sending EXCEPT ![e] = Append(sending[e], eventsChainHead[h])]
  BY <1>2 DEF SendEvent, Linked, SentNext
<1>5. /\ UNCHANGED <<eventChainsBuffer, engineSeq, matcherEvent, sent>>
      /\ UNCHANGED <<tradeEvents, gSeq, dropped>>
  BY DEF SendEvent, slots, grouping
<1>6. DOMAIN eventsChainHead = Helpers /\ DOMAIN sending = Engines
  BY Domains DEF Inv
<1>7. Types'
  <2>1. DOMAIN nextEvent' = DOMAIN nextEvent
    BY <1>4 DEF SentNext
  <2>2. IsMemory(nextEvent', n)
    BY <1>1, <2>1 DEF IsMemory
  <2>3. IsFunction(eventsChainHead', Helpers) /\ IsFunction(sending', Engines)
    BY <1>4, StaysFunction DEF Inv, Types
  <2> QED
    BY <1>5, <2>1, <2>2, <2>3 DEF Inv, Types
<1>8. Stock(SentNext(nextEvent, eventsChainHead[h], sending[e]), dropped, eventChainsBuffer,
            [eventsChainHead EXCEPT ![h] = nextEvent[eventsChainHead[h]]],
            [sending EXCEPT ![e] = Append(sending[e], eventsChainHead[h])],
            matcherEvent, sent, tradeEvents.head, tradeEvents.tail)
  BY <1>1, <1>3, <1>4, <1>6, Sent DEF Inv, Stocked
<1>9. Stocked'
  BY <1>4, <1>5, <1>8 DEF Stocked
<1> QED
  BY <1>7, <1>9 DEF Inv

\* An engine has handled its command.
LEMMA FinishCommandInv ==
  ASSUME Inv, NEW e \in Engines, FinishCommand(e)
  PROVE  Inv'
<1>1. PICK n : IsMemory(nextEvent, n)
  BY DEF Inv, Types
<1>2. PICK m \in Int : m = engineSeq[e] + 1
  BY DEF Inv, Types
<1>3. PICK i \in Slots : i = Slot(m)
  BY SlotOf
<1>4. engineSeq' = [engineSeq EXCEPT ![e] = m] /\ sending' = [sending EXCEPT ![e] = <<>>]
  BY <1>2 DEF FinishCommand
<1>5. /\ UNCHANGED <<eventChainsBuffer, eventsChainHead>>
      /\ UNCHANGED <<tradeEvents, gSeq, dropped>>
  BY DEF FinishCommand, grouping
<1>6. DOMAIN sending = Engines /\ DOMAIN matcherEvent = Slots /\ DOMAIN sent = Slots
  BY Domains DEF Inv
<1>7. engineSeq' \in [Engines -> Int]
  BY <1>2, <1>4 DEF Inv, Types
<1>8. CASE sending[e] = <<>>
  <2>1. UNCHANGED <<nextEvent, matcherEvent, sent>>
    BY <1>8 DEF FinishCommand
  <2>2. sending' = sending
    BY <1>4, <1>8, ReplacedBySame DEF Inv, Types
  <2> QED
    BY <1>5, <1>7, <2>1, <2>2, NoChainTouched DEF pool, Inv, Types
<1>9. CASE sending[e] # <<>>
  <2>1. /\ nextEvent' = [nextEvent EXCEPT ![Tail_(sending[e])] = matcherEvent[i]]
        /\ matcherEvent' = [matcherEvent EXCEPT ![i] = sending[e][1]]
        /\ sent' = [sent EXCEPT ![i] = sending[e] \o sent[i]]
    BY <1>2, <1>3, <1>9 DEF FinishCommand
  <2>2. Types'
    <3>1. DOMAIN nextEvent' = DOMAIN nextEvent
      BY <2>1
    <3>2. IsMemory(nextEvent', n)
      BY <1>1, <3>1 DEF IsMemory
    <3>3. /\ IsFunction(sending', Engines)
          /\ IsFunction(matcherEvent', Slots) /\ IsFunction(sent', Slots)
      BY <1>4, <2>1, StaysFunction DEF Inv, Types
    <3> QED
      BY <1>5, <1>7, <3>1, <3>2, <3>3 DEF Inv, Types
  <2>3. Stock([nextEvent EXCEPT ![Tail_(sending[e])] = matcherEvent[i]], dropped,
              eventChainsBuffer, eventsChainHead, [sending EXCEPT ![e] = <<>>],
              [matcherEvent EXCEPT ![i] = sending[e][1]],
              [sent EXCEPT ![i] = sending[e] \o sent[i]],
              tradeEvents.head, tradeEvents.tail)
    BY <1>1, <1>6, <1>9, Hung DEF Inv, Stocked
  <2>4. Stocked'
    BY <1>4, <1>5, <2>1, <2>3 DEF Stocked
  <2> QED
    BY <2>2, <2>4 DEF Inv
<1> QED
  BY <1>8, <1>9

\* The events that G has collected go back when it starts a group or the group
\* is full, and the chain in the slot is collected or forgotten.
LEMMA GroupCommandInv ==
  ASSUME Inv, GroupCommand
  PROVE  Inv'
<1> DEFINE slot == Slot(gSeq + 1)
           k == kind[slot]
           enabled == IF k \in {"groupingOff", "groupingOn"} THEN k = "groupingOn"
                      ELSE groupingEnabled
           head == matcherEvent[slot]
           flushed == IF StartsGroup(k) THEN NothingCollected ELSE tradeEvents
           collected == IF head = 0 THEN flushed ELSE Collected(flushed, head)
           msgs == IF StartsGroup(k) THEN 1 ELSE msgsInGroup + 1
           full == msgs >= MsgsInGroupLimit /\ k # "persistRisk"
           flush == full \/ (head # 0 /\ collected.counter >= ChainLength)
           before == IF StartsGroup(k) THEN tradeEvents.head ELSE 0
           after == IF flush THEN collected.head ELSE 0
<1>1. /\ gSeq' = gSeq + 1
      /\ matcherEvent' = [matcherEvent EXCEPT ![slot] = 0]
      /\ sent' = [sent EXCEPT ![slot] = <<>>]
      /\ UNCHANGED <<eventsChainHead, sending, engineSeq>>
  BY DEF GroupCommand, SlotCleaned, helpers
<1>2. enabled =>
        /\ tradeEvents' = IF flush THEN NothingCollected ELSE collected
        /\ eventChainsBuffer' = eventChainsBuffer \cup ({before, after} \ {0})
        /\ nextEvent' = IF head # 0 /\ flushed.tail # 0
                        THEN [nextEvent EXCEPT ![flushed.tail] = head] ELSE nextEvent
        /\ UNCHANGED dropped
  BY DEF GroupCommand
<1>3. ~ enabled =>
        /\ dropped' = dropped \cup ElementsOf(Chain(head))
        /\ UNCHANGED <<nextEvent, eventChainsBuffer, tradeEvents>>
  BY DEF GroupCommand, pool
<1>4. slot \in Slots /\ gSeq' \in Int
  BY <1>1, SlotOf DEF Inv, Types
<1>5. PICK n : IsMemory(nextEvent, n)
  BY DEF Inv, Types
<1>6. DOMAIN matcherEvent = Slots /\ DOMAIN sent = Slots
  BY Domains DEF Inv
<1>7. IsPath(nextEvent, head, sent[slot]) /\ Injective(sent[slot])
  BY <1>4, <1>5, SlotIs DEF Inv, Stocked
<1>8. Chain(head) = sent[slot]
  BY <1>5, <1>7, ChainIs
<1>9. head = matcherEvent[slot]
  OBVIOUS
<1>10. flushed = IF StartsGroup(k) THEN NothingCollected ELSE tradeEvents
  OBVIOUS
<1>11. collected = IF head = 0 THEN flushed ELSE Collected(flushed, head)
  OBVIOUS
<1>12. before = IF StartsGroup(k) THEN tradeEvents.head ELSE 0
  OBVIOUS
<1>13. after = IF flush THEN collected.head ELSE 0
  OBVIOUS
<1> HIDE DEF slot, k, enabled, head, flushed, collected, msgs, full, flush, before, after
<1>14. /\ IsFunction(eventsChainHead', Helpers) /\ IsFunction(sending', Engines)
       /\ IsFunction(matcherEvent', Slots) /\ IsFunction(sent', Slots)
       /\ engineSeq' \in [Engines -> Int]
  <2>1. IsFunction(matcherEvent', Slots) /\ IsFunction(sent', Slots)
    BY <1>1, StaysFunction DEF Inv, Types
  <2> QED
    BY <1>1, <2>1 DEF Inv, Types
<1>15. CASE ~ enabled
  <2>1. /\ dropped' = dropped \cup ElementsOf(sent[slot])
        /\ UNCHANGED <<nextEvent, eventChainsBuffer, tradeEvents>>
    BY <1>3, <1>8, <1>15
  <2>2. Types'
    <3>1. \A e \in dropped' : e \in DOMAIN nextEvent
      <4>1. \A i \in 1 .. Len(sent[slot]) : sent[slot][i] \in DOMAIN nextEvent
        BY <1>7, PathIs
      <4>2. DOMAIN sent[slot] = 1 .. Len(sent[slot])
        BY <1>7, PathIs, LenProperties
      <4> QED
        BY <2>1, <4>1, <4>2 DEF ElementsOf, Inv, Types
    <3>2. \A e \in dropped' : e \in DOMAIN nextEvent'
      BY <2>1, <3>1
    <3>3. (\E i : IsMemory(nextEvent, i))'
      BY <1>5, <2>1
    <3> QED
      BY <1>4, <1>14, <3>2, <3>3 DEF Types
  <2>3. Stock(nextEvent, dropped \cup ElementsOf(sent[slot]), eventChainsBuffer, eventsChainHead,
              sending, [matcherEvent EXCEPT ![slot] = 0], [sent EXCEPT ![slot] = <<>>],
              tradeEvents.head, tradeEvents.tail)
    BY <1>4, <1>5, <1>6, Forgotten DEF Inv, Stocked
  <2>4. Stocked'
    BY <1>1, <2>1, <2>3 DEF Stocked
  <2> QED
    BY <2>2, <2>4 DEF Inv
<1>16. CASE enabled
  <2>1. DOMAIN nextEvent' = DOMAIN nextEvent
    BY <1>2, <1>16
  <2>2. Types'
    <3>1. IsMemory(nextEvent', n)
      BY <1>5, <2>1 DEF IsMemory
    <3>2. (\E i : IsMemory(nextEvent, i))'
      BY <3>1
    <3>3. \A e \in dropped' : e \in DOMAIN nextEvent'
      BY <1>2, <1>16, <2>1 DEF Inv, Types
    <3> QED
      BY <1>4, <1>14, <3>2, <3>3 DEF Types
  <2>3. PICK B1 : B1 = eventChainsBuffer \cup ({before} \ {0})
    OBVIOUS
  <2>4. Stock(nextEvent, dropped, B1, eventsChainHead, sending, matcherEvent, sent,
              flushed.head, flushed.tail)
    <3>1. CASE StartsGroup(k)
      <4>1. flushed.head = 0 /\ flushed.tail = 0
        BY <1>10, <3>1 DEF NothingCollected
      <4>2. B1 = eventChainsBuffer \cup ({tradeEvents.head} \ {0})
        BY <1>12, <2>3, <3>1
      <4>3. Stock(nextEvent, dropped, eventChainsBuffer \cup ({tradeEvents.head} \ {0}),
                  eventsChainHead, sending, matcherEvent, sent, 0, 0)
        BY <1>5, Returned DEF Inv, Stocked
      <4> QED
        BY <4>1, <4>2, <4>3
    <3>2. CASE ~ StartsGroup(k)
      <4>1. flushed = tradeEvents
        BY <1>10, <3>2
      <4>2. B1 = eventChainsBuffer
        BY <1>12, <2>3, <3>2
      <4> QED
        BY <4>1, <4>2 DEF Inv, Stocked
    <3> QED
      BY <3>1, <3>2
  <2>5. Stock(nextEvent', dropped, B1, eventsChainHead, sending, matcherEvent', sent',
              collected.head, collected.tail)
    <3>1. CASE head = 0
      <4>1. sent[slot] = <<>>
        BY <1>5, <1>7, <3>1, NoHead
      <4>2. matcherEvent' = matcherEvent
        BY <1>1, <1>9, <3>1, ReplacedBySame DEF Inv, Types
      <4>3. sent' = sent
        BY <1>1, <4>1, ReplacedBySame DEF Inv, Types
      <4>4. nextEvent' = nextEvent /\ collected = flushed
        BY <1>2, <1>11, <1>16, <3>1
      <4> QED
        BY <2>4, <4>2, <4>3, <4>4
    <3>2. CASE head # 0
      <4>1. collected.head = (IF flushed.tail = 0 THEN head ELSE flushed.head)
            /\ collected.tail = sent[slot][Len(sent[slot])]
        BY <1>8, <1>11, <3>2 DEF Collected, Tail_
      <4>2. nextEvent' = IF flushed.tail # 0 THEN [nextEvent EXCEPT ![flushed.tail] = head]
                         ELSE nextEvent
        BY <1>2, <1>16, <3>2
      <4>3. PICK first : first = flushed.head
        OBVIOUS
      <4>4. PICK last : last = flushed.tail
        OBVIOUS
      <4>5. Stock(nextEvent, dropped, B1, eventsChainHead, sending, matcherEvent, sent, first, last)
        BY <2>4, <4>3, <4>4
      <4>6. Stock(IF last # 0 THEN [nextEvent EXCEPT ![last] = matcherEvent[slot]] ELSE nextEvent,
                  dropped, B1, eventsChainHead, sending,
                  [matcherEvent EXCEPT ![slot] = 0], [sent EXCEPT ![slot] = <<>>],
                  IF last = 0 THEN matcherEvent[slot] ELSE first,
                  sent[slot][Len(sent[slot])])
        BY <1>4, <1>5, <1>6, <1>9, <3>2, <4>5, TakenFromSlot
      <4> QED
        BY <1>1, <1>9, <4>1, <4>2, <4>3, <4>4, <4>6
    <3> QED
      BY <3>1, <3>2
  <2>6. PICK B2 : B2 = B1 \cup ({after} \ {0})
    OBVIOUS
  <2>7. eventChainsBuffer' = B2
    BY <1>2, <1>16, <2>3, <2>6
  <2>8. Stock(nextEvent', dropped, B2, eventsChainHead, sending, matcherEvent', sent',
              tradeEvents.head', tradeEvents.tail')
    <3>1. CASE flush
      <4>1. tradeEvents.head' = 0 /\ tradeEvents.tail' = 0
        BY <1>2, <1>16, <3>1 DEF NothingCollected
      <4>2. B2 = B1 \cup ({collected.head} \ {0})
        BY <1>13, <2>6, <3>1
      <4>3. IsMemory(nextEvent', n)
        BY <1>5, <2>1 DEF IsMemory
      <4>4. PICK first : first = collected.head
        OBVIOUS
      <4>5. PICK last : last = collected.tail
        OBVIOUS
      <4>6. Stock(nextEvent', dropped, B1, eventsChainHead, sending, matcherEvent', sent',
                  first, last)
        BY <2>5, <4>4, <4>5
      <4>7. Stock(nextEvent', dropped, B1 \cup ({first} \ {0}), eventsChainHead, sending,
                  matcherEvent', sent', 0, 0)
        BY <4>3, <4>6, Returned
      <4> QED
        BY <4>1, <4>2, <4>4, <4>7
    <3>2. CASE ~ flush
      <4>1. tradeEvents' = collected
        BY <1>2, <1>16, <3>2
      <4>2. B2 = B1
        BY <1>13, <2>6, <3>2
      <4> QED
        BY <2>5, <4>1, <4>2
    <3> QED
      BY <3>1, <3>2
  <2>9. Stocked'
    BY <1>1, <1>2, <1>16, <2>7, <2>8 DEF Stocked
  <2> QED
    BY <2>2, <2>9 DEF Inv
<1> QED
  BY <1>15, <1>16

\* The group has been open for long enough.
LEMMA GroupTimeoutInv ==
  ASSUME Inv, GroupTimeout
  PROVE  Inv'
<1>1. PICK n : IsMemory(nextEvent, n)
  BY DEF Inv, Types
<1>2. /\ eventChainsBuffer' = eventChainsBuffer \cup ({tradeEvents.head} \ {0})
      /\ UNCHANGED <<nextEvent, eventsChainHead, sending, engineSeq>>
      /\ UNCHANGED <<matcherEvent, sent, gSeq, dropped>>
      /\ tradeEvents.head' = 0 /\ tradeEvents.tail' = 0
  BY DEF GroupTimeout, NothingCollected, helpers, slots
<1>3. Types'
  BY <1>2 DEF Inv, Types
<1>4. Stock(nextEvent, dropped, eventChainsBuffer \cup ({tradeEvents.head} \ {0}),
            eventsChainHead, sending, matcherEvent, sent, 0, 0)
  BY <1>1, Returned DEF Inv, Stocked
<1>5. Stocked'
  BY <1>2, <1>4 DEF Stocked
<1> QED
  BY <1>3, <1>5 DEF Inv

\* Every step keeps the invariant.
LEMMA NextInv ==
  ASSUME Inv, [Next]_vars
  PROVE  Inv'
<1>1. gSeq \in Int /\ engineSeq \in [Engines -> Int]
  BY DEF Inv, Types
<1>2. CASE Publish
  BY <1>1, <1>2, NoChainTouched DEF Publish, pool, helpers, grouping
<1>3. CASE Read
  BY <1>1, <1>3, NoChainTouched DEF Read, pool, helpers, slots, grouping
<1>4. CASE UNCHANGED vars
  BY <1>1, <1>4, NoChainTouched DEF vars, pool, helpers, slots, grouping
<1>5. CASE GroupCommand
  BY <1>5, GroupCommandInv
<1>6. CASE GroupTimeout
  BY <1>6, GroupTimeoutInv
<1>7. CASE \E e \in Engines : GetChain(e) \/ SendEvent(e) \/ FinishCommand(e)
  BY <1>7, GetChainInv, SendEventInv, FinishCommandInv
<1> QED
  BY <1>2, <1>3, <1>4, <1>5, <1>6, <1>7 DEF Next

-----------------------------------------------------------------------------
(***************************************************************************)
(* What the properties say of the holders.                                 *)
(***************************************************************************)

\* The holder of a chain in use.
KeyOf(h) ==
  IF h.owner = "pool" THEN PoolKey(h.head)
  ELSE IF h.owner = "helper" THEN HelperKey(h.of)
  ELSE IF h.owner = "engine" THEN EngineKey(h.of)
  ELSE IF h.owner = "slot" THEN SlotKey(h.of)
  ELSE GKey

\* What a chain in use may be.
LEMMA HeadIs ==
  ASSUME NEW h
  PROVE  h \in Heads <=>
           \/ \E x \in eventChainsBuffer : h = [owner |-> "pool", of |-> 0, head |-> x]
           \/ \E y \in Helpers : h = [owner |-> "helper", of |-> y, head |-> eventsChainHead[y]]
           \/ \E e \in Engines : /\ sending[e] # <<>>
                                 /\ h = [owner |-> "engine", of |-> e, head |-> sending[e][1]]
           \/ \E i \in Slots : h = [owner |-> "slot", of |-> i, head |-> matcherEvent[i]]
           \/ h = [owner |-> "G", of |-> 0, head |-> tradeEvents.head]
<1>1. \A g : g \in [owner : {"pool"}, of : {0}, head : eventChainsBuffer] <=>
               \E x \in eventChainsBuffer : g = [owner |-> "pool", of |-> 0, head |-> x]
  OBVIOUS
<1> QED
  BY <1>1 DEF Heads

\* The holder holds it.
LEMMA HeadHeld ==
  ASSUME NEW n, IsMemory(nextEvent, n), NEW f, NEW c,
         Owned(nextEvent, Keys, f, c, dropped),
         Holds(f, c, eventChainsBuffer, eventsChainHead, sending, matcherEvent, sent,
               tradeEvents.head, tradeEvents.tail),
         NEW h \in Heads
  PROVE  KeyOf(h) \in Keys /\ f[KeyOf(h)] = h.head /\ Chain(h.head) = c[KeyOf(h)]
<1>1. PICK k : k = KeyOf(h)
  OBVIOUS
<1>2. k \in Keys /\ f[k] = h.head
  <2>1. CASE \E x \in eventChainsBuffer : h = [owner |-> "pool", of |-> 0, head |-> x]
    <3>1. PICK x \in eventChainsBuffer : h = [owner |-> "pool", of |-> 0, head |-> x]
      BY <2>1
    <3>2. k = PoolKey(x) /\ h.head = x
      BY <1>1, <3>1 DEF KeyOf
    <3>3. x \in Nat \ {0} /\ f[PoolKey(x)] = x
      BY DEF Holds, OfPool
    <3> QED
      BY <3>2, <3>3, KeysAre
  <2>2. CASE \E y \in Helpers : h = [owner |-> "helper", of |-> y, head |-> eventsChainHead[y]]
    <3>1. PICK y \in Helpers : h = [owner |-> "helper", of |-> y, head |-> eventsChainHead[y]]
      BY <2>2
    <3>2. k = HelperKey(y) /\ h.head = eventsChainHead[y]
      BY <1>1, <3>1 DEF KeyOf
    <3>3. f[HelperKey(y)] = eventsChainHead[y]
      BY DEF Holds, OfHelpers
    <3> QED
      BY <3>2, <3>3, KeysAre
  <2>3. CASE \E e \in Engines : /\ sending[e] # <<>>
                                /\ h = [owner |-> "engine", of |-> e, head |-> sending[e][1]]
    <3>1. PICK e \in Engines : /\ sending[e] # <<>>
                               /\ h = [owner |-> "engine", of |-> e, head |-> sending[e][1]]
      BY <2>3
    <3>2. k = EngineKey(e) /\ h.head = sending[e][1]
      BY <1>1, <3>1 DEF KeyOf
    <3>3. EngineKey(e) \in Keys /\ c[EngineKey(e)] = sending[e]
      BY KeysAre DEF Holds, OfEngines
    <3>4. IsPath(nextEvent, f[EngineKey(e)], c[EngineKey(e)])
      BY <3>3 DEF Owned, Paths
    <3>5. f[EngineKey(e)] = sending[e][1]
      BY <3>1, <3>3, <3>4, PathIs
    <3> QED
      BY <3>2, <3>3, <3>5
  <2>4. CASE \E i \in Slots : h = [owner |-> "slot", of |-> i, head |-> matcherEvent[i]]
    <3>1. PICK i \in Slots : h = [owner |-> "slot", of |-> i, head |-> matcherEvent[i]]
      BY <2>4
    <3>2. k = SlotKey(i) /\ h.head = matcherEvent[i]
      BY <1>1, <3>1 DEF KeyOf
    <3>3. f[SlotKey(i)] = matcherEvent[i]
      BY DEF Holds, OfSlots
    <3> QED
      BY <3>2, <3>3, KeysAre
  <2>5. CASE h = [owner |-> "G", of |-> 0, head |-> tradeEvents.head]
    <3>1. k = GKey /\ h.head = tradeEvents.head
      BY <1>1, <2>5 DEF KeyOf
    <3>2. f[GKey] = tradeEvents.head
      BY DEF Holds, OfG
    <3> QED
      BY <3>1, <3>2, KeysAre
  <2> QED
    BY <2>1, <2>2, <2>3, <2>4, <2>5, HeadIs
<1>3. IsPath(nextEvent, f[k], c[k])
  BY <1>2 DEF Owned, Paths
<1>4. Injective(c[k])
  BY <1>2, OwnedOnce DEF Owned
<1>5. Chain(f[k]) = c[k]
  BY <1>3, <1>4, ChainIs
<1> QED
  BY <1>1, <1>2, <1>5

\* Every holder of an event holds one chain in use.
LEMMA HolderHasHead ==
  ASSUME NEW n, IsMemory(nextEvent, n), NEW f, NEW c,
         Owned(nextEvent, Keys, f, c, dropped),
         Holds(f, c, eventChainsBuffer, eventsChainHead, sending, matcherEvent, sent,
               tradeEvents.head, tradeEvents.tail),
         NEW k \in Keys, c[k] # <<>>
  PROVE  \E h \in Heads : KeyOf(h) = k /\ \A g \in Heads : KeyOf(g) = k => g = h
<1>1. \A g \in Heads : f[KeyOf(g)] = g.head
  BY HeadHeld
<1>2. f[k] # 0
  BY NoHead DEF Owned, Paths
<1> DEFINE Kind(g) ==
             /\ k[1] = "pool" => g.owner = "pool" /\ g.of = 0
             /\ k[1] # "pool" => g.owner = k[1] /\ g.of = k[2]
<1>3. ASSUME NEW g \in Heads, KeyOf(g) = k
      PROVE  Kind(g) /\ g = [owner |-> g.owner, of |-> g.of, head |-> g.head]
  <2>1. \A x : /\ PoolKey(x)[1] = "pool" /\ HelperKey(x)[1] = "helper"
               /\ EngineKey(x)[1] = "engine" /\ SlotKey(x)[1] = "slot"
               /\ HelperKey(x)[2] = x /\ EngineKey(x)[2] = x /\ SlotKey(x)[2] = x
               /\ GKey[1] = "G" /\ GKey[2] = 0
    BY DEF PoolKey, HelperKey, EngineKey, SlotKey, GKey
  <2>2. g = [owner |-> g.owner, of |-> g.of, head |-> g.head]
    BY HeadIs
  <2>3. g.owner \in {"pool", "helper", "engine", "slot", "G"}
        /\ (g.owner = "pool" => g.of = 0) /\ (g.owner = "G" => g.of = 0)
    BY HeadIs
  <2>4. Kind(g)
    BY <1>3, <2>1, <2>3 DEF KeyOf
  <2> QED
    BY <2>2, <2>4
<1>4. \E h \in Heads : KeyOf(h) = k
  <2>1. CASE \E x \in Nat \ {0} : k = PoolKey(x)
    <3>1. PICK x \in Nat \ {0} : k = PoolKey(x)
      BY <2>1
    <3>2. x \in eventChainsBuffer
      BY <1>2, <3>1 DEF Holds, OfPool
    <3>3. PICK h : h = [owner |-> "pool", of |-> 0, head |-> x]
      OBVIOUS
    <3>4. h \in Heads
      BY <3>2, <3>3, HeadIs
    <3> QED
      BY <3>1, <3>3, <3>4 DEF KeyOf
  <2>2. CASE \E y \in Helpers : k = HelperKey(y)
    <3>1. PICK y \in Helpers : k = HelperKey(y)
      BY <2>2
    <3>2. PICK h : h = [owner |-> "helper", of |-> y, head |-> eventsChainHead[y]]
      OBVIOUS
    <3>3. h \in Heads
      BY <3>2, HeadIs
    <3> QED
      BY <3>1, <3>2, <3>3 DEF KeyOf
  <2>3. CASE \E e \in Engines : k = EngineKey(e)
    <3>1. PICK e \in Engines : k = EngineKey(e)
      BY <2>3
    <3>2. sending[e] # <<>>
      BY <3>1 DEF Holds, OfEngines
    <3>3. PICK h : h = [owner |-> "engine", of |-> e, head |-> sending[e][1]]
      OBVIOUS
    <3>4. h \in Heads
      BY <3>2, <3>3, HeadIs
    <3> QED
      BY <3>1, <3>3, <3>4 DEF KeyOf
  <2>4. CASE \E i \in Slots : k = SlotKey(i)
    <3>1. PICK i \in Slots : k = SlotKey(i)
      BY <2>4
    <3>2. PICK h : h = [owner |-> "slot", of |-> i, head |-> matcherEvent[i]]
      OBVIOUS
    <3>3. h \in Heads
      BY <3>2, HeadIs
    <3> QED
      BY <3>1, <3>2, <3>3 DEF KeyOf
  <2>5. CASE k = GKey
    <3>1. PICK h : h = [owner |-> "G", of |-> 0, head |-> tradeEvents.head]
      OBVIOUS
    <3>2. h \in Heads
      BY <3>1, HeadIs
    <3> QED
      BY <2>5, <3>1, <3>2 DEF KeyOf
  <2>6. CASE k = SpareKey
    BY <2>6 DEF Holds, Empty
  <2> QED
    BY <2>1, <2>2, <2>3, <2>4, <2>5, <2>6, KeyIs
<1>5. PICK h \in Heads : KeyOf(h) = k
  BY <1>4
<1>6. ASSUME NEW g \in Heads, KeyOf(g) = k PROVE g = h
  <2>1. g.head = f[k] /\ h.head = f[k]
    BY <1>1, <1>5, <1>6
  <2>2. g.owner = h.owner /\ g.of = h.of
    BY <1>3, <1>5, <1>6
  <2>3. /\ g = [owner |-> g.owner, of |-> g.of, head |-> g.head]
        /\ h = [owner |-> h.owner, of |-> h.of, head |-> h.head]
    BY <1>3, <1>5, <1>6
  <2> QED
    BY <2>1, <2>2, <2>3
<1> QED
  BY <1>5, <1>6

\* What is on a command is what the engines sent for it.
LEMMA InvIntact ==
  ASSUME Inv, NEW m \in Int
  PROVE  Chain(matcherEvent[Slot(m)]) = sent[Slot(m)]
<1>1. PICK n : IsMemory(nextEvent, n)
  BY DEF Inv, Types
<1>2. IsPath(nextEvent, matcherEvent[Slot(m)], sent[Slot(m)]) /\ Injective(sent[Slot(m)])
  BY <1>1, SlotOf, SlotIs DEF Inv, Stocked
<1> QED
  BY <1>1, <1>2, ChainIs

\* Every event has its place.
LEMMA InvOwned ==
  ASSUME Inv
  PROVE  EventsOwnedOnce
<1> SUFFICES ASSUME NEW e \in DOMAIN nextEvent
             PROVE  Cardinality({h \in Heads : e \in ElementsOf(Chain(h.head))})
                      = IF e \in dropped THEN 0 ELSE 1
  BY DEF EventsOwnedOnce
<1>1. PICK n : IsMemory(nextEvent, n)
  BY DEF Inv, Types
<1>2. PICK f, c : /\ Owned(nextEvent, Keys, f, c, dropped)
                  /\ Holds(f, c, eventChainsBuffer, eventsChainHead, sending, matcherEvent,
                           sent, tradeEvents.head, tradeEvents.tail)
  BY DEF Inv, Stocked, Stock
<1>3. PICK at, pos : Places(nextEvent, Keys, c, dropped, at, pos)
  BY <1>2 DEF Owned
<1>4. PICK owners : owners = {h \in Heads : e \in ElementsOf(Chain(h.head))}
  OBVIOUS
<1>5. \A k \in Keys : DOMAIN c[k] = 1 .. Len(c[k])
  BY <1>2, PathIs, LenProperties DEF Owned, Paths
<1>6. ASSUME NEW h \in Heads
      PROVE  h \in owners <=> \E i \in 1 .. Len(c[KeyOf(h)]) : e = c[KeyOf(h)][i]
  <2>1. KeyOf(h) \in Keys /\ Chain(h.head) = c[KeyOf(h)]
    BY <1>1, <1>2, HeadHeld
  <2> QED
    BY <1>4, <1>5, <2>1 DEF ElementsOf
<1>7. \A h \in Heads : KeyOf(h) \in Keys
  BY <1>1, <1>2, HeadHeld
<1>8. \A h \in owners : h \in Heads
  BY <1>4
<1>9. CASE e \in dropped
  <2>1. \A h \in Heads : h \notin owners
    BY <1>3, <1>6, <1>7, <1>9 DEF Places
  <2>2. owners = {}
    BY <1>8, <2>1
  <2> QED
    BY <1>4, <1>9, <2>2, FS_EmptySet
<1>10. CASE e \notin dropped
  <2>1. at[e] \in Keys /\ pos[e] \in 1 .. Len(c[at[e]]) /\ c[at[e]][pos[e]] = e
    BY <1>3, <1>10 DEF Places
  <2>2. c[at[e]] # <<>>
    BY <2>1, EmptySeq
  <2>3. PICK h \in Heads : /\ KeyOf(h) = at[e]
                           /\ \A g \in Heads : KeyOf(g) = at[e] => g = h
    BY <1>1, <1>2, <2>1, <2>2, HolderHasHead
  <2>4. h \in owners
    BY <1>6, <2>1, <2>3
  <2>5. ASSUME NEW g \in owners PROVE g = h
    <3>1. g \in Heads
      BY <1>8
    <3>2. PICK i \in 1 .. Len(c[KeyOf(g)]) : e = c[KeyOf(g)][i]
      BY <1>6, <3>1
    <3>3. at[e] = KeyOf(g)
      BY <1>3, <1>7, <3>1, <3>2 DEF Places
    <3> QED
      BY <2>3, <3>1, <3>3
  <2>6. owners = {h}
    BY <2>4, <2>5
  <2> QED
    BY <1>4, <1>10, <2>6, FS_Singleton
<1> QED
  BY <1>9, <1>10

-----------------------------------------------------------------------------
\* In every state the chains in use have the events between them.
THEOREM Invariance == Spec => []Inv
<1>1. Init => Inv
  BY InitInv
<1>2. Inv /\ [Next]_vars => Inv'
  BY NextInv
<1> QED
  BY <1>1, <1>2, PTL DEF Spec

\* Every event ever created is in exactly one chain that somebody holds, unless
\* G let it go with grouping disabled: for any engines, ring, chain length,
\* initial pool and limits.
THEOREM OwnedOnceAlways == Spec => []EventsOwnedOnce
<1>1. Inv => EventsOwnedOnce
  BY InvOwned
<1> QED
  BY <1>1, Invariance, PTL

ReadCounted == readSeq \in Int

\* The commands read are counted.
LEMMA ReadStep ==
  ASSUME ReadCounted, [Next]_vars
  PROVE  ReadCounted'
<1>1. CASE Read
  BY <1>1 DEF Read, ReadCounted
<1>2. CASE UNCHANGED readSeq
  BY <1>2 DEF ReadCounted
<1>3. ASSUME NEW e \in Engines, GetChain(e) \/ SendEvent(e) \/ FinishCommand(e)
      PROVE  UNCHANGED readSeq
  BY <1>3 DEF GetChain, SendEvent, FinishCommand
<1>4. Publish \/ GroupCommand \/ GroupTimeout \/ UNCHANGED vars => UNCHANGED readSeq
  BY DEF Publish, GroupCommand, GroupTimeout, vars
<1> QED
  BY <1>1, <1>2, <1>3, <1>4 DEF Next

\* The chain on a command that R2 and E may still read is what the engines sent
\* for it.
THEOREM IntactAlways == Spec => []ChainsIntact
<1>1. Inv /\ ReadCounted => ChainsIntact
  <2> SUFFICES ASSUME Inv, ReadCounted, NEW m \in readSeq + 1 .. gSeq
               PROVE  Chain(matcherEvent[Slot(m)]) = sent[Slot(m)]
    BY DEF ChainsIntact
  <2>1. m \in Int
    BY DEF ReadCounted, Inv, Types
  <2> QED
    BY <2>1, InvIntact
<1>2. Init => ReadCounted
  BY DEF Init, ReadCounted
<1>3. ReadCounted /\ [Next]_vars => ReadCounted'
  BY ReadStep
<1>4. Spec => []ReadCounted
  BY <1>2, <1>3, PTL DEF Spec
<1> QED
  BY <1>1, <1>4, Invariance, PTL
=============================================================================
