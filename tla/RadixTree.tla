------------------------------ MODULE RadixTree ------------------------------
(***************************************************************************)
(* LongAdaptiveRadixTreeMap: the prices of one side of a direct order book *)
(* as a tree that consumes a digit of the key per level.  A node has one   *)
(* of four forms by the number of its children, changes it when it grows   *)
(* or shrinks past a threshold, and skips the levels where all its keys    *)
(* agree.                                                                  *)
(*                                                                         *)
(* A node is a record: kind, level (nodeLevel_ / 8), key (nodeKey_), num   *)
(* (numChildren_) and                                                      *)
(*   Node4, Node16   keys and nodes: the digits, ascending, and children   *)
(*   Node48          indexes: digit -> slot or -1, nodes: slot -> child,   *)
(*                   mask: the used slots (freeBitMask_)                   *)
(*   Node256         nodes: digit -> child                                 *)
(* The children at level 0 are the values, Nil is nullptr.  Where the code *)
(* changes a node and returns it, another one or nullptr, the operators    *)
(* give the node that takes its place; got counts what was taken from the  *)
(* pool of each kind of node, less what was given back.                    *)
(***************************************************************************)
EXTENDS Integers, Sequences, SequencesExt, FiniteSetsExt

CONSTANTS
  Base,                   \* 256 in the code
  Levels,                 \* 8 in the code
  Capacity,               \* kind -> the most children: 4, 16, 48
  SwitchThreshold,        \* kind -> shrinks at so many children: 3, 12, 37
  Keys,                   \* the keys that are put and removed
  Nil

Kinds == {4, 16, 48, 256}

ASSUME RadixAssumption ==
  /\ Base \in Nat \ {0} /\ Levels \in Nat \ {0} /\ Keys \subseteq 0 .. Base ^ Levels - 1
  /\ \A kind \in {4, 16, 48} : Capacity[kind] < Base
  /\ SwitchThreshold[16] \in 2 .. Capacity[4]
  /\ SwitchThreshold[48] \in SwitchThreshold[16] + 1 .. Capacity[16]
  /\ SwitchThreshold[256] \in SwitchThreshold[48] + 1 .. Capacity[48]

VARIABLES
  root,                   \* root_
  outstanding,            \* kind -> nodes taken from the pool and not returned
  present                 \* history: the keys put and not removed since

vars == <<root, outstanding, present>>

MaxKey == Base ^ Levels - 1
InitialLevel == Levels - 1
Digits == 0 .. Base - 1

Digit(key, level) == (key \div Base ^ level) % Base

\* The digits of a key above a level: key & (-1 << (level + 8)).
Above(key, level) == key \div Base ^ (level + 1)

Ascending(set) ==
  [i \in 1 .. Cardinality(set) |->
     CHOOSE d \in set : Cardinality({e \in set : e < d}) = i - 1]

Zero == [kind \in Kinds |-> 0]
Taken(kind) == [Zero EXCEPT ![kind] = 1]
Returned(kind) == [Zero EXCEPT ![kind] = -1]
Plus(f, g) == [kind \in Kinds |-> f[kind] + g[kind]]

Result(node, got) == [node |-> node, got |-> got]

-----------------------------------------------------------------------------
(***************************************************************************)
(* The forms of a node and the changes from one to the next.               *)
(***************************************************************************)
InitFirstKey(key, value) ==
  [kind |-> 4, level |-> 0, key |-> key, num |-> 1,
   keys |-> <<Digit(key, 0)>>, nodes |-> <<value>>]

InitTwoKeys(key1, node1, key2, node2, level) ==
  LET d1 == Digit(key1, level)
      d2 == Digit(key2, level)
  IN [kind |-> 4, level |-> level, key |-> (key1 \div Base ^ level) * Base ^ level,
      num |-> 2,
      keys |-> IF d1 < d2 THEN <<d1, d2>> ELSE <<d2, d1>>,
      nodes |-> IF d1 < d2 THEN <<node1, node2>> ELSE <<node2, node1>>]

\* Where a digit is or belongs in the sorted keys.
Position(node, digit) ==
  1 + Cardinality({i \in 1 .. node.num : node.keys[i] < digit})

Inserted(node, digit, child) ==
  LET pos == Position(node, digit)
  IN [node EXCEPT !.num = @ + 1, !.keys = InsertAt(@, pos, digit),
                  !.nodes = InsertAt(@, pos, child)]

RemoveElementAtPos(node, pos) ==
  [node EXCEPT !.num = @ - 1, !.keys = RemoveAt(@, pos), !.nodes = RemoveAt(@, pos)]

Node16FromNode4(node, digit, child) == [Inserted(node, digit, child) EXCEPT !.kind = 16]

Node4FromNode16(node) == [node EXCEPT !.kind = 4]

Children4(node) == [i \in 1 .. node.num |-> <<node.keys[i], node.nodes[i]>>]
Children16(node) == [i \in 1 .. node.num |-> <<node.keys[i], node.nodes[i]>>]
Children48(node) ==
  LET digits == Ascending({d \in Digits : node.indexes[d] # -1})
  IN [i \in DOMAIN digits |-> <<digits[i], node.nodes[node.indexes[digits[i]]]>>]
Children256(node) ==
  LET digits == Ascending({d \in Digits : node.nodes[d] # Nil})
  IN [i \in DOMAIN digits |-> <<digits[i], node.nodes[digits[i]]>>]

\* The digits and the children of a node, ascending.
Children(node) ==
  CASE node.kind = 4   -> Children4(node)
    [] node.kind = 16  -> Children16(node)
    [] node.kind = 48  -> Children48(node)
    [] node.kind = 256 -> Children256(node)

\* A Node48 with these children in its first slots.
Node48With(children, node) ==
  [kind |-> 48, level |-> node.level, key |-> node.key, num |-> Len(children),
   indexes |-> [d \in Digits |->
     IF \E i \in DOMAIN children : children[i][1] = d
     THEN (CHOOSE i \in DOMAIN children : children[i][1] = d) - 1 ELSE -1],
   nodes |-> [slot \in 0 .. Capacity[48] - 1 |->
     IF slot < Len(children) THEN children[slot + 1][2] ELSE Nil],
   mask |-> 0 .. Len(children) - 1]

Node48FromNode16(node, digit, child) ==
  Node48With(Append(Children16(node), <<digit, child>>), node)

Node48FromNode256(node) == Node48With(Children256(node), node)

Node16FromNode48(node) ==
  LET children == Children48(node)
  IN [kind |-> 16, level |-> node.level, key |-> node.key, num |-> node.num,
      keys |-> [i \in DOMAIN children |-> children[i][1]],
      nodes |-> [i \in DOMAIN children |-> children[i][2]]]

Node256FromNode48(node, digit, child) ==
  [kind |-> 256, level |-> node.level, key |-> node.key, num |-> node.num + 1,
   nodes |-> [d \in Digits |->
     IF d = digit THEN child
     ELSE IF node.indexes[d] = -1 THEN Nil ELSE node.nodes[node.indexes[d]]]]

-----------------------------------------------------------------------------
(***************************************************************************)
(* GetValue.                                                               *)
(***************************************************************************)
RECURSIVE GetValue(_, _, _)

\* Mutant: the skipped levels are not compared.
OutsideNever(node, key, level) == FALSE

\* The key is outside the node's subtree.
Outside(node, key, level) ==
  level # node.level /\ Above(key, node.level) # Above(node.key, node.level)

ValueBelow(node, child, key) ==
  IF child = Nil \/ node.level = 0 THEN child
  ELSE GetValue(child, key, node.level - 1)

SortedChild(node, digit) ==
  LET pos == Position(node, digit)
  IN IF pos <= node.num /\ node.keys[pos] = digit THEN node.nodes[pos] ELSE Nil

GetValue4(node, key) ==
  ValueBelow(node, SortedChild(node, Digit(key, node.level)), key)

GetValue16(node, key) ==
  ValueBelow(node, SortedChild(node, Digit(key, node.level)), key)

GetValue48(node, key) ==
  LET slot == node.indexes[Digit(key, node.level)]
  IN IF slot = -1 THEN Nil ELSE ValueBelow(node, node.nodes[slot], key)

GetValue256(node, key) == ValueBelow(node, node.nodes[Digit(key, node.level)], key)

GetValue(node, key, level) ==
  CASE Outside(node, key, level) -> Nil
    [] ~ Outside(node, key, level) /\ node.kind = 4   -> GetValue4(node, key)
    [] ~ Outside(node, key, level) /\ node.kind = 16  -> GetValue16(node, key)
    [] ~ Outside(node, key, level) /\ node.kind = 48  -> GetValue48(node, key)
    [] ~ Outside(node, key, level) /\ node.kind = 256 -> GetValue256(node, key)

-----------------------------------------------------------------------------
(***************************************************************************)
(* Put.                                                                    *)
(***************************************************************************)
RECURSIVE PutBelow(_, _, _, _)

\* The highest level at which two keys differ: -1 when they are equal.
DifferAt(key1, key2) ==
  Max({-1} \cup {l \in 0 .. Levels - 1 : Digit(key1, l) # Digit(key2, l)})

\* The key leaves the skipped levels of the node.
NeedsBranch(node, key, level) ==
  level # node.level /\ DifferAt(key, node.key) > node.level

BranchIfRequired(node, key, value) ==
  Result(InitTwoKeys(node.key, node, key, InitFirstKey(key, value),
                     DifferAt(key, node.key)),
         [Zero EXCEPT ![4] = 2])

NewChild(node, key, value) ==
  IF node.level = 0 THEN Result(value, Zero)
  ELSE Result(InitFirstKey(key, value), Taken(4))

\* What takes the place of a child after a put below it.
ChildAfterPut(node, child, key, value) ==
  IF node.level = 0 THEN Result(value, Zero)
  ELSE PutBelow(child, key, node.level - 1, value)

PutSorted(node, key, value, grown) ==
  LET digit == Digit(key, node.level)
      pos == Position(node, digit)
      below == ChildAfterPut(node, node.nodes[pos], key, value)
      new == NewChild(node, key, value)
  IN CASE SortedChild(node, digit) # Nil ->
            Result([node EXCEPT !.nodes[pos] = below.node], below.got)
       [] SortedChild(node, digit) = Nil /\ node.num < Capacity[node.kind] ->
            Result(Inserted(node, digit, new.node), new.got)
       [] OTHER -> grown

Put4(node, key, value) ==
  LET new == NewChild(node, key, value)
  IN PutSorted(node, key, value,
       Result(Node16FromNode4(node, Digit(key, node.level), new.node),
              Plus(new.got, Plus(Taken(16), Returned(4)))))

Put16(node, key, value) ==
  LET new == NewChild(node, key, value)
  IN PutSorted(node, key, value,
       Result(Node48FromNode16(node, Digit(key, node.level), new.node),
              Plus(new.got, Plus(Taken(48), Returned(16)))))

Put48(node, key, value) ==
  LET digit == Digit(key, node.level)
      slot == node.indexes[digit]
      below == ChildAfterPut(node, node.nodes[slot], key, value)
      new == NewChild(node, key, value)
      free == Min((0 .. Capacity[48]) \ node.mask)
  IN CASE slot # -1 -> Result([node EXCEPT !.nodes[slot] = below.node], below.got)
       [] slot = -1 /\ node.num < Capacity[48] ->
            Result([node EXCEPT !.num = @ + 1, !.indexes[digit] = free,
                                !.nodes[free] = new.node, !.mask = @ \cup {free}],
                   new.got)
       [] OTHER -> Result(Node256FromNode48(node, digit, new.node),
                          Plus(new.got, Plus(Taken(256), Returned(48))))

Put256(node, key, value) ==
  LET digit == Digit(key, node.level)
      below == ChildAfterPut(node, node.nodes[digit], key, value)
      new == NewChild(node, key, value)
  IN IF node.nodes[digit] # Nil
     THEN Result([node EXCEPT !.nodes[digit] = below.node], below.got)
     ELSE Result([node EXCEPT !.num = @ + 1, !.nodes[digit] = new.node], new.got)

PutBelow(node, key, level, value) ==
  LET branch == NeedsBranch(node, key, level)
  IN CASE branch -> BranchIfRequired(node, key, value)
       [] ~ branch /\ node.kind = 4   -> Put4(node, key, value)
       [] ~ branch /\ node.kind = 16  -> Put16(node, key, value)
       [] ~ branch /\ node.kind = 48  -> Put48(node, key, value)
       [] ~ branch /\ node.kind = 256 -> Put256(node, key, value)

-----------------------------------------------------------------------------
(***************************************************************************)
(* Remove.                                                                 *)
(***************************************************************************)
RECURSIVE RemoveBelow(_, _, _)

\* What takes the place of a child after a removal below it.
ChildAfterRemove(node, child, key) ==
  IF node.level = 0 THEN Result(Nil, Zero)
  ELSE RemoveBelow(child, key, node.level - 1)

RemoveSorted(node, key) ==
  LET pos == Position(node, Digit(key, node.level))
      below == ChildAfterRemove(node, node.nodes[pos], key)
  IN IF SortedChild(node, Digit(key, node.level)) = Nil THEN Result(node, Zero)
     ELSE Result(IF below.node = Nil THEN RemoveElementAtPos(node, pos)
                 ELSE [node EXCEPT !.nodes[pos] = below.node],
                 below.got)

\* Mutant: the node is left out of the tree and not given back.
Remove4Leaking(node, key) ==
  LET rest == RemoveSorted(node, key)
  IN CASE rest.node.num = 0 -> Result(Nil, Plus(rest.got, Returned(4)))
       [] rest.node.num = 1 /\ node.num = 2 /\ node.level # 0 ->
            Result(rest.node.nodes[1], rest.got)
       [] OTHER -> rest

\* A node that is left with one sub-node gives its place to it.
Remove4(node, key) ==
  LET rest == RemoveSorted(node, key)
      gone == Plus(rest.got, Returned(4))
  IN CASE rest.node.num = 0 -> Result(Nil, gone)
       [] rest.node.num = 1 /\ node.num = 2 /\ node.level # 0 ->
            Result(rest.node.nodes[1], gone)
       [] OTHER -> rest

Remove16(node, key) ==
  LET rest == RemoveSorted(node, key)
  IN IF rest.node.num = SwitchThreshold[16]
     THEN Result(Node4FromNode16(rest.node),
                 Plus(rest.got, Plus(Taken(4), Returned(16))))
     ELSE rest

Remove48(node, key) ==
  LET digit == Digit(key, node.level)
      slot == node.indexes[digit]
      below == ChildAfterRemove(node, node.nodes[slot], key)
      rest == IF below.node # Nil THEN [node EXCEPT !.nodes[slot] = below.node]
              ELSE [node EXCEPT !.num = @ - 1, !.indexes[digit] = -1,
                                !.nodes[slot] = Nil, !.mask = @ \ {slot}]
  IN CASE slot = -1 -> Result(node, Zero)
       [] slot # -1 /\ rest.num = SwitchThreshold[48] ->
            Result(Node16FromNode48(rest),
                   Plus(below.got, Plus(Taken(16), Returned(48))))
       [] OTHER -> Result(rest, below.got)

Remove256(node, key) ==
  LET digit == Digit(key, node.level)
      below == ChildAfterRemove(node, node.nodes[digit], key)
      rest == [node EXCEPT !.nodes[digit] = below.node,
                           !.num = IF below.node = Nil THEN @ - 1 ELSE @]
  IN CASE node.nodes[digit] = Nil -> Result(node, Zero)
       [] node.nodes[digit] # Nil /\ rest.num = SwitchThreshold[256] ->
            Result(Node48FromNode256(rest),
                   Plus(below.got, Plus(Taken(48), Returned(256))))
       [] OTHER -> Result(rest, below.got)

RemoveBelow(node, key, level) ==
  LET outside == Outside(node, key, level)
  IN CASE outside -> Result(node, Zero)
       [] ~ outside /\ node.kind = 4   -> Remove4(node, key)
       [] ~ outside /\ node.kind = 16  -> Remove16(node, key)
       [] ~ outside /\ node.kind = 48  -> Remove48(node, key)
       [] ~ outside /\ node.kind = 256 -> Remove256(node, key)

-----------------------------------------------------------------------------
(***************************************************************************)
(* Neighbours: the least value at or after a key, the greatest at or       *)
(* before it.                                                              *)
(***************************************************************************)
RECURSIVE Ceiling(_, _, _), Floor(_, _, _)

\* The first of some results that is not nullptr.
FirstFound(results) ==
  LET found == {i \in DOMAIN results : results[i] # Nil}
  IN IF found = {} THEN Nil ELSE results[Min(found)]

CeilingBelow(node, child, key) ==
  IF node.level = 0 THEN child ELSE Ceiling(child, key, node.level - 1)

FloorBelow(node, child, key) ==
  IF node.level = 0 THEN child ELSE Floor(child, key, node.level - 1)

\* The key to look for among the children of a node that has no smaller, no
\* greater ones: the key itself, or the least or the greatest of all.
KeyFrom(node, key, level, other) == IF Outside(node, key, level) THEN other ELSE key

FromDigit(children, digit) == SelectSeq(children, LAMBDA c : c[1] >= digit)
DownFrom(children, digit) ==
  Reverse(SelectSeq(children, LAMBDA c : c[1] <= digit))

\* Mutant: the key counts below the first child, whatever its digit.
GetCeilingValue4KeepingKey(node, key) ==
  LET from == FromDigit(Children4(node), Digit(key, node.level))
  IN FirstFound([i \in DOMAIN from |->
       CeilingBelow(node, from[i][2], IF i = 1 THEN key ELSE 0)])

\* Only below the child at the digit of the key the key still counts.
GetCeilingValue4(node, key) ==
  LET digit == Digit(key, node.level)
      from == FromDigit(Children4(node), digit)
  IN FirstFound([i \in DOMAIN from |->
       CeilingBelow(node, from[i][2], IF from[i][1] = digit THEN key ELSE 0)])

GetCeilingValue16(node, key) ==
  LET digit == Digit(key, node.level)
      from == FromDigit(Children16(node), digit)
  IN FirstFound([i \in DOMAIN from |->
       CeilingBelow(node, from[i][2], IF from[i][1] = digit THEN key ELSE 0)])

\* The key counts below the first child from the digit on, whatever its digit.
GetCeilingValue48(node, key) ==
  LET from == FromDigit(Children48(node), Digit(key, node.level))
  IN FirstFound([i \in DOMAIN from |->
       CeilingBelow(node, from[i][2], IF i = 1 THEN key ELSE 0)])

GetCeilingValue256(node, key) ==
  LET from == FromDigit(Children256(node), Digit(key, node.level))
  IN FirstFound([i \in DOMAIN from |->
       CeilingBelow(node, from[i][2], IF i = 1 THEN key ELSE 0)])

Ceiling(node, key, level) ==
  LET k == KeyFrom(node, key, level, 0)
      after == level # node.level /\ Above(node.key, node.level) < Above(key, node.level)
  IN CASE after -> Nil
       [] ~ after /\ node.kind = 4   -> GetCeilingValue4(node, k)
       [] ~ after /\ node.kind = 16  -> GetCeilingValue16(node, k)
       [] ~ after /\ node.kind = 48  -> GetCeilingValue48(node, k)
       [] ~ after /\ node.kind = 256 -> GetCeilingValue256(node, k)

GetFloorValue4(node, key) ==
  LET digit == Digit(key, node.level)
      from == DownFrom(Children4(node), digit)
  IN FirstFound([i \in DOMAIN from |->
       FloorBelow(node, from[i][2], IF from[i][1] = digit THEN key ELSE MaxKey)])

GetFloorValue16(node, key) ==
  LET digit == Digit(key, node.level)
      from == DownFrom(Children16(node), digit)
  IN FirstFound([i \in DOMAIN from |->
       FloorBelow(node, from[i][2], IF from[i][1] = digit THEN key ELSE MaxKey)])

GetFloorValue48(node, key) ==
  LET from == DownFrom(Children48(node), Digit(key, node.level))
  IN FirstFound([i \in DOMAIN from |->
       FloorBelow(node, from[i][2], IF i = 1 THEN key ELSE MaxKey)])

GetFloorValue256(node, key) ==
  LET from == DownFrom(Children256(node), Digit(key, node.level))
  IN FirstFound([i \in DOMAIN from |->
       FloorBelow(node, from[i][2], IF i = 1 THEN key ELSE MaxKey)])

Floor(node, key, level) ==
  LET k == KeyFrom(node, key, level, MaxKey)
      before == level # node.level /\ Above(node.key, node.level) > Above(key, node.level)
  IN CASE before -> Nil
       [] ~ before /\ node.kind = 4   -> GetFloorValue4(node, k)
       [] ~ before /\ node.kind = 16  -> GetFloorValue16(node, k)
       [] ~ before /\ node.kind = 48  -> GetFloorValue48(node, k)
       [] ~ before /\ node.kind = 256 -> GetFloorValue256(node, k)

-----------------------------------------------------------------------------
(***************************************************************************)
(* Traversals.                                                             *)
(***************************************************************************)
RECURSIVE ForEach(_, _), ForEachDesc(_, _), Size(_, _)
RECURSIVE Entries(_), RecycleTree(_), Valid(_, _)

\* A leaf hands its key prefix and the digit to the consumer.
Entry(node, child) == <<node.key - Digit(node.key, 0) + child[1], child[2]>>

Visit(node, children, limit) ==
  IF node.level = 0
  THEN [i \in 1 .. Min({Len(children), limit}) |-> Entry(node, children[i])]
  ELSE FoldLeft(LAMBDA seen, c : IF Len(seen) >= limit THEN seen
                                 ELSE seen \o ForEach(c[2], limit - Len(seen)),
                <<>>, children)

VisitDesc(node, children, limit) ==
  IF node.level = 0
  THEN [i \in 1 .. Min({Len(children), limit}) |-> Entry(node, Reverse(children)[i])]
  ELSE FoldLeft(LAMBDA seen, c : IF Len(seen) >= limit THEN seen
                                 ELSE seen \o ForEachDesc(c[2], limit - Len(seen)),
                <<>>, Reverse(children))

\* What ForEach hands to its consumer, and ForEachDesc.
ForEach4(node, limit)   == Visit(node, Children4(node), limit)
ForEach16(node, limit)  == Visit(node, Children16(node), limit)
ForEach48(node, limit)  == Visit(node, Children48(node), limit)
ForEach256(node, limit) == Visit(node, Children256(node), limit)

ForEach(node, limit) ==
  CASE node.kind = 4   -> ForEach4(node, limit)
    [] node.kind = 16  -> ForEach16(node, limit)
    [] node.kind = 48  -> ForEach48(node, limit)
    [] node.kind = 256 -> ForEach256(node, limit)

ForEachDesc4(node, limit)   == VisitDesc(node, Children4(node), limit)
ForEachDesc16(node, limit)  == VisitDesc(node, Children16(node), limit)
ForEachDesc48(node, limit)  == VisitDesc(node, Children48(node), limit)
ForEachDesc256(node, limit) == VisitDesc(node, Children256(node), limit)

ForEachDesc(node, limit) ==
  CASE node.kind = 4   -> ForEachDesc4(node, limit)
    [] node.kind = 16  -> ForEachDesc16(node, limit)
    [] node.kind = 48  -> ForEachDesc48(node, limit)
    [] node.kind = 256 -> ForEachDesc256(node, limit)

\* A leaf answers with all its children, also when they are more than the limit.
Counted(node, children, limit) ==
  IF node.level = 0 THEN node.num
  ELSE limit - FoldLeft(LAMBDA left, c : IF left <= 0 THEN left
                                         ELSE left - Size(c[2], left),
                        limit, children)

Size4(node, limit)   == Counted(node, Children4(node), limit)
Size16(node, limit)  == Counted(node, Children16(node), limit)
Size48(node, limit)  == Counted(node, Children48(node), limit)
Size256(node, limit) == Counted(node, Children256(node), limit)

Size(node, limit) ==
  CASE node.kind = 4   -> Size4(node, limit)
    [] node.kind = 16  -> Size16(node, limit)
    [] node.kind = 48  -> Size48(node, limit)
    [] node.kind = 256 -> Size256(node, limit)

Listed(node, children) ==
  IF node.level = 0 THEN [i \in DOMAIN children |-> Entry(node, children[i])]
  ELSE FoldLeft(LAMBDA list, c : list \o Entries(c[2]), <<>>, children)

Entries4(node)   == Listed(node, Children4(node))
Entries16(node)  == Listed(node, Children16(node))
Entries48(node)  == Listed(node, Children48(node))
Entries256(node) == Listed(node, Children256(node))

Entries(node) ==
  CASE node.kind = 4   -> Entries4(node)
    [] node.kind = 16  -> Entries16(node)
    [] node.kind = 48  -> Entries48(node)
    [] node.kind = 256 -> Entries256(node)

RecycleSubTrees(node) ==
  IF node.level = 0 THEN Zero
  ELSE FoldLeft(LAMBDA got, c : Plus(got, RecycleTree(c[2])), Zero, Children(node))

RecycleTree4(node)   == Plus(RecycleSubTrees(node), Returned(4))
RecycleTree16(node)  == Plus(RecycleSubTrees(node), Returned(16))
RecycleTree48(node)  == Plus(RecycleSubTrees(node), Returned(48))
RecycleTree256(node) == Plus(RecycleSubTrees(node), Returned(256))

RecycleTree(node) ==
  CASE node.kind = 4   -> RecycleTree4(node)
    [] node.kind = 16  -> RecycleTree16(node)
    [] node.kind = 48  -> RecycleTree48(node)
    [] node.kind = 256 -> RecycleTree256(node)

-----------------------------------------------------------------------------
(***************************************************************************)
(* ValidateInternalState.                                                  *)
(***************************************************************************)
ValidSorted(node) ==
  /\ Len(node.keys) = node.num /\ Len(node.nodes) = node.num
  /\ \A i \in 1 .. node.num : node.nodes[i] # Nil
  /\ \A i \in 2 .. node.num : node.keys[i - 1] < node.keys[i]

ValidNode4(node) == node.num \in 1 .. Capacity[4] /\ ValidSorted(node)

ValidNode16(node) ==
  node.num \in SwitchThreshold[16] + 1 .. Capacity[16] /\ ValidSorted(node)

ValidNode48(node) ==
  LET used == {d \in Digits : node.indexes[d] # -1}
  IN /\ \A d \in used : node.nodes[node.indexes[d]] # Nil
     /\ node.num = Cardinality(used)
     /\ node.mask = {node.indexes[d] : d \in used}

ValidNode256(node) ==
  /\ node.num = Cardinality({d \in Digits : node.nodes[d] # Nil})
  /\ node.num > SwitchThreshold[256]

Valid(node, level) ==
  /\ node.level <= level
  /\ CASE node.kind = 4   -> ValidNode4(node)
       [] node.kind = 16  -> ValidNode16(node)
       [] node.kind = 48  -> ValidNode48(node)
       [] node.kind = 256 -> ValidNode256(node)
  /\ node.level # 0 => \A child \in Range(Children(node)) :
       Valid(child[2], node.level - 1)

-----------------------------------------------------------------------------
(***************************************************************************)
(* The map.  The value of a key is the key: a book stores the bucket of a  *)
(* price under the price, and no other.                                    *)
(***************************************************************************)
Init ==
  /\ root = Nil
  /\ outstanding = Zero
  /\ present = {}

Keep(result) ==
  /\ root' = result.node
  /\ outstanding' = Plus(outstanding, result.got)

PutKey(key) ==
  /\ Keep(IF root = Nil THEN Result(InitFirstKey(key, key), Taken(4))
          ELSE PutBelow(root, key, InitialLevel, key))
  /\ present' = present \cup {key}

RemoveKey(key) ==
  /\ root # Nil
  /\ Keep(RemoveBelow(root, key, InitialLevel))
  /\ present' = present \ {key}

Clear ==
  /\ root # Nil
  /\ Keep(Result(Nil, RecycleTree(root)))
  /\ present' = {}

Next ==
  \/ \E key \in Keys : PutKey(key) \/ RemoveKey(key)
  \/ Clear

Spec == Init /\ [][Next]_vars

Get(key) == IF root = Nil THEN Nil ELSE GetValue(root, key, InitialLevel)

GetHigherValue(key) ==
  IF root = Nil \/ key = MaxKey THEN Nil ELSE Ceiling(root, key + 1, InitialLevel)

GetLowerValue(key) ==
  IF root = Nil \/ key = 0 THEN Nil ELSE Floor(root, key - 1, InitialLevel)

SizeUpTo(limit) ==
  IF root = Nil THEN 0 ELSE Min({Size(root, limit), limit})

EntriesList == IF root = Nil THEN <<>> ELSE Entries(root)

-----------------------------------------------------------------------------
\* Whatever was put and removed, every node keeps its children in order and in
\* its bounds, and a Node48 knows which of its slots are free; and the nodes of the
\* tree are exactly those taken from the pool: no growing, shrinking, branching or
\* collapsing loses track of a child, leaks a node or gives back one in use.
NodesValidAndAccounted ==
  /\ root # Nil => Valid(root, InitialLevel)
  /\ outstanding = IF root = Nil THEN Zero
                   ELSE [kind \in Kinds |-> - RecycleTree(root)[kind]]

\* The tree is an ordered map: it holds exactly the keys that were put and not
\* removed, each with its value, and every way to read it agrees.  A search finds
\* what the traversals list, these are in order and stop at the limit, and so does
\* the size.
IsOrderedMap ==
  LET keys == Ascending(present)
      n == Len(keys)
      entry(key) == <<key, key>>
      listed == [i \in 1 .. n |-> entry(keys[i])]
  IN /\ EntriesList = listed
     /\ \A key \in Keys : Get(key) = IF key \in present THEN key ELSE Nil
     /\ \A limit \in 0 .. n + 1 :
          /\ SizeUpTo(limit) = Min({n, limit})
          /\ root # Nil =>
               /\ ForEach(root, limit) = SubSeq(listed, 1, Min({n, limit}))
               /\ ForEachDesc(root, limit)
                    = SubSeq(Reverse(listed), 1, Min({n, limit}))

NeighboursOf(key) ==
  LET higher == {k \in present : k > key}
      lower == {k \in present : k < key}
  IN /\ GetHigherValue(key) = IF higher = {} THEN Nil ELSE Min(higher)
     /\ GetLowerValue(key) = IF lower = {} THEN Nil ELSE Max(lower)

\* IArtNode.h:70 and :78: "smallest key >= given key", "largest key <= given key".
NeighboursFound == \A key \in 0 .. MaxKey : NeighboursOf(key)

RECURSIVE WideInside(_)
WideInside(node) ==
  /\ node.level # 0
  /\ \/ node.kind \in {48, 256}
     \/ \E child \in Range(Children(node)) : WideInside(child[2])

\* A book that inserts at a new price finds the bucket next to it, as long as no
\* inner node of the tree has grown beyond a Node16.
NarrowNeighboursFound ==
  (root = Nil \/ ~ WideInside(root)) => NeighboursFound
=============================================================================
