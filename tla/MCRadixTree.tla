----------------------------- MODULE MCRadixTree -----------------------------
EXTENDS RadixTree

\* A digit has six values and a node at most three, four, five or six children;
\* shrinking lags one behind growing, as in the code.
MCCapacity == (4 :> 3) @@ (16 :> 4) @@ (48 :> 5)
MCSwitchThreshold == (16 :> 2) @@ (48 :> 3) @@ (256 :> 4)

\* All keys of one leaf, one key in each of its siblings, and another subtree.
MCKeys == {0, 1, 2, 3, 4, 5} \cup {8, 13, 18, 27, 30} \cup {50}

\* In which slot of a Node48 a child is makes no difference.
RECURSIVE Shape(_)
Shape(node) ==
  IF node = Nil THEN <<>>
  ELSE LET children == Children(node)
       IN <<node.kind, node.level, node.num,
            IF node.level = 0 THEN [i \in DOMAIN children |-> Entry(node, children[i])]
            ELSE [i \in DOMAIN children |-> Shape(children[i][2])]>>

Tree == <<Shape(root), outstanding, present>>
=============================================================================
