\* Growing, shrinking and branching of every form of node, inner and leaf.
CONSTANTS
  Base = 6
  Levels = 3
  Capacity <- MCCapacity
  SwitchThreshold <- MCSwitchThreshold
  Keys <- MCKeys
  Nil = Nil
SPECIFICATION Spec
VIEW Tree
INVARIANTS NodesValidAndAccounted IsOrderedMap NarrowNeighboursFound
CHECK_DEADLOCK FALSE
