\* The direct book refines the order book.
CONSTANTS
  ExchangePair = TRUE
  Commands <- DirectCommands
  PoolCapacity = 1
SPECIFICATION Spec
VIEW Books
INVARIANTS ViewsAgree ObjectsOwnedOnce
PROPERTY RefinesOrderBook
CHECK_DEADLOCK FALSE
