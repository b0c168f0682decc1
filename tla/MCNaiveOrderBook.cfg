\* The naive book refines the order book.
CONSTANTS
  ExchangePair = TRUE
  Commands <- FewerCommands
SPECIFICATION Spec
VIEW Books
PROPERTY RefinesOrderBook
