\* Every command against every book of up to three orders.
CONSTANTS
  ExchangePair = TRUE
  Commands <- MCCommands
SPECIFICATION Spec
VIEW Books
INVARIANT BookConsistent
PROPERTIES VolumeConserved MakersInPriority QueueKept FillOrKill CompletionReported
