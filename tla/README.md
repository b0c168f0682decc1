# A TLA+ model of exchange-cpp

exchange-cpp is an in-memory matching engine: orders of many users go through
one ring buffer, are checked against balances, matched, settled and answered.
This directory models its core. It says what the parts promise, checks the
promises on small instances with TLC and proves some of them for all instances
with TLAPS. `PROJECT.json` maps every definition to the lines it stands for.

Source paths below are relative to the repository; `core/` is
`src/exchange/core/`.

## 1. Inventory

### The parts and how they interact

```
 clients --claim/publish--> ring of OrderCommand slots
   G (GroupingProcessor)
     -> J (journaling)                                    \
     -> R1[s] (TwoStepMasterProcessor, RiskEngine s)       \
          -> ME[m] (MatchingEngineRouter m, order books)    \
               -> R2[s] (TwoStepSlaveProcessor, RiskEngine s)
               -> E (results handler, after ME and J)
```

| Part | State | Operations | Talks to |
|---|---|---|---|
| `ExchangeCore` | the disruptor, the processors | wiring, startup, shutdown, exception handler | everything |
| `ExchangeApi` | promises by sequence | submit single commands and batches, binary messages in frames, snapshots, replay | ring (claims, writes, publishes); E calls `ProcessResult` |
| `GroupingProcessor` | group counter, messages in group, sequence | cut the stream into groups, recycle event chains | slots (`eventsGroup`) |
| `TwoStepMasterProcessor` | sequence, current group, last trigger | pre-process a batch, switch groups, publish progress | drives its slave on its own thread |
| `TwoStepSlaveProcessor` | `nextSequence_`, sequence | settle up to a given sequence | waits for ME |
| `RiskEngine` | profiles of its users with positions, fees, adjustments, last prices | check and hold or margin (R1), settle (R2), reports, snapshots | `UserProfileService`, slots |
| `UserProfileService` | uid -> profile | add, suspend, resume, adjust | called by `RiskEngine` |
| `MatchingEngineRouter` | symbol -> book | route commands, add symbols, reports, snapshots | `IOrderBook` |
| `OrderBookNaiveImpl`, `OrdersBucket` | buckets by price, `idMap_` | place, cancel, reduce, move, L2 data | `OrderBookEventsHelper` |
| `OrderBookDirectImpl` | linked orders, buckets in radix trees, pool | the same | `ObjectsPool`, ART |
| `OrderBookEventsHelper`, `SharedPool` | chains of matcher events | take events, return chains | ME takes, G returns |
| `DiskSerializationProcessor` | journal buffer and files, snapshots | write, flush, store, load, replay | J, R1, ME, API |
| `BinaryCommandsProcessor` | fragments by transfer | collect frames, run the message | R1 and ME |
| `SimpleEventsProcessor` | none | translate results for clients | E |
| ART, `ObjectsPool` | tree nodes, free lists | put, get, remove, range | `OrderBookDirectImpl` |

What makes the code hard:

* Every processor has its own thread and its own sequence. Progress is
  published in lumps (batch ends, group ends, forced publishes), the barriers
  between stages must still hold, and slots are used again.
* R1 and R2 of a shard share one `RiskEngine`. R1 checks commands *before* the
  earlier ones are settled: holds must cover every outcome. When settlements run
  is decided by group numbers which another thread writes.
* The taker and the maker of one trade are settled by different engines at
  different times, each with its part of fees and refunds.
* Snapshots and reports are put together from parts that different threads take
  at different times.
* A failure in the middle (an exception after a claim, in a handler, in a file)
  leaves something half done.
* After a restart the journal is replayed through the same pipeline, with
  grouping off.
* The order books keep redundant state (volumes per bucket, id map, links, best
  pointers) by hand, and the direct book and the tree under it manage their
  objects by hand as well.
* Results find their way back by the sequence a client happened to claim, and
  several engines write into one command without a lock.

### What makes each part correct

* Pipeline: no processor overtakes the ones it follows; a slot is not reused
  while someone may read it; a risk engine settles a group before it enters the
  next; the cuts of snapshots and reports are at one point of the sequence;
  everything published completes.
* Order books: priority by price and time, no crossed book, volume is conserved,
  fill-or-kill is all or nothing, clients are told truly which orders are
  completed; the two implementations behave alike, links and indexes agree, no
  object is lost or used twice; the tree is an ordered map.
* Risk engines: nobody is overdrawn; each user ends with exactly what the
  deposits and trades say; a balance report adds up to zero at any time; a
  transaction id is applied once. With futures: what is pending in a position is
  what may still trade, no position goes away while it is needed, longs and
  shorts balance, an order has the margin it needs.
* Journal: snapshot plus journal give back the state after a prefix of the
  commands, whatever was going on when the process stopped; what clients have
  seen done is in the files or still in the buffer.
* Results: every future gets the answer of its own request, from all engines
  that have a say in it; messages are put together whole.
* Matcher events: an event object is in one place at a time, and what a command
  carries does not change until everybody has read it.

The hazards, each at its line, are in `PROJECT.json` under `hazards`, with the
properties that would catch them.

## 2. Modules

| Module | Models | State | Extends |
|---|---|---|---|
| `Pipeline` | ring, clients, G, R1/R2, ME, J, E | sequences of all processors, commands by sequence | |
| `PipelineProofs` | theorems of `Pipeline` | | `Pipeline`, `TLAPS` |
| `Lists` | filtering and adding up sequences | | |
| `Induction` | lemmas on numbers, recursive functions, `Lists` | | `Lists`, `TLAPS` |
| `PriceTimeBook` | what any order book does with a command, as operators | | |
| `SimpleEvents` | `SimpleEventsProcessor`: what a client is told | | `Lists` |
| `OrderBook` | the abstract specification of `IOrderBook` | a book, the last slot | `PriceTimeBook`, `SimpleEvents` |
| `PriceTimeBookProofs` | what a book does with each command, for any orders in it | | `PriceTimeBook`, `Induction` |
| `OrderBookProofs` | theorems of `OrderBook` | | `OrderBook`, `PriceTimeBookProofs` |
| `NaiveOrderBook` | `OrderBookNaiveImpl`, `OrdersBucket` | buckets, `idMap`, the last slot | `PriceTimeBook` |
| `DirectOrderBook` | `OrderBookDirectImpl`, `ObjectsPool` | order and bucket objects by address, index, tree, best pointers, free objects | `PriceTimeBook` |
| `RadixTree` | `LongAdaptiveRadixTreeMap` and its four forms of node | the tree, the nodes taken from the pool | |
| `SymbolPosition` | `SymbolPositionRecord`, as operators on a record | | |
| `UserProfileService` | the service, as operators on profiles | | `SymbolPosition` |
| `RiskEngine` | `RiskEngine` on currency pairs, as operators on an engine | | `PriceTimeBook`, `UserProfileService` |
| `Exchange` | risk engines, book and slots joined by the stages | engines, book, slots, progress of the stages | `RiskEngine` |
| `ExchangeProofs` | lemmas on credits, holds and engines; theorems of `Exchange` | | `Exchange`, `PriceTimeBookProofs` |
| `MarginTrading` | `RiskEngine` on futures contracts, as operators on an engine | | `RiskEngine` |
| `MarginExchange` | risk engines, a book per contract and slots joined by the stages | as `Exchange`, with positions and last prices | `MarginTrading` |
| `Journal` | `DiskSerializationProcessor`, the journaling handler, startup | disk, memory of the processor, ring of the run, progress of J and of the engines | |
| `JournalProofs` | theorems of `Journal` | | `Journal`, `Induction` |
| `EventPool` | `SharedPool`, the helpers of the engines, the collecting of chains by G | event objects linked by `nextEvent`, chains in the pool, at helpers, in slots, at G | |
| `EventPoolProofs` | theorems of `EventPool` | | `EventPool`, `Induction` |
| `CommandResults` | promises of `ExchangeApi`, `BinaryCommandsProcessor`, `UnsafeUtils`, `ProcessResult` | what clients are doing, commands, promises, frames so far, writes under way | |
| `CommandResultsProofs` | theorems of `CommandResults`: requests and answers; messages of several frames | | `CommandResults`, `Induction` |
| `MC...`, `BookCommands` | instances for TLC | | |

### Pipeline

A slot is named by its sequence; `NoOverrun` is what justifies that. One action
per step a thread takes between two accesses to shared sequences:

| Action | Code |
|---|---|
| `ClaimRequest`, `PublishRequest` | `ringBuffer_->next(n)` ... `publish(lo, hi)` in the methods of `ExchangeApi` |
| `ClaimAndThrow` | `SubmitCommandsBatch`, `SubmitCommandAsync` throwing after the claim |
| `GroupWait`, `GroupCommand`, `GroupTimeout` | `GroupingProcessor::ProcessEvents` |
| `MasterWait`, `MasterSwitchGroup`, `MasterCommand` | `TwoStepMasterProcessor::ProcessEvents` |
| `SlaveCommand`, `SlaveReturn` | `TwoStepSlaveProcessor::HandlingCycle` |
| `MatchBatch`, `JournalBatch`, `ResultsBatch` | the batch handlers that the disruptor library runs |

R1 and R2 of a shard are one thread; `rPc` says where it is. The barrier and
gating sequences of the library (not in the repository) are modelled by their
guards: a processor waits for the sequences it follows, a claim waits for the
sequences nobody follows.

### The order books

`PriceTimeBook` defines a book as two queues and each command as a function of
a book and a slot. A command is its `OrderCommand` slot, and the result is the
slot with result code, matcher events and, for ORDER_BOOK_REQUEST, market data
filled in. `SimpleEvents` gives what `SimpleEventsProcessor` makes of such a
slot for a client.

`NaiveOrderBook` has the buckets, the lists, the running volumes and the loops
of the code. `DirectOrderBook` has the objects of the code at addresses: orders
linked by `next` and `prev`, buckets that know the last order of a price, the
index, the two trees (maps here), the best pointers and the stacks of the object
pool. Its matching loop walks the links as the code does. The matcher events of
both come from the same `TradeEvent`, `ReduceEvent` and `RejectEvent`, whose
fields are those `OrderBookEventsHelper` sets. Both refine `OrderBook`, under a
mapping `Queues` (the buckets one after another; the chain from the best order
on). The mapping of the direct book also gives the slot of a move over the risk
limit its action (`AnsweredSlot`): the naive book writes it there, the direct
book does not, and nobody reads it. `Restore` writes a book as its snapshot and
builds it again; for the abstract book it is a stutter.

`RadixTree` is what is below the trees of the direct book. A node is a record of
one of four kinds with the arrays of the code; `Put`, `Remove`, the searches and
the traversals are one operator per method and form. What is taken from and given
to the node pool is counted by kind.

### The exchange

`RiskEngine` has the amounts of `CoreArithmeticUtils`, the pre-check and hold,
the adjustments and the settlement. `Exchange` joins engines and a book through
slots in flight; a stage takes commands in sequence, at any time after the stage
before it, which is more than `Pipeline` allows, save for two things taken from
it and checked there: an engine handles a report, a message or RESET when it has
settled everything before (`ReportCut`), and the order of the stages
(`StageOrder`). `due` and `settlements` are history variables: no action reads
them.

A BINARY_DATA_COMMAND slot stands for the last frame of a message and carries the
whole of it: symbols, which the engines and then the router (`listed`) come to
know, or accounts. Every engine adds all the users of a message, because
`HandleBinaryMessage` does not ask whether they are its own; `Accounts` reads the
profile at the engine that serves the user, and the copies elsewhere only add
zero to a report. RESET empties the engines and removes the book, and `due` and
`settlements` begin anew.

`MarginExchange` is the same with futures contracts. `SymbolPosition` has the
methods of a position record; the positions of a user are a sequence in the
order in which the hash map iterates, where an erased entry is replaced by the
last one, because the margin check depends on that order. The matching engine
posts market data of a book into the slot, always or when G asked for it, and R2
takes its last prices from there. `lost` and `uncovered` are history variables:
that a settlement did not find, or used after its return to the pool, a position
record; that an order was accepted without its margin.

### Journal

The ring of a run is a sequence; J and the engines go through it at their own
pace, and `Pipeline` is what allows to take the engines together. The processor
object is the record `journal`, with the names of its members, and the methods
are operators that return it changed, with the files it has written:

| Operator or action | Code |
|---|---|
| `WriteToJournal`, `Prepared`, `OnPersist`, `OnReset`, `OnShutdown` | `WriteToJournal`, one branch each |
| `FlushBufferSync`, `StartNewFile` | the same; an existing file throws, which ends J (the library's handler rethrows) |
| `JournalCommand` | `JournalingEventHandler`, a batch ending at any published sequence |
| `Apply` | the engines; `StoreData` at PERSIST_STATE_MATCHING and PERSIST_STATE_RISK, which may fail |
| `Crash`, `CrashInFlush` | memory is lost; of a flush under way a part may be in the file |
| `Restart` | a new process with `LastKnownStateFromJournal`: `LoadData`, then `ReplayJournalFull` |
| `EnableJournaling` | the second half of `ReplayJournalFullAndThenEnableJouraling` |

Records and sizes are counted in records. The state of the exchange is the
sequence of the commands that took effect since the last RESET, so two states
are equal exactly when the same commands made them in the same order.

### EventPool

An event is an object with a `nextEvent`; everybody who holds a chain holds its
first event. Every engine has a helper for the sections of reports, a matching
engine another one for its books, each with what is left of its chain.

| Action | Code |
|---|---|
| `GetChain`, `SendEvent` | `NewMatcherEvent`: a chain of the pool or a new one when the helper's is used up; the next event of it, cut off |
| `FinishCommand` | the command is handled, its events hung before those it has (`AppendEventsVolatile`, or a book's own chain) |
| `GroupCommand`, `GroupTimeout` | G cleans the slot, links its chain to what it has collected, and returns that to the pool at group ends or when it is long enough; with grouping off it lets the chain go |
| `Read` | R2 and E are done with a command; the slot may be used again |

G handles one command at a time, a batch of one: longer batches only delay what
others see. Two engines hanging their sections on one command at the same moment
is a matter of `CommandResults`.

### CommandResults

| Action | Code |
|---|---|
| `SubmitCommandAsync` and the like | the claim of each kind of request |
| `PublishNextFragment`, `FilePromises`, `Publish` | the steps after it: a quarter of the ring at a time, the promise under the last sequence, then the publish |
| `AcceptFrame`, `CompleteCommand`, `CompleteQuery` | `BinaryCommandsProcessor::AcceptBinaryFrame` |
| `StoreData`, `ExchangeResult`, `ExchangeEvents` | a part of a snapshot; the load and the compare-and-exchange loops of `UnsafeUtils` |
| `ProcessResult` | the four maps in their order |

A failure of `compare_exchange_weak` for no reason would only repeat the loop and
is a stutter. RESET and broken transfers are left out; a RESET between two
fragments of a message throws the record away and leaves the rest of it to be taken
for a new message.

## 3. Runs

| Run | Question | Instance |
|---|---|---|
| `pipeline_safety` | order of the stages, slots, groups, snapshot and report cuts, with resets, shutdown signals, frames and a throwing request | 1 risk engine, 2 matching engines, journal, ring of 3, 4 commands, 2 clients |
| `pipeline_live` | every published command completes, in a journal replay too (grouping off, groups from the journal) | 2 risk engines, ring of 2, 4 commands |
| `order_book` | the book's promises | every command of two users, three order ids, three prices |
| `naive_order_book`, `direct_order_book` | the naive and the direct book are order books; links, index and objects of the direct book | two prices, three ids, moves to a third price; an object pool of one |
| `radix_tree` | the tree is an ordered map, its nodes well formed and accounted for | digits 0-5, three levels, nodes of at most 3, 4, 5 and 6 children, 12 keys |
| `exchange_trading` | overdraft, settlement, adjustments among orders, messages, RESET, reports | 2 engines, 2 users, 4 commands, 3 in flight |
| `margin_exchange` | positions, pending sizes and the balance of everything paid | 2 engines, 2 users, 2 contracts, 4 commands, 3 in flight |
| `margin_covered` | see Findings | as before, 2 in flight |
| `journal` | recovery after a crash at any time, with failing snapshots | 3 requests, 2 restarts, buffer of 4 records, files of 2 |
| `command_results` | answers, reports, results of snapshots, messages | 2 clients, 3 requests of seven kinds, 2 risk engines and 1 matching engine, 4 commands |
| `event_pool` | ownership of events, chains of commands | 2 engines with 3 helpers, ring of 2, chains of 2, 4 commands, 6 events |

Why the bounds are enough. In `Pipeline` the claims run ahead of a full ring,
so slots are reused; groups close by limit, by command and by timeout; a batch
may end inside a group; a snapshot pair may be split by a batch. The mutants in
`PROJECT.json` show that each property is reached by a plausible slip of the
code. The order book runs have no bound on the length of a behaviour: all books
with up to three resting orders are reached and every command is applied to
each. `VIEW` drops the last slot from the fingerprint, because the next command
does not depend on it, but keeps whether it was a market data request: each
book then has a state from which no command is a stutter. Four commands are a
bid, an ask, a third order or a change, and a report or a repeat. `exchange_trading`
starts from users with funds, or from a new exchange, to which messages bring the
symbol and the accounts; RESET leads from the one to the other.

The direct book has more state than its queues: addresses and the stacks of free
objects. Its `VIEW` keeps the queues, the counters of the buckets and the number
of free objects, because no command looks at an address but to follow it. A pool
of one object reaches a pool that is empty, one that is full and an object that is
used again in the same command.

The tree is scaled down: 256 digits and nodes of 4, 16, 48 and 256 children would
need hundreds of keys for one change of form. With 6 digits and the limits 3, 4
and 5, and shrinking one below growing as in the code, 12 keys reach every form at
the leaves, all but the widest ones above them, skipped levels, and every change
in both directions. `VIEW` leaves out in which slot of a Node48 a child is.

In `margin_exchange` users trade from long to short and back, hold positions in
two contracts, and pay out what they have; four commands are two orders that trade,
a change, and a suspension or another order behind them. Prices are two or more:
the report values a position at the average of the last prices, and for a price
of one its halves lose the remainder. All contracts settle in the quote currency.
Withdrawals do not look at margin, in the code and here.

In `event_pool` a ring of two is used twice over by four commands, chains of two
are shorter than the events of two commands, and the bound of 6 events leaves room
for new chains when the pool is empty, and for every helper to hold one. Commands that close a group, those that open
one, the limit of a group and grouping switched off and on all occur.

In `command_results` two requests of two frames overlap in every way and a third
follows; each of the seven kinds meets each other kind.

In `journal` three requests are enough for a command before a snapshot, the
snapshot and a command after it, with the crash anywhere between the steps of J
and of the engines, and for new commands after a restart; the buffer is flushed
by its trigger, by the end of a batch and by force, and files are switched by
size, by RESET and by snapshots. The flush of a full buffer never happens when
the trigger is below the size, as in the default configuration and here.

Deadlock checking is off where the number of commands is bounded: the system
stops when they are used up. The order book runs check it.

Fairness (`Pipeline!Fairness`) is weak fairness of each processor and of
publishing: each processor is a thread that spins in `TryWaitFor` or in the
library's loop, and a client between claim and publish runs straight on.
Claims and the group timeout get none: no client has to send anything, and
nothing may depend on the timeout.

Parameters: fees in `exchange_trading` satisfy makerFee <= takerFee <= quoteScaleK.
The code does not check the first (`CoreSymbolSpecification.h:40` has it as a
TODO) and without it a filled maker pays more than was held; without the second
a sale at a low price earns less than its fee. Its users start after
their deposits, which are in `external` so that the books balance.
The requests of `journal` have no binary messages (see Findings), snapshot ids
are fresh, as in the tests, and the operator starts with the newest snapshot and
always with the same convention for `snapshotBaseSeq`: 0, as the tests do, or
the sequence logged with the snapshot. Changing the convention between two
starts makes `ReplayNotJournaled` false. `ReleasedIsKept`
says nothing where storing a snapshot failed or journaling is not on (yet).
`ReportCut` and `SnapshotCut` are for grouping switched on: a journal replay
switches it off, and then the groups are those of the journal.

## 4. Findings

The run `margin_covered` finds a disagreement of code and comment: the margin
check sums the free margin over all positions of a user, but assigns to the sum
where it should add, at the position of the order's own contract
(`core/processors/RiskEngine.cpp:704`). What positions in other contracts lose,
or need as margin, does not count when the hash map has them first, and an order
is accepted that they leave no margin for.

Other disagreements met while modelling. They are behaviour of the modules, or
of instances with the requests named here, and no property above denies them:

* A master triggers its slave at the end of every batch the ring happened to
  offer (`core/processors/TwoStepMasterProcessor.cpp:160`), so a risk check may
  or may not see the settlement of an earlier command of its own group, where
  the README (line 113) says that the same input gives the same state.
* A batch with an unsupported command throws after the claim
  (`core/ExchangeApi.cpp:929`) and leaves its sequences unpublished; every
  processor waits there for ever (`Pipeline!ClaimAndThrow`).
* A book rejects an IOC_BUDGET order whole, and a rejected bid is refunded size
  times its budget (`core/processors/RiskEngine.cpp:506`) although it held the
  budget once. `exchange_trading` has no such bids, and `MoneyIsKept` is for
  clients that send none.
* Suspending an emptied user deletes the adjustments counter with the profile
  (`core/processors/UserProfileService.cpp:126`), so an old transaction id is
  accepted again. `exchange_trading` has no suspensions.
* The accounts of a new user in a BatchAddAccounts message are paid in under the
  transaction ids 1e9 + currency, in the order of a hash map
  (`core/processors/RiskEngine.cpp:371`). A smaller id after a larger one is refused,
  so the deposit in that currency is lost, and so is every later deposit with an id
  below 1e9. The messages of `exchange_trading` list accounts by ascending
  currency; in the other order `AccountsSettled` is false.
* Every engine adds all users of such a message, its own or not, so the total of
  the accounts in a report counts them once for each engine.
* After a restart over an existing journal the file counter starts again
  (`core/processors/journaling/DiskSerializationProcessor.cpp:827`), so J throws at
  the first command it has to write, and commands with sequences up to the last
  journaled one are skipped without a word (line 338). The configuration's
  comment says that journaling is enabled. `Journal` has both.
* A replayed binary message never takes effect: its last frame arrives with
  symbol 255 in place of -1 (`core/ExchangeApi.cpp:625`). The requests of
  `journal` have no binary messages.
* A search for a neighbour in a Node48 or Node256 goes on with the low digits of
  the key until a first child has been looked at (`ArtNode48.h:267` and `:291`,
  `ArtNode256.h:206` and `:229`), so when the digit itself has no child the next
  one is searched as if it had. `IArtNode.h:70` and `:78` promise the
  neighbour. `RadixTree!NeighboursFound` is false for this reason;
  `NarrowNeighboursFound` is the part of it that holds. In a direct book with
  prices in more than 16 blocks of 256, a new price may be linked
  behind the wrong order (`core/orderbook/OrderBookDirectImpl.cpp:456`).
* The comment in `WriteToJournal` promises a flush at the end of a batch, but a
  batch that ends with a query returns before it, and `ReleasedIsKept` therefore
  has to count the buffer.
* `SymbolPositionRecord::ValidateInternalState` (line 203) demands a positive
  sum of prices of an open position, which closing a part at another price does
  not keep; nothing calls it. `PositionsValid` leaves that conjunct out.
* An ORDER_BOOK_REQUEST of depth 0 posts empty market data, and R2 then forgets
  the last prices of the symbol.

## 5. Proofs

The theorems hold for every value of the constants that the `ASSUME`s of the
modules allow; what a theorem asks beyond them is in its statement and below. All
of them are of the form `Spec => []P`, from an inductive invariant.

| Module | Theorem | States |
|---|---|---|
| `PipelineProofs` | `TypeCorrect`, `StagesInOrder`, `SlotsSafe`, `GroupsSettled` | `TypeOK`, `StageOrder`, `NoOverrun`, `GroupSettled` |
| | `ReportsCut`, `SnapshotsCut` | `ReportCut`, `SnapshotCut` |
| `CommandResultsProofs` | `SnapshotsAnswered` | `SnapshotFailureReported` |
| | `MessagesSafety`, `FuturesSafety`, `ReportsSafety` | `MessagesWhole`, `FuturesAnswered`, `ReportComplete` |
| `OrderBookProofs` | `TypeCorrectness`, `BookConsistency` | `TypeOK`, `BookConsistent` |
| | `PriorityOfMakers`, `QueuesKept` | `MakersInPriority`, `QueueKept` |
| | `VolumesConserved`, `FilledOrKilled` | `VolumeConserved`, `FillOrKill` |
| | `CompletionsReported` | `CompletionReported` |
| `ExchangeProofs` | `TypeCorrect`, `NeverOverdrawn`, `SettledOnce` | `TypeOK`, `NoOverdraft`, `NoDoubleSettlement` |
| | `MoneyIsKept` | `AccountsSettled` |
| `EventPoolProofs` | `OwnedOnceAlways`, `IntactAlways` | `EventsOwnedOnce`, `ChainsIntact` |
| `JournalProofs` | `TypeCorrect`, `ReplayIsNotJournaled` | `TypeOK`, `ReplayNotJournaled` |
| | `RecoversToPrefix`, `ReleasedAreKept`, `JournalIsComplete` | `RecoversPrefix`, `ReleasedIsKept`, `JournalComplete` |

`Induction` has what they share. TLAPS has no induction over an operator here, so
it is stated over a set: a set of numbers that has 0 and the successor of each of
its numbers has them all. Recursive functions are then shown to be what their
equations say (`RunOfSteps`), and the two recursions the
models use on sequences, `Kept` and `Total` of `Lists`, get their facts: what is
kept is in the set and repeats nothing (`KeptElements`, `KeptOnce`), a sum of
products that are ordered one by one is ordered (`TotalsScaled`), and sums can be
added, cut and put together (`TotalBySums`, `TotalsAdd`, `TotalOfConcat`).

### Pipeline

None of the properties is inductive. `StageOrder` speaks of what processors have
handled and published, but a guard sees only published sequences, so `Inv`
relates each thread's private position to its sequence (`GroupingInv`,
`MasterInv`) and the sequences to each other (`SequenceInv`). `NoOverrun` needs
`GatingInv`, the lap of the cursor over the two kinds of gating processors, and
`SequenceInv` then carries it to all others. `GroupSettled` needs `SwitchInv`:
everything R1 has handled since its last switch belongs to the current group,
and everything up to the switch is settled; that R1 enters a group only through
`SlaveReturn`, with R2 at R1's position, keeps it. Each action has a lemma.

The two cuts are action properties. They need `CutInv`: the groups of the
commands G has seen grow with the sequence, and a command that starts a group
has a greater group than all before it. `ReportsCut` asks for
`GroupingStaysOn` (no client switches grouping off: a journal replay does, and then
the groups are those of the journal) and `SnapshotsCut` also for `SnapshotPairs` (a
PERSIST_STATE_RISK comes behind its PERSIST_STATE_MATCHING, as in
`PublishPersistCmd`). The requests of `pipeline_safety` satisfy both.

### Results

`Base` is the invariant of the ring: the slots of all requests, published, claimed
and in flight, keep apart, and every part of a request is in one slot. On it stand
`Answering` (the promises filed are those of the awaited commands E has yet
to pass, the answers those it has passed), `SnapshotInv` (a result code is the
failure of the first engine that failed, under any interleaving of the
compare-and-exchange loops) and `Messaging`: the frames of a client follow each other
in the ring (`FrameInv`), although those of others lie between them and a transfer
id is used again, and so the frames an engine holds are those of one message from
its first on (`AssemblyInv`). `ReportInv` says which engine has hung which part
of its section where. `FuturesAnswered` needs all of it: that a binary command
answered by SUCCESS has reached every engine.

### The order book

The constant is the set of slots that may reach the book, and
`CommandsAssumption` says of each that it has natural ids and prices, no events
yet (G has taken them off), and if it is a placement, a size that is not
negative and a result other than SUCCESS (R1 leaves
VALID_FOR_MATCHING_ENGINE or an error). Sizes of other commands may be any
integers. The code checks neither the ids nor the sizes; the tests use no others.

`Inv` is `IsBook(book)` with a typed chain of events: on each side the orders are
in strict order by price and then position, their ids differ, something is left of
each, and no order of one side is within the price of one of the other. What
the theorems share is `Outcome`: whatever the command, the result is one of four.
The book is unchanged, with no event or one rejection; one order is removed or
reduced, with its event; or (`Executed`) a taker meets the other side, from which
for a move it has been taken out before. Then the makers are the first
orders of that side, maker `i` gives its `Share`, the part of the volume which the
running sum of those before it leaves, and the rest is nothing, rejected or put
behind its price (`Leaves`). `MatchIs` shows it of the fold in `Match`,
by the equations of its recursion. All this holds of any book of the kind and is in
`PriceTimeBookProofs`, for the exchange to use. The rest is about sequences only: filling, removing and inserting
keep a relation between any two orders of a side (`Related`), which gives
the consistency of books and, with the relation "before", `QueueKept`; an order whose successor
gives a share has given all it had, which is `MakersInPriority`; and the shares add up
to what is traded and to what the side loses, which is `VolumeConserved`.

`CompletionReported` compares what `SimpleEventsProcessor` makes of the events with
the book, so it needs matching in both directions: a maker is gone from its side
exactly when its share is all it had (`MakerGone`), and some trade carries the flag
of the completed taker exactly when trades have filled the whole volume
(`TakerCompleted`). `Tells` says which reports the three chains of events that a
book makes (trades, a rejection before trades, one reduction) become, and how many
lots they count; the four outcomes then follow one by one, and a reduction
is never followed by an event, on which the processor would throw.

### The exchange

`ExchangeProofs` proves one invariant `Inv(sound)` for two readings of "amount":
whole numbers (`sound = FALSE`), which gives `TypeOK` without any hypothesis, and
natural numbers (`sound = TRUE`), which gives `NoOverdraft`. It says how far the
stages are, that each engine is well formed, that the book holds orders whose
remaining size and hold cover their price, that a slot not matched yet is a
request which R1, if it let it through, has held for, and that a slot that is
matched has events whose settlement takes nothing from anybody. The first part of
the module has the steps, command by command: matching keeps a book within its holds and gives
trades within them (`CommandProcessed`), each credit of such a trade is natural
(`CreditsSound`), R1 takes no more than there is (`PreProcessKept`), and R2 only
adds (`PostProcessKept`). That no step of another engine or of R1 between the
check and the settlement matters is what makes it inductive: the hold has left
the account at R1, and everything after it only adds.

`NeverOverdrawn` has hypotheses, and TLC finds an overdrawn account when any one
of the first three is dropped:

* `MakerFee <= TakerFee`, a TODO of the code (`CoreSymbolSpecification.h:40`);
* no order is moved to a price that does not pay the taker fee: R1 checks that
  of a new sale, but a MOVE_ORDER passes R1 unchecked;
* a FOK_BUDGET order is a bid: R1 compares the budget of a seller, which is for
  all lots, with the fee of one;
* placements have natural sizes and prices, which the code does not check either.

The commands of `exchange_trading` satisfy all of them.

`SettledOnce` needs that the profile of a user remembers every adjustment applied
to it (`SettledInv`), since nobody else does. Matching, settlement and new
accounts keep profiles and let transaction ids only grow (`GrownFrom`); RESET
forgets profiles and settlements alike; SUSPEND_USER alone forgets a profile while
the user may come back, so the theorem is for clients that do not send it (see
Findings).

`MoneyIsKept` is about money that is at three places and moves between them in
four steps, in two or more engines that run at different speeds. `AccountsSettled`
speaks only of moments with nothing in flight; the invariant behind it
(`LedgerInv`) says of every state, every user and currency that

> account + holds of the orders in the book + claims of the commands in flight = due

(`Balanced`). A claim (`Claim`) is what a command still has for the user: nothing
before R1, what R1 has held from there to the matching engine, from there to R2 what
its events will bring (`Gained`: refunds of rejected and reduced orders, and of the
taker's hold what the trades did not cost; proceeds of makers less their fee, with the
difference of fees back to a maker that held the taker's), and nothing after R2. Each
stage then has one lemma. R1 takes from the account what it adds to the claim, or adds
to both sides of the equation what is paid in (`R1OwnBalanced`); the engines of other
users change nothing (`R1OtherBalanced`); matching turns holds into orders, trades and
returns, for all types of commands and any number of makers (`MeBalanced`, from
`CommandConserves`, which goes through the outcomes of `PriceTimeBookProofs`); R2 pays
the claim out, also when several of the trades of a command are the user's own
(`PostBalanced`); publishing and releasing slots move claims but change none.

This needs to know more of the state. `Accounted`: commands still to be matched ask
what `Clients` allows, and the book is in order, as `IsBook` says.
`Linked`: the matching engine has a book for the pair exactly when the risk engines
know the symbol, counting the messages under way between them. Otherwise R1 could hold
for an order that no book takes, and R2 passes over events whose symbol it does not
know. And RESET, which R1 forgets all accounts for while the matching engine still has
the orders: in between, the orders count for nothing (`Wiped`). A RESET or a message
closes its group, so only one can be between the stages, which is part of `Linked`.

The hypotheses, `Clients(pair)`, are what `AccountsSettled` needs: all commands
are for one pair, as the model has one book; ids and prices are natural and placements
have a positive size, which the code does not check; there are no IOC_BUDGET bids (see
Findings); the users of a message differ and list their accounts in the order of their
currencies, with natural balances (see Findings); the initial states have the pair in
all engines and the book, or in none. `exchange_trading` has them as an `ASSUME`,
so TLC checks that its commands satisfy them. Nothing is asked of fees or
scales, and accounts may be overdrawn.

### The event pool

`EventsOwnedOnce` says of each event how many chains it is in, which no step can be
shown to keep: an action knows the first event of a chain, not the others. `Inv`
therefore gives each holder (each head in the pool, each helper, engine and slot, and G)
the whole sequence of its chain (`IsPath`), and each event a holder and a position
there (`Places`). That says at once that chains do not share events, have no
cycles and leave none out. What the actions do are then five operations on holders,
whatever these are: a chain is handed over (`HandOver`), linked to the end of another
(`Join`), loses its first event (`CutOff`), is created (`Create`) or let go (`Drop`);
sending an event is a cut and a join, by way of a spare holder. `ChainIs` shows
that the walk of the code finds the sequence, and so the tail G links to is the
last event. The slots' sequences are the history `sent`, which is `ChainsIntact`, and that
for every slot. Nothing is asked beyond `PoolAssumption`; the bounds play no part.

### Journaling

`RecoversPrefix` speaks of a future process that reads files written by past ones,
each of which may have stopped between any two of its steps. `IInv` therefore
says of all files at once what a start would make of them. Beside the shapes
(`TypeInv`) and the places of J and the engines in the ring (`Progress`) there is a
snapshot `S`, or none, which the run started from and for which (`RunOK`)

* the snapshots of the run hold its state at their sequence (`SnapshotsOK`);
* what a start reads of the series of files being written, followed by the buffer,
  is a chain: each record is the command at the place of the ring its sequence
  names, and between neighbours nothing changes the state (`Follows`, `ChainTo`);
* an earlier series, as far as it can be read, reaches the next snapshot or
  the end of its run (`Covers`, `Good`);
* the run is in one of three cases: J has begun a series (`Writes`), nothing has come
  that it has to write (`Waits`), or the run replays a series, which has the file that
  J would create, so that J fails at the first command due (`Frozen`).

The last case is why replayed commands are not journaled twice: a new run does not
append to the series it has read, it stops. TLC checked `IInv` on all states of
`journal` before it was proved. `JournalIsComplete` needs one more, `Wrote`: the records
on disk and the buffer together end with the records due so far (`DiskHolds`,
`Holding`, `DueTo`), which each branch of `WriteToJournal` keeps.

`JournalSizes` and `RequestsKnown` are the assumptions of the module.
`RecoversToPrefix` and `ReleasedAreKept` also ask that clients send no
`BINARY_DATA_COMMAND`: the symbol of a replayed frame is cast to an unsigned byte
(`ExchangeApi.cpp:625`, see Findings), so a replayed message does not end.
The other three need nothing.

### Only model-checked

Liveness (`EveryCommandCompletes`) is out of reach of the provers, and so are
operators on recursive data in modules with `RECURSIVE` or with folds of a lambda:
the order books' loops, the tree. The
refinements, `ReportBalanced` (the same conservation at a cut through the
stages, with the fees of all engines) and `MarginExchange` are checked by TLC and not
proved. All six properties of the abstract book are.

## 6. What is not modelled, and the plan

Not modelled, with the reason:

* Byte layouts, compression, logging, clocks, thread placement, message counters:
  no control of the exchange. Amounts do not overflow in the model.
* Start-up threads, halting, `shutdown` and the exception handler of
  `ExchangeCore`, and the exceptions caught in `GroupingProcessor` and
  `TwoStepSlaveProcessor`: what they wait for is in the disruptor library, which
  is not in the repository.
* The scales, fees and margins of symbols, which are constants, and messages and
  RESET in `MarginExchange`, whose operators are those of `Exchange`.
* The synchronous and the raw variants of the API, which wait for the modelled
  ones.
* `SingleUserReport` and `StateHashReport`, which format what they read; the in-memory
  descriptors of the journal, which nothing reads.
* The pools of position records and tree nodes as memory: a record is a value
  and `PositionsKept` says that none is used after its return; nodes are counted.

The plan. Done: the modules of section 2. Left are proofs:

1. `ReportBalanced`: the ledger of `MoneyIsKept` summed over all users and the fees,
   as each engine sees it when it takes its section of the report.
2. `MarginExchange`: the lemmas of `SymbolPosition` (what hold, release and trade
   leave pending) and `PendingAccounted`.
