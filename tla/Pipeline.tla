------------------------------ MODULE Pipeline ------------------------------
(***************************************************************************)
(* The command pipeline of the exchange core: one ring buffer of           *)
(* OrderCommand slots and the processors that follow each other through it *)
(* (ExchangeCore.cpp).                                                     *)
(*                                                                         *)
(*   clients -> G -> { J , R1[s] for s \in RiskShards }                    *)
(*                -> ME[m] for m \in MatchingShards -> { R2[s] , E }       *)
(*                                                                         *)
(* G  is the GroupingProcessor, J the journaling handler, R1[s] a          *)
(* TwoStepMasterProcessor around RiskEngine::PreProcessCommand, ME[m] a    *)
(* MatchingEngineRouter, R2[s] the TwoStepSlaveProcessor that the thread   *)
(* of R1[s] drives through RiskEngine::PostProcessCommand, and E the       *)
(* results handler.  Each processor owns a sequence: the number of the     *)
(* last command it has published as done.                                  *)
(*                                                                         *)
(* A slot is named by the sequence it holds.  NoOverrun is what makes that *)
(* sound: the slot of sequence n, which is that of n + RingSize, is not    *)
(* claimed again while a processor may still read n.                       *)
(***************************************************************************)
EXTENDS Integers, Sequences, FiniteSets

CONSTANTS
  RiskShards,          \* risk engines (riskEnginesNum)
  MatchingShards,      \* matching engines (matchingEnginesNum)
  RingSize,            \* ringBufferSize
  MsgsInGroupLimit,    \* msgsInGroupLimit
  Journaling,          \* enableJournaling
  Requests,            \* the batches of commands a client may claim at once
  InvalidRequests,     \* sizes of the batches that hold a command
                       \* SubmitCommandsBatch rejects
  Clients,             \* bound: client threads between a claim and a publish
  MaxCommands          \* bound: commands ever claimed

(***************************************************************************)
(* What the pipeline looks at in an OrderCommand.  orderId is the mode of  *)
(* a GROUPING_CONTROL, symbol is -1 on the last frame of a binary message, *)
(* eventsGroup is the group the submitter left in the slot.                *)
(***************************************************************************)
CommandType ==
  {"PLACE_ORDER", "BINARY_DATA_COMMAND", "BINARY_DATA_QUERY", "RESET",
   "PERSIST_STATE_MATCHING", "PERSIST_STATE_RISK", "GROUPING_CONTROL",
   "SHUTDOWN_SIGNAL"}

Command == [command : CommandType, orderId : Int, symbol : Int,
            eventsGroup : Int]

ASSUME ShardsAssumption ==
  /\ RiskShards # {} /\ IsFiniteSet(RiskShards)
  /\ MatchingShards # {} /\ IsFiniteSet(MatchingShards)

ASSUME SizesAssumption ==
  /\ RingSize \in Nat \ {0}
  /\ MsgsInGroupLimit \in Nat \ {0}
  /\ Journaling \in BOOLEAN
  /\ MaxCommands \in Nat
  /\ Clients \in Nat
  /\ InvalidRequests \subseteq Nat \ {0}

ASSUME RequestsAssumption == Requests \subseteq Seq(Command) \ {<<>>}

VARIABLES
  cursor,              \* last sequence claimed by a client
  claims,              \* claimed ranges their clients have not published yet
  cmds,                \* the published commands, by sequence
  gNext, gAvail, gSeq, \* G: nextSequence, availableSequence, sequence_
  groupCounter, msgsInGroup, groupingEnabled,
  rPc, rNext, rAvail, rSeq,   \* R1: where it is, and its sequences
  currentSequenceGroup, lastTriggered,
  sNext, sSeq,         \* R2: nextSequence_, sequence_
  mSeq,                \* ME: sequence
  jSeq,                \* J: sequence
  eSeq                 \* E: sequence

producer == <<cursor, claims>>
grouping == <<gNext, gAvail, gSeq, groupCounter, msgsInGroup, groupingEnabled>>
master   == <<rPc, rNext, rAvail, rSeq, currentSequenceGroup, lastTriggered>>
slave    == <<sNext, sSeq>>
handlers == <<mSeq, jSeq, eSeq>>
vars     == <<producer, cmds, grouping, master, slave, handlers>>

Claim == [lo : Nat, batch : Seq(Command)]

(***************************************************************************)
(* Every processor starts with its sequence at INITIAL_VALUE (-1).         *)
(***************************************************************************)
Init ==
  /\ cursor = -1
  /\ claims = {}
  /\ cmds = [n \in {} |-> 0]
  /\ gNext = 0 /\ gAvail = -1 /\ gSeq = -1
  /\ groupCounter = 0 /\ msgsInGroup = 0 /\ groupingEnabled = TRUE
  /\ rPc = [s \in RiskShards |-> "wait"]
  /\ rNext = [s \in RiskShards |-> 0]
  /\ rAvail = [s \in RiskShards |-> -1]
  /\ rSeq = [s \in RiskShards |-> -1]
  /\ currentSequenceGroup = [s \in RiskShards |-> 0]
  /\ lastTriggered = [s \in RiskShards |-> -1]
  /\ sNext = [s \in RiskShards |-> 0]
  /\ sSeq = [s \in RiskShards |-> -1]
  /\ mSeq = [m \in MatchingShards |-> -1]
  /\ jSeq = -1
  /\ eSeq = -1

-----------------------------------------------------------------------------
(***************************************************************************)
(* The ranges the methods of ExchangeApi write, MC modules choose Requests *)
(* from them.  A new command has no group; a replayed one has the group it *)
(* was journaled with.                                                     *)
(***************************************************************************)
NewCommand(type) ==
  [command |-> type, orderId |-> 0, symbol |-> 0, eventsGroup |-> 0]

SingleRequest(type) == <<NewCommand(type)>>

PersistRequest ==
  <<NewCommand("PERSIST_STATE_MATCHING"), NewCommand("PERSIST_STATE_RISK")>>

\* The last fragment of a binary message: symbol -1 marks the last frame.
BinaryRequest(type, frames) ==
  [i \in 1 .. frames |->
     [NewCommand(type) EXCEPT !.symbol = IF i = frames THEN -1 ELSE 0]]

GroupingControlRequest(mode) ==
  <<[NewCommand("GROUPING_CONTROL") EXCEPT !.orderId = mode]>>

ReplayRequest(group) ==
  <<[NewCommand("PLACE_ORDER") EXCEPT !.eventsGroup = group]>>

-----------------------------------------------------------------------------
(***************************************************************************)
(* Clients (ExchangeApi).  A client claims a range of sequences, writes    *)
(* its commands into the slots and publishes the range.  The claim waits   *)
(* for the gating sequences, those of the processors that nobody follows:  *)
(* the R2s and E.                                                          *)
(***************************************************************************)
GatingSequencesWithoutRisk(n) == n - RingSize <= eSeq   \* mutant

GatingSequences(n) ==
  /\ n - RingSize <= eSeq
  /\ \A s \in RiskShards : n - RingSize <= sSeq[s]

ClaimRange(size) ==
  /\ cursor + size < MaxCommands
  /\ GatingSequences(cursor + size)
  /\ cursor' = cursor + size

ClaimRequest ==
  \E batch \in Requests :
    /\ Cardinality(claims) < Clients
    /\ ClaimRange(Len(batch))
    /\ claims' = claims \cup {[lo |-> cursor + 1, batch |-> batch]}
    /\ UNCHANGED <<cmds, grouping, master, slave, handlers>>

PublishRequest ==
  \E c \in claims :
    /\ cmds' = [n \in DOMAIN cmds \cup (c.lo .. c.lo + Len(c.batch) - 1) |->
                  IF n \in DOMAIN cmds THEN cmds[n]
                  ELSE c.batch[n - c.lo + 1]]
    /\ claims' = claims \ {c}
    /\ UNCHANGED <<cursor, grouping, master, slave, handlers>>

(***************************************************************************)
(* SubmitCommandsBatch claims the whole range before it looks at the       *)
(* commands and throws at the first one it does not support: the range     *)
(* stays claimed and is never published.  SubmitCommandAsync does the same *)
(* with a range of one.                                                    *)
(***************************************************************************)
ClaimAndThrow ==
  \E size \in InvalidRequests :
    /\ ClaimRange(size)
    /\ UNCHANGED <<claims, cmds, grouping, master, slave, handlers>>

-----------------------------------------------------------------------------
(***************************************************************************)
(* G: cuts the stream of commands into groups.                             *)
(***************************************************************************)
StartsGroupWithoutPersist(c) ==                        \* mutant
  \/ c.command \in {"RESET", "GROUPING_CONTROL"}
  \/ /\ c.command \in {"BINARY_DATA_COMMAND", "BINARY_DATA_QUERY"}
     /\ c.symbol = -1

StartsGroupWithoutReports(c) ==                        \* mutant
  c.command \in {"RESET", "PERSIST_STATE_MATCHING", "GROUPING_CONTROL"}

StartsGroup(c) ==
  \/ c.command \in {"RESET", "PERSIST_STATE_MATCHING", "GROUPING_CONTROL"}
  \/ /\ c.command \in {"BINARY_DATA_COMMAND", "BINARY_DATA_QUERY"}
     /\ c.symbol = -1

(***************************************************************************)
(* TryWaitFor: commands published without a gap from gNext on, perhaps not *)
(* all of them, because the cursor is read before the slots are looked at. *)
(***************************************************************************)
GroupWait ==
  /\ gNext > gAvail
  /\ \E n \in gNext .. cursor :
       /\ \A i \in gNext .. n : i \in DOMAIN cmds
       /\ gAvail' = n
  /\ UNCHANGED <<producer, cmds, gNext, gSeq, groupCounter, msgsInGroup,
                 groupingEnabled, master, slave, handlers>>

GroupCommand ==
  /\ gNext <= gAvail
  /\ LET c == cmds[gNext]
         enabled == IF c.command = "GROUPING_CONTROL" THEN c.orderId = 1
                    ELSE groupingEnabled
         group == IF StartsGroup(c) THEN groupCounter + 1 ELSE groupCounter
         msgs == IF StartsGroup(c) THEN 1 ELSE msgsInGroup + 1
         full == /\ msgs >= MsgsInGroupLimit
                 /\ c.command # "PERSIST_STATE_RISK"
     IN /\ groupingEnabled' = enabled
        /\ IF enabled
           THEN /\ cmds' = [cmds EXCEPT ![gNext].eventsGroup = group]
                /\ groupCounter' = IF full THEN group + 1 ELSE group
                /\ msgsInGroup' = IF full THEN 0 ELSE msgs
           ELSE UNCHANGED <<cmds, groupCounter, msgsInGroup>>
  /\ gNext' = gNext + 1
  /\ gSeq' = IF gNext = gAvail THEN gAvail ELSE gSeq
  /\ UNCHANGED <<producer, gAvail, master, slave, handlers>>

(***************************************************************************)
(* The group has been open for maxGroupDurationNs and nothing is waiting.  *)
(***************************************************************************)
GroupTimeout ==
  /\ gNext > gAvail
  /\ gNext \notin DOMAIN cmds
  /\ msgsInGroup > 0
  /\ groupCounter' = groupCounter + 1
  /\ msgsInGroup' = 0
  /\ UNCHANGED <<producer, cmds, gNext, gAvail, gSeq, groupingEnabled,
                 master, slave, handlers>>

-----------------------------------------------------------------------------
(***************************************************************************)
(* R1 and R2 of shard s: one thread.  rPc[s] is                            *)
(*   "wait"    in TryWaitFor,                                              *)
(*   "batch"   between two commands of the batch that ends at rAvail[s],   *)
(*   "switch"  in HandlingCycle, called because rNext[s] opens a group,    *)
(*   "cycle"   in HandlingCycle, called after a command.                   *)
(* HandlingCycle runs R2 up to, not including, rNext[s].                   *)
(***************************************************************************)
InHandlingCycle(s) == rPc[s] \in {"switch", "cycle"}

\* PublishProgressAndTriggerSlaveProcessor publishes nextSequence - 1.
ProgressOffByOne(nextSequence) == nextSequence         \* mutant

Progress(nextSequence) == nextSequence - 1

MasterWait(s) ==
  /\ rPc[s] = "wait"
  /\ rNext[s] <= gSeq
  /\ rAvail' = [rAvail EXCEPT ![s] = gSeq]
  /\ rPc' = [rPc EXCEPT ![s] = "batch"]
  /\ UNCHANGED <<producer, cmds, grouping, rNext, rSeq, currentSequenceGroup,
                 lastTriggered, slave, handlers>>

MasterSwitchGroup(s) ==
  /\ rPc[s] = "batch"
  /\ cmds[rNext[s]].eventsGroup # currentSequenceGroup[s]
  /\ rSeq' = [rSeq EXCEPT ![s] = Progress(rNext[s])]
  /\ rPc' = [rPc EXCEPT ![s] = "switch"]
  /\ UNCHANGED <<producer, cmds, grouping, rNext, rAvail,
                 currentSequenceGroup, lastTriggered, slave, handlers>>

\* RiskEngine::PreProcessCommand returns true for this command only.
ForcedPublish(c) == c.command = "PERSIST_STATE_MATCHING"

\* The trigger at the end of a batch, for a group that is still open.
NoTriggerAtBatchEnd(s) == FALSE                        \* mutant

TriggerAtBatchEnd(s) ==
  /\ rNext[s] = rAvail[s]
  /\ rNext[s] > lastTriggered[s]

MasterCommand(s) ==
  /\ rPc[s] = "batch"
  /\ cmds[rNext[s]].eventsGroup = currentSequenceGroup[s]
  /\ LET c == cmds[rNext[s]]
         next == rNext[s] + 1
         trigger == c.command = "SHUTDOWN_SIGNAL" \/ TriggerAtBatchEnd(s)
     IN /\ rNext' = [rNext EXCEPT ![s] = next]
        /\ rSeq' = IF trigger \/ ForcedPublish(c) \/ next > rAvail[s]
                   THEN [rSeq EXCEPT ![s] = Progress(next)]
                   ELSE rSeq
        /\ rPc' = [rPc EXCEPT ![s] = IF trigger THEN "cycle"
                                     ELSE IF next > rAvail[s] THEN "wait"
                                     ELSE "batch"]
  /\ UNCHANGED <<producer, cmds, grouping, rAvail, currentSequenceGroup,
                 lastTriggered, slave, handlers>>

SlaveCommand(s) ==
  /\ InHandlingCycle(s)
  /\ sNext[s] < rNext[s]
  /\ \A m \in MatchingShards : sNext[s] <= mSeq[m]
  /\ sNext' = [sNext EXCEPT ![s] = @ + 1]
  /\ UNCHANGED <<producer, cmds, grouping, master, sSeq, handlers>>

\* The whole group is settled: nextSequence_ = processUpToSequence.
CycleDoneOneEarly(s) == sNext[s] >= rNext[s] - 1       \* mutant

CycleDone(s) == sNext[s] = rNext[s]

SlaveReturn(s) ==
  /\ InHandlingCycle(s)
  /\ CycleDone(s)
  /\ sSeq' = [sSeq EXCEPT ![s] = rNext[s] - 1]
  /\ IF rPc[s] = "switch"
     THEN /\ lastTriggered' = [lastTriggered EXCEPT ![s] = rNext[s] - 1]
          /\ currentSequenceGroup' = [currentSequenceGroup EXCEPT
                                        ![s] = cmds[rNext[s]].eventsGroup]
     ELSE UNCHANGED <<lastTriggered, currentSequenceGroup>>
  /\ rPc' = [rPc EXCEPT ![s] = IF rNext[s] <= rAvail[s] THEN "batch" ELSE "wait"]
  /\ UNCHANGED <<producer, cmds, grouping, rNext, rAvail, rSeq, sNext, handlers>>

-----------------------------------------------------------------------------
(***************************************************************************)
(* ME, J and E run in BatchEventProcessors of the disruptor library: they  *)
(* handle the commands available to them and then publish the last one.    *)
(***************************************************************************)
MatchBatch(m) ==
  \E n \in mSeq[m] + 1 .. cursor :
    /\ \A s \in RiskShards : n <= rSeq[s]
    /\ mSeq' = [mSeq EXCEPT ![m] = n]
    /\ UNCHANGED <<producer, cmds, grouping, master, slave, jSeq, eSeq>>

JournalBatch ==
  \E n \in jSeq + 1 .. gSeq :
    /\ Journaling
    /\ jSeq' = n
    /\ UNCHANGED <<producer, cmds, grouping, master, slave, mSeq, eSeq>>

ResultsBatch ==
  \E n \in eSeq + 1 .. cursor :
    /\ \A m \in MatchingShards : n <= mSeq[m]
    /\ Journaling => n <= jSeq
    /\ eSeq' = n
    /\ UNCHANGED <<producer, cmds, grouping, master, slave, mSeq, jSeq>>

-----------------------------------------------------------------------------
Master(s) == MasterWait(s) \/ MasterSwitchGroup(s) \/ MasterCommand(s)
Slave(s)  == SlaveCommand(s) \/ SlaveReturn(s)

Next ==
  \/ ClaimRequest \/ PublishRequest \/ ClaimAndThrow
  \/ GroupWait \/ GroupCommand \/ GroupTimeout
  \/ \E s \in RiskShards : Master(s) \/ Slave(s)
  \/ \E m \in MatchingShards : MatchBatch(m)
  \/ JournalBatch \/ ResultsBatch

Spec == Init /\ [][Next]_vars

(***************************************************************************)
(* Every processor has a thread of its own that spins until there is work, *)
(* and a client that has claimed goes on to publish.  Nothing is owed by a *)
(* client that has claimed nothing, nor by the group timeout.              *)
(***************************************************************************)
Fairness ==
  /\ WF_vars(PublishRequest)
  /\ WF_vars(GroupWait) /\ WF_vars(GroupCommand)
  /\ \A s \in RiskShards : WF_vars(Master(s)) /\ WF_vars(Slave(s))
  /\ \A m \in MatchingShards : WF_vars(MatchBatch(m))
  /\ WF_vars(JournalBatch) /\ WF_vars(ResultsBatch)

FairSpec == Spec /\ Fairness

-----------------------------------------------------------------------------
(***************************************************************************)
(* Properties.                                                             *)
(***************************************************************************)

\* The range of every variable, by the thread that writes it.
ProducerType ==
  /\ cursor \in -1 .. MaxCommands - 1
  /\ claims \subseteq Claim
  /\ DOMAIN cmds \subseteq 0 .. cursor
  /\ cmds \in [DOMAIN cmds -> Command]

GroupingType ==
  /\ gNext \in 0 .. cursor + 1
  /\ gAvail \in -1 .. cursor
  /\ gSeq \in -1 .. cursor
  /\ groupCounter \in Nat
  /\ msgsInGroup \in Nat
  /\ groupingEnabled \in BOOLEAN

MasterType ==
  /\ rPc \in [RiskShards -> {"wait", "batch", "switch", "cycle"}]
  /\ rNext \in [RiskShards -> 0 .. cursor + 1]
  /\ rAvail \in [RiskShards -> -1 .. cursor]
  /\ rSeq \in [RiskShards -> -1 .. cursor]
  /\ currentSequenceGroup \in [RiskShards -> Int]
  /\ lastTriggered \in [RiskShards -> -1 .. cursor]

SlaveType ==
  /\ sNext \in [RiskShards -> 0 .. cursor + 1]
  /\ sSeq \in [RiskShards -> -1 .. cursor]

HandlerType ==
  /\ mSeq \in [MatchingShards -> -1 .. cursor]
  /\ jSeq \in -1 .. cursor
  /\ eSeq \in -1 .. cursor

TypeOK ==
  ProducerType /\ GroupingType /\ MasterType /\ SlaveType /\ HandlerType

\* No processor handles a command before every processor it follows has
\* handled it: the matching engines wait for all risk engines, although these
\* publish their progress at group boundaries, at forced publishes and at
\* batch ends only, and the settlements and the results wait for all matching
\* engines.
StageOrder ==
  /\ \A s \in RiskShards : rNext[s] - 1 <= gSeq /\ gSeq < gNext
  /\ \A s \in RiskShards, m \in MatchingShards :
       mSeq[m] < rNext[s] /\ sNext[s] - 1 <= mSeq[m]
  /\ \A m \in MatchingShards : eSeq <= mSeq[m]
  /\ Journaling => eSeq <= jSeq
  /\ \A n \in 0 .. gSeq : n \in DOMAIN cmds

\* A slot is not claimed again before every processor has finished with the
\* command it holds: the sequence cursor has the slot of cursor - RingSize.
NoOverrun ==
  LET done(n) == cursor - RingSize <= n
  IN /\ done(gSeq) /\ done(eSeq)
     /\ \A s \in RiskShards : done(rSeq[s]) /\ done(sNext[s] - 1)
     /\ \A m \in MatchingShards : done(mSeq[m])
     /\ Journaling => done(jSeq)

\* A risk engine pre-processes a group only when it has settled all commands
\* it pre-processed of other groups: two steps of the same engine, driven by
\* the group numbers that G writes and by the hand-over to HandlingCycle.
GroupSettled ==
  \A s \in RiskShards :
    \A n \in 0 .. rNext[s] - 1 :
      cmds[n].eventsGroup # currentSequenceGroup[s] => n < sNext[s]

\* When a risk engine takes its snapshot (PERSIST_STATE_RISK) it has settled
\* every command before the PERSIST_STATE_MATCHING that precedes it, so its
\* snapshot and the one the matching engines took there hold the same trades.
SnapshotCut ==
  [][\A s \in RiskShards :
       (rNext'[s] # rNext[s] /\ cmds[rNext[s]].command = "PERSIST_STATE_RISK")
         => sNext[s] >= rNext[s] - 1]_vars

\* When a risk engine handles RESET or the last frame of a binary message or of a
\* report query it has settled every command before it: what it does with it, or
\* reports, and what a matching engine does later, belong to the same point of
\* the sequence.  Grouping must be on.
ReportCut ==
  [][\A s \in RiskShards :
       LET c == cmds[rNext[s]]
       IN (/\ rNext'[s] # rNext[s]
           /\ \/ c.command \in {"BINARY_DATA_COMMAND", "BINARY_DATA_QUERY"} /\ c.symbol = -1
              \/ c.command = "RESET")
            => sNext[s] = rNext[s]]_vars

\* Every published command reaches the results handler and is settled by every
\* risk engine, also when no later command closes its group.
EveryCommandCompletes ==
  \A n \in 0 .. MaxCommands - 1 :
    n \in DOMAIN cmds
      ~> (n <= eSeq /\ \A s \in RiskShards : n <= sSeq[s])
=============================================================================
