--------------------------- MODULE PipelineProofs ---------------------------
(***************************************************************************)
(* Proofs about Pipeline, for any number of shards, any ring size and any  *)
(* requests.  Inv is the inductive invariant: TypeOK, the order of the     *)
(* sequences one thread leaves between its steps, and the groups.  CutInv  *)
(* adds that groups grow along the ring, for reports and snapshots.        *)
(***************************************************************************)
EXTENDS Pipeline, TLAPS

\* Unpublished ranges lie at or below the cursor.
ClaimsInv ==
  \A c \in claims : c.lo + Len(c.batch) - 1 <= cursor

\* G reads what is published without a gap and publishes what it has read.
GroupingInv ==
  /\ gSeq < gNext
  /\ gNext <= gAvail + 1
  /\ gSeq <= gAvail
  /\ \A n \in 0 .. gAvail : n \in DOMAIN cmds

\* R1 stays inside its batch and publishes no more than it has handled; R2
\* stays behind it; HandlingCycle runs with R1's progress published.
MasterInv ==
  \A s \in RiskShards :
    /\ rNext[s] <= rAvail[s] + 1
    /\ rAvail[s] <= gSeq
    /\ rSeq[s] < rNext[s]
    /\ sNext[s] <= rNext[s]
    /\ sSeq[s] < sNext[s]
    /\ InHandlingCycle(s) => rSeq[s] = rNext[s] - 1
    /\ rPc[s] \in {"batch", "switch"} => rNext[s] <= rAvail[s]

\* The order of the stages, in published sequences.
SequenceInv ==
  /\ \A s \in RiskShards, m \in MatchingShards :
       mSeq[m] <= rSeq[s] /\ sNext[s] - 1 <= mSeq[m]
  /\ \A m \in MatchingShards : eSeq <= mSeq[m]
  /\ jSeq <= gSeq
  /\ Journaling => eSeq <= jSeq

\* The cursor is at most one lap ahead of the gating sequences.
GatingInv ==
  /\ cursor - RingSize <= eSeq
  /\ \A s \in RiskShards : cursor - RingSize <= sSeq[s]

\* What R1 has handled since it last switched groups is of the current group,
\* and everything before is settled.
SwitchInv ==
  \A s \in RiskShards :
    /\ lastTriggered[s] < sNext[s]
    /\ \A n \in lastTriggered[s] + 1 .. rNext[s] - 1 :
         cmds[n].eventsGroup = currentSequenceGroup[s]

Inv ==
  /\ ProducerType /\ GroupingType /\ MasterType /\ SlaveType /\ HandlerType
  /\ ClaimsInv /\ GroupingInv /\ MasterInv /\ SequenceInv /\ GatingInv
  /\ SwitchInv

\* The inductive invariant holds initially.
LEMMA InitInv == Init => Inv
  BY SizesAssumption
  DEF Init, Inv, ProducerType, GroupingType, MasterType, SlaveType,
      HandlerType, ClaimsInv, GroupingInv, MasterInv, SequenceInv,
      GatingInv, SwitchInv, InHandlingCycle, Command, Claim


-----------------------------------------------------------------------------
(***************************************************************************)
(* The steps of the clients.                                               *)
(***************************************************************************)

\* A claim moves the cursor, no further than the gating sequences allow.
LEMMA ClaimRangeInv ==
  ASSUME NEW size \in Nat \ {0}, Inv, ClaimRange(size),
         UNCHANGED <<cmds, grouping, master, slave, handlers>>,
         claims' \subseteq Claim, ClaimsInv'
  PROVE  Inv'
<1>1. cursor' \in -1 .. MaxCommands - 1 /\ cursor < cursor'
  BY SizesAssumption DEF Inv, ProducerType, ClaimRange
<1>2. ProducerType' /\ GroupingType' /\ HandlerType'
  BY <1>1 DEF Inv, ProducerType, GroupingType, HandlerType, grouping, handlers
<1>3. MasterType' /\ SlaveType'
  <2>1. -1 .. cursor \subseteq -1 .. cursor' /\ 0 .. cursor + 1 \subseteq 0 .. cursor' + 1
    BY <1>1 DEF Inv, ProducerType
  <2>2. UNCHANGED <<rPc, rNext, rAvail, rSeq, currentSequenceGroup,
                    lastTriggered, sNext, sSeq>>
    BY DEF master, slave
  <2> QED
    BY <2>1, <2>2 DEF Inv, MasterType, SlaveType
<1>4. GroupingInv' /\ MasterInv' /\ SequenceInv' /\ SwitchInv'
  BY DEF Inv, GroupingInv, MasterInv, InHandlingCycle, SequenceInv, SwitchInv,
         grouping, master, slave, handlers
<1>5. GatingInv'
  BY DEF ClaimRange, GatingSequences, GatingInv, slave, handlers
<1> QED
  BY <1>2, <1>3, <1>4, <1>5 DEF Inv

\* A client that claims a range to publish keeps Inv.
LEMMA ClaimRequestInv ==
  ASSUME Inv, ClaimRequest
  PROVE  Inv'
<1>1. PICK batch \in Requests :
        /\ ClaimRange(Len(batch))
        /\ claims' = claims \cup {[lo |-> cursor + 1, batch |-> batch]}
        /\ UNCHANGED <<cmds, grouping, master, slave, handlers>>
  BY DEF ClaimRequest
<1>2. batch \in Seq(Command) /\ Len(batch) \in Nat \ {0}
  BY RequestsAssumption
<1>3. cursor \in Int /\ cursor + 1 \in Nat /\ cursor' = cursor + Len(batch)
  BY <1>1, <1>2 DEF Inv, ProducerType, ClaimRange
<1>4. claims' \subseteq Claim
  BY <1>1, <1>2, <1>3 DEF Inv, ProducerType, Claim
<1>5. ClaimsInv'
  <2> SUFFICES ASSUME NEW c \in claims' PROVE c.lo + Len(c.batch) - 1 <= cursor'
    BY DEF ClaimsInv
  <2>1. CASE c \in claims
    <3>1. c.lo \in Int /\ Len(c.batch) \in Int
      BY <2>1 DEF Inv, ProducerType, Claim
    <3> QED
      BY <1>2, <1>3, <2>1, <3>1 DEF Inv, ClaimsInv
  <2>2. CASE c = [lo |-> cursor + 1, batch |-> batch]
    BY <1>2, <1>3, <2>2
  <2> QED
    BY <1>1, <2>1, <2>2
<1> QED
  BY <1>1, <1>2, <1>4, <1>5, ClaimRangeInv

\* A claim that is never published keeps Inv: it only moves the cursor.
LEMMA ClaimAndThrowInv ==
  ASSUME Inv, ClaimAndThrow
  PROVE  Inv'
<1>1. PICK size \in InvalidRequests :
        /\ ClaimRange(size)
        /\ UNCHANGED <<claims, cmds, grouping, master, slave, handlers>>
  BY DEF ClaimAndThrow
<1>2. size \in Nat \ {0}
  BY SizesAssumption
<1>3. claims' \subseteq Claim
  BY <1>1 DEF Inv, ProducerType
<1>4. ClaimsInv'
  <2> SUFFICES ASSUME NEW c \in claims PROVE c.lo + Len(c.batch) - 1 <= cursor'
    BY <1>1 DEF ClaimsInv
  <2>1. c.lo \in Int /\ Len(c.batch) \in Int
    BY DEF Inv, ProducerType, Claim
  <2> QED
    BY <1>1, <1>2, <2>1 DEF Inv, ProducerType, ClaimsInv, ClaimRange
<1> QED
  BY <1>1, <1>2, <1>3, <1>4, ClaimRangeInv

\* New commands do not touch those already handled: SwitchInv needs only that.
LEMMA HandledKeepGroup ==
  ASSUME Inv, \A n \in 0 .. gSeq : cmds'[n] = cmds[n],
         UNCHANGED <<master, slave>>
  PROVE  SwitchInv'
<1> SUFFICES ASSUME NEW s \in RiskShards
             PROVE  /\ lastTriggered[s] < sNext[s]
                    /\ \A n \in lastTriggered[s] + 1 .. rNext[s] - 1 :
                         cmds'[n].eventsGroup = currentSequenceGroup[s]
  BY DEF SwitchInv, master, slave
<1>1. lastTriggered[s] \in -1 .. cursor /\ rNext[s] \in Nat
  BY DEF Inv, MasterType
<1>2. rNext[s] - 1 <= gSeq /\ gSeq \in Int
  BY DEF Inv, MasterInv, MasterType, GroupingType
<1> QED
  BY <1>1, <1>2 DEF Inv, SwitchInv

\* Publishing a range keeps Inv: it adds commands and changes none.
LEMMA PublishRequestInv ==
  ASSUME Inv, PublishRequest
  PROVE  Inv'
<1>1. PICK c \in claims :
        /\ cmds' = [n \in DOMAIN cmds \cup (c.lo .. c.lo + Len(c.batch) - 1) |->
                      IF n \in DOMAIN cmds THEN cmds[n]
                      ELSE c.batch[n - c.lo + 1]]
        /\ claims' = claims \ {c}
        /\ UNCHANGED <<cursor, grouping, master, slave, handlers>>
  BY DEF PublishRequest
<1>2. /\ c.lo \in Nat /\ c.batch \in Seq(Command) /\ Len(c.batch) \in Nat
      /\ c.lo + Len(c.batch) - 1 <= cursor /\ cursor \in Int
  BY DEF Inv, ProducerType, Claim, ClaimsInv
<1>3. DOMAIN cmds' = DOMAIN cmds \cup (c.lo .. c.lo + Len(c.batch) - 1)
  BY <1>1
<1>4. ProducerType'
  <2>1. ASSUME NEW n \in DOMAIN cmds' PROVE cmds'[n] \in Command
    <3>1. CASE n \in DOMAIN cmds
      BY <1>1, <1>3, <3>1 DEF Inv, ProducerType
    <3>2. CASE n \notin DOMAIN cmds
      <4>1. n \in c.lo .. c.lo + Len(c.batch) - 1
        BY <1>3, <3>2
      <4>2. n - c.lo + 1 \in 1 .. Len(c.batch)
        BY <1>2, <4>1
      <4> QED
        BY <1>1, <1>2, <1>3, <3>2, <4>2
    <3> QED
      BY <3>1, <3>2
  <2>2. DOMAIN cmds' \subseteq 0 .. cursor
    BY <1>2, <1>3 DEF Inv, ProducerType
  <2> QED
    BY <1>1, <2>1, <2>2 DEF Inv, ProducerType
<1>5. /\ GroupingType' /\ MasterType' /\ SlaveType' /\ HandlerType'
      /\ ClaimsInv' /\ MasterInv' /\ SequenceInv' /\ GatingInv'
  BY <1>1 DEF Inv, GroupingType, MasterType, SlaveType, HandlerType, ClaimsInv,
     MasterInv, InHandlingCycle, SequenceInv, GatingInv, grouping, master,
     slave, handlers
<1>6. GroupingInv'
  BY <1>1, <1>3 DEF Inv, GroupingInv, grouping
<1>7. SwitchInv'
  <2>1. \A n \in 0 .. gSeq : n \in DOMAIN cmds
    BY DEF Inv, GroupingInv, GroupingType
  <2>2. \A n \in 0 .. gSeq : cmds'[n] = cmds[n]
    BY <1>1, <2>1
  <2> QED
    BY <1>1, <2>2, HandledKeepGroup
<1> QED
  BY <1>4, <1>5, <1>6, <1>7 DEF Inv

-----------------------------------------------------------------------------
(***************************************************************************)
(* The steps of G.                                                         *)
(***************************************************************************)
\* G finds published commands and keeps Inv.
LEMMA GroupWaitInv ==
  ASSUME Inv, GroupWait
  PROVE  Inv'
<1>1. GroupingType' /\ GroupingInv'
  BY DEF Inv, ProducerType, GroupingType, GroupingInv, GroupWait, producer
<1>2. /\ ProducerType' /\ MasterType' /\ SlaveType' /\ HandlerType'
      /\ ClaimsInv' /\ MasterInv' /\ SequenceInv' /\ GatingInv' /\ SwitchInv'
  BY DEF Inv, ProducerType, MasterType, SlaveType, HandlerType, ClaimsInv,
     MasterInv, InHandlingCycle, SequenceInv, GatingInv, SwitchInv, GroupWait,
     producer, master, slave, handlers
<1> QED
  BY <1>1, <1>2 DEF Inv

\* Closing a group by time keeps Inv: no slot is written.
LEMMA GroupTimeoutInv ==
  ASSUME Inv, GroupTimeout
  PROVE  Inv'
<1>1. GroupingType'
  BY DEF Inv, GroupingType, GroupTimeout, producer
<1>2. /\ ProducerType' /\ MasterType' /\ SlaveType' /\ HandlerType'
      /\ ClaimsInv' /\ GroupingInv' /\ MasterInv' /\ SequenceInv'
      /\ GatingInv' /\ SwitchInv'
  BY DEF Inv, ProducerType, MasterType, SlaveType, HandlerType, ClaimsInv,
     GroupingInv, MasterInv, InHandlingCycle, SequenceInv, GatingInv,
     SwitchInv, GroupTimeout, producer, master, slave, handlers
<1> QED
  BY <1>1, <1>2 DEF Inv

\* G writes the group of a command no risk engine has been shown yet.
LEMMA GroupCommandInv ==
  ASSUME Inv, GroupCommand
  PROVE  Inv'
<1>1. gNext \in DOMAIN cmds /\ cmds[gNext] \in Command
  BY DEF Inv, ProducerType, GroupingType, GroupingInv, GroupCommand
<1>2. /\ cmds' = cmds \/ \E g \in Nat : cmds' = [cmds EXCEPT ![gNext].eventsGroup = g]
      /\ groupCounter' \in Nat /\ msgsInGroup' \in Nat
      /\ groupingEnabled' \in BOOLEAN
  <2> DEFINE c == cmds[gNext]
             group == IF StartsGroup(c) THEN groupCounter + 1 ELSE groupCounter
             msgs == IF StartsGroup(c) THEN 1 ELSE msgsInGroup + 1
  <2>1. group \in Nat /\ group + 1 \in Nat /\ msgs \in Nat
    BY DEF Inv, GroupingType
  <2>2. \/ UNCHANGED <<cmds, groupCounter, msgsInGroup>>
        \/ /\ cmds' = [cmds EXCEPT ![gNext].eventsGroup = group]
           /\ groupCounter' \in {group, group + 1}
           /\ msgsInGroup' \in {0, msgs}
    BY Zenon DEF GroupCommand
  <2>3. groupingEnabled' \in {c.orderId = 1, groupingEnabled}
    BY Zenon DEF GroupCommand
  <2>4. groupingEnabled' \in BOOLEAN
    BY <2>3, Zenon DEF Inv, GroupingType
  <2> HIDE DEF group, msgs
  <2> QED
    BY <2>1, <2>2, <2>4 DEF Inv, GroupingType
<1>3. DOMAIN cmds' = DOMAIN cmds /\ cmds' \in [DOMAIN cmds -> Command]
  <2>1. CASE cmds' = cmds
    BY <2>1 DEF Inv, ProducerType
  <2>2. ASSUME NEW g \in Nat, cmds' = [cmds EXCEPT ![gNext].eventsGroup = g]
        PROVE  DOMAIN cmds' = DOMAIN cmds /\ cmds' \in [DOMAIN cmds -> Command]
    <3>1. [cmds[gNext] EXCEPT !.eventsGroup = g] \in Command
      BY <1>1 DEF Command
    <3> QED
      BY <2>2, <3>1 DEF Inv, ProducerType
  <2> QED
    BY <1>2, <2>1, <2>2
<1>4. /\ gNext' = gNext + 1 /\ gAvail' = gAvail /\ gNext <= gAvail
      /\ gSeq' = IF gNext = gAvail THEN gAvail ELSE gSeq
      /\ UNCHANGED <<producer, master, slave, handlers>>
  BY DEF GroupCommand
<1>5. GroupingType' /\ GroupingInv' /\ gSeq <= gSeq'
  BY <1>2, <1>3, <1>4 DEF Inv, ProducerType, GroupingType, GroupingInv, producer
<1>6. /\ ProducerType' /\ MasterType' /\ SlaveType' /\ HandlerType'
      /\ ClaimsInv' /\ GatingInv'
  BY <1>3, <1>4 DEF Inv, ProducerType, MasterType, SlaveType, HandlerType,
     ClaimsInv, GatingInv, producer, master, slave, handlers
<1>7. MasterInv'
  <2> SUFFICES ASSUME NEW s \in RiskShards PROVE rAvail[s] <= gSeq'
    BY <1>4 DEF Inv, MasterInv, InHandlingCycle, master, slave
  <2> QED
    BY <1>5 DEF Inv, MasterInv, MasterType, GroupingType
<1>8. SequenceInv'
  <2>1. jSeq <= gSeq'
    BY <1>5 DEF Inv, SequenceInv, HandlerType, GroupingType
  <2> QED
    BY <1>4, <2>1 DEF Inv, SequenceInv, master, slave, handlers
<1>9. SwitchInv'
  <2>1. \A n \in 0 .. gSeq : n # gNext
    BY DEF Inv, GroupingInv, GroupingType
  <2>2. \A n \in 0 .. gSeq : n \in DOMAIN cmds
    BY DEF Inv, GroupingInv, GroupingType
  <2>3. \A n \in 0 .. gSeq : cmds'[n] = cmds[n]
    BY <1>2, <2>1, <2>2
  <2> QED
    BY <1>4, <2>3, HandledKeepGroup
<1> QED
  BY <1>5, <1>6, <1>7, <1>8, <1>9 DEF Inv

-----------------------------------------------------------------------------
(***************************************************************************)
(* The steps of R1 and R2.                                                 *)
(***************************************************************************)
\* R1 finds the commands that G has published and keeps Inv.
LEMMA MasterWaitInv ==
  ASSUME NEW s \in RiskShards, Inv, MasterWait(s)
  PROVE  Inv'
<1>1. /\ ProducerType' /\ GroupingType' /\ SlaveType' /\ HandlerType'
      /\ ClaimsInv' /\ GroupingInv' /\ SequenceInv' /\ GatingInv'
      /\ SwitchInv'
  BY DEF Inv, ProducerType, GroupingType, SlaveType, HandlerType, ClaimsInv,
     GroupingInv, SequenceInv, GatingInv, SwitchInv, MasterWait, producer,
     grouping, slave, handlers
<1>2. MasterType'
  BY DEF Inv, GroupingType, MasterType, MasterWait, producer
<1>3. MasterInv'
  BY DEF Inv, GroupingType, MasterType, MasterInv, InHandlingCycle, MasterWait,
     grouping, slave
<1> QED
  BY <1>1, <1>2, <1>3 DEF Inv

\* Handing a closed group to R2 keeps Inv: R1 publishes what it has handled.
LEMMA MasterSwitchGroupInv ==
  ASSUME NEW s \in RiskShards, Inv, MasterSwitchGroup(s)
  PROVE  Inv'
<1>1. /\ ProducerType' /\ GroupingType' /\ SlaveType' /\ HandlerType'
      /\ ClaimsInv' /\ GroupingInv' /\ GatingInv' /\ SwitchInv'
  BY DEF Inv, ProducerType, GroupingType, SlaveType, HandlerType, ClaimsInv,
     GroupingInv, GatingInv, SwitchInv, MasterSwitchGroup, producer, grouping,
     slave, handlers
<1>2. MasterType'
  BY DEF Inv, ProducerType, MasterType, MasterSwitchGroup, Progress, producer
<1>3. MasterInv'
  BY DEF Inv, MasterType, SlaveType, MasterInv, InHandlingCycle,
     MasterSwitchGroup, Progress, grouping, slave
<1>4. rSeq[s] <= rSeq'[s] /\ \A t \in RiskShards \ {s} : rSeq'[t] = rSeq[t]
  BY DEF Inv, MasterType, MasterInv, MasterSwitchGroup, Progress
<1>5. SequenceInv'
  BY <1>2, <1>4 DEF Inv, MasterType, HandlerType, SequenceInv,
     MasterSwitchGroup, grouping, slave, handlers
<1> QED
  BY <1>1, <1>2, <1>3, <1>5 DEF Inv

\* R1 handles one command; whatever it publishes, it has handled.
LEMMA MasterCommandInv ==
  ASSUME NEW s \in RiskShards, Inv, MasterCommand(s)
  PROVE  Inv'
<1> DEFINE next == rNext[s] + 1
<1>1. /\ rPc[s] = "batch"
      /\ rNext[s] \in Nat /\ rNext[s] <= rAvail[s] /\ rAvail[s] <= cursor
      /\ cursor \in Int /\ rAvail[s] \in Int
  BY DEF Inv, ProducerType, MasterType, MasterInv, MasterCommand
<1>2. /\ rNext' = [rNext EXCEPT ![s] = next]
      /\ \/ rSeq' = rSeq
         \/ rSeq' = [rSeq EXCEPT ![s] = next - 1]
      /\ \/ rPc' = [rPc EXCEPT ![s] = "cycle"] /\ rSeq' = [rSeq EXCEPT ![s] = next - 1]
         \/ rPc' = [rPc EXCEPT ![s] = "wait"]
         \/ rPc' = [rPc EXCEPT ![s] = "batch"] /\ next <= rAvail[s]
      /\ UNCHANGED <<producer, cmds, grouping, rAvail, currentSequenceGroup,
                     lastTriggered, slave, handlers>>
  <2> DEFINE c == cmds[rNext[s]]
             trigger == c.command = "SHUTDOWN_SIGNAL" \/ TriggerAtBatchEnd(s)
             published == [rSeq EXCEPT ![s] = Progress(next)]
  <2>1. /\ rNext' = [rNext EXCEPT ![s] = next]
        /\ UNCHANGED <<producer, cmds, grouping, rAvail, currentSequenceGroup,
                       lastTriggered, slave, handlers>>
    BY DEF MasterCommand
  <2>2. rSeq' \in {rSeq, published} /\ (trigger => rSeq' = published)
    BY DEF MasterCommand
  <2>3. rPc' = [rPc EXCEPT ![s] = IF trigger THEN "cycle"
                                  ELSE IF next > rAvail[s] THEN "wait"
                                  ELSE "batch"]
    BY DEF MasterCommand
  <2>4. published = [rSeq EXCEPT ![s] = next - 1]
    BY DEF Progress
  <2> HIDE DEF trigger, published
  <2>5. CASE trigger
    BY <2>1, <2>2, <2>3, <2>4, <2>5
  <2>6. CASE ~trigger /\ next > rAvail[s]
    BY <2>1, <2>2, <2>3, <2>4, <2>6
  <2>7. CASE ~trigger /\ ~(next > rAvail[s])
    <3>1. next <= rAvail[s]
      BY <1>1, <2>7
    <3> QED
      BY <2>1, <2>2, <2>3, <2>4, <2>7, <3>1
  <2> QED
    BY <2>5, <2>6, <2>7
<1>3. /\ ProducerType' /\ GroupingType' /\ SlaveType' /\ HandlerType'
      /\ ClaimsInv' /\ GroupingInv' /\ GatingInv'
  BY <1>2 DEF Inv, ProducerType, GroupingType, SlaveType, HandlerType,
     ClaimsInv, GroupingInv, GatingInv, producer, grouping, slave, handlers
<1>4. MasterType'
  BY <1>1, <1>2 DEF Inv, MasterType, producer
<1>5. MasterInv'
  BY <1>1, <1>2 DEF Inv, MasterType, SlaveType, MasterInv, InHandlingCycle,
     grouping, slave
<1>6. rSeq[s] <= rSeq'[s] /\ \A t \in RiskShards \ {s} : rSeq'[t] = rSeq[t]
  BY <1>1, <1>2 DEF Inv, MasterType, MasterInv
<1>7. SequenceInv'
  BY <1>2, <1>4, <1>6 DEF Inv, MasterType, HandlerType, SequenceInv, grouping,
     slave, handlers
<1>8. SwitchInv'
  <2> SUFFICES ASSUME NEW t \in RiskShards,
                      NEW n \in lastTriggered[t] + 1 .. rNext'[t] - 1
               PROVE  /\ lastTriggered[t] < sNext[t]
                      /\ cmds[n].eventsGroup = currentSequenceGroup[t]
    BY <1>2, <1>3 DEF Inv, SwitchInv, slave
  <2>1. lastTriggered[t] \in Int /\ rNext[t] \in Int
    BY DEF Inv, MasterType
  <2>2. CASE n \in lastTriggered[t] + 1 .. rNext[t] - 1
    BY <2>2 DEF Inv, SwitchInv
  <2>3. CASE t = s /\ n = rNext[s]
    BY <2>3 DEF Inv, SwitchInv, MasterCommand
  <2> QED
    BY <1>2, <2>1, <2>2, <2>3 DEF Inv, MasterType
<1> QED
  BY <1>3, <1>4, <1>5, <1>7, <1>8 DEF Inv

\* R2 settles a command that every matching engine has handled; Inv holds.
LEMMA SlaveCommandInv ==
  ASSUME NEW s \in RiskShards, Inv, SlaveCommand(s)
  PROVE  Inv'
<1>1. /\ ProducerType' /\ GroupingType' /\ MasterType' /\ HandlerType'
      /\ ClaimsInv' /\ GroupingInv' /\ GatingInv'
  BY DEF Inv, ProducerType, GroupingType, MasterType, HandlerType, ClaimsInv,
     GroupingInv, GatingInv, SlaveCommand, producer, grouping, master, handlers
<1>2. SlaveType'
  BY DEF Inv, ProducerType, MasterType, SlaveType, SlaveCommand, producer, master
<1>3. /\ sNext' = [sNext EXCEPT ![s] = sNext[s] + 1]
      /\ sNext[s] < rNext[s] /\ \A m \in MatchingShards : sNext[s] <= mSeq[m]
      /\ UNCHANGED <<cmds, grouping, master, sSeq, handlers>>
  BY DEF SlaveCommand
<1>4. MasterInv'
  BY <1>3 DEF Inv, MasterType, SlaveType, MasterInv, InHandlingCycle, grouping,
     master
<1>5. SequenceInv'
  BY <1>3 DEF Inv, SlaveType, HandlerType, SequenceInv, grouping, master, handlers
<1>6. SwitchInv'
  BY <1>3 DEF Inv, MasterType, SlaveType, SwitchInv, master
<1> QED
  BY <1>1, <1>2, <1>4, <1>5, <1>6 DEF Inv

\* HandlingCycle returns: everything up to the command R1 is at is settled.
LEMMA SlaveReturnInv ==
  ASSUME NEW s \in RiskShards, Inv, SlaveReturn(s)
  PROVE  Inv'
<1>1. /\ InHandlingCycle(s) /\ sNext[s] = rNext[s] /\ rNext[s] \in Nat
      /\ rPc[s] = "switch" => rNext[s] <= rAvail[s]
      /\ rNext[s] <= rAvail[s] + 1 /\ rAvail[s] \in Int /\ rAvail[s] <= gSeq
      /\ gSeq \in Int /\ cursor \in Int /\ gSeq <= cursor
  BY DEF Inv, ProducerType, GroupingType, MasterType, MasterInv, SlaveReturn,
     CycleDone
<1>2. /\ ProducerType' /\ GroupingType' /\ HandlerType'
      /\ ClaimsInv' /\ GroupingInv' /\ SequenceInv'
  BY DEF Inv, ProducerType, GroupingType, HandlerType, ClaimsInv, GroupingInv,
     SequenceInv, SlaveReturn, producer, grouping, handlers
<1>3. rPc[s] = "switch" => cmds[rNext[s]].eventsGroup \in Int
  <2> SUFFICES ASSUME rPc[s] = "switch" PROVE cmds[rNext[s]].eventsGroup \in Int
    OBVIOUS
  <2>1. rNext[s] \in DOMAIN cmds
    BY <1>1 DEF Inv, GroupingInv, GroupingType
  <2>2. cmds[rNext[s]] \in Command
    BY <2>1 DEF Inv, ProducerType
  <2> QED
    BY <2>2 DEF Command
<1>4. MasterType'
  <2>1. rPc' \in [RiskShards -> {"wait", "batch", "switch", "cycle"}]
    BY DEF Inv, MasterType, SlaveReturn
  <2>2. currentSequenceGroup' \in [RiskShards -> Int]
    BY <1>3 DEF Inv, MasterType, SlaveReturn
  <2>3. lastTriggered' \in [RiskShards -> -1 .. cursor]
    BY <1>1 DEF Inv, MasterType, SlaveReturn
  <2> QED
    BY <2>1, <2>2, <2>3 DEF Inv, MasterType, SlaveReturn, producer
<1>5. SlaveType'
  BY <1>1 DEF Inv, SlaveType, SlaveReturn, producer
<1>6. MasterInv'
  BY <1>1 DEF Inv, MasterType, SlaveType, MasterInv, InHandlingCycle,
     SlaveReturn, grouping
<1>7. GatingInv'
  <2>1. sSeq[s] <= rNext[s] - 1 /\ sSeq[s] \in Int
    BY <1>1 DEF Inv, SlaveType, MasterInv
  <2>2. cursor - RingSize \in Int
    BY <1>1, SizesAssumption
  <2> QED
    BY <1>1, <2>1, <2>2 DEF Inv, SlaveType, GatingInv, SlaveReturn, producer,
       handlers
<1>8. SwitchInv'
  <2>1. CASE rPc[s] = "switch"
    BY <1>1, <2>1 DEF Inv, MasterType, SlaveType, SwitchInv, SlaveReturn
  <2>2. CASE rPc[s] # "switch"
    BY <2>2 DEF Inv, SwitchInv, SlaveReturn
  <2> QED
    BY <2>1, <2>2
<1> QED
  BY <1>2, <1>4, <1>5, <1>6, <1>7, <1>8 DEF Inv

-----------------------------------------------------------------------------
(***************************************************************************)
(* The steps of ME, J and E.                                               *)
(***************************************************************************)
\* The batch handlers follow the processors before them and keep Inv.
LEMMA HandlersInv ==
  ASSUME Inv, \/ \E m \in MatchingShards : MatchBatch(m)
              \/ JournalBatch
              \/ ResultsBatch
  PROVE  Inv'
<1>1. UNCHANGED <<producer, cmds, grouping, master, slave>>
  BY DEF MatchBatch, JournalBatch, ResultsBatch
<1>2. /\ ProducerType' /\ GroupingType' /\ MasterType' /\ SlaveType'
      /\ ClaimsInv' /\ GroupingInv' /\ MasterInv' /\ SwitchInv'
  BY <1>1 DEF Inv, ProducerType, GroupingType, MasterType, SlaveType,
     ClaimsInv, GroupingInv, MasterInv, InHandlingCycle, SwitchInv, producer,
     grouping, master, slave
<1>3. ASSUME NEW m \in MatchingShards, MatchBatch(m)
      PROVE  HandlerType' /\ SequenceInv' /\ GatingInv'
  BY <1>1, <1>3, SizesAssumption DEF Inv, ProducerType, MasterType, SlaveType,
     HandlerType, SequenceInv, GatingInv, MatchBatch, producer, grouping,
     master, slave
<1>4. ASSUME JournalBatch
      PROVE  HandlerType' /\ SequenceInv' /\ GatingInv'
  BY <1>1, <1>4, SizesAssumption DEF Inv, ProducerType, GroupingType,
     HandlerType, SequenceInv, GatingInv, JournalBatch, producer, grouping,
     master, slave
<1>5. ASSUME ResultsBatch
      PROVE  HandlerType' /\ SequenceInv' /\ GatingInv'
  BY <1>1, <1>5, SizesAssumption DEF Inv, ProducerType, HandlerType,
     SequenceInv, GatingInv, ResultsBatch, producer, grouping, master, slave
<1> QED
  BY <1>2, <1>3, <1>4, <1>5 DEF Inv

-----------------------------------------------------------------------------
\* Inv is inductive.
LEMMA NextInv == Inv /\ [Next]_vars => Inv'
<1> SUFFICES ASSUME Inv, [Next]_vars PROVE Inv'
  OBVIOUS
<1>1. CASE UNCHANGED vars
  BY <1>1 DEF Inv, ProducerType, GroupingType, MasterType, SlaveType,
     HandlerType, ClaimsInv, GroupingInv, MasterInv, InHandlingCycle,
     SequenceInv, GatingInv, SwitchInv, vars, producer, grouping, master,
     slave, handlers
<1>2. CASE ClaimRequest \/ PublishRequest \/ ClaimAndThrow
  BY <1>2, ClaimRequestInv, PublishRequestInv, ClaimAndThrowInv
<1>3. CASE GroupWait \/ GroupCommand \/ GroupTimeout
  BY <1>3, GroupWaitInv, GroupCommandInv, GroupTimeoutInv
<1>4. ASSUME NEW s \in RiskShards, Master(s) \/ Slave(s) PROVE Inv'
  BY <1>4, MasterWaitInv, MasterSwitchGroupInv, MasterCommandInv,
     SlaveCommandInv, SlaveReturnInv DEF Master, Slave
<1>5. CASE \/ \E m \in MatchingShards : MatchBatch(m)
           \/ JournalBatch
           \/ ResultsBatch
  BY <1>5, HandlersInv
<1> QED
  BY <1>1, <1>2, <1>3, <1>4, <1>5 DEF Next

\* Inv holds in every reachable state.
THEOREM Invariance == Spec => []Inv
  BY InitInv, NextInv, PTL DEF Spec

\* Type correctness.
THEOREM TypeCorrect == Spec => []TypeOK
<1>1. Inv => TypeOK
  BY DEF Inv, TypeOK
<1> QED
  BY <1>1, Invariance, PTL

\* Every stage handles a command after the stages it follows.
THEOREM StagesInOrder == Spec => []StageOrder
<1>1. Inv => StageOrder
  BY DEF Inv, GroupingType, MasterType, SlaveType, HandlerType, GroupingInv,
     MasterInv, SequenceInv, StageOrder
<1> QED
  BY <1>1, Invariance, PTL

\* No slot is claimed again while a processor may still read it.
THEOREM SlotsSafe == Spec => []NoOverrun
<1>1. ASSUME Inv PROVE NoOverrun
  <2>1. PICK m \in MatchingShards, s \in RiskShards : TRUE
    BY ShardsAssumption
  <2>2. cursor \in Int /\ RingSize \in Int /\ eSeq \in Int /\ gSeq \in Int /\ jSeq \in Int
    BY <1>1, SizesAssumption DEF Inv, ProducerType, GroupingType, HandlerType
  <2>3. \A k \in MatchingShards : cursor - RingSize <= mSeq[k]
    BY <1>1, <2>2 DEF Inv, HandlerType, SequenceInv, GatingInv
  <2>4. \A t \in RiskShards : cursor - RingSize <= rSeq[t] /\ cursor - RingSize <= sNext[t] - 1
    BY <1>1, <2>1, <2>2, <2>3 DEF Inv, MasterType, SlaveType, HandlerType,
       MasterInv, SequenceInv, GatingInv
  <2>5. cursor - RingSize <= gSeq
    BY <1>1, <2>1, <2>2, <2>4 DEF Inv, MasterType, MasterInv
  <2>6. Journaling => cursor - RingSize <= jSeq
    BY <1>1, <2>2 DEF Inv, SequenceInv, GatingInv
  <2> QED
    BY <1>1, <2>3, <2>4, <2>5, <2>6 DEF Inv, GatingInv, NoOverrun
<1> QED
  BY <1>1, Invariance, PTL

\* A group is pre-processed only when all others before it are settled.
THEOREM GroupsSettled == Spec => []GroupSettled
<1>1. ASSUME Inv PROVE GroupSettled
  <2> SUFFICES ASSUME NEW s \in RiskShards, NEW n \in 0 .. rNext[s] - 1,
                      cmds[n].eventsGroup # currentSequenceGroup[s]
               PROVE  n < sNext[s]
    BY DEF GroupSettled
  <2>1. n <= lastTriggered[s]
    BY <1>1 DEF Inv, MasterType, SwitchInv
  <2> QED
    BY <1>1, <2>1 DEF Inv, MasterType, SlaveType, SwitchInv
<1> QED
  BY <1>1, Invariance, PTL

-----------------------------------------------------------------------------
(***************************************************************************)
(* The cuts.  Two hypotheses on what clients submit: grouping is never     *)
(* switched off (as it is while a journal is replayed), and the only       *)
(* requests with a PERSIST_STATE_RISK are those of PersistState, which put *)
(* a PERSIST_STATE_MATCHING in the slot before it.  The groups of the      *)
(* commands G has seen then grow with the sequence, and a command that     *)
(* starts a group has a greater one than all before it; with SwitchInv     *)
(* this tells how far R2 must be when R1 reaches that command.             *)
(***************************************************************************)
GroupingStaysOn ==
  \A batch \in Requests : \A i \in DOMAIN batch :
    batch[i].command = "GROUPING_CONTROL" => batch[i].orderId = 1

SnapshotPairs ==
  \A batch \in Requests : \A i \in DOMAIN batch :
    batch[i].command = "PERSIST_STATE_RISK"
      => i > 1 /\ batch[i - 1].command = "PERSIST_STATE_MATCHING"

\* The ranges of the claims hold nothing published and are apart.
RangesApart ==
  /\ \A c \in claims, n \in DOMAIN cmds : n < c.lo \/ n >= c.lo + Len(c.batch)
  /\ \A c, d \in claims :
       c = d \/ c.lo + Len(c.batch) <= d.lo \/ d.lo + Len(d.batch) <= c.lo
  /\ \A c \in claims : c.batch \in Requests

\* G groups everything it sees.
GroupingOnInv ==
  /\ groupingEnabled
  /\ \A n \in DOMAIN cmds :
       cmds[n].command = "GROUPING_CONTROL" => cmds[n].orderId = 1

PairsInv ==
  \A n \in DOMAIN cmds :
    cmds[n].command = "PERSIST_STATE_RISK"
      => n - 1 \in DOMAIN cmds /\ cmds[n - 1].command = "PERSIST_STATE_MATCHING"

GroupsGrow ==
  /\ \A n \in 0 .. gNext - 1 : cmds[n].eventsGroup <= groupCounter
  /\ \A n \in 0 .. gNext - 1 : \A k \in 0 .. n - 1 :
       /\ cmds[k].eventsGroup <= cmds[n].eventsGroup
       /\ StartsGroup(cmds[n]) => cmds[k].eventsGroup < cmds[n].eventsGroup

\* What publishing a range does to the slots: none is written twice, and the
\* new ones hold the batch.
LEMMA Published ==
  ASSUME Inv, RangesApart, PublishRequest
  PROVE  \E c \in claims :
           /\ claims' = claims \ {c}
           /\ c.batch \in Requests /\ c.batch \in Seq(Command)
           /\ c.lo \in Nat /\ Len(c.batch) \in Nat
           /\ DOMAIN cmds' = DOMAIN cmds \cup (c.lo .. c.lo + Len(c.batch) - 1)
           /\ \A n \in DOMAIN cmds : cmds'[n] = cmds[n]
           /\ \A n \in DOMAIN cmds : n < c.lo \/ n >= c.lo + Len(c.batch)
           /\ \A n \in c.lo .. c.lo + Len(c.batch) - 1 :
                /\ n - c.lo + 1 \in DOMAIN c.batch
                /\ cmds'[n] = c.batch[n - c.lo + 1]
           /\ UNCHANGED <<cursor, grouping, master, slave, handlers>>
<1>1. PICK c \in claims :
        /\ cmds' = [n \in DOMAIN cmds \cup (c.lo .. c.lo + Len(c.batch) - 1) |->
                      IF n \in DOMAIN cmds THEN cmds[n]
                      ELSE c.batch[n - c.lo + 1]]
        /\ claims' = claims \ {c}
        /\ UNCHANGED <<cursor, grouping, master, slave, handlers>>
  BY DEF PublishRequest
<1>2. c.lo \in Nat /\ c.batch \in Seq(Command) /\ Len(c.batch) \in Nat
  BY DEF Inv, ProducerType, Claim
<1>3. \A n \in DOMAIN cmds : n \in Nat /\ (n < c.lo \/ n >= c.lo + Len(c.batch))
  BY DEF Inv, ProducerType, RangesApart
<1>4. ASSUME NEW n \in c.lo .. c.lo + Len(c.batch) - 1
      PROVE  n - c.lo + 1 \in DOMAIN c.batch /\ cmds'[n] = c.batch[n - c.lo + 1]
  <2>1. n \notin DOMAIN cmds
    BY <1>2, <1>3
  <2>2. n - c.lo + 1 \in 1 .. Len(c.batch)
    BY <1>2
  <2> QED
    BY <1>1, <1>2, <2>1, <2>2
<1>5. c.batch \in Requests
  BY DEF RangesApart
<1> QED
  BY <1>1, <1>2, <1>3, <1>4, <1>5

\* What handling a command does to the slots: only the group of gNext changes.
LEMMA Grouped ==
  ASSUME Inv, GroupCommand
  PROVE  /\ gNext \in DOMAIN cmds /\ DOMAIN cmds' = DOMAIN cmds
         /\ gNext' = gNext + 1
         /\ \A n \in DOMAIN cmds : n # gNext => cmds'[n] = cmds[n]
         /\ \A n \in DOMAIN cmds : /\ cmds'[n].command = cmds[n].command
                                   /\ cmds'[n].orderId = cmds[n].orderId
                                   /\ cmds'[n].symbol = cmds[n].symbol
         /\ UNCHANGED <<producer, master, slave, handlers>>
<1>1. gNext \in DOMAIN cmds
  BY DEF Inv, GroupingType, GroupingInv, GroupCommand
<1>2. \/ cmds' = cmds
      \/ \E g : cmds' = [cmds EXCEPT ![gNext].eventsGroup = g]
  BY Zenon DEF GroupCommand
<1>3. \A n \in DOMAIN cmds : cmds[n] \in Command
  BY DEF Inv, ProducerType
<1>4. gNext' = gNext + 1 /\ UNCHANGED <<producer, master, slave, handlers>>
  BY DEF GroupCommand
<1>5. CASE cmds' = cmds
  BY <1>1, <1>4, <1>5
<1>6. ASSUME NEW g, cmds' = [cmds EXCEPT ![gNext].eventsGroup = g]
      PROVE  /\ DOMAIN cmds' = DOMAIN cmds
             /\ \A n \in DOMAIN cmds : n # gNext => cmds'[n] = cmds[n]
             /\ \A n \in DOMAIN cmds : /\ cmds'[n].command = cmds[n].command
                                       /\ cmds'[n].orderId = cmds[n].orderId
                                       /\ cmds'[n].symbol = cmds[n].symbol
  BY <1>3, <1>6 DEF Command
<1> QED
  BY <1>1, <1>2, <1>4, <1>5, <1>6

\* Claimed ranges stay apart from each other and from what is published.
LEMMA RangesApartNext ==
  ASSUME Inv, RangesApart, [Next]_vars
  PROVE  RangesApart'
<1>1. CASE ClaimRequest
  <2>1. PICK batch \in Requests :
          /\ ClaimRange(Len(batch))
          /\ claims' = claims \cup {[lo |-> cursor + 1, batch |-> batch]}
          /\ cmds' = cmds
    BY <1>1 DEF ClaimRequest
  <2>2. batch \in Seq(Command) /\ Len(batch) \in Nat
    BY RequestsAssumption
  <2>3. /\ cursor \in Int
        /\ \A n \in DOMAIN cmds : n \in Nat /\ n <= cursor
        /\ \A c \in claims : /\ c.lo \in Nat /\ Len(c.batch) \in Nat
                             /\ c.lo + Len(c.batch) - 1 <= cursor
    BY DEF Inv, ProducerType, Claim, ClaimsInv
  <2> DEFINE new == [lo |-> cursor + 1, batch |-> batch]
  <2>4. /\ \A n \in DOMAIN cmds : n < new.lo
        /\ \A c \in claims : c.lo + Len(c.batch) <= new.lo
        /\ new.batch \in Requests
    BY <2>2, <2>3
  <2>5. claims' = claims \cup {new}
    BY <2>1
  <2> HIDE DEF new
  <2> QED
    BY <2>1, <2>4, <2>5 DEF RangesApart
<1>2. CASE PublishRequest
  <2>1. PICK c \in claims :
          /\ claims' = claims \ {c}
          /\ DOMAIN cmds' = DOMAIN cmds \cup (c.lo .. c.lo + Len(c.batch) - 1)
    BY <1>2, Published
  <2>2. \A d \in claims' : d \in claims /\ d # c
    BY <2>1
  <2>3. \A d \in claims : d.lo \in Nat /\ Len(d.batch) \in Nat
    BY DEF Inv, ProducerType, Claim
  <2>4. ASSUME NEW d \in claims', NEW n \in DOMAIN cmds'
        PROVE  n < d.lo \/ n >= d.lo + Len(d.batch)
    <3>1. CASE n \in DOMAIN cmds
      BY <2>2, <3>1 DEF RangesApart
    <3>2. CASE n \in c.lo .. c.lo + Len(c.batch) - 1
      <4>1. c.lo + Len(c.batch) <= d.lo \/ d.lo + Len(d.batch) <= c.lo
        BY <2>2 DEF RangesApart
      <4> QED
        BY <2>2, <2>3, <3>2, <4>1
    <3> QED
      BY <2>1, <3>1, <3>2
  <2> QED
    BY <2>2, <2>4 DEF RangesApart
<1>3. CASE GroupCommand
  BY <1>3, Grouped DEF RangesApart, producer
<1>4. CASE ClaimAndThrow
  BY <1>4 DEF ClaimAndThrow, RangesApart
<1>5. CASE UNCHANGED <<producer, cmds>>
  BY <1>5 DEF RangesApart, producer
<1> QED
  BY <1>1, <1>2, <1>3, <1>4, <1>5 DEF Next, vars, GroupWait, GroupTimeout,
     Master, MasterWait, MasterSwitchGroup, MasterCommand, Slave, SlaveCommand,
     SlaveReturn, MatchBatch, JournalBatch, ResultsBatch

\* Which steps touch what the cuts depend on.
LEMMA CutSteps ==
  ASSUME [Next]_vars
  PROVE  \/ PublishRequest \/ GroupCommand \/ GroupTimeout
         \/ UNCHANGED <<cmds, gNext, groupCounter, groupingEnabled>>
  BY DEF Next, vars, grouping, ClaimRequest, ClaimAndThrow, GroupWait, Master,
     MasterWait, MasterSwitchGroup, MasterCommand, Slave, SlaveCommand,
     SlaveReturn, MatchBatch, JournalBatch, ResultsBatch

\* Grouping is never switched off if no command does so.
LEMMA GroupingOnNext ==
  ASSUME GroupingStaysOn, Inv, RangesApart, GroupingOnInv, [Next]_vars
  PROVE  GroupingOnInv'
<1>1. CASE PublishRequest
  <2>1. PICK c \in claims :
          /\ c.batch \in Requests
          /\ DOMAIN cmds' = DOMAIN cmds \cup (c.lo .. c.lo + Len(c.batch) - 1)
          /\ \A n \in DOMAIN cmds : cmds'[n] = cmds[n]
          /\ \A n \in c.lo .. c.lo + Len(c.batch) - 1 :
               /\ n - c.lo + 1 \in DOMAIN c.batch
               /\ cmds'[n] = c.batch[n - c.lo + 1]
          /\ UNCHANGED grouping
    BY <1>1, Published
  <2> QED
    BY <2>1 DEF GroupingOnInv, GroupingStaysOn, grouping
<1>2. CASE GroupCommand
  <2>1. groupingEnabled'
    BY <1>2, Grouped DEF GroupingOnInv, GroupCommand
  <2> QED
    BY <1>2, <2>1, Grouped DEF GroupingOnInv
<1>3. CASE GroupTimeout
  BY <1>3 DEF GroupTimeout, GroupingOnInv
<1>4. CASE UNCHANGED <<cmds, gNext, groupCounter, groupingEnabled>>
  BY <1>4 DEF GroupingOnInv
<1> QED
  BY <1>1, <1>2, <1>3, <1>4, CutSteps

\* The second command of a snapshot follows the first, or is yet to be written.
LEMMA PairsNext ==
  ASSUME SnapshotPairs, Inv, RangesApart, PairsInv, [Next]_vars
  PROVE  PairsInv'
<1>1. CASE PublishRequest
  <2>1. PICK c \in claims :
          /\ c.batch \in Requests /\ c.lo \in Nat /\ Len(c.batch) \in Nat
          /\ DOMAIN cmds' = DOMAIN cmds \cup (c.lo .. c.lo + Len(c.batch) - 1)
          /\ \A n \in DOMAIN cmds : cmds'[n] = cmds[n]
          /\ \A n \in c.lo .. c.lo + Len(c.batch) - 1 :
               /\ n - c.lo + 1 \in DOMAIN c.batch
               /\ cmds'[n] = c.batch[n - c.lo + 1]
    BY <1>1, Published
  <2> SUFFICES ASSUME NEW n \in DOMAIN cmds',
                      cmds'[n].command = "PERSIST_STATE_RISK"
               PROVE  /\ n - 1 \in DOMAIN cmds'
                      /\ cmds'[n - 1].command = "PERSIST_STATE_MATCHING"
    BY DEF PairsInv
  <2>2. CASE n \in DOMAIN cmds
    BY <2>1, <2>2 DEF PairsInv
  <2>3. CASE n \in c.lo .. c.lo + Len(c.batch) - 1
    <3> DEFINE i == n - c.lo + 1
    <3>1. /\ i \in DOMAIN c.batch /\ i \in Int
          /\ c.batch[i].command = "PERSIST_STATE_RISK"
      BY <2>1, <2>3
    <3>2. i > 1 /\ c.batch[i - 1].command = "PERSIST_STATE_MATCHING"
      BY <2>1, <3>1 DEF SnapshotPairs
    <3>3. n - 1 \in c.lo .. c.lo + Len(c.batch) - 1 /\ i - 1 = (n - 1) - c.lo + 1
      BY <2>1, <2>3, <3>2
    <3> QED
      BY <2>1, <3>2, <3>3
  <2> QED
    BY <2>1, <2>2, <2>3
<1>2. CASE GroupCommand
  BY <1>2, Grouped DEF PairsInv
<1>3. CASE UNCHANGED cmds
  BY <1>3 DEF PairsInv
<1> QED
  BY <1>1, <1>2, <1>3, CutSteps DEF GroupTimeout

\* Groups are numbered in the order of the ring.
LEMMA GroupsGrowNext ==
  ASSUME Inv, RangesApart, GroupingOnInv, GroupsGrow, [Next]_vars
  PROVE  GroupsGrow'
<1>1. /\ gNext \in Nat /\ groupCounter \in Nat /\ gAvail \in Int
      /\ \A n \in 0 .. gNext - 1 : n \in DOMAIN cmds
      /\ \A n \in DOMAIN cmds : cmds[n].eventsGroup \in Int
  BY DEF Inv, ProducerType, GroupingType, GroupingInv, Command
<1>2. CASE PublishRequest
  <2>1. \A n \in 0 .. gNext - 1 : cmds'[n] = cmds[n]
    BY <1>1, <1>2, Published
  <2>2. UNCHANGED <<gNext, groupCounter>>
    BY <1>2, Published DEF grouping
  <2> QED
    BY <1>1, <2>1, <2>2 DEF GroupsGrow, StartsGroup
<1>3. CASE GroupCommand
  <2> DEFINE c == cmds[gNext]
             group == IF StartsGroup(c) THEN groupCounter + 1 ELSE groupCounter
             msgs == IF StartsGroup(c) THEN 1 ELSE msgsInGroup + 1
  <2>1. c.command = "GROUPING_CONTROL" => c.orderId = 1
    BY <1>3, Grouped DEF GroupingOnInv
  <2>2. /\ cmds' = [cmds EXCEPT ![gNext].eventsGroup = group]
        /\ groupCounter' \in {group, group + 1}
    BY <1>3, <2>1 DEF GroupCommand, GroupingOnInv
  <2>3. cmds[gNext] \in Command
    BY <1>3, Grouped DEF Inv, ProducerType
  <2>4. cmds'[gNext].eventsGroup = group
    BY <1>3, <2>2, <2>3, Grouped DEF Command
  <2>5. /\ group \in Nat /\ groupCounter <= group /\ group <= groupCounter'
        /\ StartsGroup(c) => groupCounter < group
        /\ groupCounter' \in Nat
    BY <1>1, <2>2
  <2>6. \A n \in 0 .. gNext : StartsGroup(cmds'[n]) = StartsGroup(cmds[n])
    BY <1>1, <1>3, Grouped DEF StartsGroup
  <2>7. \A n \in 0 .. gNext - 1 : cmds'[n] = cmds[n]
    BY <1>1, <1>3, Grouped
  <2> HIDE DEF group, msgs
  <2>8. \A n \in 0 .. gNext' - 1 : n \in 0 .. gNext - 1 \/ n = gNext
    BY <1>1, <1>3, Grouped
  <2>9. \A n \in 0 .. gNext' - 1 : cmds'[n].eventsGroup <= groupCounter'
    BY <1>1, <2>4, <2>5, <2>7, <2>8 DEF GroupsGrow
  <2>10. ASSUME NEW n \in 0 .. gNext' - 1, NEW k \in 0 .. n - 1
         PROVE  /\ cmds'[k].eventsGroup <= cmds'[n].eventsGroup
                /\ StartsGroup(cmds'[n]) => cmds'[k].eventsGroup < cmds'[n].eventsGroup
    <3>1. CASE n \in 0 .. gNext - 1
      BY <1>1, <2>7, <3>1 DEF GroupsGrow
    <3>2. CASE n = gNext
      <4>1. k \in 0 .. gNext - 1 /\ cmds'[k] = cmds[k]
        BY <1>1, <2>7, <3>2
      <4>2. cmds[k].eventsGroup <= groupCounter /\ cmds[k].eventsGroup \in Int
        BY <1>1, <4>1 DEF GroupsGrow
      <4> QED
        BY <1>1, <2>4, <2>5, <2>6, <3>2, <4>1, <4>2
    <3> QED
      BY <2>8, <3>1, <3>2
  <2> QED
    BY <2>9, <2>10 DEF GroupsGrow
<1>4. CASE GroupTimeout
  BY <1>1, <1>4 DEF GroupTimeout, GroupsGrow
<1>5. CASE UNCHANGED <<cmds, gNext, groupCounter, groupingEnabled>>
  BY <1>5 DEF GroupsGrow
<1> QED
  BY <1>2, <1>3, <1>4, <1>5, CutSteps

\* R1 moves on by handling the command it is at.
LEMMA MovesByCommand ==
  ASSUME Inv, [Next]_vars, NEW s \in RiskShards, rNext'[s] # rNext[s]
  PROVE  /\ MasterCommand(s)
         /\ rNext[s] \in Nat /\ rNext[s] < gNext
         /\ cmds[rNext[s]].eventsGroup = currentSequenceGroup[s]
<1>1. \E t \in RiskShards : MasterCommand(t)
  BY DEF Next, vars, master, ClaimRequest, PublishRequest, ClaimAndThrow, GroupWait,
     GroupCommand, GroupTimeout, Master, MasterWait, MasterSwitchGroup, Slave,
     SlaveCommand, SlaveReturn, MatchBatch, JournalBatch, ResultsBatch
<1>2. MasterCommand(s)
  <2>1. PICK t \in RiskShards : MasterCommand(t)
    BY <1>1
  <2>2. PICK next : rNext' = [rNext EXCEPT ![t] = next]
    BY <2>1 DEF MasterCommand
  <2>3. DOMAIN rNext = RiskShards
    BY DEF Inv, MasterType
  <2>4. t = s
    BY <2>2, <2>3
  <2> QED
    BY <2>1, <2>4
<1>3. rNext[s] \in Nat /\ rNext[s] <= rAvail[s] /\ rAvail[s] <= gSeq /\ gSeq < gNext
  BY <1>2 DEF Inv, MasterCommand, MasterType, GroupingType, GroupingInv, MasterInv
<1> QED
  BY <1>2, <1>3 DEF MasterCommand, Inv, MasterType, GroupingType

\* A command of a smaller group than the one R1 is in is settled.
LEMMA SmallerGroupSettled ==
  ASSUME Inv, NEW s \in RiskShards, NEW n \in 0 .. rNext[s] - 1,
         cmds[n].eventsGroup # currentSequenceGroup[s]
  PROVE  n < sNext[s]
<1>1. n <= lastTriggered[s]
  BY DEF Inv, MasterType, SwitchInv
<1> QED
  BY <1>1 DEF Inv, MasterType, SlaveType, SwitchInv

CutInv == Inv /\ RangesApart /\ GroupingOnInv /\ GroupsGrow

\* The invariants of the cuts hold in every reachable state.
LEMMA CutInvariance ==
  ASSUME GroupingStaysOn
  PROVE  Spec => []CutInv
<1>1. Init => CutInv
  BY InitInv DEF Init, CutInv, RangesApart, GroupingOnInv, GroupsGrow
<1>2. CutInv /\ [Next]_vars => CutInv'
  BY NextInv, RangesApartNext, GroupingOnNext, GroupsGrowNext DEF CutInv
<1> QED
  BY <1>1, <1>2, PTL DEF Spec

\* RESET and the last frames of binary messages and report queries: everything
\* before is settled.
THEOREM ReportsCut ==
  ASSUME GroupingStaysOn
  PROVE  Spec => ReportCut
<1> DEFINE Cut ==
      \A s \in RiskShards :
        LET c == cmds[rNext[s]]
        IN (/\ rNext'[s] # rNext[s]
            /\ \/ c.command \in {"BINARY_DATA_COMMAND", "BINARY_DATA_QUERY"} /\ c.symbol = -1
               \/ c.command = "RESET")
             => sNext[s] = rNext[s]
<1>1. CutInv /\ [Next]_vars => Cut
  <2> SUFFICES ASSUME CutInv, [Next]_vars, NEW s \in RiskShards,
                      rNext'[s] # rNext[s], StartsGroup(cmds[rNext[s]])
               PROVE  sNext[s] = rNext[s]
    BY DEF StartsGroup
  <2>1. /\ rNext[s] \in Nat /\ rNext[s] < gNext /\ gNext \in Nat
        /\ sNext[s] \in Nat /\ sNext[s] <= rNext[s]
        /\ cmds[rNext[s]].eventsGroup = currentSequenceGroup[s]
    BY MovesByCommand DEF CutInv, Inv, MasterInv, SlaveType, GroupingType
  <2>2. CASE rNext[s] = 0
    BY <2>1, <2>2
  <2>3. CASE rNext[s] # 0
    <3>1. rNext[s] - 1 \in 0 .. rNext[s] - 1 /\ rNext[s] \in 0 .. gNext - 1
      BY <2>1, <2>3
    <3>2. cmds[rNext[s] - 1].eventsGroup < cmds[rNext[s]].eventsGroup
      BY <3>1 DEF CutInv, GroupsGrow
    <3>3. /\ cmds[rNext[s]].eventsGroup \in Int
          /\ cmds[rNext[s] - 1].eventsGroup \in Int
      BY <2>1, <3>1 DEF CutInv, Inv, ProducerType, GroupingType, GroupingInv, Command
    <3>4. cmds[rNext[s] - 1].eventsGroup # currentSequenceGroup[s]
      BY <2>1, <3>2, <3>3
    <3>5. rNext[s] - 1 < sNext[s]
      BY <3>1, <3>4, SmallerGroupSettled DEF CutInv
    <3> QED
      BY <2>1, <3>5
  <2> QED
    BY <2>2, <2>3
<1>2. Spec => [][Next]_vars
  BY DEF Spec
<1> QED
  BY <1>1, <1>2, CutInvariance, PTL DEF ReportCut

\* PERSIST_STATE_RISK: everything before the PERSIST_STATE_MATCHING of the same
\* snapshot is settled, also when the two fall into different groups.
THEOREM SnapshotsCut ==
  ASSUME GroupingStaysOn, SnapshotPairs
  PROVE  Spec => SnapshotCut
<1> DEFINE Cut ==
      \A s \in RiskShards :
        (rNext'[s] # rNext[s] /\ cmds[rNext[s]].command = "PERSIST_STATE_RISK")
          => sNext[s] >= rNext[s] - 1
<1>1. Init => PairsInv
  BY DEF Init, PairsInv
<1>2. CutInv /\ PairsInv /\ [Next]_vars => PairsInv'
  BY PairsNext DEF CutInv
<1>3. CutInv /\ PairsInv /\ [Next]_vars => Cut
  <2> SUFFICES ASSUME CutInv, PairsInv, [Next]_vars, NEW s \in RiskShards,
                      rNext'[s] # rNext[s],
                      cmds[rNext[s]].command = "PERSIST_STATE_RISK"
               PROVE  sNext[s] >= rNext[s] - 1
    OBVIOUS
  <2> DEFINE n == rNext[s]
  <2>1. /\ n \in Nat /\ n < gNext /\ gNext \in Nat /\ sNext[s] \in Nat
        /\ cmds[n].eventsGroup = currentSequenceGroup[s]
    BY MovesByCommand DEF CutInv, Inv, SlaveType, GroupingType
  <2>2. \A k \in 0 .. n : k \in DOMAIN cmds /\ cmds[k].eventsGroup \in Int
    BY <2>1 DEF CutInv, Inv, ProducerType, GroupingType, GroupingInv, Command
  <2>3. n \in DOMAIN cmds
    BY <2>1, <2>2
  <2>4. n - 1 \in DOMAIN cmds /\ StartsGroup(cmds[n - 1])
    BY <2>3 DEF PairsInv, StartsGroup
  <2>5. n - 1 \in Nat
    BY <2>4 DEF CutInv, Inv, ProducerType
  <2> HIDE DEF n
  <2>6. CASE n = 1
    BY <2>1, <2>6 DEF n
  <2>7. CASE n > 1
    <3>1. n - 1 \in 0 .. gNext - 1 /\ n - 2 \in 0 .. (n - 1) - 1
      BY <2>1, <2>5, <2>7
    <3>2. cmds[n - 2].eventsGroup < cmds[n - 1].eventsGroup
      BY <2>4, <3>1 DEF CutInv, GroupsGrow
    <3>3. n \in 0 .. gNext - 1 /\ n - 1 \in 0 .. n - 1
      BY <2>1, <2>5
    <3>4. cmds[n - 1].eventsGroup <= cmds[n].eventsGroup
      BY <3>3 DEF CutInv, GroupsGrow
    <3>5. cmds[n - 2].eventsGroup # currentSequenceGroup[s]
      <4>1. n - 2 \in 0 .. n /\ n - 1 \in 0 .. n /\ n \in 0 .. n
        BY <2>1, <2>7
      <4> QED
        BY <2>1, <2>2, <3>2, <3>4, <4>1
    <3>6. n - 2 \in 0 .. rNext[s] - 1
      BY <2>1, <2>7 DEF n
    <3>7. n - 2 < sNext[s]
      BY <3>5, <3>6, SmallerGroupSettled DEF CutInv
    <3> QED
      BY <2>1, <3>7 DEF n
  <2> QED
    BY <2>1, <2>5, <2>6, <2>7
<1>4. Spec => Init /\ [][Next]_vars
  BY DEF Spec
<1> QED
  BY <1>1, <1>2, <1>3, <1>4, CutInvariance, PTL DEF SnapshotCut
=============================================================================
