------------------------------ MODULE EventPool ------------------------------
(***************************************************************************)
(* The life of the MatcherTradeEvents: chains of SharedPool are taken by   *)
(* the helpers of the engines (OrderBookEventsHelper), used up event by    *)
(* event, hung on the command in a slot of the ring, read by R2 and E,     *)
(* collected by the GroupingProcessor when the slot comes round again, and *)
(* put back into the pool as new chains.  An event is an object, a chain a *)
(* list linked by nextEvent.                                               *)
(*                                                                         *)
(* G handles one command at a time here, a batch of one; larger batches    *)
(* only delay what the others see.                                         *)
(***************************************************************************)
EXTENDS Integers, Sequences, FiniteSets

CONSTANTS
  RiskEngines, MatchingEngines,
  RingSize,            \* ringBufferSize
  ChainLength,         \* chainLength (1024 in ExchangeCore)
  PoolInitialSize,     \* poolInitialSize
  MsgsInGroupLimit,    \* msgsInGroupLimit
  EventsPerCommand,    \* bound: events a helper sends for one command
  MaxCommands,         \* bound: commands ever published
  MaxEvents            \* bound: events ever created

Engines == RiskEngines \cup MatchingEngines

\* Every engine has a helper for its sections of reports, a matching engine
\* another one for what its books do.  Each has a chain of its own.
Helpers == (Engines \X {"sections"}) \cup (MatchingEngines \X {"books"})

\* The commands G tells apart: those that do not open a group, PERSIST_STATE_RISK,
\* which does not close one either, the report queries, RESET and
\* PERSIST_STATE_MATCHING, and the two modes of GROUPING_CONTROL.
Kinds ==
  {"order", "persistRisk", "query", "boundary", "groupingOff", "groupingOn"}

ASSUME PoolAssumption ==
  /\ RiskEngines \cap MatchingEngines = {}
  /\ RingSize \in Nat \ {0} /\ ChainLength \in Nat \ {0}
  /\ PoolInitialSize \in Nat /\ MsgsInGroupLimit \in Nat \ {0}
  /\ PoolInitialSize * ChainLength <= MaxEvents

VARIABLES
  nextEvent,           \* of every event created so far; 0 is nullptr
  eventChainsBuffer,   \* heads of the chains in the pool
  eventsChainHead,     \* what each helper has left of its chain
  sending,             \* the events an engine has sent for its command, so far
  kind, matcherEvent,  \* the slots: kind of command, head of its chain
  tradeEvents,         \* G: head, tail and counter of what it has collected
  msgsInGroup, groupingEnabled,
  cursor, gSeq, engineSeq, readSeq,   \* published; done by G, the engines,
                                      \* and by both R2 and E
  sent,                \* history: the events sent for the command in a slot
  dropped              \* history: events G let go with grouping disabled

pool     == <<nextEvent, eventChainsBuffer>>
helpers  == <<eventsChainHead, sending, engineSeq>>
slots    == <<kind, matcherEvent, sent>>
grouping == <<tradeEvents, msgsInGroup, groupingEnabled, gSeq, dropped>>
vars     == <<pool, helpers, slots, grouping, cursor, readSeq>>

Slots  == 0 .. RingSize - 1
Slot(n) == n % RingSize
NothingCollected == [head |-> 0, tail |-> 0, counter |-> 0]

\* The events from head on: FindTail, ProcessMatcherEvents.  The fuel ends a
\* walk that nextEvent would not.
Chain(head) ==
  LET walk[fuel \in 0 .. Cardinality(DOMAIN nextEvent)] ==
        IF fuel = 0 THEN <<>>
        ELSE LET before == walk[fuel - 1]
                 e == IF before = <<>> THEN head ELSE nextEvent[before[Len(before)]]
             IN IF e = 0 THEN before ELSE Append(before, e)
  IN walk[Cardinality(DOMAIN nextEvent)]

ElementsOf(s) == {s[i] : i \in DOMAIN s}
Tail_(s) == s[Len(s)]

\* CreateEventChain: length new events after the first n, linked in order.
CreateEventChain(n, length) ==
  [e \in n + 1 .. n + length |-> IF e = n + length THEN 0 ELSE e + 1]

Init ==
  /\ nextEvent =
       [e \in 1 .. PoolInitialSize * ChainLength |->
          IF e \in {i * ChainLength : i \in 1 .. PoolInitialSize} THEN 0 ELSE e + 1]
  /\ eventChainsBuffer = {1 + i * ChainLength : i \in 0 .. PoolInitialSize - 1}
  /\ eventsChainHead = [h \in Helpers |-> 0]
  /\ sending = [e \in Engines |-> <<>>]
  /\ kind = [i \in Slots |-> "order"]
  /\ matcherEvent = [i \in Slots |-> 0]
  /\ tradeEvents = NothingCollected
  /\ msgsInGroup = 0 /\ groupingEnabled = TRUE
  /\ cursor = -1 /\ gSeq = -1
  /\ engineSeq = [e \in Engines |-> -1]
  /\ readSeq = -1
  /\ sent = [i \in Slots |-> <<>>]
  /\ dropped = {}

-----------------------------------------------------------------------------
(***************************************************************************)
(* A client publishes a command in a slot that R2 and E have done with.    *)
(* The translators leave matcherEvent as it is.                            *)
(***************************************************************************)
Publish ==
  \E k \in Kinds :
    /\ cursor + 1 < MaxCommands
    /\ cursor + 1 - RingSize <= readSeq
    /\ cursor' = cursor + 1
    /\ kind' = [kind EXCEPT ![Slot(cursor + 1)] = k]
    /\ UNCHANGED <<pool, helpers, matcherEvent, sent, grouping, readSeq>>

-----------------------------------------------------------------------------
(***************************************************************************)
(* G.                                                                      *)
(***************************************************************************)
StartsGroup(k) == k \in {"query", "boundary", "groupingOn"}

\* Append a chain to what is collected; the tail is found by walking.
CollectedOverwriting(c, head) ==                       \* mutant
  [head |-> head, tail |-> Tail_(Chain(head)),
   counter |-> c.counter + Len(Chain(head))]

Collected(c, head) ==
  [head |-> IF c.tail = 0 THEN head ELSE c.head,
   tail |-> Tail_(Chain(head)), counter |-> c.counter + Len(Chain(head))]

\* What G leaves in the slot: nullptr.
SlotKept(slot) == matcherEvent                         \* mutant

SlotCleaned(slot) == [matcherEvent EXCEPT ![slot] = 0]

GroupCommand ==
  LET slot == Slot(gSeq + 1)
      k == kind[slot]
      enabled == IF k \in {"groupingOff", "groupingOn"} THEN k = "groupingOn"
                 ELSE groupingEnabled
      head == matcherEvent[slot]
      flushed == IF StartsGroup(k) THEN NothingCollected ELSE tradeEvents
      collected == IF head = 0 THEN flushed ELSE Collected(flushed, head)
      msgs == IF StartsGroup(k) THEN 1 ELSE msgsInGroup + 1
      full == msgs >= MsgsInGroupLimit /\ k # "persistRisk"
      flush == full \/ (head # 0 /\ collected.counter >= ChainLength)
  IN /\ gSeq < cursor
     /\ gSeq' = gSeq + 1
     /\ groupingEnabled' = enabled
     /\ matcherEvent' = SlotCleaned(slot)
     /\ sent' = [sent EXCEPT ![slot] = <<>>]
     /\ IF enabled
        THEN /\ tradeEvents' = IF flush THEN NothingCollected ELSE collected
             /\ eventChainsBuffer' =
                  eventChainsBuffer
                    \cup ({IF StartsGroup(k) THEN tradeEvents.head ELSE 0,
                           IF flush THEN collected.head ELSE 0} \ {0})
             /\ nextEvent' = IF head # 0 /\ flushed.tail # 0
                             THEN [nextEvent EXCEPT ![flushed.tail] = head]
                             ELSE nextEvent
             /\ msgsInGroup' = IF full THEN 0 ELSE msgs
             /\ UNCHANGED dropped
        ELSE /\ dropped' = dropped \cup ElementsOf(Chain(head))
             /\ UNCHANGED <<pool, tradeEvents, msgsInGroup>>
     /\ UNCHANGED <<helpers, kind, cursor, readSeq>>

\* The group has been open for maxGroupDurationNs and nothing is waiting.
GroupTimeout ==
  /\ gSeq = cursor
  /\ msgsInGroup > 0
  /\ msgsInGroup' = 0
  /\ eventChainsBuffer' = eventChainsBuffer \cup ({tradeEvents.head} \ {0})
  /\ tradeEvents' = NothingCollected
  /\ UNCHANGED <<nextEvent, helpers, slots, groupingEnabled, gSeq, dropped,
                 cursor, readSeq>>

-----------------------------------------------------------------------------
(***************************************************************************)
(* The engines.  A matching engine waits for all risk engines.             *)
(***************************************************************************)
MayHandle(e, n) ==
  /\ n <= gSeq
  /\ e \in MatchingEngines => \A r \in RiskEngines : n <= engineSeq[r]

KindFor(e) == kind[Slot(engineSeq[e] + 1)]

\* Sections for queries; trades, reductions and rejections for orders.
SendsEvents(e) ==
  /\ MayHandle(e, engineSeq[e] + 1)
  /\ KindFor(e) = "query" \/ (KindFor(e) = "order" /\ e \in MatchingEngines)
  /\ Len(sending[e]) < EventsPerCommand

HelperFor(e) == <<e, IF KindFor(e) = "query" THEN "sections" ELSE "books">>

\* GetChain, when the helper has used up its chain: any chain of the pool, or a
\* new one when there is none.
GetChain(e) ==
  LET created == Cardinality(DOMAIN nextEvent)
      head(new) == eventsChainHead' = [eventsChainHead EXCEPT ![HelperFor(e)] = new]
  IN /\ SendsEvents(e)
     /\ eventsChainHead[HelperFor(e)] = 0
     /\ \/ \E chain \in eventChainsBuffer :
             /\ eventChainsBuffer' = eventChainsBuffer \ {chain}
             /\ head(chain)
             /\ UNCHANGED nextEvent
        \/ /\ eventChainsBuffer = {}
           /\ created + ChainLength <= MaxEvents
           /\ nextEvent' = [event \in 1 .. created + ChainLength |->
                IF event \in DOMAIN nextEvent THEN nextEvent[event]
                ELSE CreateEventChain(created, ChainLength)[event]]
           /\ head(created + 1)
           /\ UNCHANGED eventChainsBuffer
     /\ UNCHANGED <<sending, engineSeq, slots, grouping, cursor, readSeq>>

\* NewMatcherEvent, and the link to it from the event sent before: the first
\* event of the helper's chain, cut off from the rest.
Linked(event, before) ==
  [e \in DOMAIN nextEvent |->
     IF e = event THEN 0
     ELSE IF before # <<>> /\ e = Tail_(before) THEN event
     ELSE nextEvent[e]]

SendEvent(e) ==
  LET event == eventsChainHead[HelperFor(e)]
  IN /\ SendsEvents(e)
     /\ event # 0
     /\ eventsChainHead' = [eventsChainHead EXCEPT ![HelperFor(e)] = nextEvent[event]]
     /\ nextEvent' = Linked(event, sending[e])
     /\ sending' = [sending EXCEPT ![e] = Append(@, event)]
     /\ UNCHANGED <<eventChainsBuffer, engineSeq, slots, grouping, cursor,
                    readSeq>>

\* The command is handled: its events go before those it has already.  A
\* matching engine hangs trades on a command that has none.
FinishCommand(e) ==
  LET n == engineSeq[e] + 1
      events == sending[e]
  IN /\ MayHandle(e, n)
     /\ engineSeq' = [engineSeq EXCEPT ![e] = n]
     /\ sending' = [sending EXCEPT ![e] = <<>>]
     /\ IF events = <<>> THEN UNCHANGED <<nextEvent, matcherEvent, sent>>
        ELSE /\ nextEvent' = [nextEvent EXCEPT
                                ![Tail_(events)] = matcherEvent[Slot(n)]]
             /\ matcherEvent' = [matcherEvent EXCEPT ![Slot(n)] = events[1]]
             /\ sent' = [sent EXCEPT ![Slot(n)] = events \o @]
     /\ UNCHANGED <<eventChainsBuffer, eventsChainHead, kind, grouping, cursor,
                    readSeq>>

-----------------------------------------------------------------------------
\* R2 settles the events of a command, E reports them: readSeq is the slower.
Read ==
  /\ \A e \in Engines : readSeq < engineSeq[e]
  /\ readSeq' = readSeq + 1
  /\ UNCHANGED <<pool, helpers, slots, grouping, cursor>>

Next ==
  \/ Publish \/ GroupCommand \/ GroupTimeout
  \/ \E e \in Engines : GetChain(e) \/ SendEvent(e) \/ FinishCommand(e)
  \/ Read

Spec == Init /\ [][Next]_vars

-----------------------------------------------------------------------------
(***************************************************************************)
(* Properties.                                                             *)
(***************************************************************************)

\* The chains in use: those of the pool, of the helpers, of the slots, and the
\* one G is collecting.
Heads ==
  [owner : {"pool"}, of : {0}, head : eventChainsBuffer]
    \cup {[owner |-> "helper", of |-> h, head |-> eventsChainHead[h]] :
            h \in Helpers}
    \cup {[owner |-> "engine", of |-> e, head |-> sending[e][1]] :
            e \in {i \in Engines : sending[i] # <<>>}}
    \cup {[owner |-> "slot", of |-> i, head |-> matcherEvent[i]] : i \in Slots}
    \cup {[owner |-> "G", of |-> 0, head |-> tradeEvents.head]}

\* Every event ever created is in exactly one chain that somebody holds, unless
\* G let it go while grouping was disabled: no event is handed out while it
\* still hangs on a command, and none is lost (OrderBookEventsHelper.cpp:112
\* warns of chain corruption, SharedPool has no check of what it is given).
EventsOwnedOnce ==
  \A e \in DOMAIN nextEvent :
    Cardinality({h \in Heads : e \in ElementsOf(Chain(h.head))})
      = IF e \in dropped THEN 0 ELSE 1

\* Until R2 and E have both read a command, its chain is what the engines sent
\* for it, each engine's events in the order it sent them: neither a helper that
\* takes events for a later command nor G may change it.
ChainsIntact ==
  \A n \in readSeq + 1 .. gSeq : Chain(matcherEvent[Slot(n)]) = sent[Slot(n)]
=============================================================================
