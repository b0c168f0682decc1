------------------------ MODULE CommandResultsProofs ------------------------
(***************************************************************************)
(* Proofs about CommandResults, for any number of engines and clients, any *)
(* fragment size and any requests: every part of a request is in one slot, *)
(* the promises filed and the answers given are those of the awaited       *)
(* commands, and the failure of a snapshot is reported.                    *)
(*                                                                         *)
(* Then messages of several frames: the frames of a client follow each     *)
(* other in the order of the ring, so every engine puts the same whole     *)
(* messages together; the last frame of a command is answered by SUCCESS,  *)
(* and that of a query by one section of every engine.                     *)
(***************************************************************************)
EXTENDS CommandResults, Induction

-----------------------------------------------------------------------------
(***************************************************************************)
(* Types.                                                                  *)
(***************************************************************************)
Word == Nat \X Nat
Event == [section : Engines, of : Seq(Word), part : {1, 2}]
Code == {"NEW", "SUCCESS", "MATCHING_UNKNOWN_ORDER_ID", "ACCEPTED",
         "VALID_FOR_MATCHING_ENGINE", "STATE_PERSIST_RISK_ENGINE_FAILED",
         "STATE_PERSIST_MATCHING_ENGINE_FAILED"}
Name == Messages \cup {"PERSIST_STATE_MATCHING", "PERSIST_STATE_RISK",
                       "ORDER_BOOK_REQUEST", "CANCEL_ORDER"}

Slot == [command : Name, userCookie : Clients \cup {0}, word : Word,
         symbol : {-1, 0}, future : {<<>>} \cup Word, resultCode : Code,
         marketData : Nat, events : Seq(Event)]

ClientState ==
  {Idle} \cup [step : {"claimed", "filed", "between"}, f : Nat \ {0}, r : Requests,
               offset : Nat, low : Nat, fragment : Seq(Slot)]

ClientType ==
  /\ requests \in Seq(Requests)
  /\ cursor \in Int /\ cursor >= -1
  /\ client \in [Clients -> ClientState]
  /\ DOMAIN cmds \subseteq 0 .. cursor
  /\ cmds \in [DOMAIN cmds -> Slot]

\* Slot x is part i of request f, which is r.
IsPart(x, r, f, i) ==
  /\ x.word = <<f, i>>
  /\ r.kind \in MessageKinds =>
       /\ x.command = IF r.kind = "binary" THEN "BINARY_DATA_COMMAND"
                      ELSE "BINARY_DATA_QUERY"
       /\ i <= r.frames
       /\ i < r.frames => x.symbol = 0 /\ x.future = <<>>
       /\ i = r.frames => x.symbol = -1 /\ x.future = <<f, 1>>
  /\ r.kind = "persist" =>
       /\ i \in {1, 2}
       /\ x.command = IF i = 1 THEN "PERSIST_STATE_MATCHING" ELSE "PERSIST_STATE_RISK"
       /\ x.future = <<f, i>>
  /\ r.kind \notin MessageKinds \cup {"persist"} =>
       /\ i = 1
       /\ x.command = CommandOf(r.kind)
       /\ x.future = <<f, 1>>

\* Slot x is as its client wrote it.
Fresh(x) == x.resultCode = "NEW" /\ x.events = <<>> /\ x.marketData = 0

\* A fragment is some parts of its request that follow each other, up to the
\* last one or a full fragment.
PartsOf(fragment, c, f, r, offset) ==
  /\ fragment \in Seq(Slot) /\ Len(fragment) \in Nat \ {0}
  /\ DOMAIN fragment = 1 .. Len(fragment)
  /\ \A i \in 1 .. Len(fragment) :
       /\ IsPart(fragment[i], r, f, offset + i)
       /\ Fresh(fragment[i])
       /\ r.kind \in MessageKinds => fragment[i].userCookie = c
  /\ r.kind \in MessageKinds =>
       \/ IsLastFragment(fragment) /\ offset + Len(fragment) = r.frames
       \/ /\ ~IsLastFragment(fragment) /\ Len(fragment) = FragmentSize
          /\ offset + FragmentSize < r.frames
  /\ r.kind \notin MessageKinds => IsLastFragment(fragment)

\* Fragment makes what PartsOf describes.
LEMMA FragmentParts ==
  ASSUME NEW c \in Clients, NEW f \in Nat \ {0}, NEW r \in Requests, NEW offset \in Nat,
         offset > 0 => r.kind \in MessageKinds,
         offset < r.frames \/ r.kind \notin MessageKinds,
         NEW fragment, fragment = Fragment(f, r, offset, c)
  PROVE  PartsOf(fragment, c, f, r, offset)
<1> USE DEF PartsOf
<1>1. r.kind \in Kinds /\ r.frames \in Nat \ {0} /\ FragmentSize \in Nat \ {0}
  BY RequestsAssumption, EnginesAssumption
<1>2. <<>> \in Seq(Event)
  BY EmptySeq
<1>3. CASE r.kind \in MessageKinds
  <2> DEFINE name == IF r.kind = "binary" THEN "BINARY_DATA_COMMAND" ELSE "BINARY_DATA_QUERY"
             size == IF offset + FragmentSize >= r.frames THEN r.frames - offset
                     ELSE FragmentSize
             part(i) == Command(name, c, <<f, offset + i>>,
                                IF offset + i = r.frames THEN -1 ELSE 0,
                                IF offset + i = r.frames THEN <<f, 1>> ELSE <<>>)
  <2>1. fragment = [i \in 1 .. size |-> part(i)]
    BY <1>3 DEF Fragment, FragmentOf, MessageKinds
  <2>2. size \in Nat \ {0} /\ offset + size <= r.frames
    BY <1>1, <1>3
  <2>3. ASSUME NEW i \in 1 .. size
        PROVE  /\ part(i) \in Slot /\ Fresh(part(i)) /\ part(i).userCookie = c
               /\ IsPart(part(i), r, f, offset + i)
               /\ part(i).future # <<>> <=> offset + i = r.frames
    <3>1. offset + i \in Nat /\ offset + i <= r.frames
      BY <1>1, <2>2
    <3>2. part(i) \in Slot
      BY <1>2, <3>1 DEF Command, Slot, Code, Name, Messages, Word
    <3>3. /\ Fresh(part(i)) /\ part(i).userCookie = c
          /\ IsPart(part(i), r, f, offset + i)
      BY <1>1, <1>3, <3>1 DEF Command, Fresh, IsPart, MessageKinds
    <3> QED
      BY <3>2, <3>3 DEF Command
  <2> HIDE DEF size, part
  <2>4. fragment \in [1 .. size -> Slot]
    BY <2>1, <2>3
  <2>5. fragment \in Seq(Slot) /\ Len(fragment) = size /\ DOMAIN fragment = 1 .. size
    BY <2>2, <2>4, FunctionIsSeq
  <2>6. \A i \in 1 .. size : fragment[i] = part(i)
    BY <2>1
  <2>7. IsLastFragment(fragment) <=> offset + size = r.frames
    BY <2>2, <2>3, <2>5, <2>6 DEF IsLastFragment
  <2>8. offset + size = r.frames \/ (size = FragmentSize /\ offset + FragmentSize < r.frames)
    BY <1>1, <1>3 DEF size
  <2>9. offset + size = r.frames \/ (size = FragmentSize /\ offset + FragmentSize < r.frames /\ offset + size # r.frames)
    BY <1>1, <2>8
  <2> QED
    BY <1>3, <2>2, <2>3, <2>5, <2>6, <2>7, <2>9
<1>4. CASE r.kind = "persist"
  <2> DEFINE x1 == Command("PERSIST_STATE_MATCHING", 0, <<f, 1>>, -1, <<f, 1>>)
             x2 == Command("PERSIST_STATE_RISK", 0, <<f, 2>>, -1, <<f, 2>>)
  <2>1. fragment = <<x1, x2>> /\ offset = 0
    BY <1>4 DEF Fragment, PersistPair, MessageKinds
  <2>2. x1 \in Slot /\ x2 \in Slot
    BY <1>2 DEF Command, Slot, Code, Name, Messages, Word
  <2>3. /\ IsPart(x1, r, f, 1) /\ IsPart(x2, r, f, 2) /\ Fresh(x1) /\ Fresh(x2)
        /\ x2.future # <<>>
    BY <1>4 DEF Command, IsPart, Fresh, MessageKinds
  <2> HIDE DEF x1, x2
  <2>4. /\ fragment \in Seq(Slot) /\ Len(fragment) = 2 /\ DOMAIN fragment = 1 .. 2
        /\ fragment[1] = x1 /\ fragment[2] = x2
    BY <2>1, <2>2
  <2>5. \A i \in 1 .. 2 : IsPart(fragment[i], r, f, offset + i) /\ Fresh(fragment[i])
    BY <2>1, <2>3, <2>4
  <2> QED
    BY <1>4, <2>3, <2>4, <2>5 DEF IsLastFragment, MessageKinds
<1>5. CASE r.kind \notin MessageKinds \cup {"persist"}
  <2> DEFINE x1 == Command(CommandOf(r.kind), 0, <<f, 1>>, 0, <<f, 1>>)
  <2>1. fragment = <<x1>> /\ offset = 0
    BY <1>5 DEF Fragment, MessageKinds
  <2>2. CommandOf(r.kind) \in Name
    BY DEF CommandOf, Name
  <2>3. x1 \in Slot
    BY <1>2, <2>2 DEF Command, Slot, Code, Word
  <2>4. IsPart(x1, r, f, 1) /\ Fresh(x1) /\ x1.future # <<>>
    BY <1>5 DEF Command, IsPart, Fresh
  <2> HIDE DEF x1
  <2>5. /\ fragment \in Seq(Slot) /\ Len(fragment) = 1 /\ DOMAIN fragment = 1 .. 1
        /\ fragment[1] = x1
    BY <2>1, <2>3
  <2> QED
    BY <1>5, <2>1, <2>4, <2>5 DEF IsLastFragment
<1> QED
  BY <1>1, <1>3, <1>4, <1>5 DEF Kinds

-----------------------------------------------------------------------------
(***************************************************************************)
(* Engines.                                                                *)
(***************************************************************************)
Write == {NoWrite}
  \cup [field : {"matcherEvent"}, expected : Seq(Event), chain : Seq(Event)]
  \cup [field : {"resultCode"}, expected : Code, code : Code]

EngineType ==
  /\ handled \in [Engines -> Int]
  /\ writing \in [Engines -> Write]
  /\ completed \in [Engines -> Seq(Seq(Word))]
  /\ incomingData = [e \in Engines |-> incomingData[e]]
  /\ \A e \in Engines : \A t \in DOMAIN incomingData[e] : incomingData[e][t] \in Seq(Word)
  /\ eSeq \in Int /\ eSeq >= -1

\* The order of the stages, and which command an unfinished write is about.
OrderInv ==
  /\ \A e \in Engines : \A n \in 0 .. handled[e] : n \in DOMAIN cmds
  /\ \A e \in Matching : eSeq <= handled[e]
  /\ \A e \in Matching, r \in Risk : handled[e] <= handled[r]
  /\ \A e \in Engines :
       writing[e] # NoWrite =>
         /\ handled[e] + 1 \in DOMAIN cmds
         /\ e \in Matching => \A r \in Risk : handled[e] + 1 <= handled[r]
         /\ writing[e].field = "matcherEvent" =>
              /\ cmds[handled[e] + 1].command = "BINARY_DATA_QUERY"
              /\ cmds[handled[e] + 1].symbol = -1
         /\ writing[e].field = "resultCode" => Stores(e, cmds[handled[e] + 1].command)

Typed == ClientType /\ EngineType /\ OrderInv

SameRequest(x, y) ==
  /\ x.command = y.command /\ x.userCookie = y.userCookie /\ x.word = y.word
  /\ x.symbol = y.symbol /\ x.future = y.future

EngineAction(e) ==
  \/ HandleOrder(e) \/ AcceptFrame(e) \/ CompleteCommand(e)
  \/ CompleteQuery(e) \/ ExchangeEvents(e)
  \/ StoreData(e) \/ ExchangeResult(e) \/ SkipPersist(e)

\* What all steps of engine e have in common: it works on the command after those
\* it has handled, which is published and, if e is a matching engine, handled by
\* all risk engines; what the client wrote stays.
EngineStep(e, n) ==
  /\ n = handled[e] + 1 /\ n \in DOMAIN cmds
  /\ e \in Matching => \A r \in Risk : n <= handled[r]
  /\ UNCHANGED <<clients, promises, answers, eSeq>>
  /\ DOMAIN cmds' = DOMAIN cmds /\ cmds'[n] \in Slot
  /\ SameRequest(cmds'[n], cmds[n])
  /\ \A k \in DOMAIN cmds : k # n => cmds'[k] = cmds[k]
  /\ cmds' \in [DOMAIN cmds -> Slot]
  /\ handled' = handled \/ handled' = [handled EXCEPT ![e] = n]
  /\ \A d \in Engines : d # e => /\ incomingData'[d] = incomingData[d]
                                 /\ completed'[d] = completed[d]
                                 /\ writing'[d] = writing[d]

\* The engines have different names, and shard 0 has one of each kind.
LEMMA EngineNames ==
  /\ 0 \in Risk /\ 1024 \in Matching
  /\ \A e \in Risk : e \notin Matching /\ e \in Engines /\ e \in 0 .. 1023
  /\ \A e \in Matching : e \notin Risk /\ e \in Engines /\ e \in 1024 .. 2047
  /\ \A e \in Engines : e \in Risk \/ e \in Matching
  /\ \A e \in Engines : Shard(e) = 0 <=> e \in {0, 1024}
<1>1. \A e \in Risk : e \in 0 .. 1023
  BY EnginesAssumption DEF Risk
<1>2. ASSUME NEW e \in Matching PROVE e \in 1024 .. 2047
  <2>1. PICK m \in MatchingShards : e = m + 1024
    BY DEF Matching
  <2>2. m \in 0 .. 1023
    BY EnginesAssumption
  <2> QED
    BY <2>1, <2>2
<1>3. 0 \in Risk /\ 1024 \in Matching
  BY EnginesAssumption DEF Risk, Matching
<1>4. ASSUME NEW e \in 0 .. 1023 PROVE e % 1024 = 0 <=> e \in {0, 1024}
  <2>1. e % 1024 = e
    OBVIOUS
  <2> QED
    BY <2>1
<1>5. ASSUME NEW e \in 1024 .. 2047 PROVE e % 1024 = 0 <=> e \in {0, 1024}
  <2>1. e % 1024 = e - 1024
    OBVIOUS
  <2> QED
    BY <2>1
<1>6. ASSUME NEW e \in Engines PROVE Shard(e) = 0 <=> e \in {0, 1024}
  BY <1>1, <1>2, <1>4, <1>5 DEF Engines, Shard
<1>7. ASSUME NEW e \in Risk PROVE e \notin Matching
  <2>1. e < 1024 /\ e \in Int
    BY <1>1
  <2> QED
    BY <1>2, <2>1
<1> QED
  BY <1>1, <1>2, <1>3, <1>6, <1>7 DEF Engines

\* What is known when e begins with a command.
LEMMA ReadyFacts ==
  ASSUME Typed, NEW e \in Engines, NEW commands, Ready(e, commands)
  PROVE  LET n == handled[e] + 1
         IN /\ n \in DOMAIN cmds /\ cmds[n] \in Slot /\ cmds[n].command \in commands
            /\ e \in Matching => \A r \in Risk : n <= handled[r]
            /\ writing[e] = NoWrite
  BY DEF Ready, Typed, ClientType

\* A step that writes one slot, leaves what the client wrote in it, and at most
\* moves e past it.
LEMMA OneSlotWritten ==
  ASSUME Typed, NEW e \in Engines, NEW n, n = handled[e] + 1, n \in DOMAIN cmds,
         e \in Matching => \A r \in Risk : n <= handled[r],
         NEW x \in Slot, SameRequest(x, cmds[n]), cmds' = [cmds EXCEPT ![n] = x],
         handled' = handled \/ Done(e),
         UNCHANGED <<clients, promises, answers, eSeq>>,
         NEW w \in Write, writing' = [writing EXCEPT ![e] = w],
         w # NoWrite =>
           /\ handled' = handled
           /\ w.field = "matcherEvent" => cmds[n].command = "BINARY_DATA_QUERY" /\ cmds[n].symbol = -1
           /\ w.field = "resultCode" => Stores(e, cmds[n].command),
         NEW i, incomingData' = [incomingData EXCEPT ![e] = i],
         \A t \in DOMAIN i : i[t] \in Seq(Word),
         NEW s \in Seq(Seq(Word)), completed' = [completed EXCEPT ![e] = s]
  PROVE  EngineStep(e, n) /\ Typed'
<1>1. ClientType'
  BY DEF Typed, ClientType, clients
<1>2. handled[e] \in Int /\ n \in Int /\ handled \in [Engines -> Int]
  BY DEF Typed, EngineType
<1>3. handled' = handled \/ handled' = [handled EXCEPT ![e] = n]
  BY <1>2 DEF Done
<1>4. /\ DOMAIN cmds' = DOMAIN cmds /\ cmds'[n] = x
      /\ \A k \in DOMAIN cmds : k # n => cmds'[k] = cmds[k]
  OBVIOUS
<1>5. EngineStep(e, n)
  BY <1>1, <1>3, <1>4 DEF EngineStep, Typed, EngineType, ClientType
<1>6. EngineType'
  BY <1>2, <1>3 DEF Typed, EngineType
<1>7. \A d \in Engines : handled'[d] \in {handled[d], handled[d] + 1} /\ (d # e => handled'[d] = handled[d])
  BY <1>2, <1>3
<1>8. handled'[e] \in {handled[e], n}
  BY <1>2, <1>3
<1>9. \A k \in DOMAIN cmds : cmds'[k].command = cmds[k].command /\ cmds'[k].symbol = cmds[k].symbol
  BY <1>4 DEF SameRequest
<1>10. OrderInv'
  <2>1. \A d \in Engines : \A k \in 0 .. handled'[d] : k \in DOMAIN cmds'
    <3> SUFFICES ASSUME NEW d \in Engines, NEW k \in 0 .. handled'[d] PROVE k \in DOMAIN cmds
      BY <1>4
    <3>1. handled[d] \in Int /\ k \in Int /\ 0 <= k /\ k <= handled'[d]
      BY <1>2, <1>7
    <3>2. k \in 0 .. handled[d] \/ (d = e /\ k = n)
      BY <1>2, <1>7, <1>8, <3>1
    <3> QED
      BY <3>2 DEF Typed, OrderInv
  <2>2. \A d \in Matching : eSeq' <= handled'[d]
    <3> SUFFICES ASSUME NEW d \in Matching PROVE eSeq <= handled'[d]
      OBVIOUS
    <3>1. d \in Engines /\ handled[d] \in Int /\ eSeq \in Int /\ eSeq <= handled[d]
      BY <1>2, EngineNames DEF Typed, OrderInv, EngineType
    <3> QED
      BY <1>7, <3>1
  <2>3. \A d \in Matching, r \in Risk : handled'[d] <= handled'[r]
    <3> SUFFICES ASSUME NEW d \in Matching, NEW r \in Risk PROVE handled'[d] <= handled'[r]
      OBVIOUS
    <3>1. d \in Engines /\ r \in Engines /\ d # r
      BY EngineNames
    <3>2. handled[d] <= handled[r] /\ handled[d] \in Int /\ handled[r] \in Int
      BY <1>2, <3>1 DEF Typed, OrderInv
    <3>3. d = e => n <= handled[r]
      OBVIOUS
    <3> QED
      BY <1>2, <1>7, <1>8, <3>1, <3>2, <3>3
  <2>4. ASSUME NEW d \in Engines, writing'[d] # NoWrite
        PROVE  /\ handled'[d] + 1 \in DOMAIN cmds'
               /\ d \in Matching => \A r \in Risk : handled'[d] + 1 <= handled'[r]
               /\ writing'[d].field = "matcherEvent" =>
                    /\ cmds'[handled'[d] + 1].command = "BINARY_DATA_QUERY"
                    /\ cmds'[handled'[d] + 1].symbol = -1
               /\ writing'[d].field = "resultCode" => Stores(d, cmds'[handled'[d] + 1].command)
    <3>1. CASE d = e
      <4>1. writing'[d] = w /\ handled' = handled
        BY <2>4, <3>1 DEF Typed, EngineType
      <4> QED
        BY <1>4, <1>9, <2>4, <3>1, <4>1
    <3>2. CASE d # e
      <4>1. writing'[d] = writing[d] /\ handled'[d] = handled[d]
        BY <1>7, <3>2 DEF Typed, EngineType
      <4>2. /\ handled[d] + 1 \in DOMAIN cmds
            /\ d \in Matching => \A r \in Risk : handled[d] + 1 <= handled[r]
            /\ writing[d].field = "matcherEvent" =>
                 /\ cmds[handled[d] + 1].command = "BINARY_DATA_QUERY"
                 /\ cmds[handled[d] + 1].symbol = -1
            /\ writing[d].field = "resultCode" => Stores(d, cmds[handled[d] + 1].command)
        BY <2>4, <4>1 DEF Typed, OrderInv
      <4>3. \A r \in Risk : r \in Engines /\ handled[r] \in Int /\ handled[d] \in Int /\ handled[r] <= handled'[r]
        BY <1>2, <1>7, EngineNames
      <4>4. d \in Matching => \A r \in Risk : handled[d] + 1 <= handled'[r]
        <5> SUFFICES ASSUME d \in Matching, NEW r \in Risk PROVE handled[d] + 1 <= handled'[r]
          OBVIOUS
        <5>1. handled'[r] \in Int
          BY <1>2, <1>7, <4>3
        <5> QED
          BY <4>2, <4>3, <5>1
      <4> QED
        BY <1>4, <1>9, <4>1, <4>2, <4>4
    <3> QED
      BY <3>1, <3>2
  <2> QED
    BY <2>1, <2>2, <2>3, <2>4 DEF OrderInv
<1> QED
  BY <1>1, <1>5, <1>6, <1>10 DEF Typed

\* What has been put together for a transferId are words, and so it stays.
LEMMA TransferredType ==
  ASSUME Typed, NEW e \in Engines, NEW x \in Slot
  PROVE  Transferred(e, x) \in Seq(Word)
<1>1. x.word \in Word
  BY DEF Slot
<1>2. CASE x.userCookie \in DOMAIN incomingData[e]
  <2>1. incomingData[e][x.userCookie] \in Seq(Word)
    BY <1>2 DEF Typed, EngineType
  <2>2. Append(incomingData[e][x.userCookie], x.word) \in Seq(Word)
    BY <1>1, <2>1, AppendElements
  <2> QED
    BY <1>2, <2>2 DEF Transferred
<1>3. CASE x.userCookie \notin DOMAIN incomingData[e]
  <2>1. <<x.word>> \in Seq(Word)
    BY <1>1
  <2> QED
    BY <1>3, <2>1 DEF Transferred
<1> QED
  BY <1>2, <1>3

\* A record that is erased leaves the others as they are.
LEMMA ErasedType ==
  ASSUME Typed, NEW e \in Engines, NEW t
  PROVE  \A u \in DOMAIN RecordErased(incomingData[e], t) :
           RecordErased(incomingData[e], t)[u] \in Seq(Word)
  BY DEF RecordErased, Typed, EngineType

\* A result code is written to one slot or none.
LEMMA ResultWrittenSlot ==
  ASSUME Typed, NEW e \in Engines, NEW code \in Code, handled[e] + 1 \in DOMAIN cmds
  PROVE  \E x \in Slot : /\ SameRequest(x, cmds[handled[e] + 1])
                         /\ ResultWritten(e, code) = [cmds EXCEPT ![handled[e] + 1] = x]
<1> DEFINE n == handled[e] + 1
<1>1. cmds[n] \in Slot /\ cmds \in [DOMAIN cmds -> Slot]
  BY DEF Typed, ClientType
<1>2. CASE Shard(e) = 0
  <2> DEFINE x == [cmds[n] EXCEPT !.resultCode = code]
  <2>1. x \in Slot /\ SameRequest(x, cmds[n])
    BY <1>1 DEF Slot, SameRequest
  <2>2. ResultWritten(e, code) = [cmds EXCEPT ![n] = x]
    BY <1>2 DEF ResultWritten
  <2> HIDE DEF x
  <2> QED
    BY <2>1, <2>2
<1>3. CASE Shard(e) # 0
  <2>1. ResultWritten(e, code) = [cmds EXCEPT ![n] = cmds[n]]
    BY <1>1, <1>3 DEF ResultWritten
  <2> QED
    BY <1>1, <2>1 DEF SameRequest
<1> QED
  BY <1>2, <1>3

\* What is written for a frame is a result code.
LEMMA FrameCodeType ==
  ASSUME NEW e
  PROVE  FrameCode(e, "ACCEPTED") \in Code /\ FrameCode(e, "SUCCESS") \in Code
  BY DEF FrameCode, Code

\* Every action of an engine is a step of that engine.
LEMMA EngineSteps ==
  ASSUME Typed, NEW e \in Engines, EngineAction(e)
  PROVE  EngineStep(e, handled[e] + 1) /\ Typed'
<1> DEFINE n == handled[e] + 1
<1>1. /\ handled[e] \in Int /\ writing[e] \in Write /\ completed[e] \in Seq(Seq(Word))
      /\ writing = [writing EXCEPT ![e] = writing[e]]
      /\ completed = [completed EXCEPT ![e] = completed[e]]
      /\ incomingData = [incomingData EXCEPT ![e] = incomingData[e]]
      /\ \A t \in DOMAIN incomingData[e] : incomingData[e][t] \in Seq(Word)
      /\ NoWrite \in Write
  BY DEF Typed, EngineType, Write
<1>2. cmds \in [DOMAIN cmds -> Slot]
  BY DEF Typed, ClientType
<1>3. \A k \in DOMAIN cmds : cmds = [cmds EXCEPT ![k] = cmds[k]] /\ SameRequest(cmds[k], cmds[k])
  BY <1>2 DEF SameRequest
<1>4. CASE HandleOrder(e)
  <2>1. /\ Ready(e, {"CANCEL_ORDER", "ORDER_BOOK_REQUEST"}) /\ Done(e)
        /\ UNCHANGED <<clients, promises, answers, incomingData, writing, completed, eSeq>>
    BY <1>4 DEF HandleOrder
  <2>2. /\ n \in DOMAIN cmds /\ cmds[n] \in Slot
        /\ e \in Matching => \A r \in Risk : n <= handled[r]
        /\ writing[e] = NoWrite
    BY <2>1, ReadyFacts
  <2>3. \E x \in Slot : SameRequest(x, cmds[n]) /\ cmds' = [cmds EXCEPT ![n] = x]
    <3>1. CASE e = 1024
      <4>1. PICK code \in {"SUCCESS", "MATCHING_UNKNOWN_ORDER_ID"} :
              cmds' = [cmds EXCEPT ![n].resultCode = code,
                    ![n].marketData = IF cmds[n].command = "ORDER_BOOK_REQUEST"
                                      THEN cmds[n].word[1] ELSE 0]
        BY <1>4, <3>1 DEF HandleOrder
      <4> DEFINE data == IF cmds[n].command = "ORDER_BOOK_REQUEST" THEN cmds[n].word[1] ELSE 0
                 x == [cmds[n] EXCEPT !.resultCode = code, !.marketData = data]
      <4>2. cmds[n].word \in Word
        BY <2>2 DEF Slot
      <4>3. data \in Nat
        BY <4>2 DEF Word
      <4>4. x \in Slot /\ SameRequest(x, cmds[n])
        BY <2>2, <4>3 DEF Slot, SameRequest, Code
      <4>5. cmds' = [cmds EXCEPT ![n] = x]
        BY <1>2, <2>2, <4>1
      <4> HIDE DEF x
      <4> QED
        BY <4>4, <4>5
    <3>2. CASE e # 1024
      BY <1>3, <1>4, <2>2, <3>2 DEF HandleOrder
    <3> QED
      BY <3>1, <3>2
  <2> QED
    BY <1>1, <2>1, <2>2, <2>3, OneSlotWritten
<1>5. CASE AcceptFrame(e)
  <2> DEFINE c == cmds[n]
             i == [t \in DOMAIN incomingData[e] \cup {c.userCookie} |->
                     IF t = c.userCookie THEN Transferred(e, c) ELSE incomingData[e][t]]
  <2>1. /\ Ready(e, Messages) /\ Done(e)
        /\ incomingData' = [incomingData EXCEPT ![e] = i]
        /\ cmds' = ResultWritten(e, FrameCode(e, "ACCEPTED"))
        /\ UNCHANGED <<clients, promises, answers, writing, completed, eSeq>>
    BY <1>5 DEF AcceptFrame
  <2>2. /\ n \in DOMAIN cmds /\ c \in Slot
        /\ e \in Matching => \A r \in Risk : n <= handled[r]
        /\ writing[e] = NoWrite
    BY <2>1, ReadyFacts
  <2>3. \E x \in Slot : SameRequest(x, cmds[n]) /\ cmds' = [cmds EXCEPT ![n] = x]
    BY <2>1, <2>2, ResultWrittenSlot, FrameCodeType
  <2>4. \A t \in DOMAIN i : i[t] \in Seq(Word)
    BY <1>1, <2>2, TransferredType
  <2> HIDE DEF c, i
  <2> QED
    BY <1>1, <2>1, <2>2, <2>3, <2>4, OneSlotWritten
<1>6. CASE CompleteCommand(e)
  <2> DEFINE c == cmds[n]
             i == RecordErased(incomingData[e], c.userCookie)
             s == Append(completed[e], Transferred(e, c))
  <2>1. /\ Ready(e, {"BINARY_DATA_COMMAND"}) /\ Done(e)
        /\ incomingData' = [incomingData EXCEPT ![e] = i]
        /\ completed' = [completed EXCEPT ![e] = s]
        /\ cmds' = ResultWritten(e, FrameCode(e, "SUCCESS"))
        /\ UNCHANGED <<clients, promises, answers, writing, eSeq>>
    BY <1>6 DEF CompleteCommand
  <2>2. /\ n \in DOMAIN cmds /\ c \in Slot
        /\ e \in Matching => \A r \in Risk : n <= handled[r]
        /\ writing[e] = NoWrite
    BY <2>1, ReadyFacts
  <2>3. \E x \in Slot : SameRequest(x, cmds[n]) /\ cmds' = [cmds EXCEPT ![n] = x]
    BY <2>1, <2>2, ResultWrittenSlot, FrameCodeType
  <2>4. \A t \in DOMAIN i : i[t] \in Seq(Word)
    BY ErasedType
  <2>5. s \in Seq(Seq(Word))
    BY <1>1, <2>2, TransferredType, AppendElements
  <2> HIDE DEF c, i, s
  <2> QED
    BY <1>1, <2>1, <2>2, <2>3, <2>4, <2>5, OneSlotWritten
<1>7. CASE CompleteQuery(e)
  <2> DEFINE c == cmds[n]
             i == RecordErased(incomingData[e], c.userCookie)
             s == Append(completed[e], Transferred(e, c))
             w == [field |-> "matcherEvent", expected |-> c.events,
                   chain |-> CreateBinaryEventsChain(e, Transferred(e, c))]
  <2>1. /\ Ready(e, {"BINARY_DATA_QUERY"}) /\ c.symbol = -1
        /\ incomingData' = [incomingData EXCEPT ![e] = i]
        /\ completed' = [completed EXCEPT ![e] = s]
        /\ writing' = [writing EXCEPT ![e] = w]
        /\ UNCHANGED <<clients, cmds, promises, answers, handled, eSeq>>
    BY <1>7 DEF CompleteQuery
  <2>2. /\ n \in DOMAIN cmds /\ c \in Slot /\ c.command = "BINARY_DATA_QUERY"
        /\ e \in Matching => \A r \in Risk : n <= handled[r]
    BY <2>1, ReadyFacts
  <2>3. \A t \in DOMAIN i : i[t] \in Seq(Word)
    BY ErasedType
  <2>4. s \in Seq(Seq(Word))
    BY <1>1, <2>2, TransferredType, AppendElements
  <2>5. w \in Write /\ w.field = "matcherEvent"
    <3>1. c.events \in Seq(Event)
      BY <2>2 DEF Slot
    <3>2. Transferred(e, c) \in Seq(Word)
      BY <2>2, TransferredType
    <3>3. CreateBinaryEventsChain(e, Transferred(e, c)) \in Seq(Event)
      BY <3>2 DEF CreateBinaryEventsChain, Event
    <3> QED
      BY <3>1, <3>3 DEF Write
  <2>6. cmds' = [cmds EXCEPT ![n] = c] /\ SameRequest(c, cmds[n])
    BY <1>3, <2>1, <2>2
  <2>7. cmds[n].command = "BINARY_DATA_QUERY" /\ cmds[n].symbol = -1
    BY <2>1, <2>2
  <2>8. w.field # "resultCode"
    BY <2>5
  <2> HIDE DEF c, i, s, w
  <2> QED
    BY <1>1, <2>1, <2>2, <2>3, <2>4, <2>5, <2>6, <2>7, <2>8, OneSlotWritten
<1>8. CASE ExchangeEvents(e)
  <2> DEFINE w == writing[e]
             code == FrameCode(e, "SUCCESS")
             appended == [cmds EXCEPT ![n].events = w.chain \o w.expected]
  <2>1. /\ w.field = "matcherEvent"
        /\ UNCHANGED <<clients, promises, answers, incomingData, completed, eSeq>>
    BY <1>8 DEF ExchangeEvents
  <2>2. w # NoWrite
    BY <2>1 DEF NoWrite
  <2>3. /\ n \in DOMAIN cmds /\ cmds[n] \in Slot
        /\ cmds[n].command = "BINARY_DATA_QUERY" /\ cmds[n].symbol = -1
        /\ e \in Matching => \A r \in Risk : n <= handled[r]
    BY <1>2, <2>1, <2>2 DEF Typed, OrderInv
  <2>4. w.expected \in Seq(Event) /\ w.chain \in Seq(Event)
    BY <1>1, <2>1, <2>2 DEF Write
  <2>5. CASE Compare(w.expected, cmds[n].events)
    <3> DEFINE events == w.chain \o w.expected
               x == IF Shard(e) = 0 THEN [cmds[n] EXCEPT !.events = events, !.resultCode = code]
                    ELSE [cmds[n] EXCEPT !.events = events]
    <3>1. /\ cmds' = IF Shard(e) = 0 THEN [appended EXCEPT ![n].resultCode = code] ELSE appended
          /\ writing' = [writing EXCEPT ![e] = NoWrite] /\ Done(e)
      BY <1>8, <2>5 DEF ExchangeEvents
    <3>2. events \in Seq(Event) /\ code \in Code
      BY <2>4, FrameCodeType, ConcatProperties
    <3> HIDE DEF events, code
    <3>3. x \in Slot /\ SameRequest(x, cmds[n])
      BY <2>3, <3>2 DEF Slot, SameRequest
    <3>4. cmds' = [cmds EXCEPT ![n] = x]
      BY <1>2, <2>3, <3>1 DEF events
    <3> HIDE DEF x, w, appended
    <3> QED
      BY <1>1, <2>1, <2>3, <3>1, <3>3, <3>4, OneSlotWritten
  <2>6. CASE ~Compare(w.expected, cmds[n].events)
    <3>1. /\ writing' = [writing EXCEPT ![e].expected = cmds[n].events]
          /\ UNCHANGED <<cmds, handled>>
      BY <1>8, <2>6 DEF ExchangeEvents
    <3> DEFINE v == [writing[e] EXCEPT !.expected = cmds[n].events]
    <3>2. writing' = [writing EXCEPT ![e] = v]
      BY <3>1
    <3>3. cmds[n] \in Slot /\ cmds[n].events \in Seq(Event)
      BY <1>2, <2>3 DEF Slot
    <3>4. v \in Write /\ v.field = "matcherEvent"
      BY <1>1, <2>1, <2>2, <3>3 DEF Write
    <3> HIDE DEF v, w, code, appended
    <3>5. cmds' = [cmds EXCEPT ![n] = cmds[n]]
      BY <1>2, <2>3, <3>1
    <3>6. UNCHANGED <<clients, promises, answers, incomingData, completed, eSeq>>
      BY <2>1
    <3>7. v.field # "resultCode" /\ SameRequest(cmds[n], cmds[n]) /\ handled' = handled
      BY <3>1, <3>4 DEF SameRequest
    <3>8. /\ incomingData' = [incomingData EXCEPT ![e] = incomingData[e]]
          /\ completed' = [completed EXCEPT ![e] = completed[e]]
      BY <1>1, <3>6
    <3> QED
      BY <1>1, <2>3, <3>2, <3>3, <3>4, <3>5, <3>6, <3>7, <3>8, OneSlotWritten
  <2> QED
    BY <2>5, <2>6
<1>9. CASE StoreData(e)
  <2>1. /\ Ready(e, {"PERSIST_STATE_MATCHING", "PERSIST_STATE_RISK"})
        /\ Stores(e, cmds[n].command)
        /\ UNCHANGED <<clients, cmds, promises, answers, handled, incomingData, completed, eSeq>>
    BY <1>9 DEF StoreData
  <2>2. PICK code \in Code :
          writing' = [writing EXCEPT ![e] = [field |-> "resultCode",
                        expected |-> cmds[n].resultCode, code |-> code]]
    BY <1>9 DEF StoreData, Code, FailureCode
  <2> DEFINE w == [field |-> "resultCode", expected |-> cmds[n].resultCode, code |-> code]
  <2>3. /\ n \in DOMAIN cmds /\ cmds[n] \in Slot
        /\ e \in Matching => \A r \in Risk : n <= handled[r]
    BY <2>1, ReadyFacts
  <2>4. w \in Write /\ w.field = "resultCode"
    BY <2>3 DEF Write, Slot
  <2>5. writing' = [writing EXCEPT ![e] = w]
    BY <2>2
  <2> HIDE DEF w
  <2> QED
    BY <1>1, <1>2, <1>3, <2>1, <2>3, <2>4, <2>5, OneSlotWritten
<1>10. CASE ExchangeResult(e)
  <2> DEFINE w == writing[e]
  <2>1. /\ w.field = "resultCode"
        /\ UNCHANGED <<clients, promises, answers, incomingData, completed, eSeq>>
    BY <1>10 DEF ExchangeResult
  <2>2. w # NoWrite
    BY <2>1 DEF NoWrite
  <2>3. /\ n \in DOMAIN cmds /\ Stores(e, cmds[n].command)
        /\ e \in Matching => \A r \in Risk : n <= handled[r]
    BY <2>1, <2>2 DEF Typed, OrderInv
  <2>4. w.expected \in Code /\ w.code \in Code /\ cmds[n] \in Slot /\ cmds[n].resultCode \in Code
    BY <1>1, <1>2, <2>1, <2>2, <2>3 DEF Write, Slot
  <2>5. CASE ResultIsSet(e)
    <3>1. UNCHANGED cmds /\ Done(e) /\ writing' = [writing EXCEPT ![e] = NoWrite]
      BY <1>10, <2>5 DEF ExchangeResult
    <3> QED
      BY <1>1, <1>2, <1>3, <2>1, <2>3, <3>1, OneSlotWritten
  <2>6. CASE ~ResultIsSet(e) /\ w.expected = cmds[n].resultCode
    <3> DEFINE x == [cmds[n] EXCEPT !.resultCode = w.code]
    <3>1. cmds' = [cmds EXCEPT ![n] = x] /\ Done(e) /\ writing' = [writing EXCEPT ![e] = NoWrite]
      BY <1>10, <2>6 DEF ExchangeResult
    <3>2. x \in Slot /\ SameRequest(x, cmds[n])
      BY <2>4 DEF Slot, SameRequest
    <3> HIDE DEF x
    <3> QED
      BY <1>1, <2>1, <2>3, <3>1, <3>2, OneSlotWritten
  <2>7. CASE ~ResultIsSet(e) /\ w.expected # cmds[n].resultCode
    <3> DEFINE v == [writing[e] EXCEPT !.expected = cmds[n].resultCode]
    <3>1. writing' = [writing EXCEPT ![e] = v] /\ UNCHANGED <<cmds, handled>>
      BY <1>10, <2>7 DEF ExchangeResult
    <3>2. v \in Write /\ v.field = "resultCode"
      BY <1>1, <2>1, <2>2, <2>4 DEF Write
    <3> HIDE DEF v
    <3> QED
      BY <1>1, <1>2, <1>3, <2>1, <2>3, <3>1, <3>2, OneSlotWritten
  <2> QED
    BY <2>5, <2>6, <2>7
<1>11. CASE SkipPersist(e)
  <2>1. /\ Ready(e, {"PERSIST_STATE_MATCHING", "PERSIST_STATE_RISK"}) /\ Done(e)
        /\ UNCHANGED <<clients, promises, answers, incomingData, writing, completed, eSeq>>
        /\ cmds' \in {cmds, ResultWritten(e, "VALID_FOR_MATCHING_ENGINE")}
    BY <1>11 DEF SkipPersist
  <2>2. /\ n \in DOMAIN cmds /\ cmds[n] \in Slot
        /\ e \in Matching => \A r \in Risk : n <= handled[r]
        /\ writing[e] = NoWrite
    BY <2>1, ReadyFacts
  <2>3. \E x \in Slot : SameRequest(x, cmds[n]) /\ cmds' = [cmds EXCEPT ![n] = x]
    BY <1>2, <1>3, <2>1, <2>2, ResultWrittenSlot DEF Code
  <2> QED
    BY <1>1, <2>1, <2>2, <2>3, OneSlotWritten
<1> QED
  BY <1>4, <1>5, <1>6, <1>7, <1>8, <1>9, <1>10, <1>11 DEF EngineAction

-----------------------------------------------------------------------------
(***************************************************************************)
(* Every part of a request is in at most one slot: what a client has in    *)
(* flight keeps apart from what is published and from what others have in  *)
(* flight, and goes on where its published parts end.                      *)
(***************************************************************************)
InFlight(c) == client[c].step \in {"claimed", "filed"}
High(c) == client[c].low + Len(client[c].fragment) - 1

\* The parts of its message a client has published.
Written(c) ==
  IF client[c].step = "between" THEN client[c].offset + FragmentSize
  ELSE client[c].offset

FlightInv ==
  \A c \in Clients :
    LET s == client[c]
    IN /\ s # Idle => s.f \in 1 .. Len(requests) /\ s.r = requests[s.f]
       /\ InFlight(c) =>
            /\ PartsOf(s.fragment, c, s.f, s.r, s.offset)
            /\ s.offset > 0 => s.r.kind \in MessageKinds
            /\ High(c) <= cursor
       /\ s.step = "between" =>
            s.r.kind \in MessageKinds /\ s.offset + FragmentSize < s.r.frames

ApartInv ==
  /\ \A c \in Clients : InFlight(c) =>
       \A n \in DOMAIN cmds : n < client[c].low \/ n > High(c)
  /\ \A c, d \in Clients : c # d /\ InFlight(c) /\ InFlight(d) =>
       High(c) < client[d].low \/ High(d) < client[c].low
  /\ \A c, d \in Clients :
       c # d /\ client[c] # Idle /\ client[d] # Idle => client[c].f # client[d].f

PartsInv ==
  /\ \A n \in DOMAIN cmds :
       LET w == cmds[n].word
       IN w[1] \in 1 .. Len(requests) /\ IsPart(cmds[n], requests[w[1]], w[1], w[2])
  /\ \A m, n \in DOMAIN cmds : cmds[m].word = cmds[n].word => m = n
  /\ \A c \in Clients : client[c] # Idle =>
       \A n \in DOMAIN cmds :
         cmds[n].word[1] = client[c].f => cmds[n].word[2] <= Written(c)

Base == Typed /\ FlightInv /\ ApartInv /\ PartsInv

\* The fields of a client that is not idle.
LEMMA ClientFields ==
  ASSUME ClientType, NEW c \in Clients
  PROVE  /\ client[c].step \in {"idle", "claimed", "filed", "between"}
         /\ client[c].step = "idle" <=> client[c] = Idle
         /\ client[c] # Idle =>
              /\ client[c] \in [step : {"claimed", "filed", "between"}, f : Nat \ {0},
                                r : Requests, offset : Nat, low : Nat, fragment : Seq(Slot)]
              /\ client[c].f \in Nat \ {0} /\ client[c].r \in Requests
              /\ client[c].offset \in Nat /\ client[c].low \in Nat
              /\ client[c].fragment \in Seq(Slot) /\ Len(client[c].fragment) \in Nat
              /\ FragmentSize \in Nat \ {0} /\ Written(c) \in Nat
<1>1. client[c] \in ClientState
  BY DEF ClientType
<1>2. Idle.step = "idle"
  BY DEF Idle
<1>3. CASE client[c] = Idle
  BY <1>2, <1>3
<1>4. CASE client[c] # Idle
  <2>1. client[c] \in [step : {"claimed", "filed", "between"}, f : Nat \ {0},
                       r : Requests, offset : Nat, low : Nat, fragment : Seq(Slot)]
    BY <1>1, <1>4 DEF ClientState
  <2>2. /\ client[c].step \in {"claimed", "filed", "between"}
        /\ client[c].f \in Nat \ {0} /\ client[c].r \in Requests
        /\ client[c].offset \in Nat /\ client[c].low \in Nat
        /\ client[c].fragment \in Seq(Slot)
    BY <2>1
  <2>3. Len(client[c].fragment) \in Nat
    BY <2>2
  <2>4. FragmentSize \in Nat \ {0}
    BY EnginesAssumption
  <2>5. Written(c) \in Nat
    BY <2>2, <2>4 DEF Written
  <2> QED
    BY <1>4, <2>1, <2>2, <2>3, <2>4, <2>5
<1> QED
  BY <1>3, <1>4

\* A published slot as its client left it.
LEMMA WordTypes ==
  ASSUME ClientType, NEW n \in DOMAIN cmds
  PROVE  /\ cmds[n] \in Slot /\ n \in Nat /\ n <= cursor
         /\ cmds[n].word[1] \in Nat /\ cmds[n].word[2] \in Nat
         /\ cmds[n].word = <<cmds[n].word[1], cmds[n].word[2]>>
<1>1. cmds[n] \in Slot /\ n \in 0 .. cursor /\ cursor \in Int
  BY DEF ClientType
<1>2. cmds[n].word \in Nat \X Nat
  BY <1>1 DEF Slot, Word
<1> QED
  BY <1>1, <1>2

\* Engines leave what the clients wrote.
LEMMA EngineKeepsBase ==
  ASSUME Base, NEW e \in Engines, NEW n, EngineStep(e, n), Typed'
  PROVE  Base'
<1>1. /\ UNCHANGED <<requests, client, cursor>> /\ DOMAIN cmds' = DOMAIN cmds
      /\ \A k \in DOMAIN cmds : SameRequest(cmds'[k], cmds[k])
  BY DEF EngineStep, clients, SameRequest
<1>2. FlightInv'
  BY <1>1 DEF Base, FlightInv, InFlight, High
<1>3. ApartInv'
  BY <1>1 DEF Base, ApartInv, InFlight, High
<1>4. PartsInv'
  <2>1. \A k \in DOMAIN cmds : \A r, f, i :
          IsPart(cmds[k], r, f, i) => IsPart(cmds'[k], r, f, i)
    BY <1>1 DEF SameRequest, IsPart
  <2> QED
    BY <1>1, <2>1 DEF Base, PartsInv, SameRequest, Written
<1> QED
  BY <1>2, <1>3, <1>4 DEF Base

\* So does E, which takes the next command.
LEMMA ProcessResultKeepsBase ==
  ASSUME Base, ProcessResult
  PROVE  Base' /\ eSeq' = eSeq + 1 /\ eSeq + 1 \in DOMAIN cmds
<1>1. UNCHANGED <<clients, cmds, engines>> /\ eSeq' = eSeq + 1
      /\ \A e \in Matching : eSeq + 1 <= handled[e]
  BY DEF ProcessResult
<1>2. eSeq \in Int /\ eSeq >= -1 /\ handled[1024] \in Int /\ 1024 \in Matching /\ 1024 \in Engines
  BY EngineNames DEF Base, Typed, EngineType
<1>3. eSeq + 1 \in DOMAIN cmds
  <2>1. eSeq + 1 \in 0 .. handled[1024]
    BY <1>1, <1>2
  <2> QED
    BY <1>2, <2>1 DEF Base, Typed, OrderInv
<1>4. Typed'
  BY <1>1, <1>2 DEF Base, Typed, ClientType, EngineType, OrderInv, clients, engines
<1>5. FlightInv' /\ ApartInv' /\ PartsInv'
  BY <1>1 DEF Base, FlightInv, ApartInv, PartsInv, InFlight, High, Written, clients
<1> QED
  BY <1>1, <1>3, <1>4, <1>5 DEF Base

\* What a client has after Claim.
Claimed(c, f, r, offset) ==
  [step |-> "claimed", f |-> f, r |-> r, offset |-> offset,
   low |-> cursor + 1, fragment |-> Fragment(f, r, offset, c)]

\* Submit and PublishNextFragment are claims of this kind: of the first fragment
\* of a new request, or of the one after what is written of a message.
ClaimStep(c, f, r, offset) ==
  /\ Claim(c, f, r, offset)
  /\ UNCHANGED <<cmds, promises, answers, engines, eSeq>>
  /\ r \in Requests /\ offset \in Nat
  /\ \/ client[c] = Idle /\ offset = 0 /\ f \notin 1 .. Len(requests)
     \/ /\ client[c].step = "between" /\ client[c].f = f /\ client[c].r = r
        /\ offset = Written(c) /\ offset > 0
  /\ requests' \in Seq(Requests) /\ f \in 1 .. Len(requests') /\ requests'[f] = r
  /\ Len(requests) <= Len(requests')
  /\ \A g \in 1 .. Len(requests) : requests'[g] = requests[g]
  /\ \A d \in Clients : d # c /\ client[d] # Idle => client[d].f # f
  /\ \A n \in DOMAIN cmds : cmds[n].word[1] = f => cmds[n].word[2] <= offset
  /\ offset > 0 => r.kind \in MessageKinds
  /\ offset < r.frames \/ r.kind \notin MessageKinds

\* A claim takes slots nobody else has, for parts nobody has written.
LEMMA ClaimStepKeepsBase ==
  ASSUME Base, NEW c \in Clients, NEW f, NEW r, NEW offset, ClaimStep(c, f, r, offset)
  PROVE  /\ Base'
         /\ client' = [client EXCEPT ![c] = Claimed(c, f, r, offset)]
         /\ PartsOf(Fragment(f, r, offset, c), c, f, r, offset)
<1>0. /\ r \in Requests /\ offset \in Nat /\ UNCHANGED <<cmds, engines, eSeq>>
      /\ requests' \in Seq(Requests) /\ f \in 1 .. Len(requests') /\ requests'[f] = r
      /\ Len(requests) <= Len(requests')
      /\ \A g \in 1 .. Len(requests) : requests'[g] = requests[g]
      /\ \A d \in Clients : d # c /\ client[d] # Idle => client[d].f # f
      /\ \A n \in DOMAIN cmds : cmds[n].word[1] = f => cmds[n].word[2] <= offset
      /\ offset > 0 => r.kind \in MessageKinds
      /\ offset < r.frames \/ r.kind \notin MessageKinds
      /\ Claim(c, f, r, offset)
  BY DEF ClaimStep
<1> USE <1>0
<1> DEFINE fragment == Fragment(f, r, offset, c)
           s == Claimed(c, f, r, offset)
<1>1. /\ client' = [client EXCEPT ![c] = s] /\ cursor' = cursor + Len(fragment)
  BY DEF Claim, Claimed
<1>2. f \in Nat \ {0} /\ cursor \in Int /\ cursor >= -1 /\ Len(requests) \in Nat
      /\ client \in [Clients -> ClientState] /\ ClientType
  BY DEF Base, Typed, ClientType
<1>3. PartsOf(fragment, c, f, r, offset)
  BY <1>2, FragmentParts
<1>4. fragment \in Seq(Slot) /\ Len(fragment) \in Nat \ {0}
  BY <1>3 DEF PartsOf
<1>5. /\ s.step = "claimed" /\ s.f = f /\ s.r = r /\ s.offset = offset
      /\ s.low = cursor + 1 /\ s.fragment = fragment
  BY DEF Claimed
<1>6. s \in ClientState
  <2>1. cursor + 1 \in Nat
    BY <1>2
  <2> HIDE DEF fragment
  <2> QED
    BY <1>2, <1>4, <2>1 DEF ClientState, Claimed, fragment
<1>7. s # Idle
  BY <1>5 DEF Idle
<1> HIDE DEF fragment, s
<1>8. client'[c] = s /\ \A d \in Clients : d # c => client'[d] = client[d]
  BY <1>1, <1>2
<1>9. cursor' \in Int /\ cursor' > cursor /\ cursor' >= -1 /\ cursor' = cursor + Len(fragment)
  BY <1>1, <1>2, <1>4
<1>10. ClientType'
  <2>1. client' \in [Clients -> ClientState]
    BY <1>1, <1>2, <1>6
  <2>2. DOMAIN cmds \subseteq 0 .. cursor'
    BY <1>2, <1>9 DEF ClientType
  <2>3. cmds \in [DOMAIN cmds -> Slot]
    BY <1>2 DEF ClientType
  <2> QED
    BY <1>9, <2>1, <2>2, <2>3 DEF ClientType
<1>11. Typed'
  BY <1>10 DEF Base, Typed, EngineType, OrderInv, engines
<1>12. High(c)' = cursor' /\ client'[c].low = cursor + 1
  BY <1>2, <1>4, <1>5, <1>8, <1>9 DEF High
<1>13. FlightInv'
  <2> SUFFICES ASSUME NEW d \in Clients
               PROVE LET t == client'[d]
                     IN /\ t # Idle => t.f \in 1 .. Len(requests') /\ t.r = requests'[t.f]
                        /\ InFlight(d)' =>
                             /\ PartsOf(t.fragment, d, t.f, t.r, t.offset)
                             /\ t.offset > 0 => t.r.kind \in MessageKinds
                             /\ High(d)' <= cursor'
                        /\ t.step = "between" =>
                             t.r.kind \in MessageKinds /\ t.offset + FragmentSize < t.r.frames
    BY DEF FlightInv
  <2>1. CASE d = c
    BY <1>3, <1>5, <1>8, <1>9, <1>12, <2>1
  <2>2. CASE d # c
    <3>1. client'[d] = client[d] /\ High(d)' = High(d) /\ (InFlight(d)' <=> InFlight(d))
      BY <1>8, <2>2 DEF High, InFlight
    <3>2. client[d] # Idle => client[d].f \in 1 .. Len(requests) /\ client[d].f \in 1 .. Len(requests')
      BY <1>2, <1>10 DEF Base, FlightInv, ClientType
    <3>3. InFlight(d) => High(d) <= cursor /\ High(d) \in Int
      <4>1. InFlight(d) => client[d] # Idle
        BY DEF InFlight, Idle
      <4> QED
        BY <1>2, <4>1, ClientFields DEF Base, FlightInv, High
    <3>4. InFlight(d) => High(d) <= cursor'
      BY <1>2, <1>9, <3>3
    <3> QED
      BY <3>1, <3>2, <3>4 DEF Base, FlightInv
  <2> QED
    BY <2>1, <2>2
<1>14. ApartInv'
  <2>1. ASSUME NEW d \in Clients, d # c, InFlight(d)
        PROVE  High(d) < cursor + 1 /\ High(d)' = High(d)
    <3>1. client[d] # Idle
      BY <2>1 DEF InFlight, Idle
    <3>2. High(d) <= cursor /\ High(d) \in Int
      BY <1>2, <2>1, <3>1, ClientFields DEF Base, FlightInv, High
    <3> QED
      BY <1>2, <1>8, <2>1, <3>2 DEF High
  <2>2. \A d \in Clients : d # c => (InFlight(d)' <=> InFlight(d)) /\ High(d)' = High(d)
    BY <1>8 DEF InFlight, High
  <2>3. \A n \in DOMAIN cmds : n < cursor + 1
    BY <1>2 DEF ClientType
  <2>4. \A d \in Clients : InFlight(d)' => \A n \in DOMAIN cmds' : n < client'[d].low \/ n > High(d)'
    <3> SUFFICES ASSUME NEW d \in Clients, InFlight(d)', NEW n \in DOMAIN cmds
                 PROVE  n < client'[d].low \/ n > High(d)'
      OBVIOUS
    <3>1. CASE d = c
      BY <1>12, <2>3, <3>1
    <3>2. CASE d # c
      BY <1>8, <2>2, <3>2 DEF Base, ApartInv
    <3> QED
      BY <3>1, <3>2
  <2>5. \A d, g \in Clients : d # g /\ InFlight(d)' /\ InFlight(g)' =>
          High(d)' < client'[g].low \/ High(g)' < client'[d].low
    <3> SUFFICES ASSUME NEW d \in Clients, NEW g \in Clients, d # g, InFlight(d)', InFlight(g)'
                 PROVE  High(d)' < client'[g].low \/ High(g)' < client'[d].low
      OBVIOUS
    <3>1. CASE d = c
      BY <1>12, <2>1, <2>2, <3>1
    <3>2. CASE g = c
      BY <1>12, <2>1, <2>2, <3>2
    <3>3. CASE d # c /\ g # c
      BY <1>8, <2>2, <3>3 DEF Base, ApartInv
    <3> QED
      BY <3>1, <3>2, <3>3
  <2>6. \A d, g \in Clients :
          d # g /\ client'[d] # Idle /\ client'[g] # Idle => client'[d].f # client'[g].f
    BY <1>5, <1>8 DEF Base, ApartInv
  <2> QED
    BY <2>4, <2>5, <2>6 DEF ApartInv
<1>15. PartsInv'
  <2>1. \A n \in DOMAIN cmds :
          LET w == cmds[n].word
          IN w[1] \in 1 .. Len(requests') /\ IsPart(cmds[n], requests'[w[1]], w[1], w[2])
    <3> SUFFICES ASSUME NEW n \in DOMAIN cmds
                 PROVE LET w == cmds[n].word
                       IN w[1] \in 1 .. Len(requests') /\ IsPart(cmds[n], requests'[w[1]], w[1], w[2])
      OBVIOUS
    <3>1. cmds[n].word[1] \in 1 .. Len(requests)
          /\ IsPart(cmds[n], requests[cmds[n].word[1]], cmds[n].word[1], cmds[n].word[2])
      BY DEF Base, PartsInv
    <3>2. cmds[n].word[1] \in 1 .. Len(requests')
      BY <1>2, <1>10, <3>1 DEF ClientType
    <3> QED
      BY <3>1, <3>2
  <2>2. \A d \in Clients : client'[d] # Idle =>
          \A n \in DOMAIN cmds :
            cmds[n].word[1] = client'[d].f => cmds[n].word[2] <= Written(d)'
    <3> SUFFICES ASSUME NEW d \in Clients, client'[d] # Idle, NEW n \in DOMAIN cmds,
                        cmds[n].word[1] = client'[d].f
                 PROVE  cmds[n].word[2] <= Written(d)'
      OBVIOUS
    <3>1. CASE d = c
      BY <1>5, <1>8, <3>1 DEF Written
    <3>2. CASE d # c
      <4>1. client'[d] = client[d] /\ Written(d)' = Written(d)
        BY <1>8, <3>2 DEF Written
      <4> QED
        BY <4>1 DEF Base, PartsInv
    <3> QED
      BY <3>1, <3>2
  <2> QED
    BY <2>1, <2>2 DEF Base, PartsInv
<1> QED
  BY <1>1, <1>3, <1>11, <1>13, <1>14, <1>15 DEF Base, fragment, s

\* To submit a request is to claim its first fragment.
LEMMA SubmitIsClaim ==
  ASSUME Base, NEW c \in Clients, NEW kinds, Submit(c, kinds)
  PROVE  \E f, r, offset : ClaimStep(c, f, r, offset)
<1>1. PICK r \in Requests :
        /\ client[c] = Idle /\ requests' = Append(requests, r)
        /\ Claim(c, Len(requests) + 1, r, 0)
        /\ UNCHANGED <<cmds, promises, answers, engines, eSeq>>
  BY DEF Submit
<1> DEFINE f == Len(requests) + 1
<1>2. requests \in Seq(Requests) /\ Len(requests) \in Nat
  BY DEF Base, Typed, ClientType
<1>3. /\ requests' \in Seq(Requests) /\ Len(requests') = f /\ requests'[f] = r
      /\ \A g \in 1 .. Len(requests) : requests'[g] = requests[g]
  BY <1>1, <1>2, AppendElements
<1>4. \A d \in Clients : d # c /\ client[d] # Idle => client[d].f # f
  <2>1. \A d \in Clients : client[d] # Idle => client[d].f \in 1 .. Len(requests)
    BY DEF Base, FlightInv
  <2> QED
    BY <1>2, <2>1
<1>5. \A n \in DOMAIN cmds : cmds[n].word[1] # f
  <2>1. \A n \in DOMAIN cmds : cmds[n].word[1] \in 1 .. Len(requests)
    BY DEF Base, PartsInv
  <2> QED
    BY <1>2, <2>1
<1>6. r.frames \in Nat \ {0}
  BY RequestsAssumption
<1>7. f \in 1 .. f /\ f \notin 1 .. Len(requests) /\ Len(requests) <= f
  BY <1>2
<1> HIDE DEF f
<1>8. ClaimStep(c, f, r, 0)
  BY <1>1, <1>3, <1>4, <1>5, <1>6, <1>7 DEF ClaimStep, f
<1> QED
  BY <1>8

\* To go on with a message is to claim its next fragment.
LEMMA NextFragmentIsClaim ==
  ASSUME Base, NEW c \in Clients, PublishNextFragment(c)
  PROVE  \E f, r, offset : ClaimStep(c, f, r, offset)
<1> DEFINE f == client[c].f
           r == client[c].r
           offset == client[c].offset + FragmentSize
<1>1. /\ client[c].step = "between" /\ Claim(c, f, r, offset)
      /\ UNCHANGED <<requests, cmds, promises, answers, engines, eSeq>>
  BY DEF PublishNextFragment
<1>2. client[c] # Idle
  BY <1>1 DEF Idle
<1>3. r \in Requests /\ offset \in Nat /\ offset > 0 /\ offset = Written(c)
  BY <1>1, <1>2, ClientFields DEF Base, Typed, Written
<1>4. /\ f \in 1 .. Len(requests) /\ requests[f] = r
      /\ r.kind \in MessageKinds /\ offset < r.frames
  BY <1>1, <1>2 DEF Base, FlightInv
<1>5. \A d \in Clients : d # c /\ client[d] # Idle => client[d].f # f
  BY <1>2 DEF Base, ApartInv
<1>6. \A n \in DOMAIN cmds : cmds[n].word[1] = f => cmds[n].word[2] <= offset
  BY <1>2, <1>3 DEF Base, PartsInv
<1>7. requests \in Seq(Requests) /\ requests' = requests /\ Len(requests) \in Nat
  BY <1>1 DEF Base, Typed, ClientType
<1> HIDE DEF offset, r
<1>8. ClaimStep(c, f, r, offset)
  BY <1>1, <1>3, <1>4, <1>5, <1>6, <1>7 DEF ClaimStep, r
<1> QED
  BY <1>8

\* What is known of a client with a fragment under way.
LEMMA FlightFacts ==
  ASSUME Base, NEW c \in Clients, InFlight(c)
  PROVE  LET s == client[c]
         IN /\ s # Idle
            /\ s \in [step : {"claimed", "filed", "between"}, f : Nat \ {0},
                      r : Requests, offset : Nat, low : Nat, fragment : Seq(Slot)]
            /\ s.f \in Nat \ {0} /\ s.f \in 1 .. Len(requests) /\ s.r = requests[s.f]
            /\ s.r \in Requests /\ s.offset \in Nat /\ s.low \in Nat
            /\ s.fragment \in Seq(Slot) /\ Len(s.fragment) \in Nat \ {0}
            /\ DOMAIN s.fragment = 1 .. Len(s.fragment)
            /\ PartsOf(s.fragment, c, s.f, s.r, s.offset)
            /\ s.offset > 0 => s.r.kind \in MessageKinds
            /\ High(c) \in Nat /\ s.low <= High(c) /\ High(c) <= cursor
            /\ High(c) = s.low + Len(s.fragment) - 1 /\ cursor \in Nat
            /\ \A n \in s.low .. High(c) :
                 /\ n \notin DOMAIN cmds /\ n \in Nat
                 /\ n - s.low + 1 \in 1 .. Len(s.fragment)
                 /\ s.fragment[n - s.low + 1] \in Slot
<1> DEFINE s == client[c]
<1>1. s # Idle
  BY DEF InFlight, Idle
<1>2. /\ s \in [step : {"claimed", "filed", "between"}, f : Nat \ {0},
                r : Requests, offset : Nat, low : Nat, fragment : Seq(Slot)]
      /\ s.f \in Nat \ {0} /\ s.r \in Requests /\ s.offset \in Nat /\ s.low \in Nat
      /\ s.fragment \in Seq(Slot) /\ Len(s.fragment) \in Nat
  BY <1>1, ClientFields DEF Base, Typed
<1>3. /\ s.f \in 1 .. Len(requests) /\ s.r = requests[s.f]
      /\ PartsOf(s.fragment, c, s.f, s.r, s.offset)
      /\ s.offset > 0 => s.r.kind \in MessageKinds
      /\ High(c) <= cursor
  BY <1>1 DEF Base, FlightInv
<1>4. Len(s.fragment) \in Nat \ {0} /\ DOMAIN s.fragment = 1 .. Len(s.fragment)
  BY <1>3 DEF PartsOf
<1>5. High(c) = s.low + Len(s.fragment) - 1
  BY DEF High
<1>6. cursor \in Int
  BY DEF Base, Typed, ClientType
<1> HIDE DEF s
<1>7. High(c) \in Nat /\ s.low <= High(c) /\ cursor \in Nat
  BY <1>2, <1>3, <1>4, <1>5, <1>6
<1>8. ASSUME NEW n \in s.low .. High(c)
      PROVE  /\ n \notin DOMAIN cmds /\ n \in Nat
             /\ n - s.low + 1 \in 1 .. Len(s.fragment)
             /\ s.fragment[n - s.low + 1] \in Slot
  <2>1. n \in Nat /\ n >= s.low /\ n <= High(c)
    BY <1>2, <1>7
  <2>2. n - s.low + 1 \in 1 .. Len(s.fragment)
    BY <1>2, <1>4, <1>5, <2>1
  <2>3. n \notin DOMAIN cmds
    <3>1. \A k \in DOMAIN cmds : k < s.low \/ k > High(c)
      BY DEF Base, ApartInv, s
    <3> QED
      BY <1>2, <1>7, <2>1, <3>1
  <2>4. s.fragment[n - s.low + 1] \in Slot
    BY <1>2, <2>2
  <2> QED
    BY <2>1, <2>2, <2>3, <2>4
<1> QED
  BY <1>1, <1>2, <1>3, <1>4, <1>5, <1>7, <1>8 DEF s

\* FilePromises changes nothing but the promises and that they are filed.
LEMMA FileFacts ==
  ASSUME Base, NEW c \in Clients, FilePromises(c)
  PROVE  /\ client[c].step = "claimed" /\ InFlight(c)
         /\ client' = [client EXCEPT ![c] = [client[c] EXCEPT !.step = "filed"]]
         /\ UNCHANGED <<requests, cursor, cmds, answers, engines, eSeq>>
<1>1. client[c].step = "claimed"
  BY DEF FilePromises, NextStep
<1> QED
  BY <1>1 DEF FilePromises, InFlight

\* Filing promises keeps the slots as they are.
LEMMA FileKeepsBase ==
  ASSUME Base, NEW c \in Clients, FilePromises(c)
  PROVE  /\ Base'
         /\ \A d \in Clients :
              /\ client'[d] = IF d = c THEN [client[c] EXCEPT !.step = "filed"] ELSE client[d]
              /\ InFlight(d)' <=> InFlight(d)
              /\ High(d)' = High(d) /\ Written(d)' = Written(d)
              /\ client'[d] = Idle <=> client[d] = Idle
              /\ client'[d].f = client[d].f /\ client'[d].r = client[d].r
              /\ client'[d].offset = client[d].offset /\ client'[d].low = client[d].low
              /\ client'[d].fragment = client[d].fragment
<1> DEFINE t == [client[c] EXCEPT !.step = "filed"]
<1>1. /\ client[c].step = "claimed" /\ InFlight(c) /\ client' = [client EXCEPT ![c] = t]
      /\ UNCHANGED <<requests, cursor, cmds, answers, engines, eSeq>>
  BY FileFacts
<1>2. client[c] # Idle
      /\ client[c] \in [step : {"claimed", "filed", "between"}, f : Nat \ {0},
                        r : Requests, offset : Nat, low : Nat, fragment : Seq(Slot)]
  BY <1>1, FlightFacts
<1>3. /\ t \in [step : {"claimed", "filed", "between"}, f : Nat \ {0},
                r : Requests, offset : Nat, low : Nat, fragment : Seq(Slot)]
      /\ t.step = "filed" /\ t.f = client[c].f /\ t.r = client[c].r
      /\ t.offset = client[c].offset /\ t.low = client[c].low
      /\ t.fragment = client[c].fragment
  BY <1>2
<1>4. t # Idle
  BY <1>3 DEF Idle
<1> HIDE DEF t
<1>5. client \in [Clients -> ClientState]
  BY DEF Base, Typed, ClientType
<1>6. client'[c] = t /\ \A d \in Clients : d # c => client'[d] = client[d]
  BY <1>1, <1>5
<1>7. ASSUME NEW d \in Clients
      PROVE  /\ client'[d] = IF d = c THEN t ELSE client[d]
             /\ InFlight(d)' <=> InFlight(d)
             /\ High(d)' = High(d) /\ Written(d)' = Written(d)
             /\ client'[d] = Idle <=> client[d] = Idle
             /\ client'[d].f = client[d].f /\ client'[d].r = client[d].r
             /\ client'[d].offset = client[d].offset /\ client'[d].low = client[d].low
             /\ client'[d].fragment = client[d].fragment
             /\ client'[d].step = "between" <=> client[d].step = "between"
  <2>1. CASE d = c
    BY <1>1, <1>2, <1>3, <1>4, <1>6, <2>1 DEF InFlight, High, Written
  <2>2. CASE d # c
    BY <1>6, <2>2 DEF InFlight, High, Written
  <2> QED
    BY <2>1, <2>2
<1>8. client' \in [Clients -> ClientState]
  BY <1>1, <1>3, <1>5 DEF ClientState
<1>9. Typed'
  BY <1>1, <1>8 DEF Base, Typed, ClientType, EngineType, OrderInv, engines
<1>10. FlightInv'
  BY <1>1, <1>7 DEF Base, FlightInv
<1>11. ApartInv'
  BY <1>1, <1>7 DEF Base, ApartInv
<1>12. PartsInv'
  BY <1>1, <1>7 DEF Base, PartsInv
<1> QED
  BY <1>7, <1>9, <1>10, <1>11, <1>12 DEF Base, t

\* Publish makes the fragment visible, all of it in new slots.
LEMMA PublishFacts ==
  ASSUME Base, NEW c \in Clients, Publish(c)
  PROVE  LET s == client[c]
         IN /\ s.step = "filed" /\ InFlight(c)
            /\ DOMAIN cmds' = DOMAIN cmds \cup (s.low .. High(c))
            /\ \A n \in DOMAIN cmds : cmds'[n] = cmds[n]
            /\ \A n \in s.low .. High(c) : cmds'[n] = s.fragment[n - s.low + 1]
            /\ cmds' \in [DOMAIN cmds' -> Slot]
            /\ client' = [client EXCEPT ![c] = AfterFragment(s)]
            /\ UNCHANGED <<requests, cursor, promises, answers, engines, eSeq>>
<1> DEFINE s == client[c]
<1>1. s.step = "filed"
  BY DEF Publish, NextStep
<1>2. InFlight(c)
  BY <1>1 DEF InFlight
<1>3. /\ cmds' = [n \in DOMAIN cmds \cup (s.low .. High(c)) |->
                    IF n \in DOMAIN cmds THEN cmds[n] ELSE s.fragment[n - s.low + 1]]
      /\ client' = [client EXCEPT ![c] = AfterFragment(s)]
      /\ UNCHANGED <<requests, cursor, promises, answers, engines, eSeq>>
  BY <1>1 DEF Publish, High
<1>4. \A n \in s.low .. High(c) : n \notin DOMAIN cmds /\ s.fragment[n - s.low + 1] \in Slot
  BY <1>2, FlightFacts
<1>5. \A n \in DOMAIN cmds : cmds[n] \in Slot
  BY DEF Base, Typed, ClientType
<1> HIDE DEF s
<1>6. /\ DOMAIN cmds' = DOMAIN cmds \cup (s.low .. High(c))
      /\ \A n \in DOMAIN cmds : cmds'[n] = cmds[n]
      /\ \A n \in s.low .. High(c) : cmds'[n] = s.fragment[n - s.low + 1]
  BY <1>3, <1>4
<1>7. cmds' \in [DOMAIN cmds' -> Slot]
  BY <1>3, <1>4, <1>5
<1> QED
  BY <1>1, <1>2, <1>3, <1>6, <1>7 DEF s

\* After its last fragment a client is idle, otherwise its message goes on.
LEMMA AfterFacts ==
  ASSUME Base, NEW c \in Clients, InFlight(c)
  PROVE  LET s == client[c]
             t == AfterFragment(s)
         IN /\ t \in ClientState
            /\ IsLastFragment(s.fragment) => t = Idle
            /\ ~IsLastFragment(s.fragment) =>
                 /\ t # Idle /\ t.step = "between" /\ t.f = s.f /\ t.r = s.r
                 /\ t.offset = s.offset /\ t.low = s.low /\ t.fragment = s.fragment
                 /\ s.r.kind \in MessageKinds /\ Len(s.fragment) = FragmentSize
                 /\ s.offset + FragmentSize < s.r.frames
<1> DEFINE s == client[c]
           t == [s EXCEPT !.step = "between"]
<1>1. /\ s \in [step : {"claimed", "filed", "between"}, f : Nat \ {0},
                r : Requests, offset : Nat, low : Nat, fragment : Seq(Slot)]
      /\ PartsOf(s.fragment, c, s.f, s.r, s.offset)
      /\ Len(s.fragment) \in Nat \ {0} /\ s.offset \in Nat /\ s.r.frames \in Nat
      /\ FragmentSize \in Nat
  <2>1. s.r \in Requests
    BY FlightFacts
  <2> QED
    BY <2>1, FlightFacts, RequestsAssumption, EnginesAssumption
<1>2. CASE IsLastFragment(s.fragment)
  BY <1>2 DEF AfterFragment, ClientState
<1>3. CASE ~IsLastFragment(s.fragment)
  <2>1. AfterFragment(s) = t
    BY <1>3 DEF AfterFragment
  <2>2. /\ t \in [step : {"claimed", "filed", "between"}, f : Nat \ {0},
                  r : Requests, offset : Nat, low : Nat, fragment : Seq(Slot)]
        /\ t.step = "between" /\ t.f = s.f /\ t.r = s.r
        /\ t.offset = s.offset /\ t.low = s.low /\ t.fragment = s.fragment
    BY <1>1
  <2>3. t # Idle
    BY <2>2 DEF Idle
  <2>4. /\ s.r.kind \in MessageKinds /\ Len(s.fragment) = FragmentSize
        /\ s.offset + FragmentSize < s.r.frames
    BY <1>1, <1>3 DEF PartsOf
  <2> HIDE DEF t, s
  <2>5. t \in ClientState
    BY <2>2 DEF ClientState
  <2> QED
    BY <1>3, <2>1, <2>2, <2>3, <2>4, <2>5 DEF s
<1> QED
  BY <1>2, <1>3

\* A published slot of c's fragment: which part of its request it is.
LEMMA PublishedPart ==
  ASSUME Base, NEW c \in Clients, InFlight(c), NEW n \in client[c].low .. High(c)
  PROVE  LET s == client[c]
             i == n - s.low + 1
             x == s.fragment[i]
         IN /\ i \in 1 .. Len(s.fragment) /\ x \in Slot /\ Fresh(x)
            /\ x.word = <<s.f, s.offset + i>>
            /\ x.word[1] = s.f /\ x.word[2] = s.offset + i
            /\ IsPart(x, s.r, s.f, s.offset + i)
            /\ s.r.kind \in MessageKinds => x.userCookie = c
<1> DEFINE s == client[c]
           i == n - s.low + 1
<1>1. /\ PartsOf(s.fragment, c, s.f, s.r, s.offset)
      /\ i \in 1 .. Len(s.fragment) /\ s.fragment[i] \in Slot
  BY FlightFacts
<1>2. /\ IsPart(s.fragment[i], s.r, s.f, s.offset + i) /\ Fresh(s.fragment[i])
      /\ s.r.kind \in MessageKinds => s.fragment[i].userCookie = c
  BY <1>1 DEF PartsOf
<1>3. s.fragment[i].word = <<s.f, s.offset + i>>
  BY <1>2 DEF IsPart
<1> HIDE DEF s, i
<1> QED
  BY <1>1, <1>2, <1>3 DEF s, i

\* A published fragment is where its client claimed it, and nowhere else.
LEMMA PublishKeepsBase ==
  ASSUME Base, NEW c \in Clients, Publish(c)
  PROVE  Base'
<1> DEFINE s == client[c]
           t == AfterFragment(s)
           new == s.low .. High(c)
<1>1. /\ s.step = "filed" /\ InFlight(c)
      /\ DOMAIN cmds' = DOMAIN cmds \cup new
      /\ \A n \in DOMAIN cmds : cmds'[n] = cmds[n]
      /\ \A n \in new : cmds'[n] = s.fragment[n - s.low + 1]
      /\ cmds' \in [DOMAIN cmds' -> Slot]
      /\ client' = [client EXCEPT ![c] = t]
      /\ UNCHANGED <<requests, cursor, promises, answers, engines, eSeq>>
  BY PublishFacts
<1>2. /\ s # Idle /\ s.f \in Nat \ {0} /\ s.f \in 1 .. Len(requests) /\ s.r = requests[s.f]
      /\ s.offset \in Nat /\ s.low \in Nat /\ Len(s.fragment) \in Nat \ {0}
      /\ High(c) \in Nat /\ High(c) <= cursor /\ High(c) = s.low + Len(s.fragment) - 1
      /\ cursor \in Nat /\ FragmentSize \in Nat
      /\ \A n \in new : n \notin DOMAIN cmds /\ n \in Nat
  BY <1>1, FlightFacts, EnginesAssumption
<1>3. /\ t \in ClientState
      /\ t # Idle =>
           /\ t.step = "between" /\ t.f = s.f /\ t.r = s.r /\ t.offset = s.offset
           /\ s.r.kind \in MessageKinds /\ Len(s.fragment) = FragmentSize
           /\ s.offset + FragmentSize < s.r.frames
  BY <1>1, AfterFacts
<1>4. \A n \in new : LET i == n - s.low + 1 IN
        /\ i \in 1 .. Len(s.fragment)
        /\ cmds'[n].word = <<s.f, s.offset + i>>
        /\ cmds'[n].word[1] = s.f /\ cmds'[n].word[2] = s.offset + i
        /\ IsPart(cmds'[n], s.r, s.f, s.offset + i)
  BY <1>1, PublishedPart
<1>5. \A n \in DOMAIN cmds' : n \in DOMAIN cmds \/ n \in new
  BY <1>1
<1>6. client \in [Clients -> ClientState]
  BY DEF Base, Typed, ClientType
<1> HIDE DEF t
<1>7. client'[c] = t /\ \A d \in Clients : d # c => client'[d] = client[d]
  BY <1>1, <1>6
<1>8. t.step \in {"idle", "between"} /\ (t.step = "idle" => t = Idle)
  BY <1>3 DEF Idle
<1>9. /\ ~InFlight(c)'
      /\ \A d \in Clients : d # c => (InFlight(d)' <=> InFlight(d)) /\ High(d)' = High(d)
                                     /\ Written(d)' = Written(d)
  BY <1>7, <1>8 DEF InFlight, High, Written
<1>10. ClientType'
  <2>1. client' \in [Clients -> ClientState]
    BY <1>1, <1>3, <1>6
  <2>2. new \subseteq 0 .. cursor
    BY <1>2
  <2>3. DOMAIN cmds' \subseteq 0 .. cursor'
    BY <1>1, <2>2 DEF Base, Typed, ClientType
  <2> QED
    BY <1>1, <2>1, <2>3 DEF Base, Typed, ClientType
<1>11. Typed'
  <2>1. EngineType'
    BY <1>1 DEF Base, Typed, EngineType, engines
  <2>2. OrderInv'
    BY <1>1 DEF Base, Typed, OrderInv, engines
  <2> QED
    BY <1>10, <2>1, <2>2 DEF Typed
<1>12. FlightInv'
  <2> SUFFICES ASSUME NEW d \in Clients
               PROVE LET u == client'[d]
                     IN /\ u # Idle => u.f \in 1 .. Len(requests) /\ u.r = requests[u.f]
                        /\ InFlight(d)' =>
                             /\ PartsOf(u.fragment, d, u.f, u.r, u.offset)
                             /\ u.offset > 0 => u.r.kind \in MessageKinds
                             /\ High(d)' <= cursor
                        /\ u.step = "between" =>
                             u.r.kind \in MessageKinds /\ u.offset + FragmentSize < u.r.frames
    BY <1>1 DEF FlightInv
  <2>1. CASE d = c
    BY <1>2, <1>3, <1>7, <1>8, <1>9, <2>1 DEF Idle
  <2>2. CASE d # c
    BY <1>7, <1>9, <2>2 DEF Base, FlightInv
  <2> QED
    BY <2>1, <2>2
<1>13. ApartInv'
  <2>1. ASSUME NEW d \in Clients, InFlight(d)', NEW n \in DOMAIN cmds'
        PROVE  n < client'[d].low \/ n > High(d)'
    <3>1. d # c /\ InFlight(d) /\ client'[d] = client[d] /\ High(d)' = High(d)
      BY <1>7, <1>9, <2>1
    <3>2. CASE n \in DOMAIN cmds
      BY <3>1, <3>2 DEF Base, ApartInv
    <3>3. CASE n \in new
      <4>1. High(c) < client[d].low \/ High(d) < s.low
        BY <1>1, <3>1 DEF Base, ApartInv
      <4>2. High(d) \in Nat /\ client[d].low \in Nat
        BY <3>1, FlightFacts
      <4>3. n \in Nat /\ s.low <= n /\ n <= High(c)
        BY <1>2, <3>3
      <4> HIDE DEF s
      <4> QED
        BY <1>2, <3>1, <4>1, <4>2, <4>3
    <3> QED
      BY <1>5, <2>1, <3>2, <3>3
  <2>2. \A d, g \in Clients : d # g /\ InFlight(d)' /\ InFlight(g)' =>
          High(d)' < client'[g].low \/ High(g)' < client'[d].low
    BY <1>7, <1>9 DEF Base, ApartInv
  <2>3. \A d, g \in Clients :
          d # g /\ client'[d] # Idle /\ client'[g] # Idle => client'[d].f # client'[g].f
    <3>1. \A d \in Clients : client'[d] # Idle => client[d] # Idle /\ client'[d].f = client[d].f
      BY <1>2, <1>3, <1>7
    <3> QED
      BY <3>1 DEF Base, ApartInv
  <2> QED
    BY <2>1, <2>2, <2>3 DEF ApartInv
<1>14. \A n \in DOMAIN cmds : cmds[n].word[1] = s.f => cmds[n].word[2] <= s.offset
  BY <1>1, <1>2 DEF Base, PartsInv, Written
<1>15. PartsInv'
  <2>1. ASSUME NEW n \in DOMAIN cmds'
        PROVE  LET w == cmds'[n].word
               IN w[1] \in 1 .. Len(requests) /\ IsPart(cmds'[n], requests[w[1]], w[1], w[2])
    <3>1. CASE n \in DOMAIN cmds
      BY <1>1, <3>1 DEF Base, PartsInv
    <3>2. CASE n \in new
      BY <1>2, <1>4, <3>2
    <3> QED
      BY <1>5, <2>1, <3>1, <3>2
  <2>2. ASSUME NEW m \in DOMAIN cmds', NEW n \in DOMAIN cmds', cmds'[m].word = cmds'[n].word
        PROVE  m = n
    <3>1. ASSUME NEW k \in DOMAIN cmds, NEW l \in new PROVE cmds'[k].word # cmds'[l].word
      <4>1. l - s.low + 1 > 0 /\ cmds'[l].word[1] = s.f
            /\ cmds'[l].word[2] = s.offset + (l - s.low + 1)
        BY <1>2, <1>4
      <4>2. cmds[k].word[1] = s.f => cmds[k].word[2] <= s.offset /\ cmds[k].word[2] \in Nat
        BY <1>14, WordTypes DEF Base, Typed
      <4>3. cmds'[k].word = cmds[k].word /\ l \in Nat
        BY <1>1, <1>2
      <4>4. PICK o \in Nat : o = s.offset
        BY <1>2
      <4>5. PICK j \in Nat \ {0} : j = l - s.low + 1
        <5> HIDE DEF s
        <5> QED
          BY <1>2, <4>1, <4>3
      <4> HIDE DEF s
      <4> SUFFICES ASSUME cmds'[k].word = cmds'[l].word PROVE FALSE
        OBVIOUS
      <4>6. cmds[k].word[1] = s.f /\ cmds[k].word[2] = o + j
        BY <4>1, <4>3, <4>4, <4>5
      <4>7. cmds[k].word[2] <= o
        BY <4>2, <4>4, <4>6
      <4> QED
        BY <4>6, <4>7
    <3>2. CASE m \in DOMAIN cmds /\ n \in DOMAIN cmds
      BY <1>1, <2>2, <3>2 DEF Base, PartsInv
    <3>3. CASE m \in new /\ n \in new
      <4>1. /\ cmds'[m].word[2] = s.offset + (m - s.low + 1)
            /\ cmds'[n].word[2] = s.offset + (n - s.low + 1)
        BY <1>4, <3>3
      <4>2. m \in Nat /\ n \in Nat /\ s.offset \in Nat /\ s.low \in Nat
        BY <1>2, <3>3
      <4> HIDE DEF s
      <4> QED
        BY <2>2, <4>1, <4>2
    <3> QED
      BY <1>5, <2>2, <3>1, <3>2, <3>3
  <2>3. ASSUME NEW d \in Clients, client'[d] # Idle, NEW n \in DOMAIN cmds',
               cmds'[n].word[1] = client'[d].f
        PROVE  cmds'[n].word[2] <= Written(d)'
    <3>1. CASE d # c
      <4>1. client'[d] = client[d] /\ Written(d)' = Written(d) /\ client[d].f # s.f
        BY <1>2, <1>7, <1>9, <2>3, <3>1 DEF Base, ApartInv
      <4>2. n \in DOMAIN cmds
        BY <1>4, <1>5, <2>3, <4>1
      <4> QED
        BY <1>1, <2>3, <4>1, <4>2 DEF Base, PartsInv
    <3>2. CASE d = c
      <4>1. /\ t # Idle /\ client'[d] = t /\ t.f = s.f /\ t.step = "between"
            /\ Written(d)' = s.offset + FragmentSize /\ Len(s.fragment) = FragmentSize
        BY <1>3, <1>7, <2>3, <3>2 DEF Written
      <4>2. CASE n \in DOMAIN cmds
        <5>1. cmds'[n] = cmds[n] /\ cmds[n].word[2] <= s.offset /\ cmds[n].word[2] \in Nat
          BY <1>1, <1>14, <2>3, <4>1, <4>2, WordTypes DEF Base, Typed
        <5> HIDE DEF s
        <5> QED
          BY <1>2, <4>1, <5>1
      <4>3. CASE n \in new
        <5>1. /\ n - s.low + 1 \in 1 .. Len(s.fragment)
              /\ cmds'[n].word[2] = s.offset + (n - s.low + 1)
          BY <1>4, <4>3
        <5> HIDE DEF s
        <5> QED
          BY <1>2, <4>1, <5>1
      <4> QED
        BY <1>5, <2>3, <4>2, <4>3
    <3> QED
      BY <3>1, <3>2
  <2> QED
    BY <1>1, <2>1, <2>2, <2>3 DEF PartsInv
<1> QED
  BY <1>11, <1>12, <1>13, <1>15 DEF Base

\* Nothing is submitted or claimed in the beginning.
LEMMA InitBase ==
  ASSUME Init
  PROVE  Base
<1>1. /\ requests = <<>> /\ client = [c \in Clients |-> Idle] /\ cursor = -1
      /\ DOMAIN cmds = {} /\ handled = [e \in Engines |-> -1]
      /\ incomingData = [e \in Engines |-> [t \in {} |-> <<>>]]
      /\ writing = [e \in Engines |-> NoWrite] /\ completed = [e \in Engines |-> <<>>]
      /\ eSeq = -1 /\ cmds = [n \in {} |-> 0]
  BY DEF Init
<1>2. <<>> \in Seq(Requests) /\ <<>> \in Seq(Seq(Word))
  BY EmptySeq
<1>3. ClientType
  BY <1>1, <1>2 DEF ClientType, ClientState
<1>4. EngineType
  <2>1. -1 \in Int /\ NoWrite \in Write
    BY DEF Write
  <2> QED
    BY <1>1, <1>2, <2>1 DEF EngineType
<1>5. OrderInv
  BY <1>1, EngineNames DEF OrderInv
<1>6. \A c \in Clients : client[c] = Idle /\ ~InFlight(c) /\ client[c].step = "idle"
  BY <1>1 DEF InFlight, Idle
<1>7. FlightInv
  BY <1>6 DEF FlightInv
<1>8. ApartInv
  BY <1>1, <1>6 DEF ApartInv
<1>9. PartsInv
  BY <1>1, <1>6 DEF PartsInv
<1> QED
  BY <1>3, <1>4, <1>5, <1>7, <1>8, <1>9 DEF Base, Typed

\* The steps of the system.
LEMMA NextCases ==
  ASSUME Base, Next
  PROVE  \/ \E c \in Clients : \E f, r, offset : ClaimStep(c, f, r, offset)
         \/ \E c \in Clients : FilePromises(c)
         \/ \E c \in Clients : Publish(c)
         \/ \E e \in Engines : EngineAction(e)
         \/ ProcessResult
<1>1. CASE \E c \in Clients : \E kinds : Submit(c, kinds)
  BY <1>1, SubmitIsClaim
<1>2. CASE \E c \in Clients : PublishNextFragment(c)
  BY <1>2, NextFragmentIsClaim
<1>3. \A c \in Clients :
        \/ SubmitCommandAsync(c) \/ SubmitCommandAsyncFullResponse(c)
        \/ RequestOrderBookAsync(c) \/ ProcessReport(c) \/ ProcessReportAny(c)
        => \E kinds : Submit(c, kinds)
  BY DEF SubmitCommandAsync, SubmitCommandAsyncFullResponse, RequestOrderBookAsync,
         ProcessReport, ProcessReportAny
<1> QED
  BY <1>1, <1>2, <1>3 DEF Next, EngineAction

\* Every step keeps the types and the parts of the requests right.
LEMMA BaseNext ==
  ASSUME Base, [Next]_vars
  PROVE  Base'
<1>1. CASE UNCHANGED vars
  BY <1>1 DEF vars, clients, engines, Base, Typed, ClientType, EngineType, OrderInv,
              FlightInv, ApartInv, PartsInv, InFlight, High, Written
<1>2. CASE \E c \in Clients : \E f, r, offset : ClaimStep(c, f, r, offset)
  BY <1>2, ClaimStepKeepsBase
<1>3. CASE \E c \in Clients : FilePromises(c)
  BY <1>3, FileKeepsBase
<1>4. CASE \E c \in Clients : Publish(c)
  BY <1>4, PublishKeepsBase
<1>5. CASE \E e \in Engines : EngineAction(e)
  <2>1. PICK e \in Engines : EngineAction(e)
    BY <1>5
  <2>2. EngineStep(e, handled[e] + 1) /\ Typed'
    BY <2>1, EngineSteps DEF Base
  <2> QED
    BY <2>2, EngineKeepsBase
<1>6. CASE ProcessResult
  BY <1>6, ProcessResultKeepsBase
<1> QED
  BY <1>1, <1>2, <1>3, <1>4, <1>5, <1>6, NextCases

\* The slots of all requests, published and in flight, keep apart in every
\* reachable state.
THEOREM BaseInvariance == Spec => []Base
<1>1. Init => Base
  BY InitBase
<1>2. Base /\ [Next]_vars => Base'
  BY BaseNext
<1> QED
  BY <1>1, <1>2, PTL DEF Spec

-----------------------------------------------------------------------------
(***************************************************************************)
(* Promises.  The promises filed are those of the awaited commands that a  *)
(* client is about to publish or that E has not passed.                    *)
(***************************************************************************)
Awaited(x) == x.future # <<>>
Promise(n, x) ==
  [map |-> MapOf(requests[x.word[1]].kind), seq |-> n, future |-> x.future]

\* x is in slot n, and its promise has been filed and not been kept.
FiledSlot(n, x) ==
  \/ n \in DOMAIN cmds /\ n > eSeq /\ x = cmds[n]
  \/ \E c \in Clients :
       /\ client[c].step = "filed"
       /\ n \in client[c].low .. High(c)
       /\ x = client[c].fragment[n - client[c].low + 1]

PromisesInv ==
  \A p : p \in promises <=>
           \E n, x : FiledSlot(n, x) /\ Awaited(x) /\ p = Promise(n, x)

\* What the client of x is told.
AnswerTo(x) ==
  [future |-> x.future, value |-> Answer(MapOf(KindOf(x.future[1])), x)]

AnswersInv ==
  /\ IsSequence(answers)
  /\ \A i \in DOMAIN answers :
       \E n \in 0 .. eSeq : Awaited(cmds[n]) /\ answers[i] = AnswerTo(cmds[n])
  /\ \A n \in 0 .. eSeq : Awaited(cmds[n]) =>
       \E i \in DOMAIN answers : answers[i].future = cmds[n].future
  /\ \A i, j \in DOMAIN answers : answers[i].future = answers[j].future => i = j

\* x is a part of a request that was submitted.
Known(x) ==
  /\ x \in Slot /\ x.word[1] \in 1 .. Len(requests)
  /\ requests[x.word[1]].frames \in Nat \ {0}
  /\ x.word[1] \in Nat /\ x.word[2] \in Nat /\ x.word = <<x.word[1], x.word[2]>>
  /\ IsPart(x, requests[x.word[1]], x.word[1], x.word[2])

\* All published slots are, and all slots in flight.
LEMMA SlotsKnown ==
  ASSUME Base
  PROVE  /\ \A n \in DOMAIN cmds : Known(cmds[n])
         /\ \A c \in Clients : InFlight(c) =>
              \A n \in client[c].low .. High(c) :
                Known(client[c].fragment[n - client[c].low + 1])
<1>0. \A f \in 1 .. Len(requests) : requests[f].frames \in Nat \ {0}
  BY RequestsAssumption DEF Base, Typed, ClientType
<1>1. ASSUME NEW n \in DOMAIN cmds PROVE Known(cmds[n])
  BY <1>0, WordTypes DEF Base, Typed, PartsInv, Known
<1>2. ASSUME NEW c \in Clients, InFlight(c), NEW n \in client[c].low .. High(c)
      PROVE  Known(client[c].fragment[n - client[c].low + 1])
  <2> DEFINE s == client[c]
             i == n - s.low + 1
             x == s.fragment[i]
  <2>1. /\ i \in 1 .. Len(s.fragment) /\ x \in Slot /\ x.word = <<s.f, s.offset + i>>
        /\ x.word[1] = s.f /\ x.word[2] = s.offset + i
        /\ IsPart(x, s.r, s.f, s.offset + i)
    BY <1>2, PublishedPart
  <2>2. s.f \in Nat /\ s.f \in 1 .. Len(requests) /\ s.r = requests[s.f] /\ s.offset \in Nat
        /\ Len(s.fragment) \in Nat
    BY <1>2, FlightFacts
  <2> HIDE DEF s, i
  <2>3. s.offset + i \in Nat
    BY <2>1, <2>2
  <2> QED
    BY <1>0, <2>1, <2>2, <2>3 DEF Known, s, i
<1> QED
  BY <1>1, <1>2

\* The future of an awaited slot tells its request, and its part.
LEMMA FutureTellsPart ==
  ASSUME NEW x, Known(x), Awaited(x)
  PROVE  LET f == x.word[1]
             i == x.word[2]
         IN /\ x.future = <<x.future[1], x.future[2]>> /\ x.future[1] = f
            /\ requests[f].kind = "persist" => x.future[2] = i
            /\ requests[f].kind # "persist" => x.future[2] = 1
            /\ requests[f].kind \in MessageKinds => i = requests[f].frames /\ x.symbol = -1
            /\ requests[f].kind \notin MessageKinds \cup {"persist"} => i = 1
            /\ requests[f].kind = "persist" => i \in {1, 2}
<1> DEFINE f == x.word[1]
           i == x.word[2]
<1>1. IsPart(x, requests[f], f, i) /\ x.future # <<>>
  BY DEF Known, Awaited
<1>2. CASE requests[f].kind \in MessageKinds
  <2>1. i <= requests[f].frames /\ ~(i < requests[f].frames) /\ requests[f].kind # "persist"
    BY <1>1, <1>2 DEF IsPart, MessageKinds
  <2>2. i = requests[f].frames
    <3>1. i \in Nat /\ requests[f].frames \in Nat
      BY DEF Known
    <3> HIDE DEF f, i
    <3> QED
      BY <2>1, <3>1
  <2>3. x.future = <<f, 1>> /\ x.symbol = -1
    BY <1>1, <1>2, <2>2 DEF IsPart
  <2> HIDE DEF f, i
  <2>4. x.future[1] = f /\ x.future[2] = 1
    BY <2>3
  <2> QED
    BY <1>2, <2>1, <2>2, <2>3, <2>4 DEF f, i
<1>3. CASE requests[f].kind = "persist"
  <2>1. x.future = <<f, i>> /\ i \in {1, 2}
    BY <1>1, <1>3 DEF IsPart
  <2> HIDE DEF f, i
  <2>2. x.future[1] = f /\ x.future[2] = i
    BY <2>1
  <2> QED
    BY <1>3, <2>1, <2>2 DEF f, i, MessageKinds
<1>4. CASE requests[f].kind \notin MessageKinds \cup {"persist"}
  <2>1. x.future = <<f, 1>> /\ i = 1
    BY <1>1, <1>4 DEF IsPart
  <2> HIDE DEF f, i
  <2>2. x.future[1] = f /\ x.future[2] = 1
    BY <2>1
  <2> QED
    BY <1>4, <2>1, <2>2 DEF f, i
<1> QED
  BY <1>2, <1>3, <1>4

\* Slots with the same future are the same part.
LEMMA FuturesDiffer ==
  ASSUME NEW x, NEW y, Known(x), Known(y), Awaited(x), x.future = y.future
  PROVE  x.word = y.word
<1>1. Awaited(y)
  BY DEF Awaited
<1> DEFINE f == x.word[1]
           i == x.word[2]
           g == y.word[1]
           j == y.word[2]
<1>2. f = g
  BY <1>1, FutureTellsPart
<1>3. i = j
  <2>1. CASE requests[f].kind = "persist"
    BY <1>1, <1>2, <2>1, FutureTellsPart
  <2>2. CASE requests[f].kind \in MessageKinds
    BY <1>1, <1>2, <2>2, FutureTellsPart
  <2>3. CASE requests[f].kind \notin MessageKinds \cup {"persist"}
    BY <1>1, <1>2, <2>3, FutureTellsPart
  <2> QED
    BY <2>1, <2>2, <2>3
<1>4. x.word = <<f, i>> /\ y.word = <<g, j>>
  BY DEF Known
<1> QED
  BY <1>2, <1>3, <1>4

\* What E has passed is published, and every engine has handled it.
LEMMA SeenByE ==
  ASSUME Base
  PROVE  /\ eSeq \in Int /\ eSeq >= -1
         /\ \A n \in 0 .. eSeq : n \in DOMAIN cmds
         /\ \A e \in Engines : eSeq <= handled[e] /\ handled[e] \in Int
<1>1. eSeq \in Int /\ eSeq >= -1 /\ \A e \in Engines : handled[e] \in Int
  BY DEF Base, Typed, EngineType
<1>2. \A e \in Matching : eSeq <= handled[e] /\ e \in Engines
  BY EngineNames DEF Base, Typed, OrderInv
<1>3. \A e \in Risk : handled[1024] <= handled[e] /\ e \in Engines
  BY EngineNames DEF Base, Typed, OrderInv
<1>4. \A e \in Engines : eSeq <= handled[e]
  <2>1. \A e \in Risk : eSeq <= handled[e]
    BY <1>1, <1>2, <1>3, EngineNames
  <2> QED
    BY <1>2, <2>1, EngineNames
<1>5. ASSUME NEW n \in 0 .. eSeq PROVE n \in DOMAIN cmds
  <2>1. 1024 \in Engines /\ handled[1024] \in Int /\ eSeq <= handled[1024]
    BY <1>1, <1>4, EngineNames
  <2>2. n \in 0 .. handled[1024]
    BY <1>1, <2>1
  <2> QED
    BY <2>1, <2>2 DEF Base, Typed, OrderInv
<1> QED
  BY <1>1, <1>4, <1>5

\* A filed slot.
LEMMA FiledSlotFacts ==
  ASSUME Base, NEW n, NEW x, FiledSlot(n, x)
  PROVE  /\ Known(x) /\ n \in Nat /\ n > eSeq
         /\ n \in DOMAIN cmds => x = cmds[n]
<1>1. CASE n \in DOMAIN cmds /\ n > eSeq /\ x = cmds[n]
  BY <1>1, SlotsKnown, WordTypes DEF Base, Typed
<1>2. CASE \E c \in Clients :
             /\ client[c].step = "filed" /\ n \in client[c].low .. High(c)
             /\ x = client[c].fragment[n - client[c].low + 1]
  <2>1. PICK c \in Clients :
             /\ client[c].step = "filed" /\ n \in client[c].low .. High(c)
             /\ x = client[c].fragment[n - client[c].low + 1]
    BY <1>2
  <2>2. InFlight(c)
    BY <2>1 DEF InFlight
  <2>3. n \notin DOMAIN cmds /\ n \in Nat
    BY <2>1, <2>2, FlightFacts
  <2>4. n > eSeq
    BY <2>3, SeenByE
  <2> QED
    BY <2>1, <2>2, <2>3, <2>4, SlotsKnown
<1> QED
  BY <1>1, <1>2 DEF FiledSlot

\* Promises stay right in a step that leaves them alone, if the slots filed keep
\* their futures.
LEMMA SameFiledSlots ==
  ASSUME Base, PromisesInv, UNCHANGED promises,
         \A g \in 1 .. Len(requests) : requests'[g] = requests[g],
         \A n, x : FiledSlot(n, x) =>
           \E y : FiledSlot(n, y)' /\ y.word = x.word /\ y.future = x.future,
         \A n, y : FiledSlot(n, y)' =>
           \E x : FiledSlot(n, x) /\ y.word = x.word /\ y.future = x.future
  PROVE  PromisesInv'
<1>1. ASSUME NEW n, NEW x, NEW y, FiledSlot(n, x), y.word = x.word, y.future = x.future
      PROVE  Promise(n, y)' = Promise(n, x)
  <2>1. x.word[1] \in 1 .. Len(requests)
    BY <1>1, FiledSlotFacts DEF Known
  <2> QED
    BY <1>1, <2>1 DEF Promise
<1> SUFFICES ASSUME NEW p
             PROVE  p \in promises <=>
                      \E n, y : FiledSlot(n, y)' /\ Awaited(y) /\ p = Promise(n, y)'
  BY DEF PromisesInv
<1>2. ASSUME p \in promises
      PROVE  \E n, y : FiledSlot(n, y)' /\ Awaited(y) /\ p = Promise(n, y)'
  <2>1. PICK n, x : FiledSlot(n, x) /\ Awaited(x) /\ p = Promise(n, x)
    BY <1>2 DEF PromisesInv
  <2>2. PICK y : FiledSlot(n, y)' /\ y.word = x.word /\ y.future = x.future
    BY <2>1
  <2> QED
    BY <1>1, <2>1, <2>2 DEF Awaited
<1>3. ASSUME NEW n, NEW y, FiledSlot(n, y)', Awaited(y), p = Promise(n, y)'
      PROVE  p \in promises
  <2>1. PICK x : FiledSlot(n, x) /\ y.word = x.word /\ y.future = x.future
    BY <1>3
  <2> QED
    BY <1>1, <1>3, <2>1 DEF Awaited, PromisesInv
<1> QED
  BY <1>2, <1>3

\* A claim files no promise.
LEMMA ClaimKeepsPromises ==
  ASSUME Base, PromisesInv, NEW c \in Clients, NEW f, NEW r, NEW offset,
         ClaimStep(c, f, r, offset)
  PROVE  PromisesInv'
<1>1. /\ UNCHANGED <<cmds, promises, eSeq>> /\ client[c].step # "filed"
      /\ \A g \in 1 .. Len(requests) : requests'[g] = requests[g]
  BY DEF ClaimStep, Idle
<1>2. client' = [client EXCEPT ![c] = Claimed(c, f, r, offset)]
  BY ClaimStepKeepsBase
<1>3. client \in [Clients -> ClientState]
  BY DEF Base, Typed, ClientType
<1>4. client'[c].step # "filed" /\ \A d \in Clients : d # c => client'[d] = client[d]
  BY <1>2, <1>3 DEF Claimed
<1>5. \A n, x : FiledSlot(n, x)' <=> FiledSlot(n, x)
  BY <1>1, <1>4 DEF FiledSlot, High
<1> QED
  BY <1>1, <1>5, SameFiledSlots

\* The promises filed are those of the fragment.
LEMMA FileKeepsPromises ==
  ASSUME Base, PromisesInv, NEW c \in Clients, FilePromises(c)
  PROVE  PromisesInv'
<1> DEFINE s == client[c]
           new(n, x) == n \in s.low .. High(c) /\ x = s.fragment[n - s.low + 1]
<1>1. /\ s.step = "claimed" /\ InFlight(c)
      /\ UNCHANGED <<requests, cursor, cmds, answers, engines, eSeq>>
  BY FileFacts
<1>2. promises' = promises \cup
          {[map |-> MapOf(s.r.kind), seq |-> s.low + i - 1,
            future |-> s.fragment[i].future] :
              i \in {j \in DOMAIN s.fragment : s.fragment[j].future # <<>>}}
  BY DEF FilePromises
<1>3. /\ \A d \in Clients :
            /\ client'[d] = IF d = c THEN [client[c] EXCEPT !.step = "filed"] ELSE client[d]
            /\ High(d)' = High(d) /\ client'[d].low = client[d].low
            /\ client'[d].fragment = client[d].fragment
  BY FileKeepsBase
<1>4. /\ s.r = requests[s.f] /\ s.low \in Nat /\ Len(s.fragment) \in Nat
      /\ DOMAIN s.fragment = 1 .. Len(s.fragment) /\ High(c) = s.low + Len(s.fragment) - 1
      /\ s \in [step : {"claimed", "filed", "between"}, f : Nat \ {0},
                r : Requests, offset : Nat, low : Nat, fragment : Seq(Slot)]
  BY <1>1, FlightFacts
<1>5. client'[c].step = "filed"
  BY <1>3, <1>4
<1>6. \A d \in Clients : d # c => client'[d].step = client[d].step
  BY <1>3
<1>7. \A n, x : FiledSlot(n, x)' <=> FiledSlot(n, x) \/ new(n, x)
  <2> TAKE n, x
  <2>1. ASSUME FiledSlot(n, x)' PROVE FiledSlot(n, x) \/ new(n, x)
    BY <1>1, <1>3, <1>6, <2>1 DEF FiledSlot
  <2>2. ASSUME FiledSlot(n, x) PROVE FiledSlot(n, x)'
    BY <1>1, <1>3, <1>5, <1>6, <2>2 DEF FiledSlot
  <2>3. ASSUME new(n, x) PROVE FiledSlot(n, x)'
    BY <1>3, <1>5, <2>3 DEF FiledSlot
  <2> QED
    BY <2>1, <2>2, <2>3
<1>8. \A n, x : new(n, x) => Promise(n, x) = [map |-> MapOf(s.r.kind), seq |-> n, future |-> x.future]
  <2> SUFFICES ASSUME NEW n, NEW x, new(n, x)
               PROVE  x.word[1] = s.f
    BY <1>4 DEF Promise
  <2> QED
    BY <1>1, PublishedPart
<1>9. \A n, x : Promise(n, x)' = Promise(n, x)
  BY <1>1 DEF Promise
<1> SUFFICES ASSUME NEW p
             PROVE  p \in promises' <=>
                      \E n, x : FiledSlot(n, x)' /\ Awaited(x) /\ p = Promise(n, x)
  BY <1>9 DEF PromisesInv
<1>10. p \in promises <=> \E n, x : FiledSlot(n, x) /\ Awaited(x) /\ p = Promise(n, x)
  BY DEF PromisesInv
<1>11. ASSUME p \in promises' \ promises
       PROVE  \E n, x : new(n, x) /\ Awaited(x) /\ p = Promise(n, x)
  <2>1. PICK i \in DOMAIN s.fragment :
          /\ s.fragment[i].future # <<>>
          /\ p = [map |-> MapOf(s.r.kind), seq |-> s.low + i - 1,
                  future |-> s.fragment[i].future]
    BY <1>2, <1>11
  <2>2. PICK n : n = s.low + i - 1
    OBVIOUS
  <2>3. n \in s.low .. High(c) /\ n - s.low + 1 = i
    BY <1>4, <2>1, <2>2
  <2>4. new(n, s.fragment[i])
    BY <2>3
  <2>5. p = Promise(n, s.fragment[i])
    BY <1>8, <2>1, <2>2, <2>4
  <2> QED
    BY <2>1, <2>4, <2>5 DEF Awaited
<1>12. ASSUME NEW n, NEW x, new(n, x), Awaited(x), p = Promise(n, x)
       PROVE  p \in promises'
  <2>1. PICK i : i = n - s.low + 1
    OBVIOUS
  <2>2. i \in DOMAIN s.fragment /\ s.low + i - 1 = n /\ x = s.fragment[i]
    <3>1. n \in s.low .. High(c) /\ x = s.fragment[i]
      BY <1>12, <2>1
    <3>2. PICK lo \in Nat : lo = s.low
      BY <1>4
    <3>3. PICK k \in Nat : k = Len(s.fragment)
      BY <1>4
    <3>4. n \in lo .. lo + k - 1
      BY <1>4, <3>1, <3>2, <3>3
    <3>5. i \in 1 .. k /\ lo + i - 1 = n
      BY <2>1, <3>2, <3>4
    <3> QED
      BY <1>4, <3>1, <3>2, <3>3, <3>5
  <2>3. p = [map |-> MapOf(s.r.kind), seq |-> s.low + i - 1, future |-> s.fragment[i].future]
    BY <1>8, <1>12, <2>2
  <2> QED
    BY <1>2, <1>12, <2>2, <2>3 DEF Awaited
<1>13. promises \subseteq promises'
  BY <1>2
<1> HIDE DEF new
<1> QED
  BY <1>7, <1>10, <1>11, <1>12, <1>13

\* The slots published are those the promises were filed for.
LEMMA PublishKeepsPromises ==
  ASSUME Base, PromisesInv, NEW c \in Clients, Publish(c)
  PROVE  PromisesInv'
<1> DEFINE s == client[c]
           new == s.low .. High(c)
<1>1. /\ s.step = "filed" /\ InFlight(c)
      /\ DOMAIN cmds' = DOMAIN cmds \cup new
      /\ \A n \in DOMAIN cmds : cmds'[n] = cmds[n]
      /\ \A n \in new : cmds'[n] = s.fragment[n - s.low + 1]
      /\ client' = [client EXCEPT ![c] = AfterFragment(s)]
      /\ UNCHANGED <<requests, cursor, promises, answers, engines, eSeq>>
  BY PublishFacts
<1>2. \A n \in new : n \notin DOMAIN cmds /\ n \in Nat
  BY <1>1, FlightFacts
<1>3. \A n \in new : n > eSeq
  BY <1>2, SeenByE
<1>4. AfterFragment(s).step # "filed"
  BY <1>1, AfterFacts DEF Idle
<1>5. client \in [Clients -> ClientState]
  BY DEF Base, Typed, ClientType
<1>6. client'[c].step # "filed" /\ \A d \in Clients : d # c => client'[d] = client[d]
  BY <1>1, <1>4, <1>5
<1>7. \A n, x : FiledSlot(n, x)' <=> FiledSlot(n, x)
  <2> TAKE n, x
  <2>1. ASSUME FiledSlot(n, x)' PROVE FiledSlot(n, x)
    <3>1. CASE n \in DOMAIN cmds' /\ n > eSeq /\ x = cmds'[n]
      BY <1>1, <3>1 DEF FiledSlot
    <3>2. CASE ~(n \in DOMAIN cmds' /\ n > eSeq /\ x = cmds'[n])
      BY <1>1, <1>6, <2>1, <3>2 DEF FiledSlot, High
    <3> QED
      BY <3>1, <3>2
  <2>2. ASSUME FiledSlot(n, x) PROVE FiledSlot(n, x)'
    <3>1. CASE n \in DOMAIN cmds /\ n > eSeq /\ x = cmds[n]
      BY <1>1, <3>1 DEF FiledSlot
    <3>2. CASE n \in new /\ x = s.fragment[n - s.low + 1]
      BY <1>1, <1>3, <3>2 DEF FiledSlot
    <3>3. CASE \E d \in Clients : d # c /\ client[d].step = "filed"
                  /\ n \in client[d].low .. High(d)
                  /\ x = client[d].fragment[n - client[d].low + 1]
      BY <1>6, <3>3 DEF FiledSlot, High
    <3> QED
      BY <2>2, <3>1, <3>2, <3>3 DEF FiledSlot
  <2> QED
    BY <2>1, <2>2
<1> QED
  BY <1>1, <1>7, SameFiledSlots

\* Engines do not look at promises.
LEMMA EngineKeepsPromises ==
  ASSUME Base, PromisesInv, NEW e \in Engines, NEW n, EngineStep(e, n)
  PROVE  PromisesInv'
<1>1. /\ UNCHANGED <<requests, client, cursor, promises, answers, eSeq>>
      /\ DOMAIN cmds' = DOMAIN cmds
      /\ \A k \in DOMAIN cmds : SameRequest(cmds'[k], cmds[k])
  BY DEF EngineStep, clients, SameRequest
<1>2. ASSUME NEW k, NEW x, FiledSlot(k, x)
      PROVE  \E y : FiledSlot(k, y)' /\ y.word = x.word /\ y.future = x.future
  <2>1. CASE k \in DOMAIN cmds /\ k > eSeq /\ x = cmds[k]
    <3>1. PICK y : y = cmds'[k]
      OBVIOUS
    <3>2. FiledSlot(k, y)'
      BY <1>1, <2>1, <3>1 DEF FiledSlot
    <3> QED
      BY <1>1, <2>1, <3>1, <3>2 DEF SameRequest
  <2>2. CASE ~(k \in DOMAIN cmds /\ k > eSeq /\ x = cmds[k])
    BY <1>1, <1>2, <2>2 DEF FiledSlot, High
  <2> QED
    BY <2>1, <2>2
<1>3. ASSUME NEW k, NEW y, FiledSlot(k, y)'
      PROVE  \E x : FiledSlot(k, x) /\ y.word = x.word /\ y.future = x.future
  <2>1. CASE k \in DOMAIN cmds' /\ k > eSeq' /\ y = cmds'[k]
    <3>1. FiledSlot(k, cmds[k])
      BY <1>1, <2>1 DEF FiledSlot
    <3> QED
      BY <1>1, <2>1, <3>1 DEF SameRequest
  <2>2. CASE ~(k \in DOMAIN cmds' /\ k > eSeq' /\ y = cmds'[k])
    BY <1>1, <1>3, <2>2 DEF FiledSlot, High
  <2> QED
    BY <2>1, <2>2
<1> QED
  BY <1>1, <1>2, <1>3, SameFiledSlots

\* A filed slot that is published is the only one of its sequence.
LEMMA FiledPublished ==
  ASSUME Base, NEW n \in DOMAIN cmds, n > eSeq
  PROVE  \A x : FiledSlot(n, x) <=> x = cmds[n]
  BY FiledSlotFacts DEF FiledSlot

\* ProcessResult finds the promise of an awaited command, and no other.
LEMMA ResultFacts ==
  ASSUME Base, PromisesInv, ProcessResult
  PROVE  LET n == eSeq + 1
             x == cmds[n]
         IN /\ n \in DOMAIN cmds /\ eSeq' = n /\ UNCHANGED <<clients, cmds, engines>>
            /\ Awaited(x) => /\ promises' = promises \ {Promise(n, x)}
                             /\ answers' = Append(answers, AnswerTo(x))
            /\ ~Awaited(x) => UNCHANGED <<promises, answers>>
<1> DEFINE n == eSeq + 1
           filed == {p \in promises : p.seq = n}
           First(p) == /\ p \in filed
                       /\ \E i \in DOMAIN MapsInOrder :
                            /\ p.map = MapsInOrder[i]
                            /\ \A j \in 1 .. i - 1 : \A q \in filed : q.map # MapsInOrder[j]
           first == CHOOSE p \in filed :
                      \E i \in DOMAIN MapsInOrder :
                        /\ p.map = MapsInOrder[i]
                        /\ \A j \in 1 .. i - 1 : \A q \in filed : q.map # MapsInOrder[j]
           x == cmds[n]
<1>1. n \in DOMAIN cmds /\ eSeq' = n /\ UNCHANGED <<clients, cmds, engines>>
  BY ProcessResultKeepsBase DEF ProcessResult
<1>2. /\ filed = {} => UNCHANGED <<promises, answers>>
      /\ filed # {} => /\ promises' = promises \ {first}
                       /\ answers' = Append(answers, [future |-> first.future,
                                               value |-> Answer(first.map, x)])
  BY DEF ProcessResult
<1>3. n > eSeq
  BY SeenByE
<1>4. \A y : FiledSlot(n, y) <=> y = x
  BY <1>1, <1>3, FiledPublished
<1>5. \A p \in promises : p.seq = n => Awaited(x) /\ p = Promise(n, x)
  <2> SUFFICES ASSUME NEW p \in promises, p.seq = n PROVE Awaited(x) /\ p = Promise(n, x)
    OBVIOUS
  <2>1. PICK m, y : FiledSlot(m, y) /\ Awaited(y) /\ p = Promise(m, y)
    BY DEF PromisesInv
  <2>2. m = n
    BY <2>1 DEF Promise
  <2> QED
    BY <1>4, <2>1, <2>2
<1>6. CASE Awaited(x)
  <2> DEFINE P == Promise(n, x)
  <2>1. P \in promises /\ P.seq = n
    BY <1>4, <1>6 DEF PromisesInv, Promise
  <2>2. filed = {P}
    BY <1>5, <2>1
  <2>3. P.map \in {"reportPromises", "orderBookPromises", "fullResponsePromises", "promises"}
    BY DEF Promise, MapOf
  <2>4. \E i \in DOMAIN MapsInOrder :
          /\ P.map = MapsInOrder[i]
          /\ \A j \in 1 .. i - 1 : P.map # MapsInOrder[j]
    <3>1. /\ DOMAIN MapsInOrder = 1 .. 4
          /\ MapsInOrder[1] = "reportPromises" /\ MapsInOrder[2] = "orderBookPromises"
          /\ MapsInOrder[3] = "fullResponsePromises" /\ MapsInOrder[4] = "promises"
      BY DEF MapsInOrder
    <3> HIDE DEF P
    <3>2. CASE P.map = "reportPromises"
      BY <3>1, <3>2
    <3>3. CASE P.map = "orderBookPromises"
      BY <3>1, <3>3
    <3>4. CASE P.map = "fullResponsePromises"
      BY <3>1, <3>4
    <3>5. CASE P.map = "promises"
      BY <3>1, <3>5
    <3> QED
      BY <2>3, <3>2, <3>3, <3>4, <3>5
  <2> HIDE DEF P
  <2>5. first = P
    BY <2>2, <2>4
  <2>6. P.future = x.future /\ P.map = MapOf(requests[x.word[1]].kind)
    BY DEF P, Promise
  <2>7. Known(x)
    BY <1>1, SlotsKnown
  <2> HIDE DEF x
  <2>8. x.future[1] = x.word[1]
    BY <1>6, <2>7, FutureTellsPart
  <2>9. [future |-> first.future, value |-> Answer(first.map, x)] = AnswerTo(x)
    BY <2>5, <2>6, <2>8 DEF AnswerTo, KindOf
  <2> QED
    BY <1>1, <1>2, <1>6, <2>2, <2>5, <2>9 DEF P, x
<1>7. CASE ~Awaited(x)
  <2>1. filed = {}
    BY <1>5, <1>7
  <2> QED
    BY <1>1, <1>2, <1>7, <2>1
<1> QED
  BY <1>6, <1>7

\* E takes away the promise of the command it passes, and no other.
LEMMA ResultKeepsPromises ==
  ASSUME Base, PromisesInv, ProcessResult
  PROVE  PromisesInv'
<1> DEFINE n == eSeq + 1
           x == cmds[n]
<1>1. /\ n \in DOMAIN cmds /\ eSeq' = n /\ UNCHANGED <<clients, cmds, engines>>
      /\ Awaited(x) => promises' = promises \ {Promise(n, x)}
      /\ ~Awaited(x) => promises' = promises
  BY ResultFacts
<1>2. n > eSeq /\ eSeq \in Int /\ \A m \in Int : m > n <=> m > eSeq /\ m # n
  BY SeenByE
<1>3. \A m, y : FiledSlot(m, y)' <=> FiledSlot(m, y) /\ m # n
  <2> TAKE m, y
  <2>1. ASSUME FiledSlot(m, y)' PROVE FiledSlot(m, y) /\ m # n
    <3>1. CASE m \in DOMAIN cmds' /\ m > eSeq' /\ y = cmds'[m]
      <4>1. m \in Int
        BY <1>1, <3>1, WordTypes DEF Base, Typed
      <4> QED
        BY <1>1, <1>2, <3>1, <4>1 DEF FiledSlot
    <3>2. CASE \E c \in Clients :
                 /\ client[c].step = "filed" /\ m \in client[c].low .. High(c)
                 /\ y = client[c].fragment[m - client[c].low + 1]
      <4>1. m \notin DOMAIN cmds
        BY <3>2, FlightFacts DEF InFlight
      <4> QED
        BY <1>1, <3>2, <4>1 DEF FiledSlot
    <3> QED
      BY <1>1, <2>1, <3>1, <3>2 DEF FiledSlot, High, clients
  <2>2. ASSUME FiledSlot(m, y), m # n PROVE FiledSlot(m, y)'
    <3>1. m \in Nat /\ m > eSeq
      BY <2>2, FiledSlotFacts
    <3>2. m > eSeq'
      BY <1>1, <1>2, <2>2, <3>1
    <3> QED
      BY <1>1, <2>2, <3>2 DEF FiledSlot, High, clients
  <2> QED
    BY <2>1, <2>2
<1>4. \A m, y : Promise(m, y)' = Promise(m, y)
  BY <1>1 DEF Promise, clients
<1>5. \A y : FiledSlot(n, y) => y = x
  BY <1>1, <1>2, FiledPublished
<1> SUFFICES ASSUME NEW p
             PROVE  p \in promises' <=>
                \E m, y : FiledSlot(m, y) /\ m # n /\ Awaited(y) /\ p = Promise(m, y)
  BY <1>3, <1>4 DEF PromisesInv
<1>6. p \in promises <=> \E m, y : FiledSlot(m, y) /\ Awaited(y) /\ p = Promise(m, y)
  BY DEF PromisesInv
<1>7. \A m, y : Promise(m, y).seq = m
  BY DEF Promise
<1> HIDE DEF n, x
<1>8. CASE Awaited(x)
  BY <1>1, <1>5, <1>6, <1>7, <1>8
<1>9. CASE ~Awaited(x)
  BY <1>1, <1>5, <1>6, <1>9
<1> QED
  BY <1>8, <1>9

\* Every step keeps the promises filed right.
LEMMA PromisesNext ==
  ASSUME Base, PromisesInv, [Next]_vars
  PROVE  PromisesInv'
<1>1. CASE UNCHANGED vars
  BY <1>1 DEF vars, clients, engines, PromisesInv, FiledSlot, High, Promise
<1>2. CASE \E c \in Clients : \E f, r, offset : ClaimStep(c, f, r, offset)
  BY <1>2, ClaimKeepsPromises
<1>3. CASE \E c \in Clients : FilePromises(c)
  BY <1>3, FileKeepsPromises
<1>4. CASE \E c \in Clients : Publish(c)
  BY <1>4, PublishKeepsPromises
<1>5. CASE \E e \in Engines : EngineAction(e)
  BY <1>5, EngineSteps, EngineKeepsPromises DEF Base
<1>6. CASE ProcessResult
  BY <1>6, ResultKeepsPromises
<1> QED
  BY <1>1, <1>2, <1>3, <1>4, <1>5, <1>6, NextCases

\* No step changes a command that E has passed, or answers one otherwise than
\* by passing it.
LEMMA SeenIsFinal ==
  ASSUME Base, [Next]_vars
  PROVE  /\ \A n \in 0 .. eSeq : n \in DOMAIN cmds' /\ cmds'[n] = cmds[n]
         /\ \A g \in 1 .. Len(requests) : requests'[g] = requests[g]
         /\ ~ProcessResult => UNCHANGED <<answers, eSeq>>
<1>1. CASE UNCHANGED vars
  BY <1>1, SeenByE DEF vars, clients
<1>2. CASE \E c \in Clients : \E f, r, offset : ClaimStep(c, f, r, offset)
  BY <1>2, SeenByE DEF ClaimStep
<1>3. CASE \E c \in Clients : FilePromises(c)
  BY <1>3, SeenByE, FileFacts
<1>4. CASE \E c \in Clients : Publish(c)
  BY <1>4, SeenByE, PublishFacts
<1>5. CASE \E e \in Engines : EngineAction(e)
  <2>1. PICK e \in Engines : EngineAction(e)
    BY <1>5
  <2>2. EngineStep(e, handled[e] + 1)
    BY <2>1, EngineSteps DEF Base
  <2>3. \A n \in 0 .. eSeq : n \in DOMAIN cmds /\ n # handled[e] + 1
    BY SeenByE
  <2> QED
    BY <2>2, <2>3 DEF EngineStep, clients
<1>6. CASE ProcessResult
  BY <1>6, SeenByE DEF ProcessResult, clients
<1> QED
  BY <1>1, <1>2, <1>3, <1>4, <1>5, <1>6, NextCases

\* Every step keeps the answers given right.
LEMMA AnswersNext ==
  ASSUME Base, PromisesInv, AnswersInv, [Next]_vars
  PROVE  AnswersInv'
<1>1. \A n \in 0 .. eSeq : n \in DOMAIN cmds /\ Known(cmds[n])
  BY SeenByE, SlotsKnown
<1>2. \A n \in 0 .. eSeq : cmds'[n] = cmds[n]
  BY SeenIsFinal
<1>3. ASSUME NEW n \in 0 .. eSeq, Awaited(cmds[n]), NEW x, x = cmds[n]
      PROVE  AnswerTo(x)' = AnswerTo(x)
  <2>1. x.future[1] = x.word[1] /\ x.word[1] \in 1 .. Len(requests)
    BY <1>1, <1>3, FutureTellsPart DEF Known
  <2>2. KindOf(x.future[1])' = KindOf(x.future[1])
    BY <2>1, SeenIsFinal DEF KindOf
  <2> QED
    BY <2>2 DEF AnswerTo
<1>4. CASE ~ProcessResult
  <2>1. answers' = answers /\ eSeq' = eSeq
    BY <1>4, SeenIsFinal
  <2>2. \A i \in DOMAIN answers :
          \E n \in 0 .. eSeq : Awaited(cmds'[n]) /\ answers[i] = AnswerTo(cmds[n])'
    <3> SUFFICES ASSUME NEW i \in DOMAIN answers
                 PROVE  \E n \in 0 .. eSeq : Awaited(cmds'[n]) /\ answers[i] = AnswerTo(cmds[n])'
      OBVIOUS
    <3>1. PICK n \in 0 .. eSeq : Awaited(cmds[n]) /\ answers[i] = AnswerTo(cmds[n])
      BY DEF AnswersInv
    <3>2. PICK x : x = cmds[n]
      OBVIOUS
    <3>3. AnswerTo(x)' = AnswerTo(x)
      BY <1>3, <3>1, <3>2
    <3>4. AnswerTo(cmds[n])' = AnswerTo(x)'
      BY <1>2, <3>2 DEF AnswerTo, KindOf
    <3> QED
      BY <1>2, <3>1, <3>2, <3>3, <3>4
  <2> QED
    BY <1>2, <2>1, <2>2 DEF AnswersInv
<1>5. CASE ProcessResult
  <2> DEFINE n == eSeq + 1
             x == cmds[n]
             L == Len(answers)
  <2>1. /\ n \in DOMAIN cmds /\ eSeq' = n /\ UNCHANGED <<clients, cmds, engines>>
        /\ Awaited(x) => answers' = Append(answers, AnswerTo(x))
        /\ ~Awaited(x) => answers' = answers
    BY <1>5, ResultFacts
  <2>2. \A y : AnswerTo(y)' = AnswerTo(y)
    BY <2>1 DEF AnswerTo, KindOf, clients
  <2>3. eSeq \in Int /\ eSeq >= -1 /\ 0 .. n = 0 .. eSeq \cup {n} /\ n \notin 0 .. eSeq
    BY SeenByE
  <2>4. IsSequence(answers) /\ L \in Nat /\ DOMAIN answers = 1 .. L
    BY AppendToSequence DEF AnswersInv
  <2>5. Known(x) /\ x = cmds[n]
    BY <2>1, SlotsKnown
  <2>6. \A i \in DOMAIN answers :
          \E m \in 0 .. n : Awaited(cmds'[m]) /\ answers[i] = AnswerTo(cmds[m])'
    BY <2>1, <2>2, <2>3 DEF AnswersInv
  <2> HIDE DEF n, x, L
  <2>7. CASE Awaited(x)
    <3>1. answers' = Append(answers, AnswerTo(x))
      BY <2>1, <2>7
    <3>2. /\ IsSequence(answers') /\ DOMAIN answers' = 1 .. L + 1
          /\ \A i \in 1 .. L : answers'[i] = answers[i]
          /\ answers'[L + 1] = AnswerTo(x)
      BY <2>4, <3>1, AppendToSequence DEF L
    <3>3. \A i \in DOMAIN answers' : i \in DOMAIN answers \/ i = L + 1
      BY <2>4, <3>2
    <3>4. L + 1 \in DOMAIN answers' /\ DOMAIN answers \subseteq DOMAIN answers'
      BY <2>4, <3>2
    <3>5. AnswerTo(x).future = x.future
      BY DEF AnswerTo
    <3>6. \A i \in DOMAIN answers : answers[i].future # x.future
      <4> SUFFICES ASSUME NEW i \in DOMAIN answers, answers[i].future = x.future PROVE FALSE
        OBVIOUS
      <4>1. PICK m \in 0 .. eSeq : Awaited(cmds[m]) /\ answers[i] = AnswerTo(cmds[m])
        BY DEF AnswersInv
      <4>2. cmds[m].future = x.future /\ Known(cmds[m]) /\ m \in DOMAIN cmds
        BY <1>1, <4>1 DEF AnswerTo
      <4>3. cmds[m].word = x.word
        BY <2>5, <4>1, <4>2, FuturesDiffer
      <4>4. m = n
        BY <2>1, <2>5, <4>2, <4>3 DEF Base, PartsInv
      <4> QED
        BY <2>3, <4>4
    <3>7. \A i \in DOMAIN answers' :
            \E m \in 0 .. n : Awaited(cmds'[m]) /\ answers'[i] = AnswerTo(cmds[m])'
      <4> SUFFICES ASSUME NEW i \in DOMAIN answers'
                   PROVE  \E m \in 0 .. n : Awaited(cmds'[m]) /\ answers'[i] = AnswerTo(cmds[m])'
        OBVIOUS
      <4>1. CASE i \in DOMAIN answers
        BY <2>4, <2>6, <3>2, <4>1
      <4>2. CASE i = L + 1
        BY <2>1, <2>2, <2>3, <2>5, <2>7, <3>2, <4>2
      <4> QED
        BY <3>3, <4>1, <4>2
    <3>8. \A m \in 0 .. n : Awaited(cmds[m]) =>
            \E i \in DOMAIN answers' : answers'[i].future = cmds[m].future
      <4> SUFFICES ASSUME NEW m \in 0 .. n, Awaited(cmds[m])
                   PROVE  \E i \in DOMAIN answers' : answers'[i].future = cmds[m].future
        OBVIOUS
      <4>1. CASE m \in 0 .. eSeq
        <5>1. PICK i \in DOMAIN answers : answers[i].future = cmds[m].future
          BY <4>1 DEF AnswersInv
        <5> QED
          BY <2>4, <3>2, <3>4, <5>1
      <4>2. CASE m = n
        BY <2>5, <3>2, <3>4, <3>5, <4>2
      <4> QED
        BY <2>3, <4>1, <4>2
    <3>9. \A i, j \in DOMAIN answers' : answers'[i].future = answers'[j].future => i = j
      BY <2>4, <3>2, <3>3, <3>5, <3>6 DEF AnswersInv
    <3> QED
      BY <2>1, <3>2, <3>7, <3>8, <3>9 DEF AnswersInv
  <2>8. CASE ~Awaited(x)
    <3>1. answers' = answers
      BY <2>1, <2>8
    <3>2. \A m \in 0 .. n : Awaited(cmds[m]) =>
            \E i \in DOMAIN answers : answers[i].future = cmds[m].future
      BY <2>3, <2>5, <2>8 DEF AnswersInv
    <3> QED
      BY <2>1, <2>4, <2>6, <3>1, <3>2 DEF AnswersInv
  <2> QED
    BY <2>7, <2>8
<1> QED
  BY <1>4, <1>5

Answering == Base /\ PromisesInv /\ AnswersInv

\* No promise is filed, and none kept, in the beginning.
LEMMA InitAnswering ==
  ASSUME Init
  PROVE  Answering
<1>1. Base
  BY InitBase
<1>2. PromisesInv
  BY DEF Init, PromisesInv, FiledSlot, Idle
<1>3. eSeq = -1 /\ answers = <<>>
  BY DEF Init
<1>4. IsSequence(answers) /\ DOMAIN answers = {}
  BY <1>3 DEF IsSequence
<1>5. AnswersInv
  BY <1>3, <1>4 DEF AnswersInv
<1> QED
  BY <1>1, <1>2, <1>5 DEF Answering

\* The promises filed are those of the awaited commands E has yet to pass, and
\* the answers given those of the awaited commands it has passed.
THEOREM AnsweringInvariance == Spec => []Answering
<1>1. Init => Answering
  BY InitAnswering
<1>2. Answering /\ [Next]_vars => Answering'
  BY BaseNext, PromisesNext, AnswersNext DEF Answering
<1> QED
  BY <1>1, <1>2, PTL DEF Spec

\* What answers an awaited command that E has passed.
LEMMA AnsweredOnce ==
  ASSUME Answering, NEW n \in 0 .. eSeq, Awaited(cmds[n])
  PROVE  LET x == cmds[n]
         IN /\ Cardinality(AnswersOf(x.future)) = 1
            /\ AnswerOf(x.future) = Answer(MapOf(KindOf(x.future[1])), x)
<1> DEFINE x == cmds[n]
<1>1. PICK i \in DOMAIN answers : answers[i].future = x.future
  BY DEF Answering, AnswersInv
<1>2. AnswersOf(x.future) = {i}
  BY <1>1 DEF Answering, AnswersInv, AnswersOf
<1>3. Cardinality(AnswersOf(x.future)) = 1
  BY <1>2, FS_Singleton
<1>4. PICK m \in 0 .. eSeq : Awaited(cmds[m]) /\ answers[i] = AnswerTo(cmds[m])
  BY <1>1 DEF Answering, AnswersInv
<1>5. m \in DOMAIN cmds /\ n \in DOMAIN cmds /\ Known(cmds[m]) /\ Known(cmds[n])
  BY <1>4, SeenByE, SlotsKnown DEF Answering
<1>6. cmds[m].future = cmds[n].future
  BY <1>1, <1>4 DEF AnswerTo
<1>7. cmds[m].word = cmds[n].word
  BY <1>4, <1>5, <1>6, FuturesDiffer
<1>8. m = n
  BY <1>5, <1>7 DEF Answering, Base, PartsInv
<1>9. AnswerOf(x.future) = answers[i].value
  BY <1>2 DEF AnswerOf
<1> QED
  BY <1>3, <1>4, <1>8, <1>9 DEF AnswerTo

\* A future that is answered is that of a command E has passed.
LEMMA AnsweredIsSeen ==
  ASSUME Answering, NEW future, Answered(future)
  PROVE  \E n \in 0 .. eSeq : Awaited(cmds[n]) /\ cmds[n].future = future
<1>1. PICK i \in DOMAIN answers : answers[i].future = future
  BY DEF Answered, AnswersOf
<1> QED
  BY <1>1 DEF Answering, AnswersInv, AnswerTo

-----------------------------------------------------------------------------
(***************************************************************************)
(* Snapshots.  resultCode of a snapshot command is a failure as soon as    *)
(* one of the engines that have written it failed, and the success of its  *)
(* kind as soon as one has written it and none of them failed.             *)
(***************************************************************************)
Snapshots == {"PERSIST_STATE_MATCHING", "PERSIST_STATE_RISK"}
SuccessOf(command) == IF command = "PERSIST_STATE_RISK" THEN "SUCCESS" ELSE "ACCEPTED"
FailureOf(command) ==
  IF command = "PERSIST_STATE_RISK" THEN "STATE_PERSIST_RISK_ENGINE_FAILED"
  ELSE "STATE_PERSIST_MATCHING_ENGINE_FAILED"

\* As written by the client, or passed on by risk shard 0.
Unset == {"NEW", "VALID_FOR_MATCHING_ENGINE"}

Stored(e, n) == Stores(e, cmds[n].command) /\ n <= handled[e]

CodeInv(n) ==
  cmds[n].command \in Snapshots =>
    /\ (\E e \in Engines : Stored(e, n) /\ <<n, e>> \in failures)
         => cmds[n].resultCode = FailureOf(cmds[n].command)
    /\ (\E e \in Engines : Stored(e, n))
       /\ (\A e \in Engines : Stored(e, n) => <<n, e>> \notin failures)
         => cmds[n].resultCode = SuccessOf(cmds[n].command)
    /\ (\A e \in Engines : ~Stored(e, n)) => cmds[n].resultCode \in Unset

\* An engine that expects a success or a failure has seen one.
SettingInv(e) ==
  writing[e].field = "resultCode" =>
    LET n == handled[e] + 1
        S == SuccessOf(cmds[n].command)
        F == FailureOf(cmds[n].command)
    IN /\ writing[e].code = IF <<n, e>> \in failures THEN F ELSE S
       /\ writing[e].expected \in Unset \cup {S, F}
       /\ writing[e].expected = F => cmds[n].resultCode = F
       /\ writing[e].expected = S => cmds[n].resultCode \in {S, F}

FailureInv ==
  \A p \in failures :
    \E n \in DOMAIN cmds, e \in Engines :
      /\ p = <<n, e>> /\ Stores(e, cmds[n].command)
      /\ n <= handled[e] \/ (n = handled[e] + 1 /\ writing[e].field = "resultCode")

SnapshotInv ==
  /\ \A n \in DOMAIN cmds : CodeInv(n)
  /\ \A e \in Engines : SettingInv(e)
  /\ FailureInv

\* Which engines store which snapshot.
LEMMA SnapshotCodes ==
  ASSUME NEW e \in Engines, NEW command
  PROVE  /\ Stores(e, command) => command \in Snapshots /\ FailureCode(e) = FailureOf(command)
         /\ command = "PERSIST_STATE_RISK" => (Stores(e, command) <=> e \in Risk)
         /\ command = "PERSIST_STATE_MATCHING" => (Stores(e, command) <=> e \in Matching)
         /\ SuccessOf(command) \notin Unset /\ FailureOf(command) \notin Unset
         /\ SuccessOf(command) # FailureOf(command)
  BY EngineNames DEF Stores, Snapshots, FailureCode, FailureOf, SuccessOf, Unset

\* A snapshot command that was failed by an engine that has handled it says so;
\* otherwise the code tells whether one has stored its part.
LEMMA CodeTells ==
  ASSUME NEW n, CodeInv(n), cmds[n].command \in Snapshots
  PROVE  LET S == SuccessOf(cmds[n].command)
             F == FailureOf(cmds[n].command)
             code == cmds[n].resultCode
         IN /\ code \in Unset \cup {S, F}
            /\ code = F => \E e \in Engines : Stored(e, n) /\ <<n, e>> \in failures
            /\ code = S => \A e \in Engines : Stored(e, n) => <<n, e>> \notin failures
            /\ code \in Unset => \A e \in Engines : ~Stored(e, n)
            /\ (\A e \in Engines : ~Stored(e, n)) => code \in Unset
<1>1. \A e \in Engines : SuccessOf(cmds[n].command) \notin Unset /\ FailureOf(cmds[n].command) \notin Unset
         /\ SuccessOf(cmds[n].command) # FailureOf(cmds[n].command)
  BY SnapshotCodes
<1>2. Engines # {}
  BY EngineNames
<1> QED
  BY <1>1, <1>2 DEF CodeInv

\* What a step of e leaves of the other commands and engines.
LEMMA Elsewhere ==
  ASSUME Base, NEW e \in Engines, NEW n, EngineStep(e, n), failures' \ {<<n, e>>} = failures \ {<<n, e>>}
  PROVE  /\ n \in Int /\ n = handled[e] + 1 /\ n \in DOMAIN cmds /\ DOMAIN cmds' = DOMAIN cmds
         /\ \A k \in DOMAIN cmds : k # n => (CodeInv(k) => CodeInv(k)')
         /\ \A k \in DOMAIN cmds : cmds'[k].command = cmds[k].command
         /\ \A k \in DOMAIN cmds, d \in Engines : <<k, d>> # <<n, e>> => (Stored(d, k)' <=> Stored(d, k))
         /\ \A d \in Engines : d # e => handled'[d] = handled[d] /\ writing'[d] = writing[d]
         /\ \A d \in Engines : d # e /\ handled[d] + 1 # n => (SettingInv(d) => SettingInv(d)')
<1>1. /\ n = handled[e] + 1 /\ n \in DOMAIN cmds /\ DOMAIN cmds' = DOMAIN cmds
      /\ SameRequest(cmds'[n], cmds[n])
      /\ \A k \in DOMAIN cmds : k # n => cmds'[k] = cmds[k]
      /\ handled' = handled \/ handled' = [handled EXCEPT ![e] = n]
      /\ \A d \in Engines : d # e => writing'[d] = writing[d]
  BY DEF EngineStep
<1>2. handled \in [Engines -> Int] /\ n \in Int
  BY <1>1 DEF Base, Typed, EngineType
<1>3. \A d \in Engines : d # e => handled'[d] = handled[d]
  BY <1>1, <1>2
<1>4. handled'[e] \in {handled[e], n} /\ handled[e] \in Int
  BY <1>1, <1>2
<1>5. \A k \in DOMAIN cmds : cmds'[k].command = cmds[k].command
  BY <1>1 DEF SameRequest
<1>6. \A k \in DOMAIN cmds : k \in Int
  BY WordTypes DEF Base, Typed
<1>7. ASSUME NEW k \in DOMAIN cmds, NEW d \in Engines, <<k, d>> # <<n, e>>
      PROVE  Stored(d, k)' <=> Stored(d, k)
  <2>1. CASE d # e
    BY <1>3, <1>5, <2>1 DEF Stored
  <2>2. CASE d = e
    <3>1. k # n /\ k \in Int
      BY <1>6, <1>7, <2>2
    <3>2. k <= handled'[e] <=> k <= handled[e]
      BY <1>1, <1>2, <1>4, <3>1
    <3> QED
      BY <1>5, <2>2, <3>2 DEF Stored
  <2> QED
    BY <2>1, <2>2
<1>8. \A k, d : <<k, d>> # <<n, e>> => (<<k, d>> \in failures' <=> <<k, d>> \in failures)
  OBVIOUS
<1>9. ASSUME NEW k \in DOMAIN cmds, k # n, CodeInv(k) PROVE CodeInv(k)'
  <2>1. \A d \in Engines : <<k, d>> # <<n, e>>
    BY <1>9
  <2>2. \A d \in Engines : /\ Stored(d, k)' <=> Stored(d, k)
                           /\ <<k, d>> \in failures' <=> <<k, d>> \in failures
    BY <1>7, <1>8, <2>1
  <2>3. cmds'[k] = cmds[k]
    BY <1>1, <1>9
  <2> QED
    BY <1>9, <2>2, <2>3 DEF CodeInv
<1>10. ASSUME NEW d \in Engines, d # e, handled[d] + 1 # n, SettingInv(d), writing[d].field = "resultCode"
       PROVE  SettingInv(d)'
  <2>1. handled[d] + 1 \in DOMAIN cmds
    <3>1. writing[d] # NoWrite
      BY <1>10 DEF NoWrite
    <3> QED
      BY <3>1 DEF Base, Typed, OrderInv
  <2>2. PICK m : m = handled[d] + 1
    OBVIOUS
  <2>3. /\ handled'[d] + 1 = m /\ writing'[d] = writing[d] /\ cmds'[m] = cmds[m]
        /\ <<m, d>> \in failures' <=> <<m, d>> \in failures
    BY <1>1, <1>3, <1>8, <1>10, <2>1, <2>2
  <2> QED
    BY <1>10, <2>2, <2>3 DEF SettingInv
<1>11. ASSUME NEW d \in Engines, d # e, handled[d] + 1 # n PROVE SettingInv(d) => SettingInv(d)'
  <2>1. writing'[d] = writing[d]
    BY <1>1, <1>11
  <2>2. CASE writing[d].field = "resultCode"
    BY <1>10, <1>11, <2>2
  <2>3. CASE writing[d].field # "resultCode"
    BY <2>1, <2>3 DEF SettingInv
  <2> QED
    BY <2>2, <2>3
<1> QED
  BY <1>1, <1>2, <1>3, <1>5, <1>7, <1>9, <1>11

\* Failures are those of engines that have stored, or are telling so.
LEMMA FailuresStay ==
  ASSUME Base, FailureInv, NEW e \in Engines, NEW n, EngineStep(e, n),
         failures' \subseteq failures \cup {<<n, e>>},
         writing[e].field = "resultCode" \/ <<n, e>> \in failures' =>
           /\ Stores(e, cmds[n].command)
           /\ n <= handled'[e] \/ (n = handled'[e] + 1 /\ writing'[e].field = "resultCode")
  PROVE  FailureInv'
<1>1. /\ n = handled[e] + 1 /\ n \in DOMAIN cmds /\ DOMAIN cmds' = DOMAIN cmds
      /\ SameRequest(cmds'[n], cmds[n])
      /\ \A k \in DOMAIN cmds : k # n => cmds'[k] = cmds[k]
      /\ handled' = handled \/ handled' = [handled EXCEPT ![e] = n]
      /\ \A d \in Engines : d # e => writing'[d] = writing[d]
  BY DEF EngineStep
<1>2. handled \in [Engines -> Int]
  BY DEF Base, Typed, EngineType
<1>3. \A d \in Engines : d # e => handled'[d] = handled[d]
  BY <1>1, <1>2
<1>4. \A k \in DOMAIN cmds : cmds'[k].command = cmds[k].command
  BY <1>1 DEF SameRequest
<1>5. \A k \in DOMAIN cmds : k \in Int
  BY WordTypes DEF Base, Typed
<1>6. ASSUME NEW p \in failures'
      PROVE  \E k \in DOMAIN cmds', d \in Engines :
               /\ p = <<k, d>> /\ Stores(d, cmds'[k].command)
               /\ k <= handled'[d] \/ (k = handled'[d] + 1 /\ writing'[d].field = "resultCode")
  <2>1. CASE p = <<n, e>>
    BY <1>1, <1>4, <1>6, <2>1
  <2>2. CASE p # <<n, e>>
    <3>1. PICK k \in DOMAIN cmds, d \in Engines :
            /\ p = <<k, d>> /\ Stores(d, cmds[k].command)
            /\ k <= handled[d] \/ (k = handled[d] + 1 /\ writing[d].field = "resultCode")
      BY <1>6, <2>2 DEF FailureInv
    <3>2. CASE d # e
      BY <1>1, <1>3, <1>4, <3>1, <3>2
    <3>3. CASE d = e
      <4>1. k # n /\ k <= handled[e]
        BY <1>1, <2>2, <3>1, <3>3
      <4>2. k <= handled'[e]
        BY <1>1, <1>2, <1>5, <4>1
      <4> QED
        BY <1>1, <1>4, <3>1, <3>3, <4>2
    <3> QED
      BY <3>2, <3>3
  <2> QED
    BY <2>1, <2>2
<1> QED
  BY <1>6 DEF FailureInv

\* A step at command n keeps the snapshots right if it does so at n, and takes
\* back neither a failure nor a success.
LEMMA SnapshotStep ==
  ASSUME Base, SnapshotInv, NEW e \in Engines, NEW n, EngineStep(e, n),
         failures' \ {<<n, e>>} = failures \ {<<n, e>>},
         LET S == SuccessOf(cmds[n].command)
             F == FailureOf(cmds[n].command)
         IN cmds[n].command \in Snapshots =>
              /\ cmds[n].resultCode = F => cmds'[n].resultCode = F
              /\ cmds[n].resultCode = S => cmds'[n].resultCode \in {S, F},
         CodeInv(n)', SettingInv(e)', FailureInv'
  PROVE  SnapshotInv'
<1>1. /\ n \in Int /\ n = handled[e] + 1 /\ n \in DOMAIN cmds /\ DOMAIN cmds' = DOMAIN cmds
      /\ \A k \in DOMAIN cmds : k # n => (CodeInv(k) => CodeInv(k)')
      /\ \A k \in DOMAIN cmds : cmds'[k].command = cmds[k].command
      /\ \A d \in Engines : d # e => handled'[d] = handled[d] /\ writing'[d] = writing[d]
      /\ \A d \in Engines : d # e /\ handled[d] + 1 # n => (SettingInv(d) => SettingInv(d)')
  BY Elsewhere
<1>2. \A k \in DOMAIN cmds' : CodeInv(k)'
  BY <1>1 DEF SnapshotInv
<1>3. ASSUME NEW d \in Engines PROVE SettingInv(d)'
  <2>1. CASE d = e
    BY <2>1
  <2>2. CASE d # e /\ handled[d] + 1 # n
    BY <1>1, <2>2 DEF SnapshotInv
  <2>3. CASE d # e /\ handled[d] + 1 = n /\ writing[d].field = "resultCode"
    <3> DEFINE S == SuccessOf(cmds[n].command)
               F == FailureOf(cmds[n].command)
    <3>1. /\ writing[d].code = IF <<n, d>> \in failures THEN F ELSE S
          /\ writing[d].expected \in Unset \cup {S, F}
          /\ writing[d].expected = F => cmds[n].resultCode = F
          /\ writing[d].expected = S => cmds[n].resultCode \in {S, F}
      BY <2>3 DEF SnapshotInv, SettingInv
    <3>2. cmds[n].command \in Snapshots
      <4>1. writing[d] # NoWrite
        BY <2>3 DEF NoWrite
      <4>2. Stores(d, cmds[n].command)
        BY <2>3, <4>1 DEF Base, Typed, OrderInv
      <4> QED
        BY <4>2, SnapshotCodes
    <3>3. /\ handled'[d] + 1 = n /\ writing'[d] = writing[d]
          /\ cmds'[n].command = cmds[n].command
      BY <1>1, <2>3
    <3>4. <<n, d>> \in failures' <=> <<n, d>> \in failures
      <4>1. <<n, d>> # <<n, e>>
        BY <2>3
      <4> QED
        BY <4>1
    <3>5. /\ writing[d].expected = F => cmds'[n].resultCode = F
          /\ writing[d].expected = S => cmds'[n].resultCode \in {S, F}
      BY <3>1, <3>2
    <3> QED
      BY <3>1, <3>3, <3>4, <3>5 DEF SettingInv
  <2>4. CASE d # e /\ writing[d].field # "resultCode"
    BY <1>1, <2>4 DEF SettingInv
  <2> QED
    BY <2>1, <2>2, <2>3, <2>4
<1> QED
  BY <1>2, <1>3 DEF SnapshotInv

\* Orders and messages are none of their business.
LEMMA OtherCommands ==
  ASSUME Base, SnapshotInv, NEW e \in Engines, NEW n, EngineStep(e, n),
         failures' = failures, cmds[n].command \notin Snapshots,
         writing'[e].field # "resultCode"
  PROVE  SnapshotInv'
<1>1. /\ n = handled[e] + 1 /\ n \in DOMAIN cmds
      /\ \A k \in DOMAIN cmds : cmds'[k].command = cmds[k].command
  BY Elsewhere
<1>2. CodeInv(n)' /\ SettingInv(e)'
  BY <1>1 DEF CodeInv, SettingInv
<1>3. \A d \in Engines : ~Stores(d, cmds[n].command)
  BY SnapshotCodes
<1>4. writing[e].field # "resultCode"
  <2>1. CASE writing[e] = NoWrite
    BY <2>1 DEF NoWrite
  <2>2. CASE writing[e] # NoWrite
    BY <1>1, <1>3, <2>2 DEF Base, Typed, OrderInv
  <2> QED
    BY <2>1, <2>2
<1>5. <<n, e>> \notin failures
  <2> SUFFICES ASSUME <<n, e>> \in failures PROVE FALSE
    OBVIOUS
  <2>1. PICK k \in DOMAIN cmds, d \in Engines : <<n, e>> = <<k, d>> /\ Stores(d, cmds[k].command)
    BY DEF SnapshotInv, FailureInv
  <2>2. k = n
    BY <2>1
  <2> QED
    BY <1>3, <2>1, <2>2
<1>6. FailureInv'
  BY <1>4, <1>5, FailuresStay DEF SnapshotInv
<1> QED
  BY <1>2, <1>6, SnapshotStep

\* An engine that has stored its part or failed has told nobody yet.
LEMMA StoreDataKeepsSnapshots ==
  ASSUME Base, SnapshotInv, NEW e \in Engines, NEW n, EngineStep(e, n), StoreData(e)
  PROVE  SnapshotInv'
<1>1. n = handled[e] + 1 /\ n \in DOMAIN cmds
  BY DEF EngineStep
<1> DEFINE d == cmds[n].command
<1>2. PICK isSuccess \in BOOLEAN :
        /\ writing' = [writing EXCEPT ![e] =
             [field |-> "resultCode", expected |-> cmds[n].resultCode,
              code |-> IF isSuccess THEN (IF e \in Risk THEN "SUCCESS" ELSE "ACCEPTED")
                       ELSE FailureCode(e)]]
        /\ failures' = IF isSuccess THEN failures ELSE failures \cup {<<n, e>>}
  BY <1>1 DEF StoreData
<1>3. /\ writing[e] = NoWrite /\ Stores(e, d) /\ UNCHANGED <<cmds, handled>>
  BY <1>1 DEF StoreData, Ready
<1>4. /\ d \in Snapshots /\ FailureCode(e) = FailureOf(d) /\ SuccessOf(d) # FailureOf(d)
      /\ SuccessOf(d) = IF e \in Risk THEN "SUCCESS" ELSE "ACCEPTED"
  BY <1>3, SnapshotCodes DEF Stores, SuccessOf
<1>5. writing \in [Engines -> Write] /\ handled[e] \in Int
  BY DEF Base, Typed, EngineType
<1>6. <<n, e>> \notin failures
  <2> SUFFICES ASSUME <<n, e>> \in failures PROVE FALSE
    OBVIOUS
  <2>1. PICK k \in DOMAIN cmds, g \in Engines :
          /\ <<n, e>> = <<k, g>>
          /\ k <= handled[g] \/ (k = handled[g] + 1 /\ writing[g].field = "resultCode")
    BY DEF SnapshotInv, FailureInv
  <2>2. k = n /\ g = e
    BY <2>1
  <2>3. n <= handled[e] \/ writing[e].field = "resultCode"
    BY <2>1, <2>2
  <2> QED
    BY <1>1, <1>3, <1>5, <2>3 DEF NoWrite
<1>7. failures' \ {<<n, e>>} = failures \ {<<n, e>>} /\ failures' \subseteq failures \cup {<<n, e>>}
  BY <1>2
<1>8. ~Stored(e, n)
  BY <1>1, <1>5 DEF Stored
<1>9. CodeInv(n)'
  <2>1. \A g \in Engines : Stored(g, n)' <=> Stored(g, n)
    BY <1>3 DEF Stored
  <2>2. \A g \in Engines : Stored(g, n) => (<<n, g>> \in failures' <=> <<n, g>> \in failures)
    <3> SUFFICES ASSUME NEW g \in Engines, g # e
                 PROVE  <<n, g>> \in failures' <=> <<n, g>> \in failures
      BY <1>8
    <3>1. <<n, g>> # <<n, e>>
      OBVIOUS
    <3> QED
      BY <1>7, <3>1
  <2>3. CodeInv(n)
    BY <1>1 DEF SnapshotInv
  <2> QED
    BY <1>3, <2>1, <2>2, <2>3 DEF CodeInv
<1>10. SettingInv(e)'
  <2> DEFINE S == SuccessOf(d)
             F == FailureOf(d)
  <2>1. /\ writing'[e].code = IF isSuccess THEN S ELSE F
        /\ writing'[e].expected = cmds[n].resultCode
    BY <1>2, <1>4, <1>5
  <2>2. <<n, e>> \in failures' <=> ~isSuccess
    BY <1>2, <1>6
  <2>3. cmds[n].resultCode \in Unset \cup {S, F}
    BY <1>1, <1>4, CodeTells DEF SnapshotInv
  <2> QED
    BY <1>1, <1>3, <2>1, <2>2, <2>3 DEF SettingInv
<1>11. FailureInv'
  <2>1. writing'[e].field = "resultCode" /\ n = handled'[e] + 1
    BY <1>1, <1>2, <1>3, <1>5
  <2> QED
    BY <1>3, <1>7, <2>1, FailuresStay DEF SnapshotInv
<1> QED
  BY <1>3, <1>7, <1>9, <1>10, <1>11, SnapshotStep

\* When e has told its result, the code is a failure if e failed or another one
\* has told so before, otherwise a success.
LEMMA ResultToldKeepsSnapshots ==
  ASSUME Base, SnapshotInv, NEW e \in Engines, NEW n, EngineStep(e, n),
         writing[e].field = "resultCode", failures' = failures,
         Done(e), writing' = [writing EXCEPT ![e] = NoWrite],
         NEW S, NEW F, S = SuccessOf(cmds[n].command), F = FailureOf(cmds[n].command),
         cmds'[n].resultCode \in {S, F},
         cmds[n].resultCode = F \/ <<n, e>> \in failures <=> cmds'[n].resultCode = F
  PROVE  SnapshotInv'
<1>1. /\ n \in Int /\ n = handled[e] + 1 /\ n \in DOMAIN cmds /\ DOMAIN cmds' = DOMAIN cmds
      /\ \A k \in DOMAIN cmds : cmds'[k].command = cmds[k].command
      /\ \A k \in DOMAIN cmds, d \in Engines : <<k, d>> # <<n, e>> => (Stored(d, k)' <=> Stored(d, k))
  BY Elsewhere
<1>2. handled \in [Engines -> Int] /\ writing \in [Engines -> Write]
  BY DEF Base, Typed, EngineType
<1>3. handled'[e] = n /\ writing'[e] = NoWrite
  BY <1>1, <1>2 DEF Done
<1>4. Stores(e, cmds[n].command)
  <2>1. writing[e] # NoWrite
    BY DEF NoWrite
  <2> QED
    BY <1>1, <2>1 DEF Base, Typed, OrderInv
<1>5. cmds[n].command \in Snapshots /\ S # F /\ S \notin Unset /\ F \notin Unset
  BY <1>4, SnapshotCodes
<1>6. Stored(e, n)' /\ ~Stored(e, n)
  BY <1>1, <1>2, <1>3, <1>4 DEF Stored
<1>7. \A g \in Engines : Stored(g, n)' <=> Stored(g, n) \/ g = e
  <2>1. \A g \in Engines : g # e => <<n, g>> # <<n, e>>
    OBVIOUS
  <2> QED
    BY <1>1, <1>6, <2>1
<1>8. /\ cmds[n].resultCode = F => \E g \in Engines : Stored(g, n) /\ <<n, g>> \in failures
      /\ (\E g \in Engines : Stored(g, n) /\ <<n, g>> \in failures) => cmds[n].resultCode = F
  BY <1>1, <1>5, CodeTells DEF SnapshotInv, CodeInv
<1>9. CodeInv(n)'
  <2>1. (\E g \in Engines : Stored(g, n)' /\ <<n, g>> \in failures) <=> cmds'[n].resultCode = F
    BY <1>7, <1>8
  <2>2. ~(\A g \in Engines : ~Stored(g, n)')
    BY <1>6
  <2> QED
    BY <1>1, <2>1, <2>2 DEF CodeInv
<1>10. SettingInv(e)'
  BY <1>3 DEF SettingInv, NoWrite
<1>11. FailureInv'
  <2>1. failures' \subseteq failures \cup {<<n, e>>} /\ n <= handled'[e]
    BY <1>1, <1>3
  <2> QED
    BY <1>4, <2>1, FailuresStay DEF SnapshotInv
<1> QED
  BY <1>5, <1>9, <1>10, <1>11, SnapshotStep

\* A failure that is told stays, and no success is told over it.
LEMMA ExchangeResultKeepsSnapshots ==
  ASSUME Base, SnapshotInv, NEW e \in Engines, NEW n, EngineStep(e, n), ExchangeResult(e)
  PROVE  SnapshotInv'
<1> DEFINE w == writing[e]
           S == SuccessOf(cmds[n].command)
           F == FailureOf(cmds[n].command)
<1>1. /\ n = handled[e] + 1 /\ n \in DOMAIN cmds /\ n \in Int
      /\ handled \in [Engines -> Int] /\ writing \in [Engines -> Write]
      /\ cmds \in [DOMAIN cmds -> Slot] /\ cmds[n] \in Slot
  BY DEF EngineStep, Base, Typed, EngineType, ClientType
<1>2. w.field = "resultCode" /\ failures' = failures
  BY DEF ExchangeResult
<1>3. Stores(e, cmds[n].command)
  <2>1. w # NoWrite
    BY <1>2 DEF NoWrite
  <2> QED
    BY <1>1, <1>2, <2>1 DEF Base, Typed, OrderInv
<1>4. FailureCode(e) = F /\ S # F /\ S \notin Unset /\ F \notin Unset /\ cmds[n].command \in Snapshots
  BY <1>3, SnapshotCodes
<1>5. /\ w.code = IF <<n, e>> \in failures THEN F ELSE S
      /\ w.expected \in Unset \cup {S, F}
      /\ w.expected = F => cmds[n].resultCode = F
      /\ w.expected = S => cmds[n].resultCode \in {S, F}
  BY <1>1, <1>2 DEF SnapshotInv, SettingInv
<1>6. cmds[n].resultCode \in Unset \cup {S, F}
  BY <1>1, <1>4, CodeTells DEF SnapshotInv
<1>7. CASE ResultIsSet(e)
  <2>1. UNCHANGED cmds /\ Done(e) /\ writing' = [writing EXCEPT ![e] = NoWrite]
    BY <1>7 DEF ExchangeResult
  <2>2. w.expected \in {w.code, F}
    BY <1>4, <1>7 DEF ResultIsSet
  <2>3. cmds'[n].resultCode = cmds[n].resultCode
    BY <2>1
  <2>4. cmds[n].resultCode \in {S, F} /\ (<<n, e>> \in failures => cmds[n].resultCode = F)
    BY <1>4, <1>5, <2>2
  <2> HIDE DEF S, F
  <2> QED
    BY <1>2, <2>1, <2>3, <2>4, ResultToldKeepsSnapshots DEF S, F
<1>8. CASE ~ResultIsSet(e) /\ w.expected = cmds[n].resultCode
  <2>1. /\ cmds' = [cmds EXCEPT ![n].resultCode = w.code]
        /\ Done(e) /\ writing' = [writing EXCEPT ![e] = NoWrite]
    BY <1>1, <1>8 DEF ExchangeResult
  <2>2. w.expected # F
    BY <1>4, <1>8 DEF ResultIsSet
  <2>3. cmds'[n].resultCode = w.code
    BY <1>1, <2>1 DEF Slot
  <2>4. cmds'[n].resultCode \in {S, F}
        /\ (cmds[n].resultCode = F \/ <<n, e>> \in failures <=> cmds'[n].resultCode = F)
    BY <1>4, <1>5, <1>8, <2>2, <2>3
  <2> HIDE DEF S, F
  <2> QED
    BY <1>2, <2>1, <2>4, ResultToldKeepsSnapshots DEF S, F
<1>9. CASE ~ResultIsSet(e) /\ w.expected # cmds[n].resultCode
  <2>1. writing' = [writing EXCEPT ![e].expected = cmds[n].resultCode] /\ UNCHANGED <<cmds, handled>>
    BY <1>1, <1>9 DEF ExchangeResult
  <2>2. w # NoWrite /\ w \in Write
    BY <1>1, <1>2 DEF NoWrite
  <2>3. w \in [field : {"resultCode"}, expected : Code, code : Code]
    BY <1>2, <2>2 DEF Write
  <2>4. writing'[e] = [w EXCEPT !.expected = cmds[n].resultCode]
    BY <1>1, <2>1
  <2>5. writing'[e].field = "resultCode" /\ writing'[e].code = w.code
        /\ writing'[e].expected = cmds[n].resultCode
    BY <1>2, <2>3, <2>4
  <2>6. SettingInv(e)'
    BY <1>1, <1>2, <1>4, <1>5, <1>6, <2>1, <2>5 DEF SettingInv
  <2>7. \A g \in Engines : Stored(g, n)' <=> Stored(g, n)
    BY <2>1 DEF Stored
  <2>8. CodeInv(n)'
    BY <1>1, <1>2, <2>1, <2>7 DEF SnapshotInv, CodeInv
  <2>9. FailureInv'
    BY <1>1, <1>2, <1>3, <2>1, <2>5, FailuresStay DEF SnapshotInv
  <2> QED
    BY <1>2, <2>1, <2>6, <2>8, <2>9, SnapshotStep
<1> QED
  BY <1>7, <1>8, <1>9

\* The engines that do not store tell no result.
LEMMA SkipKeepsSnapshots ==
  ASSUME Base, SnapshotInv, NEW e \in Engines, NEW n, EngineStep(e, n), SkipPersist(e)
  PROVE  SnapshotInv'
<1>0. failures' = failures
  BY DEF SkipPersist
<1>1. /\ n \in Int /\ n = handled[e] + 1 /\ n \in DOMAIN cmds
      /\ \A k \in DOMAIN cmds : cmds'[k].command = cmds[k].command
      /\ \A k \in DOMAIN cmds, d \in Engines : <<k, d>> # <<n, e>> => (Stored(d, k)' <=> Stored(d, k))
  BY <1>0, Elsewhere
<1>2. /\ cmds[n].command \in Snapshots /\ ~Stores(e, cmds[n].command)
      /\ cmds' = IF e \in Risk THEN ResultWritten(e, "VALID_FOR_MATCHING_ENGINE") ELSE cmds
      /\ UNCHANGED <<writing, failures>> /\ writing[e] = NoWrite
  BY <1>1 DEF SkipPersist, Ready, Snapshots
<1>3. ~Stored(e, n) /\ ~Stored(e, n)'
  BY <1>1, <1>2 DEF Stored
<1>4. \A g \in Engines : Stored(g, n)' <=> Stored(g, n)
  <2>1. \A g \in Engines : g # e => <<n, g>> # <<n, e>>
    OBVIOUS
  <2> QED
    BY <1>1, <1>3, <2>1
<1>5. CodeInv(n)
  BY <1>1 DEF SnapshotInv
<1>6. <<n, e>> \notin failures
  <2> SUFFICES ASSUME <<n, e>> \in failures PROVE FALSE
    OBVIOUS
  <2>1. PICK k \in DOMAIN cmds, g \in Engines : <<n, e>> = <<k, g>> /\ Stores(g, cmds[k].command)
    BY DEF SnapshotInv, FailureInv
  <2>2. k = n /\ g = e
    BY <2>1
  <2> QED
    BY <1>2, <2>1, <2>2
<1>7. CASE cmds'[n].resultCode = cmds[n].resultCode
  <2>1. CodeInv(n)'
    BY <1>1, <1>2, <1>4, <1>5, <1>7 DEF CodeInv
  <2>2. SettingInv(e)'
    BY <1>2 DEF SettingInv, NoWrite
  <2>3. FailureInv'
    <3>1. writing[e].field # "resultCode"
      BY <1>2 DEF NoWrite
    <3> QED
      BY <1>2, <1>6, <3>1, FailuresStay DEF SnapshotInv
  <2> QED
    BY <1>2, <1>7, <2>1, <2>2, <2>3, SnapshotStep
<1>8. CASE cmds'[n].resultCode # cmds[n].resultCode
  <2>1. e \in Risk /\ cmds' = [cmds EXCEPT ![n].resultCode = "VALID_FOR_MATCHING_ENGINE"]
    BY <1>1, <1>2, <1>8 DEF ResultWritten
  <2>2. cmds[n] \in Slot /\ cmds \in [DOMAIN cmds -> Slot]
    BY <1>1 DEF Base, Typed, ClientType
  <2>3. cmds'[n].resultCode = "VALID_FOR_MATCHING_ENGINE"
    BY <1>1, <2>1, <2>2 DEF Slot
  <2>4. \A g \in Engines : ~Stored(g, n)
    <3> SUFFICES ASSUME NEW g \in Engines, Stored(g, n) PROVE FALSE
      OBVIOUS
    <3>1. g \in Matching
      BY <1>2, <2>1, EngineNames DEF Stored, Stores, Snapshots
    <3>2. handled[g] <= handled[e] /\ handled[g] \in Int /\ handled[e] \in Int
      BY <2>1, <3>1 DEF Base, Typed, OrderInv, EngineType
    <3> QED
      BY <1>1, <3>2 DEF Stored
  <2>5. cmds[n].resultCode \in Unset
    BY <1>2, <1>5, <2>4, CodeTells
  <2>6. CodeInv(n)'
    BY <1>4, <2>3, <2>4 DEF CodeInv, Unset
  <2>7. SettingInv(e)'
    BY <1>2 DEF SettingInv, NoWrite
  <2>9. FailureInv'
    <3>1. writing[e].field # "resultCode"
      BY <1>2 DEF NoWrite
    <3> QED
      BY <1>2, <1>6, <3>1, FailuresStay DEF SnapshotInv
  <2>10. /\ cmds[n].resultCode # SuccessOf(cmds[n].command)
         /\ cmds[n].resultCode # FailureOf(cmds[n].command)
    BY <2>5, SnapshotCodes
  <2> QED
    BY <1>2, <2>6, <2>7, <2>9, <2>10, SnapshotStep
<1> QED
  BY <1>7, <1>8

\* Every step of an engine keeps the results of snapshots right.
LEMMA EngineKeepsSnapshots ==
  ASSUME Base, SnapshotInv, NEW e \in Engines, EngineAction(e)
  PROVE  SnapshotInv'
<1>1. PICK n : n = handled[e] + 1
  OBVIOUS
<1>2. EngineStep(e, n) /\ Typed'
  BY <1>1, EngineSteps DEF Base
<1>3. /\ n \in DOMAIN cmds /\ cmds[n] \in Slot /\ writing \in [Engines -> Write]
  BY <1>2 DEF EngineStep, Base, Typed, ClientType, EngineType
<1>4. CASE \/ HandleOrder(e) \/ AcceptFrame(e) \/ CompleteCommand(e)
  <2>1. /\ failures' = failures /\ writing' = writing /\ writing[e] = NoWrite
        /\ cmds[n].command \in Messages \cup {"CANCEL_ORDER", "ORDER_BOOK_REQUEST"}
    BY <1>1, <1>4 DEF HandleOrder, AcceptFrame, CompleteCommand, Ready, Messages
  <2>2. cmds[n].command \notin Snapshots /\ writing'[e].field # "resultCode"
    BY <2>1 DEF Messages, Snapshots, NoWrite
  <2> QED
    BY <1>2, <2>1, <2>2, OtherCommands
<1>5. CASE CompleteQuery(e)
  <2>1. /\ failures' = failures /\ cmds[n].command = "BINARY_DATA_QUERY"
        /\ \E expected, chain : writing' = [writing EXCEPT ![e] =
               [field |-> "matcherEvent", expected |-> expected, chain |-> chain]]
    BY <1>1, <1>5 DEF CompleteQuery, Ready
  <2>2. writing'[e].field # "resultCode"
    BY <1>3, <2>1
  <2>3. cmds[n].command \notin Snapshots
    BY <2>1 DEF Snapshots
  <2> QED
    BY <1>2, <2>1, <2>2, <2>3, OtherCommands
<1>6. CASE ExchangeEvents(e)
  <2>1. /\ failures' = failures /\ writing[e].field = "matcherEvent"
        /\ \/ writing' = [writing EXCEPT ![e] = NoWrite]
           \/ writing' = [writing EXCEPT ![e].expected = cmds[n].events]
    BY <1>1, <1>6 DEF ExchangeEvents
  <2>2. writing[e] # NoWrite
    BY <2>1 DEF NoWrite
  <2>3. cmds[n].command \notin Snapshots
    BY <1>1, <2>1, <2>2 DEF Base, Typed, OrderInv, Snapshots
  <2>4. writing[e] \in [field : {"matcherEvent"}, expected : Seq(Event), chain : Seq(Event)]
    BY <1>3, <2>1, <2>2 DEF Write
  <2>5. writing'[e].field # "resultCode"
    <3>1. CASE writing' = [writing EXCEPT ![e] = NoWrite]
      BY <1>3, <3>1 DEF NoWrite
    <3>2. CASE writing' = [writing EXCEPT ![e].expected = cmds[n].events]
      <4>1. writing'[e] = [writing[e] EXCEPT !.expected = cmds[n].events]
        BY <1>3, <3>2
      <4> QED
        BY <2>4, <4>1
    <3> QED
      BY <2>1, <3>1, <3>2
  <2> QED
    BY <1>2, <2>1, <2>3, <2>5, OtherCommands
<1>7. CASE StoreData(e)
  BY <1>2, <1>7, StoreDataKeepsSnapshots
<1>8. CASE ExchangeResult(e)
  BY <1>2, <1>8, ExchangeResultKeepsSnapshots
<1>9. CASE SkipPersist(e)
  BY <1>2, <1>9, SkipKeepsSnapshots
<1> QED
  BY <1>4, <1>5, <1>6, <1>7, <1>8, <1>9 DEF EngineAction

\* A published snapshot command is fresh: no engine has handled it.
LEMMA PublishKeepsSnapshots ==
  ASSUME Base, SnapshotInv, NEW c \in Clients, Publish(c)
  PROVE  SnapshotInv'
<1> DEFINE s == client[c]
           new == s.low .. High(c)
<1>1. /\ InFlight(c) /\ DOMAIN cmds' = DOMAIN cmds \cup new
      /\ \A n \in DOMAIN cmds : cmds'[n] = cmds[n]
      /\ \A n \in new : cmds'[n] = s.fragment[n - s.low + 1]
      /\ UNCHANGED <<handled, writing, failures>>
  BY PublishFacts DEF engines
<1>2. \A n \in new : n \notin DOMAIN cmds /\ n \in Nat /\ Fresh(cmds'[n])
  BY <1>1, FlightFacts, PublishedPart
<1>3. \A n \in DOMAIN cmds' : n \in DOMAIN cmds \/ n \in new
  BY <1>1
<1> HIDE DEF new
<1>4. ASSUME NEW n \in new, NEW e \in Engines PROVE ~(n <= handled[e])
  <2>1. handled[e] \in Int /\ n \in Nat /\ n \notin DOMAIN cmds
    BY <1>2 DEF Base, Typed, EngineType
  <2>2. n \notin 0 .. handled[e]
    BY <2>1 DEF Base, Typed, OrderInv
  <2> QED
    BY <2>1, <2>2
<1>5. ASSUME NEW n \in DOMAIN cmds' PROVE CodeInv(n)'
  <2>1. CASE n \in DOMAIN cmds
    <3>1. cmds'[n] = cmds[n] /\ CodeInv(n)
      BY <1>1, <2>1 DEF SnapshotInv
    <3>2. \A e \in Engines : Stored(e, n)' <=> Stored(e, n)
      BY <1>1, <3>1 DEF Stored
    <3> QED
      BY <1>1, <3>1, <3>2 DEF CodeInv
  <2>2. CASE n \in new
    <3>1. \A e \in Engines : ~Stored(e, n)'
      BY <1>1, <1>4, <2>2 DEF Stored
    <3>2. cmds'[n].resultCode \in Unset
      BY <1>2, <2>2 DEF Fresh, Unset
    <3> QED
      BY <3>1, <3>2 DEF CodeInv
  <2> QED
    BY <1>3, <1>5, <2>1, <2>2
<1>6. ASSUME NEW e \in Engines PROVE SettingInv(e)'
  <2>1. CASE writing[e].field = "resultCode"
    <3>1. writing[e] # NoWrite
      BY <2>1 DEF NoWrite
    <3>2. handled[e] + 1 \in DOMAIN cmds
      BY <3>1 DEF Base, Typed, OrderInv
    <3>3. cmds'[handled[e] + 1] = cmds[handled[e] + 1] /\ SettingInv(e)
      BY <1>1, <3>2 DEF SnapshotInv
    <3> QED
      BY <1>1, <3>3 DEF SettingInv
  <2>2. CASE writing[e].field # "resultCode"
    BY <1>1, <2>2 DEF SettingInv
  <2> QED
    BY <2>1, <2>2
<1>7. FailureInv'
  BY <1>1 DEF SnapshotInv, FailureInv
<1> QED
  BY <1>5, <1>6, <1>7 DEF SnapshotInv

\* The other steps are not about snapshots.
LEMMA OthersKeepSnapshots ==
  ASSUME SnapshotInv, UNCHANGED <<cmds, handled, writing, failures>>
  PROVE  SnapshotInv'
  BY DEF SnapshotInv, CodeInv, SettingInv, FailureInv, Stored

\* Every step keeps the results of snapshots right.
LEMMA SnapshotNext ==
  ASSUME Base, SnapshotInv, [Next]_vars
  PROVE  SnapshotInv'
<1>1. CASE UNCHANGED vars
  BY <1>1, OthersKeepSnapshots DEF vars, engines
<1>2. CASE \E c \in Clients : \E f, r, offset : ClaimStep(c, f, r, offset)
  BY <1>2, OthersKeepSnapshots DEF ClaimStep, engines
<1>3. CASE \E c \in Clients : FilePromises(c)
  BY <1>3, OthersKeepSnapshots, FileFacts DEF engines
<1>4. CASE \E c \in Clients : Publish(c)
  BY <1>4, PublishKeepsSnapshots
<1>5. CASE \E e \in Engines : EngineAction(e)
  BY <1>5, EngineKeepsSnapshots
<1>6. CASE ProcessResult
  BY <1>6, OthersKeepSnapshots DEF ProcessResult, engines
<1> QED
  BY <1>1, <1>2, <1>3, <1>4, <1>5, <1>6, NextCases

\* No snapshot is stored in the beginning.
LEMMA InitSnapshots ==
  ASSUME Init
  PROVE  SnapshotInv
  BY DEF Init, SnapshotInv, CodeInv, SettingInv, FailureInv, NoWrite

\* Every engine that stores a snapshot has told its result when E passes it.
LEMMA FinishedSnapshot ==
  ASSUME Base, SnapshotInv, NEW n \in 0 .. eSeq, cmds[n].command \in Snapshots
  PROVE  LET command == cmds[n].command
         IN cmds[n].resultCode =
              IF \E e \in Engines : <<n, e>> \in failures THEN FailureOf(command)
              ELSE SuccessOf(command)
<1> DEFINE command == cmds[n].command
<1>1. n \in DOMAIN cmds /\ \A e \in Engines : n <= handled[e]
  <2>1. \A e \in Engines : eSeq <= handled[e] /\ handled[e] \in Int /\ eSeq \in Int
    BY SeenByE
  <2> QED
    BY <2>1, SeenByE
<1>2. \A e \in Engines : Stored(e, n) <=> Stores(e, command)
  BY <1>1 DEF Stored
<1>3. \E e \in Engines : Stored(e, n)
  <2>1. CASE command = "PERSIST_STATE_RISK"
    BY <1>2, <2>1, SnapshotCodes, EngineNames
  <2>2. CASE command = "PERSIST_STATE_MATCHING"
    BY <1>2, <2>2, SnapshotCodes, EngineNames
  <2> QED
    BY <2>1, <2>2 DEF Snapshots
<1>4. \A e \in Engines : <<n, e>> \in failures => Stored(e, n)
  <2> SUFFICES ASSUME NEW e \in Engines, <<n, e>> \in failures PROVE Stored(e, n)
    OBVIOUS
  <2>1. PICK k \in DOMAIN cmds, g \in Engines : <<n, e>> = <<k, g>> /\ Stores(g, cmds[k].command)
    BY DEF SnapshotInv, FailureInv
  <2>2. k = n /\ g = e
    BY <2>1
  <2> QED
    BY <1>2, <2>1, <2>2
<1> QED
  BY <1>1, <1>3, <1>4 DEF SnapshotInv, CodeInv

\* The pair of commands of an answered snapshot.
LEMMA PairSlot ==
  ASSUME Base, NEW n \in DOMAIN cmds, NEW f, NEW i, cmds[n].future = <<f, i>>,
         KindOf(f) = "persist"
  PROVE  /\ cmds[n].word = <<f, i>> /\ i \in {1, 2}
         /\ cmds[n].command = IF i = 1 THEN "PERSIST_STATE_MATCHING" ELSE "PERSIST_STATE_RISK"
<1> DEFINE x == cmds[n]
           g == x.word[1]
           j == x.word[2]
<1>1. Known(x)
  BY SlotsKnown
<1>2. Awaited(x) /\ x.future[1] = f /\ x.future[2] = i
  BY DEF Awaited
<1> HIDE DEF x
<1>3. g = f
  BY <1>1, <1>2, FutureTellsPart
<1>4. requests[f].kind = "persist"
  BY DEF KindOf
<1>5. j = i
  BY <1>1, <1>2, <1>3, <1>4, FutureTellsPart
<1>6. IsPart(x, requests[f], f, i) /\ x.word = <<f, i>>
  BY <1>1, <1>3, <1>5 DEF Known
<1> QED
  BY <1>4, <1>6 DEF IsPart, x

\* A failure recorded for a request is that of one of its pair of commands, by an
\* engine of its kind.
LEMMA FailureOfPair ==
  ASSUME Base, SnapshotInv, NEW f, KindOf(f) = "persist",
         NEW n1 \in DOMAIN cmds, cmds[n1].future = <<f, 1>>,
         NEW n2 \in DOMAIN cmds, cmds[n2].future = <<f, 2>>
  PROVE  /\ \A x \in failures : cmds[x[1]].future[1] = f =>
              \/ x[2] \in Matching /\ <<n1, x[2]>> \in failures /\ x = <<n1, x[2]>>
              \/ x[2] \in Risk /\ <<n2, x[2]>> \in failures /\ x = <<n2, x[2]>>
         /\ \A e \in Engines : <<n1, e>> \in failures => e \in Matching
         /\ \A e \in Engines : <<n2, e>> \in failures => e \in Risk
<1>1. /\ cmds[n1].word = <<f, 1>> /\ cmds[n1].command = "PERSIST_STATE_MATCHING"
      /\ cmds[n2].word = <<f, 2>> /\ cmds[n2].command = "PERSIST_STATE_RISK"
  BY PairSlot
<1>2. ASSUME NEW n, NEW e, <<n, e>> \in failures
      PROVE  n \in DOMAIN cmds /\ e \in Engines /\ Stores(e, cmds[n].command)
             /\ cmds[n].command \in Snapshots
  <2>1. PICK k \in DOMAIN cmds, d \in Engines : <<n, e>> = <<k, d>> /\ Stores(d, cmds[k].command)
    BY <1>2 DEF SnapshotInv, FailureInv
  <2>2. k = n /\ d = e
    BY <2>1
  <2> QED
    BY <2>1, <2>2, SnapshotCodes
<1>3. \A e \in Engines : <<n1, e>> \in failures => e \in Matching
  BY <1>1, <1>2, SnapshotCodes
<1>4. \A e \in Engines : <<n2, e>> \in failures => e \in Risk
  BY <1>1, <1>2, SnapshotCodes
<1>5. ASSUME NEW x \in failures, cmds[x[1]].future[1] = f
      PROVE  \/ x[2] \in Matching /\ <<n1, x[2]>> \in failures /\ x = <<n1, x[2]>>
             \/ x[2] \in Risk /\ <<n2, x[2]>> \in failures /\ x = <<n2, x[2]>>
  <2>1. PICK n \in DOMAIN cmds, e \in Engines : x = <<n, e>>
    BY DEF SnapshotInv, FailureInv
  <2>2. x[1] = n /\ x[2] = e /\ <<n, e>> \in failures
    BY <2>1
  <2>3. cmds[n].command \in Snapshots /\ cmds[n].future[1] = f
    BY <1>2, <1>5, <2>2
  <2> DEFINE y == cmds[n]
             g == y.word[1]
             j == y.word[2]
  <2>4. Known(y)
    BY SlotsKnown
  <2>5. requests[g].kind = "persist"
    <3>1. IsPart(y, requests[g], g, j)
      BY <2>4 DEF Known
    <3>2. requests[g].kind \notin MessageKinds
      BY <2>3, <3>1 DEF IsPart, Snapshots
    <3>3. CommandOf(requests[g].kind) \notin Snapshots
      BY DEF CommandOf, Snapshots
    <3> QED
      BY <2>3, <3>1, <3>2, <3>3 DEF IsPart
  <2>6. y.future = <<g, j>> /\ j \in {1, 2} /\ y.word = <<g, j>>
    BY <2>4, <2>5 DEF Known, IsPart
  <2>7. y.future[1] = g
    <3> HIDE DEF g, j, y
    <3> QED
      BY <2>6
  <2>8. g = f
    BY <2>3, <2>7
  <2>9. y.word = cmds[n1].word \/ y.word = cmds[n2].word
    BY <1>1, <2>6, <2>8
  <2>10. n = n1 \/ n = n2
    BY <2>9 DEF Base, PartsInv
  <2> QED
    BY <1>3, <1>4, <2>1, <2>2, <2>10
<1> QED
  BY <1>3, <1>4, <1>5

\* The failure of any engine reaches the client.
LEMMA SnapshotsReported ==
  ASSUME Answering, SnapshotInv
  PROVE  SnapshotFailureReported
<1> SUFFICES ASSUME NEW f \in DOMAIN requests, KindOf(f) = "persist",
                    Answered(<<f, 1>>), Answered(<<f, 2>>)
             PROVE  LET result == MergeToFirstFailed(AnswerOf(<<f, 1>>), AnswerOf(<<f, 2>>))
                        failed == {x \in failures : cmds[x[1]].future[1] = f}
                    IN result = IF failed = {} THEN "SUCCESS"
                                ELSE IF \E x \in failed : x[2] \in Matching
                                THEN "STATE_PERSIST_MATCHING_ENGINE_FAILED"
                                ELSE "STATE_PERSIST_RISK_ENGINE_FAILED"
  BY DEF SnapshotFailureReported
<1> DEFINE failed == {x \in failures : cmds[x[1]].future[1] = f}
<1>0. Base
  BY DEF Answering
<1>1. PICK n1 \in 0 .. eSeq : Awaited(cmds[n1]) /\ cmds[n1].future = <<f, 1>>
  BY AnsweredIsSeen
<1>2. PICK n2 \in 0 .. eSeq : Awaited(cmds[n2]) /\ cmds[n2].future = <<f, 2>>
  BY AnsweredIsSeen
<1>3. n1 \in DOMAIN cmds /\ n2 \in DOMAIN cmds
  BY <1>0, SeenByE
<1>4. /\ cmds[n1].command = "PERSIST_STATE_MATCHING" /\ cmds[n2].command = "PERSIST_STATE_RISK"
  BY <1>0, <1>1, <1>2, <1>3, PairSlot
<1>5. AnswerOf(<<f, 1>>) = cmds[n1].resultCode /\ AnswerOf(<<f, 2>>) = cmds[n2].resultCode
  <2>1. MapOf(KindOf(f)) = "promises"
    BY DEF MapOf
  <2>2. <<f, 1>>[1] = f /\ <<f, 2>>[1] = f
    OBVIOUS
  <2>3. AnswerOf(<<f, 1>>) = Answer("promises", cmds[n1])
    BY <1>1, <2>1, <2>2, AnsweredOnce
  <2>4. AnswerOf(<<f, 2>>) = Answer("promises", cmds[n2])
    BY <1>2, <2>1, <2>2, AnsweredOnce
  <2> QED
    BY <2>3, <2>4 DEF Answer
<1> DEFINE F1 == \E e \in Engines : <<n1, e>> \in failures
           F2 == \E e \in Engines : <<n2, e>> \in failures
<1>6. /\ cmds[n1].resultCode = IF F1 THEN "STATE_PERSIST_MATCHING_ENGINE_FAILED" ELSE "ACCEPTED"
      /\ cmds[n2].resultCode = IF F2 THEN "STATE_PERSIST_RISK_ENGINE_FAILED" ELSE "SUCCESS"
  BY <1>0, <1>1, <1>2, <1>4, FinishedSnapshot DEF Snapshots, FailureOf, SuccessOf
<1>7. /\ \A x \in failures : cmds[x[1]].future[1] = f =>
              \/ x[2] \in Matching /\ <<n1, x[2]>> \in failures /\ x = <<n1, x[2]>>
              \/ x[2] \in Risk /\ <<n2, x[2]>> \in failures /\ x = <<n2, x[2]>>
      /\ \A e \in Engines : <<n1, e>> \in failures => e \in Matching
      /\ \A e \in Engines : <<n2, e>> \in failures => e \in Risk
  BY <1>0, <1>1, <1>2, <1>3, FailureOfPair
<1>8. \A e : <<n1, e>>[1] = n1 /\ <<n1, e>>[2] = e /\ <<n2, e>>[1] = n2 /\ <<n2, e>>[2] = e
             /\ cmds[n1].future[1] = f /\ cmds[n2].future[1] = f
  BY <1>1, <1>2
<1>9. F1 <=> \E x \in failed : x[2] \in Matching
  <2>1. ASSUME NEW e \in Engines, <<n1, e>> \in failures PROVE \E x \in failed : x[2] \in Matching
    BY <1>7, <1>8, <2>1
  <2>2. ASSUME NEW x \in failed, x[2] \in Matching PROVE F1
    <3>1. x[2] \in Engines /\ x[2] \notin Risk
      BY <2>2, EngineNames
    <3> QED
      BY <1>7, <2>2, <3>1
  <2> QED
    BY <2>1, <2>2
<1>10. F2 <=> \E x \in failed : x[2] \in Risk
  <2>1. ASSUME NEW e \in Engines, <<n2, e>> \in failures PROVE \E x \in failed : x[2] \in Risk
    BY <1>7, <1>8, <2>1
  <2>2. ASSUME NEW x \in failed, x[2] \in Risk PROVE F2
    <3>1. x[2] \in Engines /\ x[2] \notin Matching
      BY <2>2, EngineNames
    <3> QED
      BY <1>7, <2>2, <3>1
  <2> QED
    BY <2>1, <2>2
<1>11. failed = {} <=> ~F1 /\ ~F2
  BY <1>7, <1>9, <1>10
<1> HIDE DEF failed, F1, F2
<1> QED
  BY <1>5, <1>6, <1>9, <1>11 DEF MergeToFirstFailed, failed

\* A snapshot is reported as stored exactly if every engine stored its part.
THEOREM SnapshotsAnswered == Spec => []SnapshotFailureReported
<1>1. Init => Answering /\ SnapshotInv
  BY InitAnswering, InitSnapshots
<1>2. Answering /\ SnapshotInv /\ [Next]_vars => Answering' /\ SnapshotInv'
  BY BaseNext, PromisesNext, AnswersNext, SnapshotNext DEF Answering
<1>3. Answering /\ SnapshotInv => SnapshotFailureReported
  BY SnapshotsReported
<1> QED
  BY <1>1, <1>2, <1>3, PTL DEF Spec

-----------------------------------------------------------------------------
(***************************************************************************)
(* Frames.  Slot n is a frame of transferId t; Last(m, t, h) is the last   *)
(* one not after h.                                                        *)
(***************************************************************************)
Frame(n, t) == n \in DOMAIN cmds /\ cmds[n].command \in Messages /\ cmds[n].userCookie = t

Last(m, t, h) ==
  /\ Frame(m, t) /\ m <= h
  /\ \A k \in DOMAIN cmds : Frame(k, t) /\ k <= h => k <= m

\* The frame before n is that of the part before, or the end of another message.
FollowsInv(n) ==
  cmds[n].command \in Messages =>
    LET f == cmds[n].word[1]
        i == cmds[n].word[2]
        t == cmds[n].userCookie
    IN /\ i >= 1
       /\ i > 1 => \E m \in DOMAIN cmds : Last(m, t, n - 1) /\ cmds[m].word = <<f, i - 1>>
       /\ i = 1 => \A m \in DOMAIN cmds : Last(m, t, n - 1) => cmds[m].symbol = -1

\* A client goes on after its last frame.
GoesOnInv(c) ==
  /\ client[c] # Idle /\ Written(c) > 0 =>
       \E m \in DOMAIN cmds :
         Last(m, c, cursor) /\ cmds[m].word = <<client[c].f, Written(c)>>
  /\ client[c] = Idle \/ Written(c) = 0 =>
       \A m \in DOMAIN cmds : Last(m, c, cursor) => cmds[m].symbol = -1
  /\ InFlight(c) => \A n \in DOMAIN cmds : Frame(n, c) => n < client[c].low

FrameInv ==
  /\ \A n \in DOMAIN cmds : FollowsInv(n)
  /\ \A c \in Clients : GoesOnInv(c)

\* What is known of a frame.
LEMMA FrameFacts ==
  ASSUME Base, NEW n \in DOMAIN cmds, cmds[n].command \in Messages
  PROVE  LET f == cmds[n].word[1]
             i == cmds[n].word[2]
         IN /\ cmds[n] \in Slot /\ n \in Nat /\ n <= cursor /\ cursor \in Int
            /\ f \in 1 .. Len(requests) /\ f \in DOMAIN requests
            /\ i \in Nat /\ requests[f].frames \in Nat \ {0}
            /\ cmds[n].word = <<f, i>> /\ requests[f].kind \in MessageKinds
            /\ i <= requests[f].frames
            /\ cmds[n].symbol = -1 <=> i = requests[f].frames
            /\ cmds[n].command = IF requests[f].kind = "binary" THEN "BINARY_DATA_COMMAND"
                                 ELSE "BINARY_DATA_QUERY"
            /\ cmds[n].symbol = -1 => cmds[n].future = <<f, 1>>
            /\ Known(cmds[n])
<1> DEFINE x == cmds[n]
           f == x.word[1]
           i == x.word[2]
<1>1. /\ Known(x) /\ n \in Nat /\ n <= cursor /\ cursor \in Int
      /\ requests \in Seq(Requests)
  BY SlotsKnown, WordTypes DEF Base, Typed, ClientType
<1>2. /\ x \in Slot /\ f \in 1 .. Len(requests) /\ i \in Nat /\ x.word = <<f, i>>
      /\ requests[f].frames \in Nat \ {0} /\ IsPart(x, requests[f], f, i)
  BY <1>1 DEF Known
<1>3. f \in DOMAIN requests
  BY <1>1, <1>2
<1>4. CommandOf(requests[f].kind) \notin Messages
  BY DEF CommandOf, Messages
<1>5. requests[f].kind \in MessageKinds
  BY <1>2, <1>4 DEF IsPart, Messages
<1>6. /\ i <= requests[f].frames
      /\ i < requests[f].frames => x.symbol = 0
      /\ i = requests[f].frames => x.symbol = -1 /\ x.future = <<f, 1>>
      /\ x.command = IF requests[f].kind = "binary" THEN "BINARY_DATA_COMMAND"
                     ELSE "BINARY_DATA_QUERY"
  BY <1>2, <1>5 DEF IsPart
<1> HIDE DEF x, f, i
<1>7. x.symbol = -1 <=> i = requests[f].frames
  BY <1>2, <1>6
<1> QED
  BY <1>1, <1>2, <1>3, <1>5, <1>6, <1>7 DEF x, f, i

\* There is at most one last frame.
LEMMA LastIsUnique ==
  ASSUME Base, NEW m, NEW k, NEW t, NEW h, Last(m, t, h), Last(k, t, h)
  PROVE  m = k
<1>1. m \in DOMAIN cmds /\ k \in DOMAIN cmds /\ m <= k /\ k <= m
  BY DEF Last, Frame
<1>2. m \in Nat /\ k \in Nat
  BY <1>1, WordTypes DEF Base, Typed
<1> QED
  BY <1>1, <1>2

\* The last frame up to n is n itself, or what it was up to n - 1.
LEMMA LastUpTo ==
  ASSUME Base, NEW n \in Int, NEW t
  PROVE  /\ Frame(n, t) => \A m : Last(m, t, n) <=> m = n
         /\ ~Frame(n, t) => \A m : Last(m, t, n) <=> Last(m, t, n - 1)
<1>1. \A k \in DOMAIN cmds : k \in Int
  BY WordTypes DEF Base, Typed
<1>2. ASSUME Frame(n, t), NEW m, Last(m, t, n) PROVE m = n
  BY <1>1, <1>2 DEF Last, Frame
<1>3. ASSUME Frame(n, t) PROVE Last(n, t, n)
  BY <1>1, <1>3 DEF Last, Frame
<1>4. ASSUME ~Frame(n, t), NEW k, Frame(k, t) PROVE k <= n <=> k <= n - 1
  <2>1. k \in Int /\ k # n
    BY <1>1, <1>4 DEF Frame
  <2> QED
    BY <2>1
<1>5. ASSUME ~Frame(n, t), NEW m PROVE Last(m, t, n) <=> Last(m, t, n - 1)
  BY <1>4, <1>5 DEF Last
<1> QED
  BY <1>2, <1>3, <1>5

\* Steps that leave the requests in the slots, and what clients go on with.
LEMMA SameFrames ==
  ASSUME FrameInv, DOMAIN cmds' = DOMAIN cmds, cursor' = cursor,
         \A n \in DOMAIN cmds : SameRequest(cmds'[n], cmds[n]),
         \A c \in Clients :
           /\ client'[c] = Idle <=> client[c] = Idle
           /\ client'[c].f = client[c].f /\ client'[c].low = client[c].low
           /\ Written(c)' = Written(c) /\ (InFlight(c)' <=> InFlight(c))
  PROVE  FrameInv'
<1>1. \A n, t : Frame(n, t)' <=> Frame(n, t)
  BY DEF Frame, SameRequest
<1>2. \A m, t, h : Last(m, t, h)' <=> Last(m, t, h)
  BY <1>1 DEF Last
<1>3. ASSUME NEW n \in DOMAIN cmds' PROVE FollowsInv(n)'
  <2>1. FollowsInv(n) /\ SameRequest(cmds'[n], cmds[n])
    BY DEF FrameInv
  <2> QED
    BY <1>2, <2>1 DEF FollowsInv, SameRequest
<1>4. ASSUME NEW c \in Clients PROVE GoesOnInv(c)'
  <2>1. GoesOnInv(c)
    BY DEF FrameInv
  <2> QED
    BY <1>1, <1>2, <2>1 DEF GoesOnInv, SameRequest
<1> QED
  BY <1>3, <1>4 DEF FrameInv

\* No published slot is beyond the cursor.
LEMMA LastAtCursor ==
  ASSUME Base, NEW h \in Int, h >= cursor
  PROVE  \A m, t : Last(m, t, h) <=> Last(m, t, cursor)
<1>1. \A k \in DOMAIN cmds : k <= cursor /\ k \in Int /\ cursor \in Int
  BY WordTypes DEF Base, Typed, ClientType
<1>2. \A k \in DOMAIN cmds : k <= h
  BY <1>1
<1> QED
  BY <1>1, <1>2 DEF Last, Frame

\* A claim publishes nothing, and the client has written what it had.
LEMMA ClaimKeepsFrames ==
  ASSUME Base, FrameInv, NEW c \in Clients, NEW f, NEW r, NEW offset,
         ClaimStep(c, f, r, offset)
  PROVE  FrameInv'
<1>1. /\ cmds' = cmds /\ offset \in Nat
      /\ \/ client[c] = Idle /\ offset = 0
         \/ /\ client[c].step = "between" /\ client[c].f = f
            /\ offset = Written(c) /\ offset > 0
      /\ Claim(c, f, r, offset)
  BY DEF ClaimStep
<1>2. /\ client' = [client EXCEPT ![c] = Claimed(c, f, r, offset)]
      /\ PartsOf(Fragment(f, r, offset, c), c, f, r, offset)
  BY ClaimStepKeepsBase
<1>3. client \in [Clients -> ClientState] /\ cursor \in Int
  BY DEF Base, Typed, ClientType
<1>4. cursor' \in Int /\ cursor' >= cursor
  <2>1. cursor' = cursor + Len(Fragment(f, r, offset, c)) /\ Len(Fragment(f, r, offset, c)) \in Nat
    BY <1>1, <1>2 DEF Claim, PartsOf
  <2> QED
    BY <1>3, <2>1
<1>5. /\ \A d \in Clients : d # c => client'[d] = client[d]
      /\ client'[c].step = "claimed" /\ client'[c].f = f /\ client'[c].low = cursor + 1
      /\ client'[c].offset = offset /\ client'[c] # Idle
  BY <1>2, <1>3 DEF Claimed, Idle
<1>6. \A n, t : Frame(n, t)' <=> Frame(n, t)
  BY <1>1 DEF Frame
<1>7. \A m, t, h : Last(m, t, h)' <=> Last(m, t, h)
  BY <1>1, <1>6 DEF Last
<1>8. \A m, t : Last(m, t, cursor') <=> Last(m, t, cursor)
  BY <1>4, LastAtCursor
<1>9. \A m, t : Last(m, t, cursor)' <=> Last(m, t, cursor)
  BY <1>1, <1>6, <1>8 DEF Last
<1>10. ASSUME NEW n \in DOMAIN cmds' PROVE FollowsInv(n)'
  <2>1. FollowsInv(n)
    BY <1>1 DEF FrameInv
  <2> QED
    BY <1>1, <1>7, <2>1 DEF FollowsInv
<1>11. ASSUME NEW d \in Clients PROVE GoesOnInv(d)'
  <2>1. GoesOnInv(d)
    BY DEF FrameInv
  <2>2. CASE d = c
    <3>1. Written(c)' = offset
      BY <1>5 DEF Written
    <3>2. offset > 0 => client[c] # Idle /\ client[c].f = f /\ Written(c) = offset
      BY <1>1 DEF Idle
    <3>3. ~(offset > 0) => client[c] = Idle
      BY <1>1
    <3>4. \A n \in DOMAIN cmds : n < cursor + 1
      BY <1>3 DEF Base, Typed, ClientType
    <3>5. offset > 0 =>
            \E m \in DOMAIN cmds : Last(m, c, cursor) /\ cmds[m].word = <<f, offset>>
      BY <2>1, <2>2, <3>2 DEF GoesOnInv
    <3>6. ~(offset > 0) => \A m \in DOMAIN cmds : Last(m, c, cursor) => cmds[m].symbol = -1
      BY <2>1, <2>2, <3>3 DEF GoesOnInv
    <3>7. offset = 0 <=> ~(offset > 0)
      BY <1>1
    <3> QED
      BY <1>1, <1>5, <1>9, <2>2, <3>1, <3>4, <3>5, <3>6, <3>7 DEF GoesOnInv
  <2>3. CASE d # c
    <3>1. client'[d] = client[d] /\ Written(d)' = Written(d) /\ (InFlight(d)' <=> InFlight(d))
      BY <1>5, <2>3 DEF Written, InFlight
    <3> QED
      BY <1>1, <1>6, <1>9, <2>1, <3>1 DEF GoesOnInv
  <2> QED
    BY <2>2, <2>3
<1> QED
  BY <1>10, <1>11 DEF FrameInv

\* The frames a client publishes follow its last one.
LEMMA PublishKeepsFrames ==
  ASSUME Base, FrameInv, NEW c \in Clients, Publish(c)
  PROVE  FrameInv'
<1> DEFINE s == client[c]
           t == AfterFragment(s)
           new == s.low .. High(c)
<1>1. /\ s.step = "filed" /\ InFlight(c)
      /\ DOMAIN cmds' = DOMAIN cmds \cup new
      /\ \A n \in DOMAIN cmds : cmds'[n] = cmds[n]
      /\ \A n \in new : cmds'[n] = s.fragment[n - s.low + 1]
      /\ client' = [client EXCEPT ![c] = t] /\ cursor' = cursor
  BY PublishFacts
<1>2. /\ s # Idle /\ s.f \in Nat \ {0} /\ s.offset \in Nat /\ s.low \in Nat
      /\ Len(s.fragment) \in Nat \ {0} /\ s.r \in Requests /\ s.r.frames \in Nat
      /\ High(c) \in Nat /\ High(c) <= cursor /\ High(c) = s.low + Len(s.fragment) - 1
      /\ cursor \in Nat /\ s.low <= High(c)
      /\ \A n \in new : n \notin DOMAIN cmds /\ n \in Nat
      /\ s.offset > 0 => s.r.kind \in MessageKinds
      /\ PartsOf(s.fragment, c, s.f, s.r, s.offset)
  BY <1>1, FlightFacts, RequestsAssumption
<1>3. \A n \in new : LET i == s.offset + (n - s.low + 1) IN
        /\ i \in Nat /\ i >= 1 /\ cmds'[n].word = <<s.f, i>>
        /\ cmds'[n].word[1] = s.f /\ cmds'[n].word[2] = i
        /\ IsPart(cmds'[n], s.r, s.f, i)
        /\ s.r.kind \in MessageKinds => cmds'[n].userCookie = c
  <2> SUFFICES ASSUME NEW n \in new
               PROVE LET i == s.offset + (n - s.low + 1) IN
                       /\ i \in Nat /\ i >= 1 /\ cmds'[n].word = <<s.f, i>>
                       /\ cmds'[n].word[1] = s.f /\ cmds'[n].word[2] = i
                       /\ IsPart(cmds'[n], s.r, s.f, i)
                       /\ s.r.kind \in MessageKinds => cmds'[n].userCookie = c
    OBVIOUS
  <2>1. /\ n - s.low + 1 \in 1 .. Len(s.fragment)
        /\ cmds'[n].word = <<s.f, s.offset + (n - s.low + 1)>>
        /\ cmds'[n].word[1] = s.f /\ cmds'[n].word[2] = s.offset + (n - s.low + 1)
        /\ IsPart(cmds'[n], s.r, s.f, s.offset + (n - s.low + 1))
        /\ s.r.kind \in MessageKinds => cmds'[n].userCookie = c
    BY <1>1, PublishedPart
  <2>2. s.offset \in Nat
    BY <1>2
  <2> HIDE DEF s
  <2>3. PICK o \in Nat : o = s.offset
    BY <2>2
  <2>4. PICK j \in Nat \ {0} : j = n - s.low + 1
    BY <2>1
  <2>5. o + j \in Nat /\ o + j >= 1
    OBVIOUS
  <2>6. s.offset + (n - s.low + 1) = o + j
    BY <2>3, <2>4
  <2> QED
    BY <2>1, <2>5, <2>6
<1>4. \A n \in DOMAIN cmds' : n \in DOMAIN cmds \/ n \in new
  BY <1>1
<1>5. \A n \in DOMAIN cmds : n \in Nat /\ (n < s.low \/ n > High(c))
  BY <1>1, WordTypes DEF Base, Typed, ApartInv
<1>6. \A n \in DOMAIN cmds : Frame(n, c) => n < s.low
  BY <1>1 DEF FrameInv, GoesOnInv
<1>7. s.r.kind \notin MessageKinds => \A n \in new : cmds'[n].command \notin Messages
  <2> SUFFICES ASSUME s.r.kind \notin MessageKinds, NEW n \in new
               PROVE  cmds'[n].command \notin Messages
    OBVIOUS
  <2>1. CommandOf(s.r.kind) \notin Messages
    BY DEF CommandOf, Messages
  <2> QED
    BY <1>3, <2>1 DEF IsPart, Messages
<1>8. s.r.kind \in MessageKinds => \A n \in new : cmds'[n].command \in Messages /\ cmds'[n].userCookie = c
  BY <1>3 DEF IsPart, Messages
<1>9. \A n \in DOMAIN cmds : \A u : Frame(n, u)' <=> Frame(n, u)
  BY <1>1 DEF Frame
<1>10. \A n \in new : \A u : Frame(n, u)' <=> s.r.kind \in MessageKinds /\ u = c
  BY <1>1, <1>7, <1>8 DEF Frame
<1> HIDE DEF t
<1>11. client \in [Clients -> ClientState]
  BY DEF Base, Typed, ClientType
<1>12. client'[c] = t /\ \A d \in Clients : d # c => client'[d] = client[d]
  BY <1>1, <1>11
\* What was last before an old frame, or of another client, still is.
<1>13. ASSUME NEW m, NEW u, NEW h, u # c \/ s.r.kind \notin MessageKinds \/ h < s.low, h \in Int
       PROVE  Last(m, u, h)' <=> Last(m, u, h)
  <2>1. \A n \in new : ~(Frame(n, u)' /\ n <= h)
    BY <1>2, <1>10, <1>13
  <2>2. \A n : Frame(n, u)' => n \in DOMAIN cmds \/ n \in new
    BY <1>4 DEF Frame
  <2>3. \A n : Frame(n, u)' /\ n <= h <=> Frame(n, u) /\ n <= h
    <3>1. \A n : Frame(n, u) => n \in DOMAIN cmds
      BY DEF Frame
    <3> QED
      BY <1>9, <2>1, <2>2, <3>1
  <2>4. \A n, d : Frame(n, d) => n \in DOMAIN cmds /\ n \in DOMAIN cmds'
    BY <1>1 DEF Frame
  <2>5. \A n, d : Frame(n, d)' => n \in DOMAIN cmds'
    BY DEF Frame
  <2> QED
    BY <2>3, <2>4, <2>5 DEF Last
<1>14. ASSUME NEW n \in DOMAIN cmds PROVE FollowsInv(n)'
  <2> SUFFICES ASSUME cmds[n].command \in Messages PROVE FollowsInv(n)'
    BY <1>1 DEF FollowsInv
  <2> DEFINE u == cmds[n].userCookie
  <2>1. FollowsInv(n) /\ cmds'[n] = cmds[n] /\ Frame(n, u) /\ n \in Nat
    BY <1>1, <1>5 DEF FrameInv, Frame
  <2>2. u = c => n - 1 < s.low
    BY <1>2, <1>6, <2>1
  <2>3. \A m : Last(m, u, n - 1)' <=> Last(m, u, n - 1)
    BY <1>13, <2>1, <2>2
  <2>4. \A m, h : Last(m, u, h) => m \in DOMAIN cmds
    BY DEF Last, Frame
  <2> QED
    BY <1>1, <2>1, <2>3, <2>4 DEF FollowsInv
\* Before the first new frame comes what the client was going on with.
<1>15. ASSUME NEW b, b = s.low - 1 PROVE \A m : Last(m, c, b)' <=> Last(m, c, cursor)
  <2>1. \A k : Frame(k, c) => k <= s.low - 1 /\ k <= cursor
    <3> SUFFICES ASSUME NEW k, Frame(k, c) PROVE k <= s.low - 1 /\ k <= cursor
      OBVIOUS
    <3>1. k \in DOMAIN cmds /\ k \in Nat /\ k < s.low
      BY <1>5, <1>6 DEF Frame
    <3> HIDE DEF s
    <3> QED
      BY <1>2, <3>1
  <2>2. \A m : Last(m, c, b) <=> Last(m, c, cursor)
    BY <1>15, <2>1 DEF Last
  <2>3. b < s.low /\ b \in Int
    BY <1>2, <1>15
  <2>4. \A m : Last(m, c, b)' <=> Last(m, c, b)
    BY <1>13, <2>3
  <2> QED
    BY <2>2, <2>4
<1>16. ASSUME NEW n \in new PROVE FollowsInv(n)'
  <2> SUFFICES ASSUME s.r.kind \in MessageKinds PROVE FollowsInv(n)'
    BY <1>7 DEF FollowsInv
  <2> DEFINE i == s.offset + (n - s.low + 1)
  <2>1. /\ i \in Nat /\ i >= 1 /\ cmds'[n].word = <<s.f, i>>
        /\ cmds'[n].word[1] = s.f /\ cmds'[n].word[2] = i /\ cmds'[n].userCookie = c
        /\ n \in Nat /\ s.low <= n /\ n <= High(c)
    BY <1>2, <1>3
  <2>0. s.low \in Nat /\ s.offset \in Nat /\ High(c) \in Nat /\ Len(s.fragment) \in Nat
    BY <1>2
  <2>2. CASE n > s.low
    <3>1. n - 1 \in new /\ i > 1 /\ i # 1
      <4> HIDE DEF s
      <4> QED
        BY <2>0, <2>1, <2>2
    <3>2. Frame(n - 1, c)' /\ n - 1 \in DOMAIN cmds'
      BY <1>1, <1>10, <3>1
    <3>3. Last(n - 1, c, n - 1)'
      BY <2>1, <3>2 DEF Last
    <3>4. s.offset + ((n - 1) - s.low + 1) = i - 1
      <4>1. PICK o \in Nat : o = s.offset
        BY <2>0
      <4>2. PICK lo \in Nat : lo = s.low
        BY <2>0
      <4>3. PICK m \in Nat : m = n
        BY <2>1
      <4>4. i = o + (m - lo + 1)
        BY <4>1, <4>2, <4>3
      <4>5. o + ((m - 1) - lo + 1) = (o + (m - lo + 1)) - 1
        OBVIOUS
      <4> QED
        BY <4>1, <4>2, <4>3, <4>4, <4>5
    <3>5. cmds'[n - 1].word = <<s.f, i - 1>>
      BY <1>3, <3>1, <3>4
    <3> HIDE DEF i, s
    <3> QED
      BY <2>1, <3>1, <3>2, <3>3, <3>5 DEF FollowsInv
  <2>3. CASE n = s.low
    <3>1. i = s.offset + 1 /\ n - 1 = s.low - 1
      BY <1>2, <2>3
    <3>0. \A m : Last(m, c, n - 1)' <=> Last(m, c, cursor)
      <4>1. PICK b : b = n - 1
        OBVIOUS
      <4>2. \A m : Last(m, c, b)' <=> Last(m, c, cursor)
        BY <1>15, <3>1, <4>1
      <4> QED
        BY <4>1, <4>2
    <3>2. Written(c) = s.offset /\ GoesOnInv(c)
      BY <1>1 DEF Written, FrameInv
    <3>3. i > 1 => \E m \in DOMAIN cmds : Last(m, c, cursor) /\ cmds[m].word = <<s.f, s.offset>>
      BY <1>2, <3>1, <3>2 DEF GoesOnInv
    <3>4. i = 1 => \A m \in DOMAIN cmds : Last(m, c, cursor) => cmds[m].symbol = -1
      BY <1>2, <3>1, <3>2 DEF GoesOnInv
    <3>5. \A m : Last(m, c, cursor) => m \in DOMAIN cmds
      BY DEF Last, Frame
    <3>6. i > 1 => \E m \in DOMAIN cmds' : Last(m, c, n - 1)' /\ cmds'[m].word = <<s.f, i - 1>>
      <4>1. i - 1 = s.offset
        BY <1>2, <3>1
      <4> QED
        BY <1>1, <3>0, <3>3, <4>1
    <3>7. i = 1 => \A m \in DOMAIN cmds' : Last(m, c, n - 1)' => cmds'[m].symbol = -1
      BY <1>1, <3>0, <3>4, <3>5
    <3> HIDE DEF i, s
    <3> QED
      BY <2>1, <3>6, <3>7 DEF FollowsInv
  <2> QED
    BY <1>2, <2>1, <2>2, <2>3
<1>17. ASSUME NEW d \in Clients, d # c PROVE GoesOnInv(d)'
  <2>1. GoesOnInv(d)
    BY DEF FrameInv
  <2>2. client'[d] = client[d] /\ Written(d)' = Written(d) /\ (InFlight(d)' <=> InFlight(d))
    BY <1>12, <1>17 DEF Written, InFlight
  <2>3. \A m : Last(m, d, cursor)' <=> Last(m, d, cursor)
    <3>1. \A m : Last(m, d, cursor') <=> Last(m, d, cursor)
      BY <1>1
    <3>2. cursor \in Int
      BY <1>2
    <3>3. PICK h \in Int : h = cursor
      BY <3>2
    <3>4. \A m : Last(m, d, h)' <=> Last(m, d, h)
      BY <1>13, <1>17
    <3> QED
      BY <1>1, <3>3, <3>4 DEF Last
  <2>4. \A n : Frame(n, d)' <=> Frame(n, d)
    BY <1>4, <1>9, <1>10, <1>17 DEF Frame
  <2>5. \A m : Frame(m, d) => m \in DOMAIN cmds
    BY DEF Frame
  <2>6. \A m : Last(m, d, cursor) => m \in DOMAIN cmds
    BY DEF Last, Frame
  <2> QED
    BY <1>1, <2>1, <2>2, <2>3, <2>4, <2>5, <2>6 DEF GoesOnInv
<1>18. /\ t # Idle => /\ s.r.kind \in MessageKinds /\ t.step = "between" /\ t.f = s.f
                      /\ Written(c)' = s.offset + Len(s.fragment)
       /\ t = Idle /\ s.r.kind \in MessageKinds => s.offset + Len(s.fragment) = s.r.frames
       /\ ~InFlight(c)'
  <2>1. CASE IsLastFragment(s.fragment)
    <3>1. t = Idle
      BY <1>1, <2>1, AfterFacts DEF t
    <3>2. s.r.kind \in MessageKinds => s.offset + Len(s.fragment) = s.r.frames
      BY <1>2, <2>1 DEF PartsOf
    <3>3. ~InFlight(c)'
      BY <1>12, <3>1 DEF InFlight, Idle
    <3> QED
      BY <3>1, <3>2, <3>3
  <2>2. CASE ~IsLastFragment(s.fragment)
    <3>1. /\ t # Idle /\ t.step = "between" /\ t.f = s.f /\ t.offset = s.offset
          /\ s.r.kind \in MessageKinds /\ Len(s.fragment) = FragmentSize
      BY <1>1, <2>2, AfterFacts DEF t
    <3>2. Written(c)' = s.offset + Len(s.fragment) /\ ~InFlight(c)'
      BY <1>12, <3>1 DEF Written, InFlight
    <3> QED
      BY <3>1, <3>2
  <2> QED
    BY <2>1, <2>2
<1>19. GoesOnInv(c)'
  <2>1. CASE s.r.kind \in MessageKinds
    <3> DEFINE i == s.offset + Len(s.fragment)
    <3>0. PICK z : z = High(c)
      OBVIOUS
    <3>1. z \in new /\ s.offset + (z - s.low + 1) = i /\ i > 0
      <4>1. /\ s.low \in Nat /\ s.offset \in Nat /\ Len(s.fragment) \in Nat \ {0}
            /\ High(c) = s.low + Len(s.fragment) - 1
        BY <1>2
      <4>2. z \in Int /\ s.low <= z /\ z <= High(c)
        BY <3>0, <4>1
      <4>3. s.offset + (z - s.low + 1) = i /\ i > 0
        BY <3>0, <4>1
      <4> HIDE DEF s, i
      <4> QED
        BY <4>1, <4>2, <4>3
    <3>2. cmds'[z].word = <<s.f, i>> /\ IsPart(cmds'[z], s.r, s.f, i)
      BY <1>3, <3>1
    <3>3. \A m : Last(m, c, cursor)' <=> m = z
      <4>1. Frame(z, c)' /\ z <= cursor
        BY <1>2, <1>10, <2>1, <3>0, <3>1
      <4>2. \A k : Frame(k, c)' => k <= z /\ k \in Nat
        <5> SUFFICES ASSUME NEW k, Frame(k, c)' PROVE k <= z /\ k \in Nat
          OBVIOUS
        <5>1. CASE k \in DOMAIN cmds
          <6>1. k \in Nat /\ k < s.low
            BY <1>5, <1>6, <1>9, <5>1
          <6> HIDE DEF s
          <6> QED
            BY <1>2, <3>0, <6>1
        <5>2. CASE k \in new
          BY <1>2, <3>0, <5>2
        <5> QED
          BY <1>4, <5>1, <5>2 DEF Frame
      <4>3. z \in Nat /\ \A k \in DOMAIN cmds' : Frame(k, c)' => k <= z
        BY <1>2, <3>0, <4>2
      <4>4. \A m : Last(m, c, cursor)' => m <= z /\ z <= m /\ m \in Nat
        <5> SUFFICES ASSUME NEW m, Last(m, c, cursor)' PROVE m <= z /\ z <= m /\ m \in Nat
          OBVIOUS
        <5>1. Frame(m, c)'
          BY DEF Last
        <5>2. z \in DOMAIN cmds' /\ z <= cursor'
          BY <1>1, <3>1, <4>1
        <5>3. z <= m
          BY <4>1, <5>2 DEF Last
        <5> QED
          BY <4>2, <5>1, <5>3
      <4>5. Last(z, c, cursor)'
        <5>1. z <= cursor'
          BY <1>1, <4>1
        <5> QED
          BY <4>1, <4>3, <5>1 DEF Last
      <4> QED
        BY <4>3, <4>4, <4>5
    <3>4. z \in DOMAIN cmds'
      BY <1>1, <3>1
    <3>5. t = Idle => cmds'[z].symbol = -1
      <4>1. t = Idle => i = s.r.frames
        BY <1>18, <2>1
      <4> QED
        BY <2>1, <3>2, <4>1 DEF IsPart
    <3>6. t # Idle => Written(c)' = i /\ t.f = s.f
      BY <1>18
    <3> HIDE DEF i
    <3> QED
      BY <1>12, <1>18, <3>1, <3>2, <3>3, <3>4, <3>5, <3>6 DEF GoesOnInv
  <2>2. CASE s.r.kind \notin MessageKinds
    <3>1. t = Idle /\ s.offset = 0 /\ Written(c) = 0
      BY <1>1, <1>2, <1>18, <2>2 DEF Written
    <3>2. \A m \in DOMAIN cmds : Last(m, c, cursor) => cmds[m].symbol = -1
      BY <3>1 DEF FrameInv, GoesOnInv
    <3>3. PICK h \in Int : h = cursor
      BY <1>2
    <3>4. \A m : Last(m, c, h)' <=> Last(m, c, h)
      BY <1>13, <2>2
    <3>5. \A m : Last(m, c, cursor)' <=> Last(m, c, cursor)
      BY <1>1, <3>3, <3>4 DEF Last
    <3>6. \A m : Last(m, c, cursor) => m \in DOMAIN cmds
      BY DEF Last, Frame
    <3> QED
      BY <1>1, <1>12, <1>18, <3>1, <3>2, <3>5, <3>6 DEF GoesOnInv
  <2> QED
    BY <2>1, <2>2
<1>20. \A n \in DOMAIN cmds' : FollowsInv(n)'
  BY <1>4, <1>14, <1>16
<1>21. \A d \in Clients : GoesOnInv(d)'
  BY <1>17, <1>19
<1> QED
  BY <1>20, <1>21 DEF FrameInv

\* Every step keeps the frames of a client in the order of its messages.
LEMMA FrameNext ==
  ASSUME Base, FrameInv, [Next]_vars
  PROVE  FrameInv'
<1>1. CASE UNCHANGED vars
  BY <1>1, SameFrames DEF vars, clients, SameRequest, Written, InFlight
<1>2. CASE \E c \in Clients : \E f, r, offset : ClaimStep(c, f, r, offset)
  BY <1>2, ClaimKeepsFrames
<1>3. CASE \E c \in Clients : FilePromises(c)
  BY <1>3, FileFacts, FileKeepsBase, SameFrames DEF SameRequest
<1>4. CASE \E c \in Clients : Publish(c)
  BY <1>4, PublishKeepsFrames
<1>5. CASE \E e \in Engines : EngineAction(e)
  <2>1. PICK e \in Engines : EngineAction(e)
    BY <1>5
  <2>2. PICK n : EngineStep(e, n)
    BY <2>1, EngineSteps DEF Base
  <2> QED
    BY <2>2, SameFrames DEF EngineStep, clients, Written, InFlight, SameRequest
<1>6. CASE ProcessResult
  BY <1>6, SameFrames DEF ProcessResult, clients, Written, InFlight, SameRequest
<1> QED
  BY <1>1, <1>2, <1>3, <1>4, <1>5, <1>6, NextCases

\* Nothing is published in the beginning.
LEMMA InitFrames ==
  ASSUME Init
  PROVE  FrameInv
  BY DEF Init, FrameInv, GoesOnInv, Frame, Last, InFlight, Idle

-----------------------------------------------------------------------------
(***************************************************************************)
(* Messages.  What an engine that has seen the frames up to h has put      *)
(* together: the words of every message that goes on, and, in order, the   *)
(* messages that have ended.                                               *)
(***************************************************************************)
Words(w) == [j \in 1 .. w[2] |-> <<w[1], j>>]

IsEnd(n) == n \in DOMAIN cmds /\ cmds[n].command \in Messages /\ cmds[n].symbol = -1
Ends(n) == {k \in 0 .. n : IsEnd(k)}
Rank(n) == Cardinality(Ends(n))

Assembled(records, done, h) ==
  /\ \A t \in DOMAIN records :
       \E m \in DOMAIN cmds : /\ Last(m, t, h) /\ cmds[m].symbol # -1
                              /\ records[t] = Words(cmds[m].word)
  /\ \A m \in DOMAIN cmds : \A t :
       Last(m, t, h) /\ t \notin DOMAIN records => cmds[m].symbol = -1
  /\ done \in Seq(Seq(Word)) /\ Len(done) = Rank(h)
  /\ \A i \in 1 .. Len(done) :
       \E n \in DOMAIN cmds : /\ IsEnd(n) /\ n <= h /\ Rank(n) = i
                              /\ done[i] = Words(cmds[n].word)

\* The frames engine e has seen.
UpTo(e) == IF writing[e].field = "matcherEvent" THEN handled[e] + 1 ELSE handled[e]

AssemblyInv == \A e \in Engines : Assembled(incomingData[e], completed[e], UpTo(e))

\* Counting the ends.
LEMMA RankNext ==
  ASSUME NEW n \in Nat
  PROVE  /\ Rank(n) \in Nat /\ Rank(n - 1) \in Nat
         /\ IsEnd(n) => Rank(n) = Rank(n - 1) + 1
         /\ ~IsEnd(n) => Rank(n) = Rank(n - 1)
<1>1. \A k \in Int : IsFiniteSet(Ends(k)) /\ Rank(k) \in Nat
  <2> SUFFICES ASSUME NEW k \in Int PROVE IsFiniteSet(Ends(k)) /\ Rank(k) \in Nat
    OBVIOUS
  <2>1. IsFiniteSet(0 .. k)
    BY FS_Interval
  <2>2. IsFiniteSet(Ends(k))
    BY <2>1, FS_Subset DEF Ends
  <2> QED
    BY <2>2, FS_CardinalityType DEF Rank
<1>2. n \notin Ends(n - 1)
  BY DEF Ends
<1>3. 0 .. n = 0 .. (n - 1) \cup {n}
  OBVIOUS
<1>4. IsEnd(n) => Ends(n) = Ends(n - 1) \cup {n}
  BY <1>3 DEF Ends
<1>5. ~IsEnd(n) => Ends(n) = Ends(n - 1)
  BY <1>3 DEF Ends
<1>6. IsEnd(n) => Rank(n) = Rank(n - 1) + 1
  <2>1. n - 1 \in Int
    OBVIOUS
  <2>2. IsFiniteSet(Ends(n - 1))
    BY <1>1, <2>1
  <2>3. Cardinality(Ends(n - 1) \cup {n}) = Cardinality(Ends(n - 1)) + 1
    BY <1>2, <2>2, FS_AddElement
  <2> QED
    BY <1>4, <2>3 DEF Rank
<1> QED
  BY <1>1, <1>5, <1>6 DEF Rank

\* The rank grows with the sequence, at every end.
LEMMA RankMonotone ==
  ASSUME NEW m \in Int, NEW n \in Int, m <= n
  PROVE  /\ Rank(m) \in Nat /\ Rank(n) \in Nat /\ Rank(m) <= Rank(n)
         /\ IsEnd(n) /\ n >= 0 /\ m < n => Rank(m) < Rank(n)
<1>1. \A k \in Int : IsFiniteSet(Ends(k)) /\ Rank(k) \in Nat
  <2> SUFFICES ASSUME NEW k \in Int PROVE IsFiniteSet(Ends(k)) /\ Rank(k) \in Nat
    OBVIOUS
  <2>1. IsFiniteSet(0 .. k)
    BY FS_Interval
  <2>2. IsFiniteSet(Ends(k))
    BY <2>1, FS_Subset DEF Ends
  <2> QED
    BY <2>2, FS_CardinalityType DEF Rank
<1>2. \A k \in Int : k <= n => Ends(k) \subseteq Ends(n)
  BY DEF Ends
<1>3. \A k \in Int : k <= n => Rank(k) <= Rank(n)
  BY <1>1, <1>2, FS_Subset DEF Rank
<1>4. ASSUME IsEnd(n), n >= 0, m < n PROVE Rank(m) < Rank(n)
  <2>1. n \in Nat /\ m <= n - 1
    BY <1>4
  <2>2. Rank(n) = Rank(n - 1) + 1 /\ Rank(n - 1) \in Nat
    BY <1>4, <2>1, RankNext
  <2>3. Ends(m) \subseteq Ends(n - 1)
    BY <2>1 DEF Ends
  <2>4. Rank(m) <= Rank(n - 1)
    BY <1>1, <2>1, <2>3, FS_Subset DEF Rank
  <2> QED
    BY <1>1, <2>2, <2>4
<1> QED
  BY <1>1, <1>3, <1>4

\* Ends of the same rank are the same.
LEMMA EndsDiffer ==
  ASSUME Base, NEW m, NEW n, IsEnd(m), IsEnd(n), Rank(m) = Rank(n)
  PROVE  m = n
<1>1. m \in Nat /\ n \in Nat
  BY WordTypes DEF IsEnd, Base, Typed
<1>2. m < n => Rank(m) < Rank(n) /\ Rank(m) \in Nat
  BY <1>1, RankMonotone
<1>3. n < m => Rank(n) < Rank(m) /\ Rank(n) \in Nat
  BY <1>1, RankMonotone
<1> QED
  BY <1>1, <1>2, <1>3

\* Words one after the other.
LEMMA WordsAppend ==
  ASSUME NEW f \in Nat, NEW i \in Nat, i >= 1
  PROVE  /\ Append(Words(<<f, i - 1>>), <<f, i>>) = Words(<<f, i>>)
         /\ Words(<<f, i>>) \in Seq(Word) /\ Len(Words(<<f, i>>)) = i
         /\ Words(<<f, i>>)[1] = <<f, 1>>
         /\ i = 1 => <<<<f, i>>>> = Words(<<f, i>>)
<1>1. \A k \in Nat : Words(<<f, k>>) = [j \in 1 .. k |-> <<f, j>>]
  <2> SUFFICES ASSUME NEW k \in Nat PROVE Words(<<f, k>>) = [j \in 1 .. k |-> <<f, j>>]
    OBVIOUS
  <2>1. <<f, k>>[1] = f /\ <<f, k>>[2] = k
    OBVIOUS
  <2> QED
    BY <2>1 DEF Words
<1>2. \A k \in Nat : Words(<<f, k>>) \in [1 .. k -> Word]
  <2> SUFFICES ASSUME NEW k \in Nat PROVE Words(<<f, k>>) \in [1 .. k -> Word]
    OBVIOUS
  <2>1. \A j \in 1 .. k : <<f, j>> \in Word
    BY DEF Word
  <2> QED
    BY <1>1, <2>1
<1>3. \A k \in Nat : Words(<<f, k>>) \in Seq(Word) /\ Len(Words(<<f, k>>)) = k
                     /\ DOMAIN Words(<<f, k>>) = 1 .. k
  BY <1>2, FunctionIsSeq
<1> DEFINE s == Words(<<f, i - 1>>)
           x == <<f, i>>
<1>4. i - 1 \in Nat /\ x \in Word
  BY DEF Word
<1>5. s \in Seq(Word) /\ Len(s) = i - 1 /\ \A j \in 1 .. i - 1 : s[j] = <<f, j>>
  BY <1>1, <1>3, <1>4
<1> HIDE DEF s, x
<1>6. /\ DOMAIN Append(s, x) = 1 .. i /\ Append(s, x)[i] = x
      /\ \A j \in 1 .. i - 1 : Append(s, x)[j] = <<f, j>>
      /\ Append(s, x) \in Seq(Word)
  BY <1>4, <1>5, AppendElements
<1>7. Append(s, x) = [j \in DOMAIN Append(s, x) |-> Append(s, x)[j]]
  <2>1. Append(s, x) \in [1 .. Len(Append(s, x)) -> Word]
    BY <1>6, LenProperties
  <2> QED
    BY <2>1
<1>8. \A j \in 1 .. i : Append(s, x)[j] = <<f, j>>
  BY <1>6 DEF x
<1>9. Append(s, x) = Words(<<f, i>>)
  BY <1>1, <1>6, <1>7, <1>8
<1>10. Words(<<f, i>>)[1] = <<f, 1>>
  <2>1. Words(<<f, i>>) = [j \in 1 .. i |-> <<f, j>>] /\ 1 \in 1 .. i
    BY <1>1
  <2> QED
    BY <2>1
<1>11. i = 1 => <<<<f, i>>>> = Words(<<f, i>>)
  <2> SUFFICES ASSUME i = 1 PROVE <<<<f, 1>>>> = Words(<<f, 1>>)
    OBVIOUS
  <2>1. Words(<<f, 1>>) = [j \in 1 .. 1 |-> <<f, j>>]
    BY <1>1
  <2> QED
    BY <2>1
<1> QED
  BY <1>3, <1>9, <1>10, <1>11 DEF s, x

\* An engine goes on with the words it has, and begins with a first frame.
LEMMA TransferredWords ==
  ASSUME Base, FrameInv, NEW e \in Engines, NEW done, NEW n \in DOMAIN cmds,
         cmds[n].command \in Messages, Assembled(incomingData[e], done, n - 1)
  PROVE  /\ Transferred(e, cmds[n]) = Words(cmds[n].word)
         /\ Words(cmds[n].word) \in Seq(Word)
         /\ Words(cmds[n].word)[1] = <<cmds[n].word[1], 1>>
<1> DEFINE t == cmds[n].userCookie
           f == cmds[n].word[1]
           i == cmds[n].word[2]
           records == incomingData[e]
<1>1. /\ i \in Nat /\ f \in Nat /\ cmds[n].word = <<f, i>>
      /\ i <= requests[f].frames /\ requests[f].frames \in Nat
  BY FrameFacts
<1>2. /\ i >= 1
      /\ i > 1 => \E m \in DOMAIN cmds : Last(m, t, n - 1) /\ cmds[m].word = <<f, i - 1>>
      /\ i = 1 => \A m \in DOMAIN cmds : Last(m, t, n - 1) => cmds[m].symbol = -1
  BY DEF FrameInv, FollowsInv
<1>3. /\ Words(<<f, i>>) \in Seq(Word) /\ Words(<<f, i>>)[1] = <<f, 1>>
      /\ Append(Words(<<f, i - 1>>), <<f, i>>) = Words(<<f, i>>)
      /\ i = 1 => <<<<f, i>>>> = Words(<<f, i>>)
  BY <1>1, <1>2, WordsAppend
<1>4. CASE t \in DOMAIN records
  <2>1. PICK m \in DOMAIN cmds : /\ Last(m, t, n - 1) /\ cmds[m].symbol # -1
                                 /\ records[t] = Words(cmds[m].word)
    BY <1>4 DEF Assembled
  <2>2. i > 1
    BY <1>1, <1>2, <2>1
  <2>3. cmds[m].word = <<f, i - 1>>
    BY <1>2, <2>1, <2>2, LastIsUnique
  <2>4. Transferred(e, cmds[n]) = Append(records[t], cmds[n].word)
    BY <1>4 DEF Transferred
  <2> HIDE DEF f, i, records
  <2> QED
    BY <1>1, <1>3, <2>1, <2>3, <2>4 DEF f
<1>5. CASE t \notin DOMAIN records
  <2>1. ~(i > 1)
    <3> SUFFICES ASSUME i > 1 PROVE FALSE
      OBVIOUS
    <3>1. PICK m \in DOMAIN cmds : Last(m, t, n - 1) /\ cmds[m].word = <<f, i - 1>>
      BY <1>2
    <3>2. cmds[m].symbol = -1 /\ cmds[m].command \in Messages
      BY <1>5, <3>1 DEF Assembled, Last, Frame
    <3>3. cmds[m].word[2] = requests[cmds[m].word[1]].frames
      BY <3>2, FrameFacts
    <3> HIDE DEF f, i
    <3>4. cmds[m].word[1] = f /\ cmds[m].word[2] = i - 1
      BY <3>1
    <3> QED
      BY <1>1, <3>3, <3>4
  <2>2. i = 1
    BY <1>1, <1>2, <2>1
  <2>3. Transferred(e, cmds[n]) = <<cmds[n].word>>
    BY <1>5 DEF Transferred
  <2> HIDE DEF f, i
  <2> QED
    BY <1>1, <1>3, <2>2, <2>3 DEF f
<1> QED
  BY <1>4, <1>5

\* Other commands do not matter.
LEMMA AssembledSkip ==
  ASSUME Base, NEW records, NEW done, NEW n \in DOMAIN cmds,
         Assembled(records, done, n - 1), cmds[n].command \notin Messages
  PROVE  Assembled(records, done, n)
<1>1. n \in Nat /\ \A k \in DOMAIN cmds : k \in Nat
  BY WordTypes DEF Base, Typed
<1>2. \A t : ~Frame(n, t)
  BY DEF Frame
<1>3. \A t, m : Last(m, t, n) <=> Last(m, t, n - 1)
  BY <1>1, <1>2, LastUpTo
<1>4. Rank(n) = Rank(n - 1)
  BY <1>1, RankNext DEF IsEnd
<1>5. \A k \in DOMAIN cmds : k <= n - 1 => k <= n
  BY <1>1
<1> QED
  BY <1>3, <1>4, <1>5 DEF Assembled

\* A frame that goes on is added to the words of its message.
LEMMA AssembledFrame ==
  ASSUME Base, FrameInv, NEW e \in Engines, NEW done, NEW n \in DOMAIN cmds,
         cmds[n].command \in Messages, cmds[n].symbol # -1,
         Assembled(incomingData[e], done, n - 1),
         NEW records,
         records = [t \in DOMAIN incomingData[e] \cup {cmds[n].userCookie} |->
                      IF t = cmds[n].userCookie THEN Transferred(e, cmds[n])
                      ELSE incomingData[e][t]]
  PROVE  Assembled(records, done, n)
<1>1. n \in Nat /\ \A k \in DOMAIN cmds : k \in Nat
  BY WordTypes DEF Base, Typed
<1> DEFINE u == cmds[n].userCookie
<1>2. \A t : Frame(n, t) <=> t = u
  BY DEF Frame
<1>3. /\ \A m : Last(m, u, n) <=> m = n
      /\ \A t : t # u => \A m : Last(m, t, n) <=> Last(m, t, n - 1)
  BY <1>1, <1>2, LastUpTo
<1>4. Rank(n) = Rank(n - 1)
  BY <1>1, RankNext DEF IsEnd
<1>5. \A k \in DOMAIN cmds : k <= n - 1 => k <= n
  BY <1>1
<1>6. Transferred(e, cmds[n]) = Words(cmds[n].word)
  BY TransferredWords
<1>7. /\ DOMAIN records = DOMAIN incomingData[e] \cup {u}
      /\ records[u] = Words(cmds[n].word)
      /\ \A t \in DOMAIN incomingData[e] : t # u => records[t] = incomingData[e][t]
  BY <1>6
<1> HIDE DEF u
<1>8. ASSUME NEW t \in DOMAIN records
      PROVE  \E m \in DOMAIN cmds : /\ Last(m, t, n) /\ cmds[m].symbol # -1
                                    /\ records[t] = Words(cmds[m].word)
  <2>1. CASE t = u
    BY <1>3, <1>7, <2>1
  <2>2. CASE t # u
    <3>1. t \in DOMAIN incomingData[e]
      BY <1>7, <1>8, <2>2
    <3>2. PICK m \in DOMAIN cmds : /\ Last(m, t, n - 1) /\ cmds[m].symbol # -1
                                   /\ incomingData[e][t] = Words(cmds[m].word)
      BY <3>1 DEF Assembled
    <3> QED
      BY <1>3, <1>7, <2>2, <3>1, <3>2
  <2> QED
    BY <2>1, <2>2
<1>9. \A m \in DOMAIN cmds : \A t :
        Last(m, t, n) /\ t \notin DOMAIN records => cmds[m].symbol = -1
  BY <1>3, <1>7 DEF Assembled
<1> QED
  BY <1>4, <1>5, <1>8, <1>9 DEF Assembled

\* The end of a message completes it.
LEMMA AssembledEnd ==
  ASSUME Base, FrameInv, NEW e \in Engines, NEW done, NEW n \in DOMAIN cmds,
         cmds[n].command \in Messages, cmds[n].symbol = -1,
         Assembled(incomingData[e], done, n - 1)
  PROVE  Assembled(RecordErased(incomingData[e], cmds[n].userCookie),
                   Append(done, Transferred(e, cmds[n])), n)
<1>1. n \in Nat /\ \A k \in DOMAIN cmds : k \in Nat
  BY WordTypes DEF Base, Typed
<1> DEFINE u == cmds[n].userCookie
           records == RecordErased(incomingData[e], u)
           new == Append(done, Transferred(e, cmds[n]))
<1>2. \A t : Frame(n, t) <=> t = u
  BY DEF Frame
<1>3. /\ \A m : Last(m, u, n) <=> m = n
      /\ \A t : t # u => \A m : Last(m, t, n) <=> Last(m, t, n - 1)
  BY <1>1, <1>2, LastUpTo
<1>4. Rank(n) = Rank(n - 1) + 1 /\ Rank(n - 1) \in Nat /\ IsEnd(n)
  BY <1>1, RankNext DEF IsEnd
<1>5. \A k \in DOMAIN cmds : k <= n - 1 => k <= n
  BY <1>1
<1>6. Transferred(e, cmds[n]) = Words(cmds[n].word) /\ Words(cmds[n].word) \in Seq(Word)
  BY TransferredWords
<1>7. /\ DOMAIN records = DOMAIN incomingData[e] \ {u}
      /\ \A t \in DOMAIN records : records[t] = incomingData[e][t]
  BY DEF RecordErased
<1>8. /\ done \in Seq(Seq(Word)) /\ Len(done) = Rank(n - 1)
      /\ \A i \in 1 .. Len(done) :
           \E k \in DOMAIN cmds : /\ IsEnd(k) /\ k <= n - 1 /\ Rank(k) = i
                                  /\ done[i] = Words(cmds[k].word)
  BY DEF Assembled
<1>9. /\ new \in Seq(Seq(Word)) /\ Len(new) = Len(done) + 1
      /\ \A i \in 1 .. Len(done) : new[i] = done[i]
      /\ new[Len(done) + 1] = Words(cmds[n].word)
  BY <1>6, <1>8, AppendElements
<1> HIDE DEF u, records, new
<1>10. Len(new) = Rank(n)
  BY <1>4, <1>8, <1>9
<1>11. ASSUME NEW i \in 1 .. Len(new)
       PROVE  \E k \in DOMAIN cmds : /\ IsEnd(k) /\ k <= n /\ Rank(k) = i
                                     /\ new[i] = Words(cmds[k].word)
  <2>1. CASE i \in 1 .. Len(done)
    BY <1>5, <1>8, <1>9, <2>1
  <2>2. CASE i = Len(done) + 1
    <3>1. Rank(n) = i /\ n <= n
      BY <1>1, <1>4, <1>8, <2>2
    <3> QED
      BY <1>4, <1>9, <2>2, <3>1
  <2>3. Len(done) \in Nat
    BY <1>4, <1>8
  <2> QED
    BY <1>9, <2>1, <2>2, <2>3
<1>12. ASSUME NEW t \in DOMAIN records
       PROVE  \E m \in DOMAIN cmds : /\ Last(m, t, n) /\ cmds[m].symbol # -1
                                     /\ records[t] = Words(cmds[m].word)
  BY <1>3, <1>7, <1>12 DEF Assembled
<1>13. \A m \in DOMAIN cmds : \A t :
        Last(m, t, n) /\ t \notin DOMAIN records => cmds[m].symbol = -1
  BY <1>3, <1>7 DEF Assembled
<1> QED
  BY <1>9, <1>10, <1>11, <1>12, <1>13 DEF Assembled, records, new, u

\* An engine has only seen published commands.
LEMMA UpToSeen ==
  ASSUME Base, NEW e \in Engines
  PROVE  UpTo(e) \in Int /\ handled[e] \in Int /\ \A k \in 0 .. UpTo(e) : k \in DOMAIN cmds
<1>1. /\ handled[e] \in Int /\ \A k \in 0 .. handled[e] : k \in DOMAIN cmds
      /\ writing[e].field = "matcherEvent" => handled[e] + 1 \in DOMAIN cmds
  BY DEF Base, Typed, EngineType, OrderInv, NoWrite
<1>2. CASE writing[e].field = "matcherEvent"
  <2>1. UpTo(e) = handled[e] + 1
    BY <1>2 DEF UpTo
  <2>2. \A k \in 0 .. handled[e] + 1 : k \in 0 .. handled[e] \/ k = handled[e] + 1
    BY <1>1
  <2> QED
    BY <1>1, <1>2, <2>1, <2>2
<1>3. CASE writing[e].field # "matcherEvent"
  BY <1>1, <1>3 DEF UpTo
<1> QED
  BY <1>2, <1>3

\* What an engine has put together stays right when the slots it has seen stay.
LEMMA AssembledStays ==
  ASSUME Base, NEW e \in Engines, NEW records, NEW done, NEW h \in Int,
         Assembled(records, done, h),
         records = incomingData'[e], done = completed'[e], h = UpTo(e)',
         DOMAIN cmds \subseteq DOMAIN cmds',
         \A k \in DOMAIN cmds : SameRequest(cmds'[k], cmds[k]),
         \A k \in DOMAIN cmds' : k \notin DOMAIN cmds => k \in Nat /\ k > h
  PROVE  Assembled(incomingData[e], completed[e], UpTo(e))'
<1>1. \A k \in DOMAIN cmds : k \in Nat
  BY WordTypes DEF Base, Typed
<1>2. \A k \in DOMAIN cmds' : k \in Nat /\ (k <= h => k \in DOMAIN cmds)
  BY <1>1
<1>3. \A k, t : Frame(k, t)' /\ k <= h <=> Frame(k, t) /\ k <= h
  BY <1>2 DEF Frame, SameRequest
<1>4. \A m, t : Last(m, t, h)' <=> Last(m, t, h)
  <2>1. \A k, t : Frame(k, t)' => k \in DOMAIN cmds'
    BY DEF Frame
  <2>2. \A k, t : Frame(k, t) => k \in DOMAIN cmds
    BY DEF Frame
  <2> QED
    BY <1>3, <2>1, <2>2 DEF Last
<1>5. \A k : IsEnd(k)' /\ k <= h <=> IsEnd(k) /\ k <= h
  BY <1>2 DEF IsEnd, SameRequest
<1>6. ASSUME NEW k \in Int, k <= h PROVE Rank(k)' = Rank(k)
  <2>1. \A j \in 0 .. k : j <= h
    BY <1>6
  <2>2. Ends(k)' = Ends(k)
    BY <1>5, <2>1 DEF Ends
  <2> QED
    BY <2>2 DEF Rank
<1>7. h <= h
  OBVIOUS
<1>8. \A m, t : Last(m, t, h) => m \in DOMAIN cmds
  BY DEF Last, Frame
<1>9. \A t \in DOMAIN records :
        \E m \in DOMAIN cmds' : /\ Last(m, t, h)' /\ cmds'[m].symbol # -1
                                /\ records[t] = Words(cmds'[m].word)
  BY <1>4, <1>8 DEF Assembled, SameRequest
<1>10. \A m \in DOMAIN cmds' : \A t :
         Last(m, t, h)' /\ t \notin DOMAIN records => cmds'[m].symbol = -1
  BY <1>4, <1>8 DEF Assembled, SameRequest
<1>11. done \in Seq(Seq(Word)) /\ Len(done) = Rank(h)'
  BY <1>6, <1>7 DEF Assembled
<1>12. ASSUME NEW i \in 1 .. Len(done)
       PROVE  \E n \in DOMAIN cmds' : /\ IsEnd(n)' /\ n <= h /\ Rank(n)' = i
                                      /\ done[i] = Words(cmds'[n].word)
  <2>1. PICK n \in DOMAIN cmds : /\ IsEnd(n) /\ n <= h /\ Rank(n) = i
                                 /\ done[i] = Words(cmds[n].word)
    BY DEF Assembled
  <2>2. IsEnd(n)' /\ Rank(n)' = Rank(n) /\ cmds'[n].word = cmds[n].word
    BY <1>1, <1>5, <1>6, <2>1 DEF SameRequest
  <2> QED
    BY <2>1, <2>2
<1>13. Assembled(records, done, h)'
  BY <1>9, <1>10, <1>11, <1>12 DEF Assembled
<1> QED
  BY <1>13 DEF Assembled, Last

\* The steps of an engine.
LEMMA EngineKeepsAssembly ==
  ASSUME Base, FrameInv, AssemblyInv, NEW e \in Engines, EngineAction(e)
  PROVE  AssemblyInv'
<1>1. PICK n : EngineStep(e, n)
  BY EngineSteps DEF Base
<1>2. /\ n = handled[e] + 1 /\ n \in DOMAIN cmds /\ DOMAIN cmds' = DOMAIN cmds
      /\ handled \in [Engines -> Int] /\ handled[e] \in Int /\ n - 1 = handled[e] /\ n \in Int
      /\ writing \in [Engines -> Write] /\ completed \in [Engines -> Seq(Seq(Word))]
      /\ incomingData = [d \in Engines |-> incomingData[d]]
  <2>1. /\ n = handled[e] + 1 /\ n \in DOMAIN cmds /\ DOMAIN cmds' = DOMAIN cmds
    BY <1>1 DEF EngineStep
  <2>2. /\ handled \in [Engines -> Int] /\ handled[e] \in Int
        /\ writing \in [Engines -> Write] /\ completed \in [Engines -> Seq(Seq(Word))]
    BY DEF Base, Typed, EngineType
  <2>3. incomingData = [d \in Engines |-> incomingData[d]]
    BY DEF Base, Typed, EngineType
  <2>4. n - 1 = handled[e] /\ n \in Int
    BY <2>1, <2>2
  <2> QED
    BY <2>1, <2>2, <2>3, <2>4
<1>3. \A k \in DOMAIN cmds : SameRequest(cmds'[k], cmds[k])
  BY <1>1 DEF EngineStep, SameRequest
<1>4. ASSUME NEW d \in Engines, NEW h \in Int, h = UpTo(d)',
             Assembled(incomingData'[d], completed'[d], h)
      PROVE  Assembled(incomingData[d], completed[d], UpTo(d))'
  <2>1. PICK records : records = incomingData'[d]
    OBVIOUS
  <2>2. PICK done : done = completed'[d]
    OBVIOUS
  <2>3. Assembled(records, done, h)
    BY <1>4, <2>1, <2>2
  <2> QED
    BY <1>2, <1>3, <1>4, <2>1, <2>2, <2>3, AssembledStays
<1>5. ASSUME NEW d \in Engines, d # e PROVE Assembled(incomingData[d], completed[d], UpTo(d))'
  <2>1. /\ incomingData'[d] = incomingData[d] /\ completed'[d] = completed[d]
        /\ writing'[d] = writing[d] /\ handled'[d] = handled[d]
    BY <1>1, <1>2, <1>5 DEF EngineStep
  <2>2. UpTo(d)' = UpTo(d)
    BY <2>1 DEF UpTo
  <2> QED
    BY <1>4, <2>1, <2>2, UpToSeen DEF AssemblyInv
<1> SUFFICES Assembled(incomingData[e], completed[e], UpTo(e))'
  BY <1>5 DEF AssemblyInv
<1>6. Assembled(incomingData[e], completed[e], UpTo(e))
  BY DEF AssemblyInv
\* The step is over, or it is not; what is seen then.
<1>7. /\ writing[e] = NoWrite \/ writing[e].field = "resultCode" => UpTo(e) = n - 1
      /\ writing[e].field = "matcherEvent" => UpTo(e) = n
  BY <1>2 DEF UpTo, NoWrite
<1>8. /\ Done(e) => handled'[e] = n
      /\ writing' = writing \/ writing' = [writing EXCEPT ![e] = NoWrite]
           => writing'[e] = writing[e] \/ writing'[e] = NoWrite
  BY <1>2 DEF Done
<1>9. Done(e) /\ writing'[e] = NoWrite => UpTo(e)' = n
  BY <1>8 DEF UpTo, NoWrite
<1>10. CASE \/ HandleOrder(e) \/ SkipPersist(e)
            \/ ExchangeResult(e) /\ Done(e) /\ writing' = [writing EXCEPT ![e] = NoWrite]
  <2>1. /\ incomingData' = incomingData /\ completed' = completed /\ Done(e)
        /\ writing'[e] = NoWrite /\ cmds[n].command \notin Messages
        /\ writing[e] = NoWrite \/ writing[e].field = "resultCode"
    BY <1>2, <1>8, <1>10 DEF HandleOrder, SkipPersist, ExchangeResult, Ready, Messages, Base,
         Typed, OrderInv, Stores, NoWrite
  <2>2. Assembled(incomingData[e], completed[e], n)
    BY <1>2, <1>6, <1>7, <2>1, AssembledSkip
  <2> QED
    BY <1>2, <1>4, <1>9, <2>1, <2>2
<1>11. CASE AcceptFrame(e)
  <2>1. /\ completed' = completed /\ Done(e) /\ writing'[e] = NoWrite /\ writing[e] = NoWrite
        /\ cmds[n].command \in Messages /\ cmds[n].symbol # -1
        /\ incomingData' = [incomingData EXCEPT ![e] =
             [t \in DOMAIN @ \cup {cmds[n].userCookie} |->
                IF t = cmds[n].userCookie THEN Transferred(e, cmds[n]) ELSE @[t]]]
    BY <1>2, <1>11 DEF AcceptFrame, Ready
  <2>2. incomingData'[e] =
          [t \in DOMAIN incomingData[e] \cup {cmds[n].userCookie} |->
             IF t = cmds[n].userCookie THEN Transferred(e, cmds[n]) ELSE incomingData[e][t]]
    BY <1>2, <2>1
  <2>3. Assembled(incomingData'[e], completed[e], n)
    BY <1>2, <1>6, <1>7, <2>1, <2>2, AssembledFrame
  <2> QED
    BY <1>2, <1>4, <1>9, <2>1, <2>3
<1>12. CASE CompleteCommand(e) \/ CompleteQuery(e)
  <2>1. /\ writing[e] = NoWrite
        /\ cmds[n].command \in Messages /\ cmds[n].symbol = -1
        /\ completed' = [completed EXCEPT ![e] = Append(@, Transferred(e, cmds[n]))]
        /\ incomingData' = [incomingData EXCEPT ![e] = RecordErased(@, cmds[n].userCookie)]
    BY <1>2, <1>12 DEF CompleteCommand, CompleteQuery, Ready, Messages
  <2>2. /\ incomingData'[e] = RecordErased(incomingData[e], cmds[n].userCookie)
        /\ completed'[e] = Append(completed[e], Transferred(e, cmds[n]))
    BY <1>2, <2>1
  <2>3. Assembled(incomingData'[e], completed'[e], n)
    BY <1>2, <1>6, <1>7, <2>1, <2>2, AssembledEnd
  <2>4. CASE CompleteCommand(e)
    <3>1. Done(e) /\ writing'[e] = NoWrite
      BY <2>1, <2>4 DEF CompleteCommand
    <3> QED
      BY <1>2, <1>4, <1>9, <2>3, <3>1
  <2>5. CASE CompleteQuery(e)
    <3>1. handled' = handled /\ writing'[e].field = "matcherEvent"
      BY <1>2, <2>5 DEF CompleteQuery
    <3>2. UpTo(e)' = n
      BY <1>2, <3>1 DEF UpTo
    <3> QED
      BY <1>2, <1>4, <2>3, <3>2
  <2> QED
    BY <1>12, <2>4, <2>5
<1>13. CASE \/ StoreData(e) \/ ExchangeEvents(e)
            \/ ExchangeResult(e) /\ handled' = handled
                 /\ writing' = [writing EXCEPT ![e].expected = cmds[n].resultCode]
  <2>1. incomingData' = incomingData /\ completed' = completed
    BY <1>13 DEF StoreData, ExchangeEvents, ExchangeResult
  <2>2. UpTo(e)' = UpTo(e)
    <3>1. CASE StoreData(e)
      <4>1. writing[e] = NoWrite /\ handled' = handled /\ writing'[e].field = "resultCode"
        BY <1>2, <3>1 DEF StoreData, Ready
      <4> QED
        BY <4>1 DEF UpTo, NoWrite
    <3>2. CASE ExchangeEvents(e)
      <4>1. writing[e].field = "matcherEvent"
        BY <3>2 DEF ExchangeEvents
      <4>2. CASE Done(e) /\ writing' = [writing EXCEPT ![e] = NoWrite]
        BY <1>2, <1>7, <1>9, <4>1, <4>2
      <4>3. CASE handled' = handled /\ writing' = [writing EXCEPT ![e].expected = cmds[n].events]
        <5>1. writing'[e].field = "matcherEvent"
          BY <1>2, <4>1, <4>3 DEF Write, NoWrite
        <5> QED
          BY <4>1, <4>3, <5>1 DEF UpTo
      <4> QED
        BY <1>2, <3>2, <4>2, <4>3 DEF ExchangeEvents
    <3>3. CASE ExchangeResult(e) /\ handled' = handled
                 /\ writing' = [writing EXCEPT ![e].expected = cmds[n].resultCode]
      <4>1. writing[e].field = "resultCode"
        BY <3>3 DEF ExchangeResult
      <4>2. writing'[e].field = "resultCode"
        BY <1>2, <3>3, <4>1 DEF Write, NoWrite
      <4> QED
        BY <3>3, <4>1, <4>2 DEF UpTo
    <3> QED
      BY <1>13, <3>1, <3>2, <3>3
  <2> QED
    BY <1>2, <1>4, <1>6, <2>1, <2>2, UpToSeen
<1>14. ExchangeResult(e) =>
         \/ Done(e) /\ writing' = [writing EXCEPT ![e] = NoWrite]
         \/ handled' = handled /\ writing' = [writing EXCEPT ![e].expected = cmds[n].resultCode]
  BY <1>2 DEF ExchangeResult
<1> QED
  BY <1>10, <1>11, <1>12, <1>13, <1>14 DEF EngineAction

\* The other steps leave the engines alone and publish what no engine has seen.
LEMMA OthersKeepAssembly ==
  ASSUME Base, AssemblyInv, UNCHANGED engines, DOMAIN cmds \subseteq DOMAIN cmds',
         \A k \in DOMAIN cmds : SameRequest(cmds'[k], cmds[k]),
         \A k \in DOMAIN cmds' : k \in Nat
  PROVE  AssemblyInv'
<1> SUFFICES ASSUME NEW e \in Engines
             PROVE  Assembled(incomingData[e], completed[e], UpTo(e))'
  BY DEF AssemblyInv
<1>1. /\ incomingData'[e] = incomingData[e] /\ completed'[e] = completed[e]
      /\ UpTo(e)' = UpTo(e)
  BY DEF engines, UpTo
<1>2. UpTo(e) \in Int /\ \A k \in 0 .. UpTo(e) : k \in DOMAIN cmds
  BY UpToSeen
<1>3. \A k \in DOMAIN cmds' : k \notin DOMAIN cmds => k \in Nat /\ k > UpTo(e)
  BY <1>2
<1> QED
  BY <1>1, <1>2, <1>3, AssembledStays DEF AssemblyInv

\* Every step keeps what the engines have put together.
LEMMA AssemblyNext ==
  ASSUME Base, FrameInv, AssemblyInv, [Next]_vars
  PROVE  AssemblyInv'
<1>1. \A k \in DOMAIN cmds : k \in Nat /\ SameRequest(cmds[k], cmds[k])
  BY WordTypes DEF Base, Typed, SameRequest
<1>2. CASE \/ UNCHANGED vars
           \/ \E c \in Clients : \E f, r, offset : ClaimStep(c, f, r, offset)
           \/ \E c \in Clients : FilePromises(c)
           \/ ProcessResult
  <2>1. UNCHANGED engines /\ UNCHANGED cmds
    BY <1>2 DEF vars, ClaimStep, FilePromises, ProcessResult
  <2> QED
    BY <1>1, <2>1, OthersKeepAssembly
<1>3. CASE \E c \in Clients : Publish(c)
  <2>1. PICK c \in Clients : Publish(c)
    BY <1>3
  <2>2. /\ DOMAIN cmds' = DOMAIN cmds \cup (client[c].low .. High(c))
        /\ \A k \in DOMAIN cmds : cmds'[k] = cmds[k]
        /\ InFlight(c)
    BY <2>1, PublishFacts
  <2>3. client[c].low \in Nat /\ High(c) \in Nat
    BY <2>2, FlightFacts
  <2>4. \A k \in client[c].low .. High(c) : k \in Nat
    BY <2>3
  <2>5. UNCHANGED engines
    BY <2>1 DEF Publish
  <2> QED
    BY <1>1, <2>2, <2>4, <2>5, OthersKeepAssembly
<1>4. CASE \E e \in Engines : EngineAction(e)
  BY <1>4, EngineKeepsAssembly
<1> QED
  BY <1>2, <1>3, <1>4, NextCases

\* No engine has put anything together in the beginning.
LEMMA InitAssembly ==
  ASSUME Init
  PROVE  AssemblyInv
<1>1. Ends(-1) = {}
  BY DEF Ends
<1>2. Rank(-1) = 0
  BY <1>1, FS_EmptySet DEF Rank
<1>3. ASSUME NEW e \in Engines PROVE Assembled(incomingData[e], completed[e], UpTo(e))
  <2>1. UpTo(e) = -1 /\ completed[e] = <<>> /\ DOMAIN incomingData[e] = {} /\ DOMAIN cmds = {}
    BY DEF Init, UpTo, NoWrite
  <2>2. <<>> \in Seq(Seq(Word)) /\ Len(<<>>) = 0
    BY EmptySeq
  <2> QED
    BY <1>2, <2>1, <2>2 DEF Assembled
<1> QED
  BY <1>3 DEF AssemblyInv

Messaging == Base /\ FrameInv /\ AssemblyInv

\* The frames of the clients follow each other, and every engine puts the same
\* messages together from them.
THEOREM MessagingInvariance == Spec => []Messaging
<1>1. Init => Messaging
  BY InitBase, InitFrames, InitAssembly DEF Messaging
<1>2. Messaging /\ [Next]_vars => Messaging'
  BY BaseNext, FrameNext, AssemblyNext DEF Messaging
<1> QED
  BY <1>1, <1>2, PTL DEF Spec

\* The messages an engine has completed are whole, and are told by their ends.
LEMMA CompletedWhole ==
  ASSUME Base, AssemblyInv, NEW e \in Engines, NEW i \in DOMAIN completed[e]
  PROVE  \E n \in DOMAIN cmds :
           /\ IsEnd(n) /\ Rank(n) = i /\ completed[e][i] = WholeMessage(cmds[n].word[1])
           /\ completed[e][i][1] = <<cmds[n].word[1], 1>>
<1>1. completed[e] \in Seq(Seq(Word)) /\ i \in 1 .. Len(completed[e])
  BY LenProperties DEF Base, Typed, EngineType
<1>2. PICK n \in DOMAIN cmds : IsEnd(n) /\ Rank(n) = i /\ completed[e][i] = Words(cmds[n].word)
  BY <1>1 DEF AssemblyInv, Assembled
<1> DEFINE f == cmds[n].word[1]
<1>3. /\ cmds[n].word[2] = requests[f].frames /\ requests[f].frames \in Nat \ {0}
      /\ cmds[n].word = <<f, requests[f].frames>> /\ f \in Nat
  BY <1>2, FrameFacts DEF IsEnd
<1>4. Words(cmds[n].word) = WholeMessage(f)
  BY <1>3 DEF Words, WholeMessage
<1>5. Words(<<f, requests[f].frames>>)[1] = <<f, 1>>
  <2>1. f \in Nat /\ requests[f].frames \in Nat /\ requests[f].frames >= 1
    BY <1>3
  <2> HIDE DEF f
  <2> QED
    BY <2>1, WordsAppend
<1> QED
  BY <1>2, <1>3, <1>4, <1>5

\* Messages of the same rank are the same for all engines.
LEMMA MessagesAreWhole ==
  ASSUME Messaging
  PROVE  MessagesWhole
<1> USE DEF Messaging
<1>1. ASSUME NEW e \in Engines, NEW i \in DOMAIN completed[e]
      PROVE  completed[e][i] = WholeMessage(completed[e][i][1][1])
  <2>1. PICK n \in DOMAIN cmds : /\ completed[e][i] = WholeMessage(cmds[n].word[1])
                                 /\ completed[e][i][1] = <<cmds[n].word[1], 1>>
    BY CompletedWhole
  <2>2. completed[e][i][1][1] = cmds[n].word[1]
    BY <2>1
  <2> QED
    BY <2>1, <2>2
<1>2. ASSUME NEW e \in Engines, NEW d \in Engines, Len(completed[e]) <= Len(completed[d])
      PROVE  completed[e] = SubSeq(completed[d], 1, Len(completed[e]))
  <2> DEFINE s == completed[e]
             t == completed[d]
             k == Len(s)
  <2>1. s \in Seq(Seq(Word)) /\ t \in Seq(Seq(Word))
    BY DEF Base, Typed, EngineType
  <2>2. /\ k \in Nat /\ Len(t) \in Nat /\ k <= Len(t)
        /\ DOMAIN s = 1 .. k /\ DOMAIN t = 1 .. Len(t)
    BY <1>2, <2>1, LenProperties
  <2>3. \A i \in 1 .. k : i \in 1 .. Len(t)
    BY <2>2
  <2>4. ASSUME NEW i \in 1 .. k PROVE s[i] = t[i]
    <3>1. i \in DOMAIN s /\ i \in DOMAIN t
      BY <2>2, <2>3
    <3>2. PICK n \in DOMAIN cmds :
            IsEnd(n) /\ Rank(n) = i /\ s[i] = WholeMessage(cmds[n].word[1])
      BY <3>1, CompletedWhole
    <3>3. PICK m \in DOMAIN cmds :
            IsEnd(m) /\ Rank(m) = i /\ t[i] = WholeMessage(cmds[m].word[1])
      BY <3>1, CompletedWhole
    <3>4. m = n
      BY <3>2, <3>3, EndsDiffer
    <3> QED
      BY <3>2, <3>3, <3>4
  <2> HIDE DEF s, t, k
  <2>5. \A i \in 1 .. k : t[i] \in Seq(Word)
    BY <2>1, <2>3, ElementOfSeq
  <2>6. /\ SubSeq(t, 1, k) \in Seq(Seq(Word)) /\ Len(SubSeq(t, 1, k)) = k
        /\ \A i \in 1 .. k : SubSeq(t, 1, k)[i] = t[i]
    <3>1. /\ SubSeq(t, 1, k) \in Seq(Seq(Word))
          /\ Len(SubSeq(t, 1, k)) = IF 1 <= k THEN k - 1 + 1 ELSE 0
          /\ \A i \in 1 .. k - 1 + 1 : SubSeq(t, 1, k)[i] = t[1 + i - 1]
      BY <2>2, <2>5, SubSeqProperties
    <3>2. \A i \in 1 .. k : 1 + i - 1 = i
      OBVIOUS
    <3>3. k - 1 + 1 = k
      BY <2>2
    <3> QED
      BY <2>2, <3>1, <3>2, <3>3
  <2>7. Len(s) = k
    BY DEF k
  <2>8. s = SubSeq(t, 1, k)
    BY <2>1, <2>4, <2>6, <2>7, SeqEqual
  <2> QED
    BY <2>8 DEF s, t, k
<1> QED
  BY <1>1, <1>2 DEF MessagesWhole

\* For any number of engines and clients, any requests and any fragment size:
\* all engines put the same whole messages together in the same order, although
\* the frames of several clients interleave and a client uses its transferId
\* again and again (AcceptBinaryFrame, CompleteMessage).
THEOREM MessagesSafety == Spec => []MessagesWhole
<1>1. Messaging => MessagesWhole
  BY MessagesAreWhole
<1> QED
  BY <1>1, MessagingInvariance, PTL

-----------------------------------------------------------------------------
(***************************************************************************)
(* Futures.  The result of a binary command is written by the engines of   *)
(* shard 0, the matching engine last.                                      *)
(***************************************************************************)
BinaryEnd(n) == cmds[n].command = "BINARY_DATA_COMMAND" /\ cmds[n].symbol = -1

BinaryInv ==
  \A n \in DOMAIN cmds :
    BinaryEnd(n) /\ n <= handled[1024] => cmds[n].resultCode = "SUCCESS"

\* Only the matching engine of shard 0 writes the result that E will see.
LEMMA EngineKeepsBinary ==
  ASSUME Base, BinaryInv, NEW e \in Engines, EngineAction(e)
  PROVE  BinaryInv'
<1>1. PICK n : EngineStep(e, n)
  BY EngineSteps DEF Base
<1>2. /\ n = handled[e] + 1 /\ n \in DOMAIN cmds /\ DOMAIN cmds' = DOMAIN cmds
      /\ SameRequest(cmds'[n], cmds[n])
      /\ \A k \in DOMAIN cmds : k # n => cmds'[k] = cmds[k]
      /\ handled' = handled \/ handled' = [handled EXCEPT ![e] = n]
  BY <1>1 DEF EngineStep
<1>3. 1024 \in Matching /\ 1024 \in Engines
  BY EngineNames
<1>4. /\ handled \in [Engines -> Int] /\ handled[e] \in Int /\ handled[1024] \in Int
      /\ n \in Int /\ ~(n <= handled[e]) /\ cmds \in [DOMAIN cmds -> Slot]
      /\ writing \in [Engines -> Write]
  <2>1. /\ handled \in [Engines -> Int] /\ cmds \in [DOMAIN cmds -> Slot]
        /\ writing \in [Engines -> Write]
    BY DEF Base, Typed, EngineType, ClientType
  <2>2. handled[e] \in Int /\ handled[1024] \in Int
    BY <1>3, <2>1
  <2> QED
    BY <1>2, <2>1, <2>2
<1>5. \A k \in DOMAIN cmds : BinaryEnd(k)' <=> BinaryEnd(k)
  BY <1>2 DEF BinaryEnd, SameRequest
<1>6. ASSUME NEW k \in DOMAIN cmds, k # n, k <= handled'[1024] PROVE k <= handled[1024]
  <2>1. k \in Nat
    BY WordTypes DEF Base, Typed
  <2> QED
    BY <1>2, <1>3, <1>4, <1>6, <2>1
<1>7. BinaryEnd(n) => CompleteCommand(e)
  <2> SUFFICES ASSUME BinaryEnd(n), ~CompleteCommand(e) PROVE FALSE
    OBVIOUS
  <2>1. CASE \/ HandleOrder(e) \/ AcceptFrame(e) \/ CompleteQuery(e) \/ StoreData(e)
             \/ SkipPersist(e)
    BY <1>2, <2>1 DEF BinaryEnd, HandleOrder, AcceptFrame, CompleteQuery, StoreData, SkipPersist, Ready
  <2>2. CASE ExchangeEvents(e) \/ ExchangeResult(e)
    <3>1. writing[e] # NoWrite /\ writing[e].field \in {"matcherEvent", "resultCode"}
      BY <2>2 DEF ExchangeEvents, ExchangeResult, NoWrite
    <3> QED
      BY <1>2, <3>1 DEF BinaryEnd, Base, Typed, OrderInv, Stores
  <2> QED
    BY <2>1, <2>2 DEF EngineAction
<1>8. ASSUME CompleteCommand(e), n <= handled'[1024] PROVE cmds'[n].resultCode = "SUCCESS"
  <2>1. cmds' = ResultWritten(e, FrameCode(e, "SUCCESS"))
    BY <1>8 DEF CompleteCommand
  <2>2. CASE e = 1024
    <3>1. Shard(e) = 0 /\ e \notin Risk
      BY <2>2, EngineNames
    <3> QED
      BY <1>2, <1>4, <2>1, <3>1 DEF ResultWritten, FrameCode, Slot
  <2>3. CASE e # 1024
    <3>1. handled'[1024] = handled[1024]
      BY <1>2, <1>3, <1>4, <2>3
    <3>2. e \notin Risk
      <4>1. e \in Risk => handled[1024] <= handled[e]
        BY <1>3 DEF Base, Typed, OrderInv
      <4> QED
        BY <1>4, <1>8, <3>1, <4>1
    <3>3. e \in Matching /\ Shard(e) # 0
      BY <2>3, <3>2, EngineNames
    <3>4. cmds' = cmds
      BY <2>1, <3>3 DEF ResultWritten
    <3>5. BinaryEnd(n)
      BY <1>2, <1>8 DEF BinaryEnd, CompleteCommand, Ready
    <3> QED
      BY <1>2, <1>8, <3>1, <3>4, <3>5 DEF BinaryInv
  <2> QED
    BY <2>2, <2>3
<1> SUFFICES ASSUME NEW k \in DOMAIN cmds', BinaryEnd(k)', k <= handled'[1024]
             PROVE  cmds'[k].resultCode = "SUCCESS"
  BY DEF BinaryInv
<1> QED
  BY <1>2, <1>5, <1>6, <1>7, <1>8 DEF BinaryInv

\* Every step keeps the result of a binary command that is through.
LEMMA BinaryNext ==
  ASSUME Base, BinaryInv, [Next]_vars
  PROVE  BinaryInv'
<1>1. CASE \/ UNCHANGED vars
           \/ \E c \in Clients : \E f, r, offset : ClaimStep(c, f, r, offset)
           \/ \E c \in Clients : FilePromises(c)
           \/ ProcessResult
  <2>1. UNCHANGED <<cmds, handled>>
    BY <1>1 DEF vars, ClaimStep, FilePromises, ProcessResult, engines
  <2> QED
    BY <2>1 DEF BinaryInv, BinaryEnd
<1>2. CASE \E c \in Clients : Publish(c)
  <2>1. PICK c \in Clients : Publish(c)
    BY <1>2
  <2>2. /\ DOMAIN cmds' = DOMAIN cmds \cup (client[c].low .. High(c))
        /\ \A k \in DOMAIN cmds : cmds'[k] = cmds[k]
        /\ InFlight(c) /\ handled' = handled
    BY <2>1, PublishFacts DEF engines
  <2>3. client[c].low \in Nat /\ High(c) \in Nat
    BY <2>2, FlightFacts
  <2>4. 1024 \in Engines /\ handled[1024] \in Int /\ \A k \in 0 .. handled[1024] : k \in DOMAIN cmds
    BY EngineNames DEF Base, Typed, EngineType, OrderInv
  <2>5. \A k \in DOMAIN cmds' : k <= handled[1024] => k \in DOMAIN cmds
    BY <2>2, <2>3, <2>4
  <2> QED
    BY <2>2, <2>5 DEF BinaryInv, BinaryEnd
<1>3. CASE \E e \in Engines : EngineAction(e)
  BY <1>3, EngineKeepsBinary
<1> QED
  BY <1>1, <1>2, <1>3, NextCases

\* When E has passed the end of a message, every engine has completed it.
LEMMA EndCompleted ==
  ASSUME Base, AssemblyInv, NEW n \in 0 .. eSeq, IsEnd(n), NEW e \in Engines
  PROVE  \E j \in DOMAIN completed[e] : completed[e][j] = WholeMessage(cmds[n].word[1])
<1>1. n \in Int /\ n >= 0 /\ n <= handled[e] /\ handled[e] \in Int
  BY SeenByE
<1>2. n <= UpTo(e) /\ UpTo(e) \in Int
  BY <1>1 DEF UpTo
<1>3. Rank(n) \in Nat /\ Rank(n) <= Rank(UpTo(e)) /\ Rank(UpTo(e)) \in Nat
  BY <1>1, <1>2, RankMonotone
<1>4. Rank(n) >= 1
  <2>1. Rank(n) = Rank(n - 1) + 1 /\ Rank(n - 1) \in Nat
    BY <1>1, RankNext
  <2> QED
    BY <2>1
<1>5. completed[e] \in Seq(Seq(Word)) /\ Len(completed[e]) = Rank(UpTo(e))
  BY DEF AssemblyInv, Assembled
<1>6. Rank(n) \in DOMAIN completed[e]
  BY <1>3, <1>4, <1>5, LenProperties
<1>7. PICK m \in DOMAIN cmds : IsEnd(m) /\ Rank(m) = Rank(n)
                               /\ completed[e][Rank(n)] = WholeMessage(cmds[m].word[1])
  BY <1>6, CompletedWhole
<1>8. m = n
  BY <1>7, EndsDiffer
<1> QED
  BY <1>6, <1>7, <1>8

Futures == Answering /\ Messaging /\ BinaryInv

\* The three invariants together say that futures are answered.
LEMMA FuturesAreAnswered ==
  ASSUME Futures
  PROVE  FuturesAnswered
<1> USE DEF Futures, Messaging
<1>1. ASSUME NEW p \in promises PROVE p.seq > eSeq
  <2>1. PICK n, x : FiledSlot(n, x) /\ p = Promise(n, x)
    BY DEF Answering, PromisesInv
  <2>2. n > eSeq
    BY <2>1, FiledSlotFacts
  <2> QED
    BY <2>1, <2>2 DEF Promise
<1>2. ASSUME NEW n \in 0 .. eSeq, cmds[n].future # <<>>
      PROVE  /\ Cardinality(AnswersOf(cmds[n].future)) = 1
             /\ AnswerOf(cmds[n].future) = Answer(MapOf(KindOf(cmds[n].future[1])), cmds[n])
  BY <1>2, AnsweredOnce DEF Awaited
<1>3. ASSUME NEW i \in DOMAIN answers, KindOf(answers[i].future[1]) = "binary"
      PROVE  /\ answers[i].value = "SUCCESS"
             /\ \A e \in Engines : \E j \in DOMAIN completed[e] :
                  completed[e][j] = WholeMessage(answers[i].future[1])
  <2>1. PICK n \in 0 .. eSeq : Awaited(cmds[n]) /\ answers[i] = AnswerTo(cmds[n])
    BY DEF Answering, AnswersInv
  <2> DEFINE f == cmds[n].word[1]
  <2>2. n \in DOMAIN cmds /\ Known(cmds[n])
    BY SeenByE, SlotsKnown
  <2>3. cmds[n].future[1] = f
    BY <2>1, <2>2, FutureTellsPart
  <2>4. requests[f].kind = "binary" /\ answers[i].future = cmds[n].future
    BY <1>3, <2>1, <2>3 DEF AnswerTo, KindOf
  <2>5. /\ cmds[n].command = "BINARY_DATA_COMMAND"
        /\ cmds[n].symbol = -1
    <3>1. IsPart(cmds[n], requests[f], f, cmds[n].word[2])
      BY <2>2 DEF Known
    <3>2. requests[f].kind \in MessageKinds /\ cmds[n].future # <<>>
      BY <2>1, <2>4 DEF MessageKinds, Awaited
    <3>3. cmds[n].word[2] \in Nat /\ requests[f].frames \in Nat
      BY <2>2 DEF Known
    <3> QED
      BY <2>4, <3>1, <3>2, <3>3 DEF IsPart
  <2>6. n <= handled[1024]
    BY SeenByE, EngineNames
  <2>7. cmds[n].resultCode = "SUCCESS"
    BY <2>2, <2>5, <2>6 DEF BinaryInv, BinaryEnd
  <2>8. answers[i].value = "SUCCESS"
    BY <2>1, <2>3, <2>4, <2>7 DEF AnswerTo, Answer, MapOf, KindOf
  <2>9. IsEnd(n)
    BY <2>2, <2>5 DEF IsEnd, Messages
  <2> QED
    BY <2>3, <2>4, <2>8, <2>9, EndCompleted
<1> QED
  BY <1>1, <1>2, <1>3 DEF FuturesAnswered

\* For any number of engines and clients, any requests and any fragment size:
\* the promise a client files before it publishes is found and kept when E
\* passes the command, once, with the result of that command; and a binary
\* command that succeeds has reached every engine whole (ProcessResult).
THEOREM FuturesSafety == Spec => []FuturesAnswered
<1>1. Init => BinaryInv
  BY DEF Init, BinaryInv
<1>2. Messaging /\ BinaryInv /\ [Next]_vars => BinaryInv'
  BY BinaryNext DEF Messaging
<1>3. Answering /\ Messaging /\ BinaryInv => FuturesAnswered
  BY FuturesAreAnswered DEF Futures
<1> QED
  BY <1>1, <1>2, <1>3, AnsweringInvariance, MessagingInvariance, PTL DEF Spec

-----------------------------------------------------------------------------
(***************************************************************************)
(* Reports.  The section of an engine in the events of a query that is not *)
(* done with yet is there, once, if and only if the engine has handled the *)
(* query: an exchange only succeeds with the events it was compared with.  *)
(***************************************************************************)
\* The events of section e among the first i ones, one by one.
LEMMA SectionSteps ==
  ASSUME NEW events \in Seq(Event), NEW e
  PROVE  \E kept \in [0 .. Len(events) -> Seq(Event)] :
           /\ kept[0] = <<>>
           /\ \A i \in 1 .. Len(events) :
                kept[i] = IF events[i].section = e THEN Append(kept[i - 1], events[i])
                          ELSE kept[i - 1]
           /\ SectionOf(events, e) = kept[Len(events)]
<1> DEFINE n == Len(events)
           V == Seq(Event)
           step == [i \in 1 .. n |-> [s \in V |->
                      IF events[i].section = e THEN Append(s, events[i]) ELSE s]]
           value(g, i) == IF i = 0 THEN <<>>
                          ELSE IF events[i].section = e THEN Append(g[i - 1], events[i])
                          ELSE g[i - 1]
           kept == CHOOSE g : g = [i \in 0 .. n |-> value(g, i)]
<1>1. n \in Nat /\ <<>> \in V /\ \A i \in 1 .. n : events[i] \in Event
  BY LenProperties, ElementOfSeq, EmptySeq
<1>2. step \in [1 .. n -> [V -> V]]
  <2>1. ASSUME NEW i \in 1 .. n, NEW s \in V PROVE Append(s, events[i]) \in V
    BY <1>1, AppendElements
  <2> QED
    BY <2>1
<1>3. \A i \in 1 .. n : \A s \in V :
        step[i][s] = IF events[i].section = e THEN Append(s, events[i]) ELSE s
  OBVIOUS
<1> HIDE DEF n, V, step
<1>4. PICK f \in [0 .. n -> V] : f[0] = <<>> /\ \A i \in 1 .. n : f[i] = step[i][f[i - 1]]
  <2>1. PICK N \in Nat : N = n
    BY <1>1
  <2>2. PICK W : W = V
    OBVIOUS
  <2>3. PICK base \in W : base = <<>>
    BY <1>1, <2>2
  <2>4. IsSteps(step, N, W)
    BY <1>2, <2>1, <2>2 DEF IsSteps
  <2>5. PICK f : IsRun(f, N, W, base, step)
    BY <2>4, RunOfSteps
  <2> QED
    BY <2>1, <2>2, <2>3, <2>5 DEF IsRun
<1>5. \A i \in 1 .. n : f[i - 1] \in V
  BY <1>1, <1>4
<1>6. \A i \in 0 .. n : f[i] = value(f, i)
  <2> SUFFICES ASSUME NEW i \in 0 .. n PROVE f[i] = value(f, i)
    OBVIOUS
  <2>1. CASE i = 0
    BY <1>4, <2>1
  <2>2. CASE i # 0
    <3>1. i \in 1 .. n
      BY <1>1, <2>2
    <3> QED
      BY <1>3, <1>4, <1>5, <2>2, <3>1
  <2> QED
    BY <2>1, <2>2
<1>7. f = [i \in 0 .. n |-> value(f, i)]
  BY <1>4, <1>6
<1>8. kept = [i \in 0 .. n |-> value(kept, i)]
  BY <1>7
<1> HIDE DEF kept
<1>9. /\ kept[0] = <<>>
      /\ \A i \in 1 .. n :
           kept[i] = IF events[i].section = e THEN Append(kept[i - 1], events[i])
                     ELSE kept[i - 1]
  <2>1. \A i \in 0 .. n : kept[i] = value(kept, i)
    BY <1>8
  <2> QED
    BY <1>1, <2>1
<1>10. \A i \in 0 .. n : kept[i] \in V
  <2> DEFINE S == {i \in 0 .. n : kept[i] \in V}
  <2>1. 0 \in S
    BY <1>1, <1>9
  <2>2. ASSUME NEW i \in 0 .. n - 1, i \in S PROVE i + 1 \in S
    <3>1. i + 1 \in 1 .. n /\ (i + 1) - 1 = i
      BY <1>1
    <3>2. kept[i] \in V
      BY <2>2
    <3>3. Append(kept[i], events[i + 1]) \in V
      BY <1>1, <3>1, <3>2, AppendElements DEF V
    <3>4. kept[i + 1] \in V
      BY <1>9, <3>1, <3>2, <3>3
    <3> QED
      BY <1>1, <3>1, <3>4
  <2> HIDE DEF S
  <2>3. \A i \in 0 .. n : i \in S
    BY <1>1, <2>1, <2>2, InductionOverInterval
  <2> QED
    BY <2>3 DEF S
<1>11. kept \in [0 .. n -> V]
  BY <1>8, <1>10
<1>12. SectionOf(events, e) = kept[n]
  BY DEF SectionOf, kept, n
<1> QED
  BY <1>9, <1>11, <1>12 DEF V, n

\* No events have no section.
LEMMA SectionOfNone ==
  ASSUME NEW e
  PROVE  SectionOf(<<>>, e) = <<>>
<1>1. PICK events : events = <<>>
  OBVIOUS
<1>2. events \in Seq(Event) /\ Len(events) = 0
  BY <1>1, EmptySeq
<1>3. PICK kept \in [0 .. Len(events) -> Seq(Event)] :
        /\ kept[0] = <<>>
        /\ \A i \in 1 .. Len(events) :
             kept[i] = IF events[i].section = e THEN Append(kept[i - 1], events[i])
                       ELSE kept[i - 1]
        /\ SectionOf(events, e) = kept[Len(events)]
  BY <1>2, SectionSteps
<1> QED
  BY <1>1, <1>2, <1>3

\* Appending to a concatenation appends to its second part.
LEMMA ConcatAppend ==
  ASSUME NEW s \in Seq(Event), NEW t \in Seq(Event), NEW x \in Event
  PROVE  Append(s \o t, x) = s \o Append(t, x)
<1> DEFINE u == Append(s \o t, x)
           v == s \o Append(t, x)
<1>1. Len(s) \in Nat /\ Len(t) \in Nat
  BY LenProperties
<1>2. /\ s \o t \in Seq(Event) /\ Len(s \o t) = Len(s) + Len(t)
      /\ \A i \in 1 .. Len(s) + Len(t) :
           (s \o t)[i] = IF i <= Len(s) THEN s[i] ELSE t[i - Len(s)]
  BY ConcatProperties
<1>3. /\ u \in Seq(Event) /\ Len(u) = Len(s) + Len(t) + 1
      /\ \A i \in 1 .. Len(s) + Len(t) : u[i] = (s \o t)[i]
      /\ u[Len(s) + Len(t) + 1] = x
  <2>1. /\ u \in Seq(Event) /\ Len(u) = Len(s \o t) + 1
        /\ \A i \in 1 .. Len(s \o t) : u[i] = (s \o t)[i]
        /\ u[Len(s \o t) + 1] = x
    BY <1>2, AppendElements
  <2> QED
    BY <1>2, <2>1
<1>4. /\ Append(t, x) \in Seq(Event) /\ Len(Append(t, x)) = Len(t) + 1
      /\ \A i \in 1 .. Len(t) : Append(t, x)[i] = t[i]
      /\ Append(t, x)[Len(t) + 1] = x
  BY AppendElements
<1>5. /\ v \in Seq(Event) /\ Len(v) = Len(s) + Len(t) + 1
      /\ \A i \in 1 .. Len(s) + Len(t) + 1 :
           v[i] = IF i <= Len(s) THEN s[i] ELSE Append(t, x)[i - Len(s)]
  <2>1. /\ v \in Seq(Event) /\ Len(v) = Len(s) + Len(Append(t, x))
        /\ \A i \in 1 .. Len(s) + Len(Append(t, x)) :
             v[i] = IF i <= Len(s) THEN s[i] ELSE Append(t, x)[i - Len(s)]
    BY <1>4, ConcatProperties
  <2>2. Len(s) + Len(Append(t, x)) = Len(s) + Len(t) + 1
    BY <1>1, <1>4
  <2> QED
    BY <2>1, <2>2
<1> HIDE DEF u, v
<1>6. ASSUME NEW i \in 1 .. Len(u) PROVE u[i] = v[i]
  <2>1. CASE i \in 1 .. Len(s)
    <3>1. i \in 1 .. Len(s) + Len(t) /\ i <= Len(s) /\ i \in 1 .. Len(s) + Len(t) + 1
      BY <1>1, <2>1
    <3> QED
      BY <1>2, <1>3, <1>5, <3>1
  <2>2. CASE i \in Len(s) + 1 .. Len(s) + Len(t)
    <3>1. /\ i \in 1 .. Len(s) + Len(t) /\ ~(i <= Len(s)) /\ i \in 1 .. Len(s) + Len(t) + 1
          /\ i - Len(s) \in 1 .. Len(t)
      BY <1>1, <2>2
    <3> QED
      BY <1>2, <1>3, <1>4, <1>5, <3>1
  <2>3. CASE i = Len(s) + Len(t) + 1
    <3>1. i \in 1 .. Len(s) + Len(t) + 1 /\ ~(i <= Len(s)) /\ i - Len(s) = Len(t) + 1
      BY <1>1, <2>3
    <3> QED
      BY <1>3, <1>4, <1>5, <2>3, <3>1
  <2>4. i \in 1 .. Len(s) \/ i \in Len(s) + 1 .. Len(s) + Len(t) \/ i = Len(s) + Len(t) + 1
    <3>1. i \in 1 .. Len(s) + Len(t) + 1
      BY <1>3
    <3> QED
      BY <1>1, <3>1
  <2> QED
    BY <2>1, <2>2, <2>3, <2>4
<1>7. u = v
  BY <1>3, <1>5, <1>6, SeqEqual
<1> QED
  BY <1>7 DEF u, v

\* The section an engine appends.
LEMMA ChainFacts ==
  ASSUME NEW d \in Engines, NEW words \in Seq(Word)
  PROVE  LET c == CreateBinaryEventsChain(d, words)
         IN /\ c \in Seq(Event) /\ Len(c) = 2
            /\ c[1].section = d /\ c[2].section = d
<1>1. PICK a : a = [section |-> d, of |-> words, part |-> 1]
  OBVIOUS
<1>2. PICK b : b = [section |-> d, of |-> words, part |-> 2]
  OBVIOUS
<1>3. a \in Event /\ b \in Event /\ a.section = d /\ b.section = d
  BY <1>1, <1>2 DEF Event
<1>4. CreateBinaryEventsChain(d, words) = <<a, b>>
  BY <1>1, <1>2 DEF CreateBinaryEventsChain
<1> QED
  BY <1>3, <1>4

\* What another engine has put in front.
LEMMA SectionAppend ==
  ASSUME NEW s \in Seq(Event), NEW d, NEW e,
         NEW c \in Seq(Event), Len(c) = 2, c[1].section = d, c[2].section = d
  PROVE  /\ SectionOf(c \o s, e) = (IF d = e THEN c ELSE <<>>) \o SectionOf(s, e)
         /\ {(c \o s)[i].section : i \in DOMAIN (c \o s)}
              = {d} \cup {s[i].section : i \in DOMAIN s}
<1> DEFINE a == c[1]
           b == c[2]
           base == IF d = e THEN c ELSE <<>>
           t == c \o s
<1>1. a \in Event /\ b \in Event /\ a.section = d /\ b.section = d
  <2>1. 1 \in 1 .. Len(c) /\ 2 \in 1 .. Len(c)
    OBVIOUS
  <2> QED
    BY <2>1, ElementOfSeq
<1>2. c = <<a, b>>
  <2>1. PICK z : z = <<a, b>>
    OBVIOUS
  <2>2. z \in Seq(Event) /\ Len(z) = 2 /\ z[1] = a /\ z[2] = b
    BY <1>1, <2>1
  <2>3. \A i \in 1 .. 2 : c[i] = z[i]
    BY <2>2
  <2>4. c = z
    BY <2>2, <2>3, SeqEqual
  <2> QED
    BY <2>1, <2>4
<1> HIDE DEF a, b
<1>3. c \in Seq(Event) /\ Len(c) = 2 /\ c[1] = a /\ c[2] = b
  BY DEF a, b
<1>4. Len(s) \in Nat /\ DOMAIN s = 1 .. Len(s)
  BY LenProperties
<1>5. /\ t \in Seq(Event) /\ Len(t) = 2 + Len(s) /\ t[1] = a /\ t[2] = b
      /\ DOMAIN t = 1 .. 2 + Len(s)
      /\ \A i \in 1 .. Len(s) : t[2 + i] = s[i]
  <2>1. /\ t \in Seq(Event) /\ Len(t) = Len(c) + Len(s)
        /\ \A i \in 1 .. Len(c) + Len(s) : t[i] = IF i <= Len(c) THEN c[i] ELSE s[i - Len(c)]
    BY <1>3, ConcatProperties
  <2>2. /\ Len(t) = 2 + Len(s)
        /\ \A i \in 1 .. 2 + Len(s) : t[i] = IF i <= 2 THEN c[i] ELSE s[i - 2]
    BY <1>3, <2>1
  <2> HIDE DEF t
  <2>3. 1 \in 1 .. 2 + Len(s) /\ 2 \in 1 .. 2 + Len(s)
    BY <1>4
  <2>4. \A i \in 1 .. Len(s) : 2 + i \in 1 .. 2 + Len(s) /\ ~(2 + i <= 2) /\ (2 + i) - 2 = i
    BY <1>4
  <2> QED
    BY <1>3, <2>1, <2>2, <2>3, <2>4, LenProperties
<1>6. base \in Seq(Event)
  BY <1>3, EmptySeq
<1> HIDE DEF t, base
<1>7. PICK k \in [0 .. Len(s) -> Seq(Event)] :
        /\ k[0] = <<>>
        /\ \A i \in 1 .. Len(s) :
             k[i] = IF s[i].section = e THEN Append(k[i - 1], s[i]) ELSE k[i - 1]
        /\ SectionOf(s, e) = k[Len(s)]
  BY SectionSteps
<1>8. PICK l \in [0 .. Len(t) -> Seq(Event)] :
        /\ l[0] = <<>>
        /\ \A i \in 1 .. Len(t) :
             l[i] = IF t[i].section = e THEN Append(l[i - 1], t[i]) ELSE l[i - 1]
        /\ SectionOf(t, e) = l[Len(t)]
  <2>1. t \in Seq(Event)
    BY <1>5
  <2> QED
    BY <2>1, SectionSteps
<1>9. l[2] = base
  <2>1. 1 \in 1 .. Len(t) /\ 2 \in 1 .. Len(t) /\ 1 - 1 = 0 /\ 2 - 1 = 1
    BY <1>4, <1>5
  <2>2. l[1] = IF d = e THEN Append(<<>>, a) ELSE <<>>
    <3>1. t[1] = a
      BY <1>5
    <3>2. l[1] = IF t[1].section = e THEN Append(l[0], t[1]) ELSE l[0]
      BY <1>8, <2>1
    <3> QED
      BY <1>1, <1>8, <3>1, <3>2
  <2>3. l[2] = IF d = e THEN Append(Append(<<>>, a), b) ELSE <<>>
    <3>1. l[2] = IF d = e THEN Append(l[1], b) ELSE l[1]
      BY <1>1, <1>5, <1>8, <2>1
    <3> QED
      BY <2>2, <3>1
  <2>4. Append(Append(<<>>, a), b) = <<a, b>>
    <3>1. Append(<<>>, a) = <<a>>
      OBVIOUS
    <3>2. Append(<<a>>, b) = <<a, b>>
      <4>1. PICK s1 : s1 = <<a>>
        OBVIOUS
      <4>2. PICK s2 : s2 = <<a, b>>
        OBVIOUS
      <4>3. s1 \in Seq({a, b}) /\ Len(s1) = 1 /\ s1[1] = a
        BY <4>1
      <4>4. s2 \in Seq({a, b}) /\ Len(s2) = 2 /\ s2[1] = a /\ s2[2] = b
        BY <4>2
      <4>5. /\ Append(s1, b) \in Seq({a, b}) /\ Len(Append(s1, b)) = Len(s1) + 1
            /\ \A i \in 1 .. Len(s1) : Append(s1, b)[i] = s1[i]
            /\ Append(s1, b)[Len(s1) + 1] = b
        <5>1. PICK S : S = {a, b}
          OBVIOUS
        <5>2. b \in S /\ s1 \in Seq(S)
          BY <4>3, <5>1
        <5>3. /\ Append(s1, b) \in Seq(S) /\ Len(Append(s1, b)) = Len(s1) + 1
              /\ \A i \in 1 .. Len(s1) : Append(s1, b)[i] = s1[i]
              /\ Append(s1, b)[Len(s1) + 1] = b
          BY <5>2, AppendElements
        <5> QED
          BY <5>1, <5>3
      <4>6. Len(Append(s1, b)) = 2 /\ \A i \in 1 .. 2 : Append(s1, b)[i] = s2[i]
        BY <4>3, <4>4, <4>5
      <4>7. Append(s1, b) = s2
        BY <4>4, <4>5, <4>6, SeqEqual
      <4> QED
        BY <4>1, <4>2, <4>7
    <3> QED
      BY <3>1, <3>2
  <2> QED
    BY <1>2, <2>3, <2>4 DEF base
<1>10. \A i \in 0 .. Len(s) : l[2 + i] = base \o k[i]
  <2> DEFINE right == {i \in 0 .. Len(s) : l[2 + i] = base \o k[i]}
  <2>1. 0 \in right
    <3>1. base \o <<>> = base
      BY <1>6, ConcatEmptySeq
    <3>2. 0 \in 0 .. Len(s) /\ 2 + 0 = 2
      BY <1>4
    <3> QED
      BY <1>7, <1>9, <3>1, <3>2
  <2>2. ASSUME NEW i \in 0 .. Len(s) - 1, i \in right PROVE i + 1 \in right
    <3>1. /\ i + 1 \in 1 .. Len(s) /\ (i + 1) - 1 = i /\ i \in 0 .. Len(s)
          /\ 2 + (i + 1) \in 1 .. Len(t) /\ 2 + (i + 1) - 1 = 2 + i
      BY <1>4, <1>5
    <3>2. l[2 + i] = base \o k[i] /\ k[i] \in Seq(Event)
      BY <1>7, <2>2, <3>1
    <3>3. t[2 + (i + 1)] = s[i + 1] /\ s[i + 1] \in Event
      BY <1>5, <3>1, ElementOfSeq
    <3>4. Append(base \o k[i], s[i + 1]) = base \o Append(k[i], s[i + 1])
      <4>1. PICK p \in Seq(Event) : p = k[i]
        BY <3>2
      <4>2. PICK x \in Event : x = s[i + 1]
        BY <3>3
      <4>3. PICK q \in Seq(Event) : q = base
        BY <1>6
      <4>4. Append(q \o p, x) = q \o Append(p, x)
        BY <4>1, <4>2, <4>3, ConcatAppend
      <4> QED
        BY <4>1, <4>2, <4>3, <4>4
    <3>5. l[2 + (i + 1)] = IF s[i + 1].section = e THEN Append(base \o k[i], s[i + 1])
                           ELSE base \o k[i]
      <4>1. PICK z \in 1 .. Len(t) : z = 2 + (i + 1)
        BY <3>1
      <4>2. z - 1 = 2 + i
        BY <3>1, <4>1
      <4>3. l[z] = IF t[z].section = e THEN Append(l[z - 1], t[z]) ELSE l[z - 1]
        BY <1>8
      <4> QED
        BY <3>2, <3>3, <4>1, <4>2, <4>3
    <3>6. k[i + 1] = IF s[i + 1].section = e THEN Append(k[i], s[i + 1]) ELSE k[i]
      BY <1>7, <3>1
    <3>7. l[2 + (i + 1)] = base \o k[i + 1]
      BY <3>4, <3>5, <3>6
    <3>8. i + 1 \in 0 .. Len(s)
      BY <3>1
    <3> QED
      BY <3>7, <3>8
  <2> HIDE DEF right
  <2>3. \A i \in 0 .. Len(s) : i \in right
    BY <1>4, <2>1, <2>2, InductionOverInterval
  <2> QED
    BY <2>3 DEF right
<1>11. SectionOf(t, e) = base \o SectionOf(s, e)
  <2>1. Len(s) \in 0 .. Len(s)
    BY <1>4
  <2> QED
    BY <1>5, <1>7, <1>8, <1>10, <2>1
<1>12. ASSUME NEW i \in DOMAIN t PROVE t[i].section \in {d} \cup {s[j].section : j \in DOMAIN s}
  <2>1. CASE i = 1 \/ i = 2
    BY <1>1, <1>5, <2>1
  <2>2. CASE i > 2
    <3>1. i - 2 \in 1 .. Len(s) /\ 2 + (i - 2) = i
      BY <1>4, <1>5, <2>2
    <3> QED
      BY <1>4, <1>5, <3>1
  <2> QED
    BY <1>4, <1>5, <2>1, <2>2
<1>13. ASSUME NEW j \in DOMAIN s PROVE \E i \in DOMAIN t : s[j].section = t[i].section
  <2>1. 2 + j \in DOMAIN t /\ j \in 1 .. Len(s)
    BY <1>4, <1>5
  <2> QED
    BY <1>5, <2>1
<1>14. \E i \in DOMAIN t : d = t[i].section
  <2>1. 1 \in DOMAIN t
    BY <1>4, <1>5
  <2> QED
    BY <1>1, <1>5, <2>1
<1>15. {t[i].section : i \in DOMAIN t} = {d} \cup {s[i].section : i \in DOMAIN s}
  <2>1. ASSUME NEW x \in {t[i].section : i \in DOMAIN t}
        PROVE  x \in {d} \cup {s[i].section : i \in DOMAIN s}
    BY <1>12
  <2>2. ASSUME NEW x \in {d} \cup {s[i].section : i \in DOMAIN s}
        PROVE  x \in {t[i].section : i \in DOMAIN t}
    BY <1>13, <1>14
  <2> QED
    BY <2>1, <2>2
<1> QED
  BY <1>3, <1>5, <1>11, <1>15 DEF t, base

QueryEnd(n) == cmds[n].command = "BINARY_DATA_QUERY" /\ cmds[n].symbol = -1
SectionsOf(events) == {events[i].section : i \in DOMAIN events}

EventsInv(n) ==
  QueryEnd(n) =>
    /\ SectionsOf(cmds[n].events) = {e \in Engines : n <= handled[e]}
    /\ \A e \in Engines :
         SectionOf(cmds[n].events, e) =
           IF n <= handled[e] THEN CreateBinaryEventsChain(e, Words(cmds[n].word)) ELSE <<>>

ChainInv(e) ==
  writing[e].field = "matcherEvent" =>
    writing[e].chain = CreateBinaryEventsChain(e, Words(cmds[handled[e] + 1].word))

ReportInv ==
  /\ \A n \in DOMAIN cmds : EventsInv(n)
  /\ \A e \in Engines : ChainInv(e)

\* The other commands of engine e, and the other engines.
LEMMA ReportStep ==
  ASSUME Base, ReportInv, NEW e \in Engines, NEW n, EngineStep(e, n),
         EventsInv(n)', ChainInv(e)'
  PROVE  ReportInv'
<1>1. /\ n = handled[e] + 1 /\ n \in DOMAIN cmds /\ DOMAIN cmds' = DOMAIN cmds
      /\ \A k \in DOMAIN cmds : SameRequest(cmds'[k], cmds[k])
      /\ \A k \in DOMAIN cmds : k # n => cmds'[k] = cmds[k]
      /\ handled' = handled \/ handled' = [handled EXCEPT ![e] = n]
      /\ \A d \in Engines : d # e => writing'[d] = writing[d]
  BY DEF EngineStep, SameRequest
<1>2. /\ handled \in [Engines -> Int] /\ \A d \in Engines : handled[d] \in Int
      /\ \A k \in DOMAIN cmds : k \in Nat
  BY WordTypes DEF Base, Typed, EngineType
<1>3. \A d \in Engines : d # e => handled'[d] = handled[d]
  BY <1>1, <1>2
<1>4. \A k \in DOMAIN cmds : k # n => \A d \in Engines : k <= handled'[d] <=> k <= handled[d]
  <2> SUFFICES ASSUME NEW k \in DOMAIN cmds, k # n, NEW d \in Engines
               PROVE  k <= handled'[d] <=> k <= handled[d]
    OBVIOUS
  <2>1. CASE d # e
    BY <1>3, <2>1
  <2>2. CASE d = e
    <3>1. handled'[e] = handled[e] \/ handled'[e] = n
      BY <1>1, <1>2
    <3>2. handled[e] \in Int /\ k \in Nat /\ n = handled[e] + 1
      BY <1>1, <1>2
    <3> QED
      BY <2>2, <3>1, <3>2
  <2> QED
    BY <2>1, <2>2
<1>5. ASSUME NEW k \in DOMAIN cmds', k # n PROVE EventsInv(k)'
  <2>1. EventsInv(k) /\ cmds'[k] = cmds[k] /\ k \in DOMAIN cmds
    BY <1>1, <1>5 DEF ReportInv
  <2>2. {d \in Engines : k <= handled'[d]} = {d \in Engines : k <= handled[d]}
    BY <1>4, <1>5, <2>1
  <2> QED
    BY <1>4, <1>5, <2>1, <2>2 DEF EventsInv, QueryEnd
<1>6. ASSUME NEW d \in Engines, d # e PROVE ChainInv(d)'
  <2>1. ChainInv(d) /\ writing'[d] = writing[d] /\ handled'[d] = handled[d]
    BY <1>1, <1>3, <1>6 DEF ReportInv
  <2>2. CASE writing[d].field = "matcherEvent"
    <3>1. handled[d] + 1 \in DOMAIN cmds
      BY <2>2 DEF Base, Typed, OrderInv, NoWrite
    <3>2. cmds'[handled[d] + 1].word = cmds[handled[d] + 1].word
      BY <1>1, <3>1 DEF SameRequest
    <3> QED
      BY <2>1, <3>2 DEF ChainInv
  <2>3. CASE writing[d].field # "matcherEvent"
    BY <2>1, <2>3 DEF ChainInv
  <2> QED
    BY <2>2, <2>3
<1> QED
  BY <1>5, <1>6 DEF ReportInv

\* A successful exchange puts the section of the engine in front of the others.
LEMMA ExchangeKeepsReports ==
  ASSUME Base, FrameInv, ReportInv, NEW e \in Engines, NEW n, EngineStep(e, n), ExchangeEvents(e)
  PROVE  ReportInv'
<1>1. /\ n = handled[e] + 1 /\ n \in DOMAIN cmds /\ DOMAIN cmds' = DOMAIN cmds
      /\ SameRequest(cmds'[n], cmds[n])
  BY DEF EngineStep
<1>2. /\ handled \in [Engines -> Int] /\ \A d \in Engines : handled[d] \in Int
      /\ cmds \in [DOMAIN cmds -> Slot] /\ writing \in [Engines -> Write]
      /\ n \in Int /\ ~(n <= handled[e])
  <2>1. /\ handled \in [Engines -> Int] /\ cmds \in [DOMAIN cmds -> Slot]
        /\ writing \in [Engines -> Write]
    BY DEF Base, Typed, EngineType, ClientType
  <2>2. \A d \in Engines : handled[d] \in Int
    BY <2>1
  <2> QED
    BY <1>1, <2>1, <2>2
<1>3. writing[e].field = "matcherEvent" /\ writing[e] # NoWrite
  BY DEF ExchangeEvents, NoWrite
<1>4. QueryEnd(n) /\ (QueryEnd(n)' <=> QueryEnd(n))
  BY <1>1, <1>3 DEF QueryEnd, Base, Typed, OrderInv, SameRequest
<1> DEFINE w == Words(cmds[n].word)
           c == CreateBinaryEventsChain(e, w)
           s == cmds[n].events
<1>5. writing[e].chain = c /\ EventsInv(n)
  BY <1>1, <1>3 DEF ReportInv, ChainInv
<1>6. w \in Seq(Word) /\ s \in Seq(Event) /\ cmds[n] \in Slot
  <2>1. cmds[n] \in Slot
    BY <1>1, <1>2
  <2>2. cmds[n].word[1] \in Nat /\ cmds[n].word[2] \in Nat
    BY <1>1, WordTypes DEF Base, Typed
  <2>3. w \in [1 .. cmds[n].word[2] -> Word]
    BY <2>2 DEF Words, Word
  <2> QED
    BY <2>1, <2>2, <2>3, FunctionIsSeq DEF Slot
<1>10. /\ c \in Seq(Event) /\ SectionsOf(c \o s) = {e} \cup SectionsOf(s)
       /\ \A d : SectionOf(c \o s, d) = (IF e = d THEN c ELSE <<>>) \o SectionOf(s, d)
  <2>1. c \in Seq(Event) /\ Len(c) = 2 /\ c[1].section = e /\ c[2].section = e
    BY <1>6, ChainFacts
  <2> HIDE DEF c, s, w
  <2>2. /\ c \in Seq(Event)
        /\ {(c \o s)[i].section : i \in DOMAIN (c \o s)} = {e} \cup {s[i].section : i \in DOMAIN s}
    BY <1>6, <2>1, SectionAppend
  <2>3. ASSUME NEW d PROVE SectionOf(c \o s, d) = (IF e = d THEN c ELSE <<>>) \o SectionOf(s, d)
    BY <1>6, <2>1, SectionAppend
  <2> QED
    BY <2>2, <2>3 DEF SectionsOf
<1>7. CASE cmds'[n].events = c \o s /\ Done(e) /\ writing' = [writing EXCEPT ![e] = NoWrite]
  <2>1. handled'[e] = n /\ \A d \in Engines : d # e => handled'[d] = handled[d]
    BY <1>1, <1>2, <1>7 DEF Done
  <2>2. \A d \in Engines : n <= handled'[d] <=> n <= handled[d] \/ d = e
    BY <1>2, <2>1
  <2>3. SectionsOf(c \o s) = {e} \cup SectionsOf(s)
    BY <1>10
  <2>4. SectionsOf(c \o s) = {d \in Engines : n <= handled'[d]}
    BY <1>4, <1>5, <2>2, <2>3 DEF EventsInv
  <2>5. ASSUME NEW d \in Engines
        PROVE  SectionOf(c \o s, d) = IF n <= handled'[d] THEN CreateBinaryEventsChain(d, w)
                                      ELSE <<>>
    <3>1. SectionOf(c \o s, d) = (IF e = d THEN c ELSE <<>>) \o SectionOf(s, d)
      BY <1>10
    <3>2. SectionOf(s, d) = IF n <= handled[d] THEN CreateBinaryEventsChain(d, w) ELSE <<>>
      BY <1>4, <1>5 DEF EventsInv
    <3>3. SectionOf(s, d) \in Seq(Event)
      BY <1>6, <3>2, ChainFacts, EmptySeq
    <3>4. CASE d = e
      <4>1. c \in Seq(Event)
        BY <1>10
      <4>2. c \o <<>> = c
        BY <4>1, ConcatEmptySeq
      <4> HIDE DEF c, s
      <4> QED
        BY <1>2, <2>2, <3>1, <3>2, <3>4, <4>2 DEF c
    <3>5. CASE d # e
      <4>1. <<>> \o SectionOf(s, d) = SectionOf(s, d)
        BY <3>3, ConcatEmptySeq
      <4> HIDE DEF c, s, w
      <4> QED
        BY <2>2, <3>1, <3>2, <3>5, <4>1
    <3> QED
      BY <3>4, <3>5
  <2>6. EventsInv(n)'
    <3>1. cmds'[n].word = cmds[n].word
      BY <1>1 DEF SameRequest
    <3> HIDE DEF c, s
    <3> QED
      BY <1>7, <2>4, <2>5, <3>1 DEF EventsInv
  <2>7. ChainInv(e)'
    BY <1>2, <1>7 DEF ChainInv, NoWrite
  <2> QED
    BY <2>6, <2>7, ReportStep
<1>8. CASE UNCHANGED <<cmds, handled>> /\ writing' = [writing EXCEPT ![e].expected = cmds[n].events]
  <2>1. EventsInv(n)'
    BY <1>5, <1>8 DEF EventsInv, QueryEnd
  <2>2. writing'[e].chain = writing[e].chain
    BY <1>2, <1>3, <1>8 DEF Write
  <2>3. ChainInv(e)'
    BY <1>1, <1>5, <1>8, <2>2 DEF ChainInv
  <2> QED
    BY <2>1, <2>3, ReportStep
<1>9. \/ cmds'[n].events = c \o s /\ Done(e) /\ writing' = [writing EXCEPT ![e] = NoWrite]
      \/ UNCHANGED <<cmds, handled>> /\ writing' = [writing EXCEPT ![e].expected = cmds[n].events]
  <2>1. CASE Compare(writing[e].expected, cmds[n].events)
    <3>1. writing[e].expected = s
      BY <2>1 DEF Compare
    <3>2. Done(e) /\ writing' = [writing EXCEPT ![e] = NoWrite]
      BY <1>1, <2>1 DEF ExchangeEvents
    <3>3. cmds'[n].events = writing[e].chain \o writing[e].expected
      <4> DEFINE appended == [cmds EXCEPT ![n].events = writing[e].chain \o writing[e].expected]
      <4>1. cmds' = appended \/ cmds' = [appended EXCEPT ![n].resultCode = FrameCode(e, "SUCCESS")]
        BY <1>1, <2>1 DEF ExchangeEvents
      <4>2. appended[n].events = writing[e].chain \o writing[e].expected /\ n \in DOMAIN appended
        BY <1>1, <1>2, <1>6 DEF Slot
      <4>3. [appended EXCEPT ![n].resultCode = FrameCode(e, "SUCCESS")][n].events
              = appended[n].events
        BY <1>1, <1>2, <1>6 DEF Slot
      <4> HIDE DEF appended
      <4> QED
        BY <4>1, <4>2, <4>3
    <3> QED
      BY <1>5, <3>1, <3>2, <3>3
  <2>2. CASE ~Compare(writing[e].expected, cmds[n].events)
    BY <1>1, <2>2 DEF ExchangeEvents
  <2> QED
    BY <2>1, <2>2
<1> QED
  BY <1>7, <1>8, <1>9

\* An engine adds its section, about the query it put together, or none.
LEMMA EngineKeepsReports ==
  ASSUME Base, FrameInv, AssemblyInv, ReportInv, NEW e \in Engines, EngineAction(e)
  PROVE  ReportInv'
<1>1. PICK n : EngineStep(e, n)
  BY EngineSteps DEF Base
<1>2. /\ n = handled[e] + 1 /\ n \in DOMAIN cmds /\ DOMAIN cmds' = DOMAIN cmds
      /\ SameRequest(cmds'[n], cmds[n]) /\ handled[e] \in Int /\ n - 1 = handled[e]
      /\ writing \in [Engines -> Write]
  <2>1. /\ n = handled[e] + 1 /\ n \in DOMAIN cmds /\ DOMAIN cmds' = DOMAIN cmds
        /\ SameRequest(cmds'[n], cmds[n])
    BY <1>1 DEF EngineStep
  <2>2. handled[e] \in Int /\ writing \in [Engines -> Write]
    BY DEF Base, Typed, EngineType
  <2> QED
    BY <2>1, <2>2
<1>3. QueryEnd(n)' <=> QueryEnd(n)
  BY <1>2 DEF QueryEnd, SameRequest
<1>4. CASE ExchangeEvents(e)
  BY <1>1, <1>4, ExchangeKeepsReports
<1>5. CASE CompleteQuery(e)
  <2>1. /\ writing[e] = NoWrite /\ cmds' = cmds /\ handled' = handled
        /\ cmds[n].command \in Messages /\ cmds[n].symbol = -1
    BY <1>2, <1>5 DEF CompleteQuery, Ready, Messages
  <2>2. writing'[e].chain = CreateBinaryEventsChain(e, Transferred(e, cmds[n]))
    BY <1>2, <1>5 DEF CompleteQuery
  <2>3. Assembled(incomingData[e], completed[e], n - 1)
    BY <1>2, <2>1 DEF AssemblyInv, UpTo, NoWrite
  <2>4. Transferred(e, cmds[n]) = Words(cmds[n].word)
    BY <1>2, <2>1, <2>3, TransferredWords
  <2>5. ChainInv(e)'
    BY <1>2, <2>1, <2>2, <2>4 DEF ChainInv
  <2>6. EventsInv(n)'
    BY <1>2, <2>1 DEF ReportInv, EventsInv, QueryEnd
  <2> QED
    BY <1>1, <2>5, <2>6, ReportStep
<1>6. CASE \/ HandleOrder(e) \/ AcceptFrame(e) \/ CompleteCommand(e)
           \/ StoreData(e) \/ ExchangeResult(e) \/ SkipPersist(e)
  <2>1. ~QueryEnd(n)
    <3>1. CASE \/ HandleOrder(e) \/ AcceptFrame(e) \/ CompleteCommand(e)
               \/ StoreData(e) \/ SkipPersist(e)
      BY <1>2, <3>1 DEF QueryEnd, HandleOrder, AcceptFrame, CompleteCommand, StoreData,
         SkipPersist, Ready
    <3>2. CASE ExchangeResult(e)
      <4>1. writing[e].field = "resultCode" /\ writing[e] # NoWrite
        BY <3>2 DEF ExchangeResult, NoWrite
      <4> QED
        BY <1>2, <4>1 DEF Base, Typed, OrderInv, QueryEnd, Stores
    <3> QED
      BY <1>6, <3>1, <3>2
  <2>2. writing'[e].field # "matcherEvent"
    <3>1. CASE \/ HandleOrder(e) \/ AcceptFrame(e) \/ CompleteCommand(e) \/ SkipPersist(e)
      <4>1. writing' = writing /\ writing[e] = NoWrite
        BY <3>1 DEF HandleOrder, AcceptFrame, CompleteCommand, SkipPersist, Ready
      <4> QED
        BY <4>1 DEF NoWrite
    <3>2. CASE StoreData(e)
      BY <1>2, <3>2 DEF StoreData
    <3>3. CASE ExchangeResult(e)
      <4>1. \/ writing' = [writing EXCEPT ![e] = NoWrite]
            \/ writing' = [writing EXCEPT ![e].expected = cmds[n].resultCode]
        BY <1>2, <3>3 DEF ExchangeResult
      <4>2. writing[e].field = "resultCode"
        BY <3>3 DEF ExchangeResult
      <4> QED
        BY <1>2, <4>1, <4>2 DEF Write, NoWrite
    <3> QED
      BY <1>6, <3>1, <3>2, <3>3
  <2>3. EventsInv(n)' /\ ChainInv(e)'
    BY <1>3, <2>1, <2>2 DEF EventsInv, ChainInv
  <2> QED
    BY <1>1, <2>3, ReportStep
<1> QED
  BY <1>4, <1>5, <1>6 DEF EngineAction

\* A published query has no events, and no engine has handled it.
LEMMA PublishKeepsReports ==
  ASSUME Base, ReportInv, NEW c \in Clients, Publish(c)
  PROVE  ReportInv'
<1> DEFINE new == client[c].low .. High(c)
<1>1. /\ InFlight(c) /\ DOMAIN cmds' = DOMAIN cmds \cup new
      /\ \A n \in DOMAIN cmds : cmds'[n] = cmds[n]
      /\ \A n \in new : cmds'[n] = client[c].fragment[n - client[c].low + 1]
      /\ UNCHANGED <<handled, writing>>
  BY PublishFacts DEF engines
<1>2. \A n \in new : n \notin DOMAIN cmds /\ n \in Nat /\ Fresh(cmds'[n])
  BY <1>1, FlightFacts, PublishedPart
<1>3. \A n \in DOMAIN cmds' : n \in DOMAIN cmds \/ n \in new
  BY <1>1
<1> HIDE DEF new
<1>4. ASSUME NEW n \in new, NEW e \in Engines PROVE ~(n <= handled[e])
  <2>1. handled[e] \in Int /\ n \in Nat /\ n \notin DOMAIN cmds
    BY <1>2 DEF Base, Typed, EngineType
  <2>2. n \notin 0 .. handled[e]
    BY <2>1 DEF Base, Typed, OrderInv
  <2> QED
    BY <2>1, <2>2
<1>5. ASSUME NEW n \in DOMAIN cmds PROVE EventsInv(n)'
  BY <1>1 DEF ReportInv, EventsInv, QueryEnd
<1>6. ASSUME NEW n \in new PROVE EventsInv(n)'
  <2>1. cmds'[n].events = <<>> /\ \A e \in Engines : ~(n <= handled'[e])
    BY <1>1, <1>2, <1>4 DEF Fresh
  <2>2. SectionsOf(<<>>) = {} /\ \A e \in Engines : SectionOf(<<>>, e) = <<>>
    BY SectionOfNone DEF SectionsOf
  <2>3. {e \in Engines : n <= handled'[e]} = {}
    BY <2>1
  <2> QED
    BY <2>1, <2>2, <2>3 DEF EventsInv
<1>7. ASSUME NEW e \in Engines PROVE ChainInv(e)'
  <2>1. writing[e].field = "matcherEvent" => handled[e] + 1 \in DOMAIN cmds
    BY DEF Base, Typed, OrderInv, NoWrite
  <2> QED
    BY <1>1, <2>1 DEF ReportInv, ChainInv
<1> QED
  BY <1>3, <1>5, <1>6, <1>7 DEF ReportInv

\* Every step keeps the sections of the queries right.
LEMMA ReportNext ==
  ASSUME Base, FrameInv, AssemblyInv, ReportInv, [Next]_vars
  PROVE  ReportInv'
<1>1. CASE \/ UNCHANGED vars
           \/ \E c \in Clients : \E f, r, offset : ClaimStep(c, f, r, offset)
           \/ \E c \in Clients : FilePromises(c)
           \/ ProcessResult
  <2>1. UNCHANGED <<cmds, handled, writing>>
    BY <1>1 DEF vars, ClaimStep, FilePromises, ProcessResult, engines
  <2> QED
    BY <2>1 DEF ReportInv, EventsInv, ChainInv, QueryEnd
<1>2. CASE \E c \in Clients : Publish(c)
  BY <1>2, PublishKeepsReports
<1>3. CASE \E e \in Engines : EngineAction(e)
  BY <1>3, EngineKeepsReports
<1> QED
  BY <1>1, <1>2, <1>3, NextCases

\* When E passes a query every engine has handled it, and added its section.
LEMMA ReportsAreComplete ==
  ASSUME Answering, Messaging, ReportInv
  PROVE  ReportComplete
<1> USE DEF Messaging
<1> SUFFICES ASSUME NEW f \in DOMAIN requests, requests[f].kind \in {"report", "reportAny"},
                    Answered(<<f, 1>>)
             PROVE  AnswerOf(<<f, 1>>)
                      = [e \in Engines |-> CreateBinaryEventsChain(e, WholeMessage(f))]
  BY DEF ReportComplete, KindOf
<1>1. PICK n \in 0 .. eSeq : Awaited(cmds[n]) /\ cmds[n].future = <<f, 1>>
  BY AnsweredIsSeen
<1>2. n \in DOMAIN cmds /\ Known(cmds[n])
  BY SeenByE, SlotsKnown
<1>3. cmds[n].future[1] = f /\ cmds[n].word[1] = f
  BY <1>1, <1>2, FutureTellsPart
<1>4. /\ cmds[n].command = "BINARY_DATA_QUERY" /\ cmds[n].symbol = -1
      /\ cmds[n].word[2] = requests[f].frames
  <2>1. IsPart(cmds[n], requests[f], f, cmds[n].word[2])
    BY <1>2, <1>3 DEF Known
  <2>2. requests[f].kind \in MessageKinds /\ requests[f].kind # "binary" /\ cmds[n].future # <<>>
    BY <1>1 DEF MessageKinds, Awaited
  <2>3. cmds[n].word[2] \in Nat /\ requests[f].frames \in Nat
    BY <1>2, <1>3 DEF Known
  <2> QED
    BY <2>1, <2>2, <2>3 DEF IsPart
<1>5. Words(cmds[n].word) = WholeMessage(f)
  BY <1>3, <1>4 DEF Words, WholeMessage
<1>6. \A e \in Engines : n <= handled[e]
  BY SeenByE
<1>7. EventsInv(n) /\ QueryEnd(n)
  BY <1>2, <1>4 DEF ReportInv, QueryEnd
<1>8. /\ SectionsOf(cmds[n].events) = Engines
      /\ \A e \in Engines :
           SectionOf(cmds[n].events, e) = CreateBinaryEventsChain(e, WholeMessage(f))
  <2>1. {e \in Engines : n <= handled[e]} = Engines
    BY <1>6
  <2> QED
    BY <1>5, <1>6, <1>7, <2>1 DEF EventsInv
<1>9. DeserializeEvents(cmds[n].events)
        = [e \in Engines |-> CreateBinaryEventsChain(e, WholeMessage(f))]
  BY <1>8 DEF DeserializeEvents, SectionsOf
<1>10. AnswerOf(cmds[n].future) = Answer(MapOf(KindOf(cmds[n].future[1])), cmds[n])
  BY <1>1, AnsweredOnce
<1> QED
  BY <1>1, <1>3, <1>9, <1>10 DEF Answer, MapOf, KindOf

\* For any number of engines and clients, any requests and any fragment size:
\* the report a client is given has one section of every engine, whole and about
\* its query, however the engines interleave in AppendEventsVolatile.
THEOREM ReportsSafety == Spec => []ReportComplete
<1>1. Init => ReportInv
  BY DEF Init, ReportInv, ChainInv, NoWrite
<1>2. Messaging /\ ReportInv /\ [Next]_vars => ReportInv'
  BY ReportNext DEF Messaging
<1>3. Answering /\ Messaging /\ ReportInv => ReportComplete
  BY ReportsAreComplete
<1> QED
  BY <1>1, <1>2, <1>3, AnsweringInvariance, MessagingInvariance, PTL DEF Spec
=============================================================================
