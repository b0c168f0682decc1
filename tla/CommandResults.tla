--------------------------- MODULE CommandResults ---------------------------
(***************************************************************************)
(* How the result of a request finds its way back to the client: the       *)
(* promises ExchangeApi files under sequences, the messages of several     *)
(* frames every engine puts together for itself (BinaryCommandsProcessor), *)
(* the fields of a command that several engines write (UnsafeUtils), and   *)
(* ProcessResult, which keeps the promises.                                *)
(*                                                                         *)
(* A command here is what these parts look at.  A word stands for the five *)
(* longs of a frame, the section of an engine in a report for the events   *)
(* CreateBinaryEventsChain makes of it.  Slots are not reused (Pipeline    *)
(* shows when they may be).                                                *)
(***************************************************************************)
EXTENDS Integers, Sequences, FiniteSets

CONSTANTS
  RiskShards,          \* shards of the risk engines
  MatchingShards,      \* shards of the matching engines
  FragmentSize,        \* a quarter of the ring
  Clients,             \* client threads; each uses a transferId of its own
  Requests,            \* what a client may submit: [kind, frames]
  MaxRequests,         \* bound: requests submitted
  MaxCommands          \* bound: commands claimed

\* Requests of one slot, snapshots of two, and messages of any number of frames.
MessageKinds == {"binary", "report", "reportAny"}
Kinds == {"plain", "fullResponse", "orderBook", "persist"} \cup MessageKinds

ASSUME RequestsAssumption == Requests \subseteq [kind : Kinds, frames : Nat \ {0}]

ASSUME EnginesAssumption ==
  /\ RiskShards \subseteq 0 .. 1023 /\ 0 \in RiskShards
  /\ MatchingShards \subseteq 0 .. 1023 /\ 0 \in MatchingShards
  /\ FragmentSize \in Nat \ {0}

\* An engine is named by its section: its shard, plus 1024 if it is matching.
Risk == RiskShards
Matching == {m + 1024 : m \in MatchingShards}
Engines == Risk \cup Matching
Shard(e) == e % 1024

VARIABLES
  requests,            \* the requests submitted, in order of their claims
  client,              \* what each client is doing
  cursor,              \* last sequence claimed
  cmds,                \* the published commands, by sequence
  promises,            \* the four maps: [map, seq, future]
  answers,             \* the promises kept, in order: [future, value]
  handled,             \* last sequence each engine has done with
  incomingData,        \* of each engine: transferId to the words so far
  writing,             \* the write an engine has under way to a shared field
  completed,           \* the messages each engine has handled, in order
  failures,            \* history: <<sequence, engine>> of snapshots not stored
  eSeq                 \* E: last sequence

clients == <<requests, client, cursor>>
engines == <<handled, incomingData, writing, completed, failures>>
vars == <<clients, cmds, promises, answers, engines, eSeq>>

Idle == [step |-> "idle"]
NoWrite == [field |-> "none"]
Messages == {"BINARY_DATA_COMMAND", "BINARY_DATA_QUERY"}

Init ==
  /\ requests = <<>>
  /\ client = [c \in Clients |-> Idle]
  /\ cursor = -1
  /\ cmds = [n \in {} |-> 0]
  /\ promises = {}
  /\ answers = <<>>
  /\ handled = [e \in Engines |-> -1]
  /\ incomingData = [e \in Engines |-> [t \in {} |-> <<>>]]
  /\ writing = [e \in Engines |-> NoWrite]
  /\ completed = [e \in Engines |-> <<>>]
  /\ failures = {}
  /\ eSeq = -1

-----------------------------------------------------------------------------
(***************************************************************************)
(* Clients.  A request is claimed, its promises are filed under the        *)
(* sequences that will answer it, and only then it is published.  Messages *)
(* go fragment by fragment; the promise is filed with the last one.        *)
(***************************************************************************)
\* Which map holds the promises of a request.
MapOf(kind) ==
  CASE kind \in {"report", "reportAny"} -> "reportPromises"
    [] kind = "orderBook" -> "orderBookPromises"
    [] kind = "fullResponse" -> "fullResponsePromises"
    [] OTHER -> "promises"

\* The command of a request that is one; all translators are alike here.
CommandOf(kind) ==
  IF kind = "orderBook" THEN "ORDER_BOOK_REQUEST" ELSE "CANCEL_ORDER"

NextStepPublishFirst(step) ==                          \* mutant
  CASE step = "claimed" -> "filed" [] step = "filed" -> "claimed"

\* What a client does next: file, then publish.
NextStep(step) == step

(***************************************************************************)
(* What a client writes into a slot.  future is the promise the command    *)
(* answers: <<request, part>>, or <<>> for a frame before the last.        *)
(***************************************************************************)
Command(name, transferId, word, symbol, future) ==
  [command |-> name, userCookie |-> transferId, word |-> word,
   symbol |-> symbol, future |-> future,
   resultCode |-> "NEW", marketData |-> 0, events |-> <<>>]

\* Frames offset + 1, ... of message f; symbol -1 marks the last of all.
FragmentOf(name, f, frames, offset, transferId) ==
  LET size == IF offset + FragmentSize >= frames THEN frames - offset
              ELSE FragmentSize
  IN [i \in 1 .. size |->
        LET last == offset + i = frames
        IN Command(name, transferId, <<f, offset + i>>, IF last THEN -1 ELSE 0,
                   IF last THEN <<f, 1>> ELSE <<>>)]

PersistPair(f) ==
  <<Command("PERSIST_STATE_MATCHING", 0, <<f, 1>>, -1, <<f, 1>>),
    Command("PERSIST_STATE_RISK", 0, <<f, 2>>, -1, <<f, 2>>)>>

Fragment(f, r, offset, transferId) ==
  CASE r.kind = "persist" -> PersistPair(f)
    [] r.kind = "binary" ->
         FragmentOf("BINARY_DATA_COMMAND", f, r.frames, offset, transferId)
    [] r.kind \in {"report", "reportAny"} ->
         FragmentOf("BINARY_DATA_QUERY", f, r.frames, offset, transferId)
    [] OTHER -> <<Command(CommandOf(r.kind), 0, <<f, 1>>, 0, <<f, 1>>)>>

IsLastFragment(fragment) == fragment[Len(fragment)].future # <<>>

\* Claim a fragment: the first of a new request, or the next of one under way.
Claim(c, f, r, offset) ==
  LET fragment == Fragment(f, r, offset, c)
  IN /\ cursor + Len(fragment) < MaxCommands
     /\ cursor' = cursor + Len(fragment)
     /\ client' = [client EXCEPT ![c] =
          [step |-> "claimed", f |-> f, r |-> r, offset |-> offset,
           low |-> cursor + 1, fragment |-> fragment]]

Submit(c, kinds) ==
  \E r \in Requests :
    /\ r.kind \in kinds
    /\ client[c] = Idle
    /\ Len(requests) < MaxRequests
    /\ requests' = Append(requests, r)
    /\ Claim(c, Len(requests) + 1, r, 0)
    /\ UNCHANGED <<cmds, promises, answers, engines, eSeq>>

SubmitCommandAsync(c) == Submit(c, {"plain", "persist", "binary"})
SubmitCommandAsyncFullResponse(c) == Submit(c, {"fullResponse"})
RequestOrderBookAsync(c) == Submit(c, {"orderBook"})
ProcessReport(c) == Submit(c, {"report"})
ProcessReportAny(c) == Submit(c, {"reportAny"})

PublishNextFragment(c) ==
  /\ client[c].step = "between"
  /\ Claim(c, client[c].f, client[c].r, client[c].offset + FragmentSize)
  /\ UNCHANGED <<requests, cmds, promises, answers, engines, eSeq>>

AfterFragment(state) ==
  IF IsLastFragment(state.fragment) THEN Idle ELSE [state EXCEPT !.step = "between"]

FilePromises(c) ==
  LET state == client[c]
      fragment == state.fragment
  IN /\ state.step \in {"claimed", "filed"}
     /\ NextStep(state.step) = "claimed"
     /\ promises' = promises \cup
          {[map |-> MapOf(state.r.kind), seq |-> state.low + i - 1,
            future |-> fragment[i].future] :
              i \in {j \in DOMAIN fragment : fragment[j].future # <<>>}}
     /\ client' = [client EXCEPT ![c] =
          IF state.step = "filed" THEN AfterFragment(state)
          ELSE [state EXCEPT !.step = "filed"]]
     /\ UNCHANGED <<requests, cursor, cmds, answers, engines, eSeq>>

Publish(c) ==
  LET state == client[c]
      high == state.low + Len(state.fragment) - 1
  IN /\ state.step \in {"claimed", "filed"}
     /\ NextStep(state.step) = "filed"
     /\ cmds' = [n \in DOMAIN cmds \cup (state.low .. high) |->
                   IF n \in DOMAIN cmds THEN cmds[n]
                   ELSE state.fragment[n - state.low + 1]]
     /\ client' = [client EXCEPT ![c] =
          IF state.step = "filed" THEN AfterFragment(state)
          ELSE [state EXCEPT !.step = "filed"]]
     /\ UNCHANGED <<requests, cursor, promises, answers, engines, eSeq>>

-----------------------------------------------------------------------------
(***************************************************************************)
(* Engines.  A risk engine takes published commands in order, a matching   *)
(* engine those every risk engine has done with.                           *)
(***************************************************************************)
Ready(e, commands) ==
  LET n == handled[e] + 1
  IN /\ n \in DOMAIN cmds
     /\ cmds[n].command \in commands
     /\ e \in Matching => \A r \in Risk : n <= handled[r]
     /\ writing[e] = NoWrite

Done(e) == handled' = [handled EXCEPT ![e] = @ + 1]

\* A plain write, by shard 0 (or the owner of a symbol) only.
ResultWritten(e, code) ==
  IF Shard(e) = 0 THEN [cmds EXCEPT ![handled[e] + 1].resultCode = code] ELSE cmds

(***************************************************************************)
(* Orders and order book requests: only the matching engine of their       *)
(* symbol, here the first, has something to do.                            *)
(***************************************************************************)
HandleOrder(e) ==
  LET n == handled[e] + 1
  IN /\ Ready(e, {"CANCEL_ORDER", "ORDER_BOOK_REQUEST"})
     /\ IF e = 1024
        THEN \E code \in {"SUCCESS", "MATCHING_UNKNOWN_ORDER_ID"} :
               /\ cmds[n].command = "ORDER_BOOK_REQUEST" => code = "SUCCESS"
               /\ cmds' = [cmds EXCEPT ![n].resultCode = code,
                    ![n].marketData = IF cmds[n].command = "ORDER_BOOK_REQUEST"
                                      THEN cmds[n].word[1] ELSE 0]
        ELSE UNCHANGED cmds
     /\ Done(e)
     /\ UNCHANGED <<clients, promises, answers, incomingData, writing,
                    completed, failures, eSeq>>

(***************************************************************************)
(* AcceptBinaryFrame: the words so far, and with the last frame the whole  *)
(* message.                                                                *)
(***************************************************************************)
Transferred(e, c) ==
  IF c.userCookie \in DOMAIN incomingData[e]
  THEN Append(incomingData[e][c.userCookie], c.word) ELSE <<c.word>>

RecordKept(records, transferId) == records             \* mutant

RecordErased(records, transferId) ==
  [t \in DOMAIN records \ {transferId} |-> records[t]]

FrameCode(e, code) == IF e \in Risk THEN "VALID_FOR_MATCHING_ENGINE" ELSE code

AcceptFrame(e) ==
  LET c == cmds[handled[e] + 1]
  IN /\ Ready(e, Messages)
     /\ c.symbol # -1
     /\ incomingData' = [incomingData EXCEPT ![e] =
          [t \in DOMAIN @ \cup {c.userCookie} |->
             IF t = c.userCookie THEN Transferred(e, c) ELSE @[t]]]
     /\ cmds' = ResultWritten(e, FrameCode(e, "ACCEPTED"))
     /\ Done(e)
     /\ UNCHANGED <<clients, promises, answers, writing, completed, failures,
                    eSeq>>

CompleteCommand(e) ==
  LET c == cmds[handled[e] + 1]
  IN /\ Ready(e, {"BINARY_DATA_COMMAND"})
     /\ c.symbol = -1
     /\ completed' = [completed EXCEPT ![e] = Append(@, Transferred(e, c))]
     /\ incomingData' = [incomingData EXCEPT ![e] = RecordErased(@, c.userCookie)]
     /\ cmds' = ResultWritten(e, FrameCode(e, "SUCCESS"))
     /\ Done(e)
     /\ UNCHANGED <<clients, promises, answers, writing, failures, eSeq>>

(***************************************************************************)
(* The section of an engine in a report: two events, in order.             *)
(***************************************************************************)
CreateBinaryEventsChain(e, words) ==
  <<[section |-> e, of |-> words, part |-> 1],
    [section |-> e, of |-> words, part |-> 2]>>

\* AppendEventsVolatile, up to the first compare and exchange.
CompleteQuery(e) ==
  LET c == cmds[handled[e] + 1]
      words == Transferred(e, c)
  IN /\ Ready(e, {"BINARY_DATA_QUERY"})
     /\ c.symbol = -1
     /\ completed' = [completed EXCEPT ![e] = Append(@, words)]
     /\ incomingData' = [incomingData EXCEPT ![e] = RecordErased(@, c.userCookie)]
     /\ writing' = [writing EXCEPT ![e] =
          [field |-> "matcherEvent", expected |-> c.events,
           chain |-> CreateBinaryEventsChain(e, words)]]
     /\ UNCHANGED <<clients, cmds, promises, answers, handled, failures, eSeq>>

CompareAlwaysEqual(expected, current) == TRUE          \* mutant

Compare(expected, current) == expected = current

\* The tail of the chain points to the expected head when the exchange succeeds.
ExchangeEvents(e) ==
  LET n == handled[e] + 1
      w == writing[e]
      code == FrameCode(e, "SUCCESS")
      appended == [cmds EXCEPT ![n].events = w.chain \o w.expected]
  IN /\ w.field = "matcherEvent"
     /\ IF Compare(w.expected, cmds[n].events)
        THEN /\ cmds' = IF Shard(e) = 0
                        THEN [appended EXCEPT ![n].resultCode = code] ELSE appended
             /\ writing' = [writing EXCEPT ![e] = NoWrite]
             /\ Done(e)
        ELSE /\ writing' = [writing EXCEPT ![e].expected = cmds[n].events]
             /\ UNCHANGED <<cmds, handled>>
     /\ UNCHANGED <<clients, promises, answers, incomingData, completed,
                    failures, eSeq>>

(***************************************************************************)
(* Snapshots: PERSIST_STATE_MATCHING is answered by the matching engines,  *)
(* PERSIST_STATE_RISK by the risk engines, all of them writing resultCode. *)
(***************************************************************************)
Stores(e, command) ==
  command = IF e \in Risk THEN "PERSIST_STATE_RISK" ELSE "PERSIST_STATE_MATCHING"

FailureCode(e) ==
  IF e \in Risk THEN "STATE_PERSIST_RISK_ENGINE_FAILED"
  ELSE "STATE_PERSIST_MATCHING_ENGINE_FAILED"

\* StoreData, then SetResultVolatile up to the first compare and exchange.
StoreData(e) ==
  LET n == handled[e] + 1
      success == IF e \in Risk THEN "SUCCESS" ELSE "ACCEPTED"
  IN /\ Ready(e, {"PERSIST_STATE_MATCHING", "PERSIST_STATE_RISK"})
     /\ Stores(e, cmds[n].command)
     /\ \E isSuccess \in BOOLEAN :
          /\ writing' = [writing EXCEPT ![e] =
               [field |-> "resultCode", expected |-> cmds[n].resultCode,
                code |-> IF isSuccess THEN success ELSE FailureCode(e)]]
          /\ failures' = IF isSuccess THEN failures ELSE failures \cup {<<n, e>>}
     /\ UNCHANGED <<clients, cmds, promises, answers, handled, incomingData,
                    completed, eSeq>>

\* The loop of SetResultVolatile ends without writing.
ResultIsSetAlready(e) == writing[e].expected = writing[e].code   \* mutant

ResultIsSet(e) == writing[e].expected \in {writing[e].code, FailureCode(e)}

ExchangeResult(e) ==
  LET n == handled[e] + 1
      w == writing[e]
  IN /\ w.field = "resultCode"
     /\ IF ResultIsSet(e)
        THEN UNCHANGED cmds /\ Done(e) /\ writing' = [writing EXCEPT ![e] = NoWrite]
        ELSE IF w.expected = cmds[n].resultCode
        THEN /\ cmds' = [cmds EXCEPT ![n].resultCode = w.code]
             /\ writing' = [writing EXCEPT ![e] = NoWrite]
             /\ Done(e)
        ELSE /\ writing' = [writing EXCEPT ![e].expected = cmds[n].resultCode]
             /\ UNCHANGED <<cmds, handled>>
     /\ UNCHANGED <<clients, promises, answers, incomingData, completed,
                    failures, eSeq>>

\* The engines that do not store: risk shard 0 passes the command on.
SkipPersist(e) ==
  LET n == handled[e] + 1
  IN /\ Ready(e, {"PERSIST_STATE_MATCHING", "PERSIST_STATE_RISK"})
     /\ ~Stores(e, cmds[n].command)
     /\ cmds' = IF e \in Risk THEN ResultWritten(e, "VALID_FOR_MATCHING_ENGINE")
                ELSE cmds
     /\ Done(e)
     /\ UNCHANGED <<clients, promises, answers, incomingData, writing,
                    completed, failures, eSeq>>

-----------------------------------------------------------------------------
(***************************************************************************)
(* E: DeserializeEvents groups the events of a report by section, and      *)
(* ProcessResult keeps the promise filed under the sequence, if any.       *)
(***************************************************************************)
SectionOf(events, e) ==
  LET kept[i \in 0 .. Len(events)] ==
        IF i = 0 THEN <<>>
        ELSE IF events[i].section = e THEN Append(kept[i - 1], events[i])
        ELSE kept[i - 1]
  IN kept[Len(events)]

DeserializeEvents(events) ==
  [e \in {events[i].section : i \in DOMAIN events} |-> SectionOf(events, e)]

Answer(map, c) ==
  CASE map = "reportPromises" -> DeserializeEvents(c.events)
    [] map = "orderBookPromises" -> c.marketData
    [] map = "fullResponsePromises" -> <<c.resultCode, c.events, c.marketData>>
    [] OTHER -> c.resultCode

MapsInOrder ==
  <<"reportPromises", "orderBookPromises", "fullResponsePromises", "promises">>

ProcessResult ==
  LET n == eSeq + 1
      filed == {p \in promises : p.seq = n}
      first == CHOOSE p \in filed :
                 \E i \in DOMAIN MapsInOrder :
                   /\ p.map = MapsInOrder[i]
                   /\ \A j \in 1 .. i - 1 : \A q \in filed : q.map # MapsInOrder[j]
  IN /\ \A e \in Matching : n <= handled[e]
     /\ eSeq' = n
     /\ IF filed = {} THEN UNCHANGED <<promises, answers>>
        ELSE /\ promises' = promises \ {first}
             /\ answers' = Append(answers, [future |-> first.future,
                                            value |-> Answer(first.map, cmds[n])])
     /\ UNCHANGED <<clients, cmds, engines>>

Next ==
  \/ \E c \in Clients :
       \/ SubmitCommandAsync(c) \/ SubmitCommandAsyncFullResponse(c)
       \/ RequestOrderBookAsync(c) \/ ProcessReport(c) \/ ProcessReportAny(c)
       \/ PublishNextFragment(c) \/ FilePromises(c) \/ Publish(c)
  \/ \E e \in Engines :
       \/ HandleOrder(e) \/ AcceptFrame(e) \/ CompleteCommand(e)
       \/ CompleteQuery(e) \/ ExchangeEvents(e)
       \/ StoreData(e) \/ ExchangeResult(e) \/ SkipPersist(e)
  \/ ProcessResult

Spec == Init /\ [][Next]_vars

-----------------------------------------------------------------------------
(***************************************************************************)
(* Properties.                                                             *)
(***************************************************************************)

AnswersOf(future) == {i \in DOMAIN answers : answers[i].future = future}
AnswerOf(future) == answers[CHOOSE i \in AnswersOf(future) : TRUE].value
Answered(future) == AnswersOf(future) # {}
KindOf(f) == requests[f].kind
WholeMessage(f) == [i \in 1 .. requests[f].frames |-> <<f, i>>]

\* Every future is given exactly one result, that of its own command, when E
\* passes the command (the last frame of a message): the promise has been filed
\* by then, is found in the map of its kind, and no promise is left behind.
FuturesAnswered ==
  /\ \A p \in promises : p.seq > eSeq
  /\ \A n \in 0 .. eSeq :
       LET c == cmds[n]
       IN c.future # <<>> =>
            /\ Cardinality(AnswersOf(c.future)) = 1
            /\ AnswerOf(c.future) = Answer(MapOf(KindOf(c.future[1])), c)
  /\ \A i \in DOMAIN answers :
       KindOf(answers[i].future[1]) = "binary" =>
         /\ answers[i].value = "SUCCESS"
         /\ \A e \in Engines : \E j \in DOMAIN completed[e] :
              completed[e][j] = WholeMessage(answers[i].future[1])

\* A report is made of one section of every engine, whole and in order, each
\* about this very query, however the engines interleave as they append.
ReportComplete ==
  \A f \in DOMAIN requests :
    KindOf(f) \in {"report", "reportAny"} /\ Answered(<<f, 1>>) =>
      AnswerOf(<<f, 1>>) =
        [e \in Engines |-> CreateBinaryEventsChain(e, WholeMessage(f))]

\* CommandResultCode.h: the first code that is a failure, else SUCCESS if there
\* is one.
MergeToFirstFailed(r1, r2) ==
  IF r1 \notin {"SUCCESS", "ACCEPTED"} THEN r1
  ELSE IF r2 \notin {"SUCCESS", "ACCEPTED"} THEN r2
  ELSE IF "SUCCESS" \in {r1, r2} THEN "SUCCESS" ELSE "ACCEPTED"

\* A snapshot is reported as stored exactly if every engine stored its part; the
\* success of one engine never covers the failure of another.
SnapshotFailureReported ==
  \A f \in DOMAIN requests :
    KindOf(f) = "persist" /\ Answered(<<f, 1>>) /\ Answered(<<f, 2>>) =>
      LET result == MergeToFirstFailed(AnswerOf(<<f, 1>>), AnswerOf(<<f, 2>>))
          failed == {x \in failures : cmds[x[1]].future[1] = f}
      IN result = IF failed = {} THEN "SUCCESS"
                  ELSE IF \E x \in failed : x[2] \in Matching
                  THEN "STATE_PERSIST_MATCHING_ENGINE_FAILED"
                  ELSE "STATE_PERSIST_RISK_ENGINE_FAILED"

\* Every engine puts the same messages together in the same order, each of them
\* whole, although the fragments of several clients are interleaved and every
\* client uses its transferId again and again.
MessagesWhole ==
  \A e \in Engines :
    /\ \A i \in DOMAIN completed[e] :
         completed[e][i] = WholeMessage(completed[e][i][1][1])
    /\ \A d \in Engines :
         Len(completed[e]) <= Len(completed[d])
           => completed[e] = SubSeq(completed[d], 1, Len(completed[e]))
=============================================================================
