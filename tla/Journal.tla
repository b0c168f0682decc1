------------------------------- MODULE Journal -------------------------------
(***************************************************************************)
(* Journaling, snapshots and recovery (DiskSerializationProcessor).        *)
(*                                                                         *)
(* The ring is the sequence of commands of one run of the exchange core:   *)
(* the command of sequence d is ring[d + 1].  Two processors read it, each *)
(* at its own pace: J writes mutating commands to journal files, and the   *)
(* risk and matching engines, taken together here because Pipeline orders  *)
(* them, apply the commands and store snapshots.  Results are released     *)
(* when both have passed.  A crash leaves only the disk; a restart loads a *)
(* snapshot and submits its journal to the new ring.                       *)
(*                                                                         *)
(* The state of the exchange is the sequence of the identities of the      *)
(* commands that changed it since the last RESET.                          *)
(***************************************************************************)
EXTENDS Integers, Sequences, SequencesExt, FiniteSetsExt, Lists

CONSTANTS
  Requests,                   \* what clients submit: command names, and
                              \* PERSIST_STATE for a snapshot request
  JournalBufferSize,          \* journalBufferSize, in records
  JournalBufferFlushTrigger,  \* journalBufferFlushTrigger, in records
  JournalFileMaxSize,         \* journalFileMaxSize, in records
  MaxRequests,                \* bound: requests of all runs
  MaxRestarts                 \* bound: restarts

ASSUME JournalSizes ==
  /\ JournalBufferSize \in Nat \ {0}
  /\ JournalBufferFlushTrigger \in Nat \ {0}
  /\ JournalFileMaxSize \in Nat \ {0}
  /\ MaxRequests \in Nat \ {0} /\ MaxRestarts \in Nat

\* The kinds of requests that matter here; the others change nothing either.
ASSUME RequestsKnown ==
  Requests \subseteq {"PLACE_ORDER", "BINARY_DATA_COMMAND", "ORDER_BOOK_REQUEST",
                      "RESET", "SHUTDOWN_SIGNAL", "PERSIST_STATE"}

VARIABLES
  disk,       \* journal files and snapshots
  journal,    \* the memory of the processor object of this run
  ring,       \* the commands of this run
  loaded,     \* the state this run started from
  jNext,      \* J: the sequence it handles next
  jEnd,       \* J: the last sequence of the batch it is in
  jSequence,  \* J: the sequence it has published
  applied,    \* the sequence the engines have applied
  phase,      \* Startup in progress, running, or crashed
  requests,   \* requests submitted, which also names commands and snapshots
  restarts,   \* restarts so far
  logged      \* the operator starts with the logged baseSeq, else with 0

vars == <<disk, journal, ring, loaded, jNext, jEnd, jSequence, applied, phase,
          requests, restarts, logged>>

NoFile == <<>>
Processors == {"RISK_ENGINE", "MATCHING_ENGINE_ROUTER"}

Command(name, id) ==
  [command |-> name, orderId |-> id,
   symbol |-> IF name = "BINARY_DATA_COMMAND" THEN -1 ELSE 0]

GroupingControl(mode) == Command("GROUPING_CONTROL", mode)

IsPersist(c) == c.command \in {"PERSIST_STATE_MATCHING", "PERSIST_STATE_RISK"}

IsMutate(c) ==
  \/ c.command \in {"PLACE_ORDER", "BINARY_DATA_COMMAND", "RESET"}
  \/ IsPersist(c)

(***************************************************************************)
(* What commands do to the state.  A binary message takes effect with its  *)
(* last frame, which has symbol -1.                                        *)
(***************************************************************************)
TakesEffect(c) ==
  \/ c.command = "PLACE_ORDER"
  \/ c.command = "BINARY_DATA_COMMAND" /\ c.symbol = -1

Effect(state, c) ==
  CASE c.command = "RESET" -> <<>>
    [] TakesEffect(c)      -> Append(state, c.orderId)
    [] OTHER               -> state

StateAfter(state, commands) ==
  LET after[n \in 0 .. Len(commands)] ==
        IF n = 0 THEN state ELSE Effect(after[n - 1], commands[n])
  IN after[Len(commands)]

-----------------------------------------------------------------------------
(***************************************************************************)
(* Writing.  These operators take the processor with the files it writes,  *)
(* a record with the fields of journal and a field files, and return it    *)
(* changed.  A thrown exception sets failed.                               *)
(***************************************************************************)
\* A file or a snapshot more, or a new one in the place of an old one.
Put(files, name, content) ==
  [f \in DOMAIN files \cup {name} |-> IF f = name THEN content ELSE files[f]]

NewProcessor(snapshotId, baseSeq) ==
  [buffer |-> <<>>, file |-> NoFile, filesCounter |-> 0, writtenBytes |-> 0,
   baseSnapshotId |-> snapshotId, baseSeq |-> baseSeq,
   enableJournalAfterSeq |-> -1, failed |-> FALSE]

StartNewFile(j) ==
  LET index  == j.filesCounter + 1
      name   == <<j.baseSnapshotId, index>>
      closed == [j EXCEPT !.filesCounter = index, !.file = NoFile]
  IN IF name \in DOMAIN j.files
     THEN [closed EXCEPT !.failed = TRUE]
     ELSE [closed EXCEPT !.file = name, !.files = Put(@, name, <<>>)]

\* The files with the buffer in the open one.
WithBuffer(j) ==
  IF j.file = NoFile THEN j.files
  ELSE [j.files EXCEPT ![j.file] = @ \o j.buffer]

\* Mutant: the buffer is written but not emptied.
FlushKeepsBuffer(j, forceStartNextFile) ==
  LET flushed ==
        [j EXCEPT !.writtenBytes = @ + Len(j.buffer),
                  !.files = WithBuffer(j)]
  IN IF forceStartNextFile THEN StartNewFile(flushed) ELSE flushed

\* Mutant: a flush that starts the next file loses the buffer.
FlushLosesBuffer(j, forceStartNextFile) ==
  LET flushed ==
        [j EXCEPT !.buffer = <<>>,
                  !.files = WithBuffer(j)]
  IN IF forceStartNextFile
     THEN StartNewFile([j EXCEPT !.buffer = <<>>]) ELSE flushed

FlushBufferSync(j, forceStartNextFile) ==
  LET flushed ==
        [j EXCEPT !.writtenBytes = @ + Len(j.buffer),
                  !.buffer = <<>>,
                  !.files = WithBuffer(j)]
  IN IF forceStartNextFile \/ flushed.writtenBytes >= JournalFileMaxSize
     THEN [StartNewFile(flushed) EXCEPT !.writtenBytes = 0]
     ELSE flushed

\* A file is open and the buffer has room for a record.
Prepared(j) ==
  LET opened == IF j.file = NoFile THEN StartNewFile(j) ELSE j
  IN IF ~opened.failed /\ Len(opened.buffer) + 1 > JournalBufferSize
     THEN FlushBufferSync(opened, FALSE)
     ELSE opened

\* Mutant: the file is switched before the buffer is written.
OnPersistSwitchFirst(j, snapshotId) ==
  FlushBufferSync(StartNewFile([j EXCEPT !.baseSnapshotId = snapshotId,
                                         !.filesCounter = 0]), FALSE)

OnPersist(j, snapshotId) ==
  FlushBufferSync([j EXCEPT !.baseSnapshotId = snapshotId,
                            !.filesCounter = 0], TRUE)

OnReset(j) == FlushBufferSync(j, TRUE)

OnShutdown(j) == FlushBufferSync(j, FALSE)

Journaled(j, dSeq) ==
  /\ j.enableJournalAfterSeq # -1
  /\ dSeq + j.baseSeq > j.enableJournalAfterSeq

WriteToJournal(j, cmd, dSeq, eob) ==
  LET prepared == Prepared(j)
      written  == [prepared EXCEPT !.buffer =
                     Append(@, [seq |-> j.baseSeq + dSeq, command |-> cmd])]
      full == Len(written.buffer) >= JournalBufferFlushTrigger
  IN IF ~Journaled(j, dSeq)                         THEN j
     ELSE IF cmd.command = "SHUTDOWN_SIGNAL"        THEN OnShutdown(j)
     ELSE IF ~IsMutate(cmd)                         THEN j
     ELSE IF prepared.failed                        THEN prepared
     ELSE IF cmd.command = "PERSIST_STATE_RISK"     THEN OnPersist(written, cmd.orderId)
     ELSE IF cmd.command = "RESET"                  THEN OnReset(written)
     ELSE IF eob \/ full                            THEN FlushBufferSync(written, FALSE)
     ELSE written

-----------------------------------------------------------------------------
(***************************************************************************)
(* Reading.  A snapshot can be loaded when both processors stored it, and  *)
(* 0 is the empty exchange.                                                *)
(***************************************************************************)
Complete(snapshotId) == \A p \in Processors : <<snapshotId, p>> \in DOMAIN disk.snapshots

NewestSnapshot == Max({0} \cup {id \in 1 .. MaxRequests : Complete(id)})

LoadData(snapshotId) ==
  IF snapshotId = 0 THEN <<>>
  ELSE disk.snapshots[<<snapshotId, "RISK_ENGINE">>].state

\* The records ReadCommands gets through in a file: it throws at the first
\* PERSIST record, whose sequence it has noted.
ReadRecords(records) ==
  LET persists == {i \in DOMAIN records : IsPersist(records[i].command)}
  IN IF persists = {} THEN records ELSE SubSeq(records, 1, Min(persists))

\* Mutant: replay ends with the first file.
FirstJournalFile(snapshotId) ==
  IF <<snapshotId, 1>> \in DOMAIN disk.files
  THEN <<disk.files[<<snapshotId, 1>>]>> ELSE <<>>

\* The files of a snapshot up to the first one that does not exist.
JournalFiles(snapshotId) ==
  LET exists(i) == <<snapshotId, i>> \in DOMAIN disk.files
      last == Max({0} \cup {n \in {f[2] : f \in DOMAIN disk.files} :
                              \A i \in 1 .. n : exists(i)})
  IN [i \in 1 .. last |-> disk.files[<<snapshotId, i>>]]

RecordsRead(snapshotId) ==
  LET files == JournalFiles(snapshotId)
      read[n \in 0 .. Len(files)] ==
        IF n = 0 THEN <<>> ELSE read[n - 1] \o ReadRecords(files[n])
  IN read[Len(files)]

\* ExchangeApi::BinaryData widens the byte of the last flag without its sign.
ReplayCommand(c) ==
  IF c.command = "BINARY_DATA_COMMAND" THEN [c EXCEPT !.symbol = @ % 256] ELSE c

Replayed(snapshotId) ==
  LET read     == RecordsRead(snapshotId)
      commands == [i \in DOMAIN read |-> read[i].command]
      submitted == Kept(commands, {c \in ToSet(commands) : ~IsPersist(c)})
  IN [i \in DOMAIN submitted |-> ReplayCommand(submitted[i])]

\* Mutant: journaling goes on from the snapshot instead of from the end of the
\* replayed journal.
LastSeqOfSnapshot(snapshotId, baseSeq) == baseSeq

LastSeq(snapshotId, baseSeq) ==
  LET read == RecordsRead(snapshotId)
  IN IF read = <<>> THEN baseSeq ELSE Last(read).seq

-----------------------------------------------------------------------------
(***************************************************************************)
(* A clean start: nothing to replay, so journaling is enabled after 0 and  *)
(* the first command of the ring is that of EnableJournaling.              *)
(***************************************************************************)
Init ==
  /\ disk = [files |-> <<>>, snapshots |-> <<>>]
  /\ journal = [NewProcessor(0, 0) EXCEPT !.enableJournalAfterSeq = 0]
  /\ ring = <<GroupingControl(1)>>
  /\ loaded = <<>>
  /\ jNext = 0 /\ jEnd = -1 /\ jSequence = -1 /\ applied = -1
  /\ phase = "running"
  /\ requests = 0 /\ restarts = 0
  /\ logged \in BOOLEAN

\* The commands of a request, published together.
Submitted(request, id) ==
  IF request = "PERSIST_STATE"
  THEN <<Command("PERSIST_STATE_MATCHING", id), Command("PERSIST_STATE_RISK", id)>>
  ELSE <<Command(request, id)>>

Submit(request) ==
  /\ phase = "running"
  /\ requests < MaxRequests
  /\ requests' = requests + 1
  /\ ring' = ring \o Submitted(request, requests')
  /\ UNCHANGED <<disk, journal, loaded, jNext, jEnd, jSequence, applied, phase,
                 restarts, logged>>

\* The last command of the batch J is in, or of the next one, which ends at some
\* published sequence.
BatchEnds == IF jNext <= jEnd THEN {jEnd} ELSE jNext .. Len(ring) - 1

Handled(end) ==
  WriteToJournal(Put(journal, "files", disk.files), ring[jNext + 1], jNext,
                 jNext = end)

\* J handles a command.  After an exception it handles nothing more.
JournalCommand ==
  /\ phase # "crashed"
  /\ ~journal.failed
  /\ \E end \in BatchEnds :
       LET handled == Handled(end)
       IN /\ jEnd' = end
          /\ journal' = [f \in DOMAIN journal |-> handled[f]]
          /\ disk' = [disk EXCEPT !.files = handled.files]
          /\ IF handled.failed
             THEN UNCHANGED <<jNext, jSequence>>
             ELSE /\ jNext' = jNext + 1
                  /\ jSequence' = IF jNext = end THEN end ELSE jSequence
  /\ UNCHANGED <<ring, loaded, applied, phase, requests, restarts, logged>>

\* The engines apply a command.  Storing a snapshot may fail.
StoreData(c, seq, processor) ==
  \/ UNCHANGED disk
  \/ disk' = [disk EXCEPT !.snapshots =
                 Put(@, <<c.orderId, processor>>,
                     [seq |-> seq,
                      state |-> StateAfter(loaded, SubSeq(ring, 1, seq + 1))])]

Apply ==
  /\ phase # "crashed"
  /\ applied + 1 < Len(ring)
  /\ applied' = applied + 1
  /\ LET c == ring[applied' + 1]
     IN CASE c.command = "PERSIST_STATE_MATCHING" ->
               StoreData(c, applied', "MATCHING_ENGINE_ROUTER")
          [] c.command = "PERSIST_STATE_RISK" ->
               StoreData(c, applied', "RISK_ENGINE")
          [] OTHER -> UNCHANGED disk
  /\ UNCHANGED <<journal, ring, loaded, jNext, jEnd, jSequence, phase, requests,
                 restarts, logged>>

\* The process stops and its memory is lost; ring and loaded remain as a record
\* of the run.
Stop ==
  /\ phase # "crashed"
  /\ phase' = "crashed"
  /\ journal' = NewProcessor(0, 0)
  /\ jNext' = 0 /\ jEnd' = -1 /\ jSequence' = -1 /\ applied' = -1
  /\ UNCHANGED <<ring, loaded, requests, restarts, logged>>

Crash == Stop /\ UNCHANGED disk

\* The process stops while J writes to its open file, of which a part is left.
CrashInFlush ==
  /\ Stop
  /\ ~journal.failed
  /\ journal.file # NoFile
  /\ \E end \in BatchEnds :
       LET old == disk.files[journal.file]
           new == Handled(end).files[journal.file]
       IN \E n \in Len(old) + 1 .. Len(new) - 1 :
            disk' = [disk EXCEPT !.files[journal.file] = SubSeq(new, 1, n)]

(***************************************************************************)
(* A start from the last known state.  The operator names the newest       *)
(* complete snapshot and as its baseSeq either always 0, like the tests,   *)
(* or always the sequence logged with it.  ReplayJournalFull publishes the *)
(* journal while the processors run.                                       *)
(***************************************************************************)
SnapshotBaseSeq ==
  IF logged /\ NewestSnapshot # 0
  THEN disk.snapshots[<<NewestSnapshot, "RISK_ENGINE">>].seq
  ELSE 0

Restart ==
  /\ phase = "crashed"
  /\ restarts < MaxRestarts
  /\ restarts' = restarts + 1
  /\ phase' = "startup"
  /\ journal' = NewProcessor(NewestSnapshot, SnapshotBaseSeq)
  /\ loaded' = LoadData(NewestSnapshot)
  /\ ring' = <<GroupingControl(0)>> \o Replayed(NewestSnapshot)
  /\ UNCHANGED <<disk, jNext, jEnd, jSequence, applied, requests, logged>>

EnableJournaling ==
  /\ phase = "startup"
  /\ phase' = "running"
  /\ journal' = [journal EXCEPT !.enableJournalAfterSeq =
                   LastSeq(journal.baseSnapshotId, journal.baseSeq)]
  /\ ring' = Append(ring, GroupingControl(1))
  /\ UNCHANGED <<disk, loaded, jNext, jEnd, jSequence, applied, requests,
                 restarts, logged>>

Next ==
  \/ \E request \in Requests : Submit(request)
  \/ JournalCommand
  \/ Apply
  \/ Crash
  \/ CrashInFlush
  \/ Restart
  \/ EnableJournaling

Spec == Init /\ [][Next]_vars
-----------------------------------------------------------------------------
(***************************************************************************)
(* Properties                                                              *)
(***************************************************************************)
CommandNames ==
  {"PLACE_ORDER", "BINARY_DATA_COMMAND", "ORDER_BOOK_REQUEST", "RESET",
   "SHUTDOWN_SIGNAL", "GROUPING_CONTROL", "PERSIST_STATE_MATCHING",
   "PERSIST_STATE_RISK"}

IsCommand(c) ==
  /\ c.command \in CommandNames
  /\ c.orderId \in 0 .. MaxRequests
  /\ c.symbol \in {-1, 0, 255}

\* The shapes of the state; the buffer stays within its size.
TypeOK ==
  /\ \A f \in DOMAIN disk.files :
       \A i \in DOMAIN disk.files[f] :
         /\ disk.files[f][i].seq \in Nat
         /\ IsCommand(disk.files[f][i].command)
  /\ DOMAIN disk.snapshots \subseteq (1 .. MaxRequests) \X Processors
  /\ journal.file \in DOMAIN disk.files \cup {NoFile}
  /\ Len(journal.buffer) \in 0 .. JournalBufferSize
  /\ journal.failed \in BOOLEAN
  /\ \A i \in DOMAIN ring : IsCommand(ring[i])
  /\ jSequence < jNext /\ jSequence <= jEnd /\ jEnd < Len(ring)
  /\ applied \in -1 .. Len(ring) - 1
  /\ phase \in {"startup", "running", "crashed"}
  /\ requests \in 0 .. MaxRequests /\ restarts \in 0 .. MaxRestarts
  /\ logged \in BOOLEAN

\* The state a start from the last known state would rebuild now.
RecoveredState == StateAfter(LoadData(NewestSnapshot), Replayed(NewestSnapshot))

\* The state of this run after its first n commands.
StateOfRun(n) == StateAfter(loaded, SubSeq(ring, 1, n))

\* Whenever the process stops, the newest snapshot and its journal rebuild the
\* state after some prefix of the commands of the run: none is skipped, applied
\* twice or out of order, wherever J, the engines and the files are.
RecoversPrefix == \E n \in 0 .. Len(ring) : RecoveredState = StateOfRun(n)

\* The commands of clients follow the last grouping control of Startup.
FirstRequest ==
  Max({i \in DOMAIN ring : ring[i].command = "GROUPING_CONTROL"}) + 1

\* The engines stored every snapshot they were asked for up to position n.
SnapshotsStored(n) ==
  \A i \in 1 .. n :
    IsPersist(ring[i]) =>
      <<ring[i].orderId,
        IF ring[i].command = "PERSIST_STATE_RISK"
        THEN "RISK_ENGINE" ELSE "MATCHING_ENGINE_ROUTER">> \in DOMAIN disk.snapshots

\* Every command of a client up to position n is one J has to write.
AllJournaled(n) == \A i \in FirstRequest .. n : Journaled(journal, i - 1)

\* The results handler may have released the first Released commands.
Released == Min({jSequence, applied}) + 1

\* What clients have seen done is on disk or, while the process lives, in the
\* buffer of J, unless storing a snapshot failed or J does not journal yet; and
\* after J has handled a shutdown signal nothing that came before it can be lost
\* any more, crash or not.
ReleasedIsKept ==
  LET buffered  == [i \in DOMAIN journal.buffer |-> journal.buffer[i].command]
      kept(n)   == \E m \in n .. Len(ring) : RecoveredState = StateOfRun(m)
      pending   == \E m \in Released .. Len(ring) :
                     StateAfter(RecoveredState, buffered) = StateOfRun(m)
      journaled(n) == SnapshotsStored(applied + 1) /\ AllJournaled(n)
  IN /\ phase = "running" /\ journaled(Released) => kept(Released) \/ pending
     /\ (/\ jNext > 0 /\ ring[jNext].command = "SHUTDOWN_SIGNAL"
         /\ applied >= jNext - 1 /\ journaled(jNext)) => kept(jNext)

\* All records in the files of a snapshot, and of all snapshots before one.
SeriesRecords(snapshotId) ==
  LET files == JournalFiles(snapshotId)
      records[n \in 0 .. Len(files)] ==
        IF n = 0 THEN <<>> ELSE records[n - 1] \o files[n]
  IN records[Len(files)]

AllRecords ==
  LET records[n \in 0 .. MaxRequests + 1] ==
        IF n = 0 THEN <<>> ELSE records[n - 1] \o SeriesRecords(n - 1)
  IN records[MaxRequests + 1]

\* What J has been through and had to write is on disk followed by the buffer,
\* complete and in order, over all switches of files and snapshots.
JournalComplete ==
  LET through == [i \in 1 .. jNext |->
                    [seq |-> journal.baseSeq + i - 1, command |-> ring[i]]]
      due(r)  == /\ Journaled(journal, r.seq - journal.baseSeq)
                 /\ IsMutate(r.command)
  IN phase # "crashed"
       => IsSuffix(Kept(through, {r \in ToSet(through) : due(r)}),
                   AllRecords \o journal.buffer)

\* J does not write replayed commands again, although they pass it while
\* Startup is still reading or has just enabled journaling.
ReplayNotJournaled ==
  /\ journal.failed => jNext + 1 >= FirstRequest
  /\ \A i \in DOMAIN journal.buffer :
       journal.buffer[i].seq - journal.baseSeq + 1 >= FirstRequest
=============================================================================
