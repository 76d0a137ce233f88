------------------------------- MODULE Ingest -------------------------------
(***************************************************************************)
(* The ingest pipeline: src/src/ingest/mod.rs and src/src/ingest/writer.rs.*)
(*                                                                         *)
(* Proxy handlers and the sniffer hold clones of one IngestSender and call *)
(* send_event, which tries to put the event into a bounded channel and     *)
(* never waits.  One writer thread takes events from the channel into a    *)
(* buffer and writes the buffer to the SQLite table requests in one        *)
(* transaction: when the buffer holds BATCH_SIZE events, when no event     *)
(* arrived for FLUSH_INTERVAL_MS, and when the last sender is gone.  A     *)
(* failed transaction is rolled back and leaves the buffer as it was.      *)
(*                                                                         *)
(* The channel serialises the calls of send_event; the n-th call sends     *)
(* event n.  The data of an event plays no part here.                      *)
(***************************************************************************)
EXTENDS Naturals, Sequences, FiniteSets

CONSTANTS
  Handles,       \* the IngestSender values that can exist
  Capacity,      \* INGEST_CHANNEL_CAPACITY (1024 in the code)
  BatchSize,     \* BATCH_SIZE (100 in the code)
  MaxEvents,     \* bound of the model: calls of send_event
  MaxFailures,   \* bound of the model: transactions that fail
  MaxCrashes     \* bound of the model: processes that die

ASSUME IngestAssumption ==
  /\ Capacity \in Nat \ {0}
  /\ BatchSize \in Nat \ {0}
  /\ MaxEvents \in Nat
  /\ MaxFailures \in Nat
  /\ MaxCrashes \in Nat

VARIABLES
  produced,      \* calls of send_event so far
  handles,       \* the senders that are alive
  queue,         \* the channel
  writer,        \* where run_writer is
  buffer,        \* the writer's Vec<HttpEvent>
  staged,        \* rows of the open transaction, not committed
  rows,          \* committed rows of the requests table, by id
  refused,       \* history: events send_event dropped
  forgotten,     \* history: accepted events that died with the writer
  failures,      \* history: transactions that failed
  streak,        \* history: failures since the last commit of this writer
  crashes        \* history: processes that died, databases that did not open

vars == <<produced, handles, queue, writer, buffer, staged, rows,
          refused, forgotten, failures, streak, crashes>>

callerVars == <<produced, handles, refused>>
historyVars == <<forgotten, failures, streak, crashes>>

\* The events of a sequence.
EventsIn(s) == {s[i] : i \in 1..Len(s)}

\* "closing" is the flush that Disconnected starts, the last of run_writer.
WriterStates == {"opening", "receiving", "flushing", "closing", "stopped", "dead"}

InFlush == writer \in {"flushing", "closing"}

\* The writer thread holds the receiver: try_send does not see Disconnected.
Receiving == writer \notin {"stopped", "dead"}

\* try_send finds room in the channel.
HasRoomOffByOne == Len(queue) <= Capacity
HasRoom == Len(queue) < Capacity

\* A buffer of n events is due.
BatchDueLate(n) == n > BatchSize
BatchDue(n) == n >= BatchSize

\* What flush_batch leaves in the buffer: nothing after a commit, everything
\* after a failure.
AfterCommit == <<>>
BufferGivenUp == <<>>
AfterFailure == buffer

\* Where run_writer goes when the channel is disconnected.
OnDisconnect == IF buffer # <<>> THEN "closing" ELSE "stopped"

\* What a commit adds to the table.
CommitsReversed == [i \in 1..Len(staged) |-> staged[Len(staged) + 1 - i]]
Committed == staged

\* What a rolled back transaction leaves in the table, and of itself.
AfterRollback == rows
NoTransaction == <<>>

Init ==
  /\ produced = 0
  /\ \E h \in Handles : handles = {h}
  /\ queue = <<>>
  /\ writer = "opening"
  /\ buffer = <<>>
  /\ staged = <<>>
  /\ rows = <<>>
  /\ refused = {}
  /\ forgotten = {}
  /\ failures = 0
  /\ streak = 0
  /\ crashes = 0

-----------------------------------------------------------------------------
(* The callers.                                                            *)

\* run_server clones its sender for every connection thread.
CloneSender(h) ==
  /\ handles # {}
  /\ h \notin handles
  /\ handles' = handles \union {h}
  /\ UNCHANGED <<produced, refused, queue, writer, buffer, staged,
                 rows, historyVars>>

\* A handler, the sniffer, run_server or main drops its sender.
DropSender(h) ==
  /\ h \in handles
  /\ handles' = handles \ {h}
  /\ UNCHANGED <<produced, refused, queue, writer, buffer, staged,
                 rows, historyVars>>

\* try_send puts the event into the channel or hands it back; a full channel
\* and a channel without its receiver both mean the event is dropped.
SendEvent(h) ==
  /\ h \in handles
  /\ produced < MaxEvents
  /\ produced' = produced + 1
  /\ \/ /\ Receiving
        /\ HasRoom
        /\ queue' = Append(queue, produced + 1)
        /\ UNCHANGED refused
     \/ /\ ~Receiving \/ ~HasRoom
        /\ refused' = refused \union {produced + 1}
        /\ UNCHANGED queue
  /\ UNCHANGED <<handles, writer, buffer, staged, rows, historyVars>>

-----------------------------------------------------------------------------
(* The writer thread.                                                      *)

\* Connection::open, the file permissions and the schema are in order.
OpenDatabase ==
  /\ writer = "opening"
  /\ writer' = "receiving"
  /\ UNCHANGED <<callerVars, queue, buffer, staged, rows, historyVars>>

\* One of the three fails: run_writer returns and drops the receiver with
\* whatever the channel holds.  The senders stay and find it disconnected.
OpenFails ==
  /\ writer = "opening"
  /\ crashes < MaxCrashes
  /\ crashes' = crashes + 1
  /\ writer' = "stopped"
  /\ forgotten' = forgotten \union EventsIn(queue)
  /\ queue' = <<>>
  /\ UNCHANGED <<callerVars, buffer, staged, rows, failures, streak>>

\* recv_timeout returns an event; a buffer that has reached the batch size
\* goes to flush_batch, on every event after a failed flush too.
Receive ==
  /\ writer = "receiving"
  /\ queue # <<>>
  /\ queue' = Tail(queue)
  /\ buffer' = Append(buffer, Head(queue))
  /\ writer' = IF BatchDue(Len(buffer) + 1) THEN "flushing" ELSE "receiving"
  /\ UNCHANGED <<callerVars, staged, rows, historyVars>>

\* No event for FLUSH_INTERVAL_MS.  With an empty buffer nothing happens.
ReceiveTimeout ==
  /\ writer = "receiving"
  /\ queue = <<>>
  /\ handles # {}
  /\ buffer # <<>>
  /\ writer' = "flushing"
  /\ UNCHANGED <<callerVars, queue, buffer, staged, rows, historyVars>>

\* The channel is empty and the last sender is gone.
Disconnected ==
  /\ writer = "receiving"
  /\ queue = <<>>
  /\ handles = {}
  /\ writer' = OnDisconnect
  /\ UNCHANGED <<callerVars, queue, buffer, staged, rows, historyVars>>

\* One INSERT of persist_events inside the transaction.
InsertRow ==
  /\ InFlush
  /\ Len(staged) < Len(buffer)
  /\ staged' = Append(staged, buffer[Len(staged) + 1])
  /\ UNCHANGED <<callerVars, queue, writer, buffer, rows, historyVars>>

\* tx.commit() succeeds: the rows become visible and the buffer is cleared.
Commit ==
  /\ InFlush
  /\ Len(staged) = Len(buffer)
  /\ rows' = rows \o Committed
  /\ staged' = <<>>
  /\ buffer' = AfterCommit
  /\ streak' = 0
  /\ writer' = IF writer = "closing" THEN "stopped" ELSE "receiving"
  /\ UNCHANGED <<callerVars, queue, forgotten, failures, crashes>>

\* BEGIN, an INSERT or COMMIT fails: the transaction is rolled back and the
\* buffer retained, unless run_writer is about to return and frees it.
FlushFails ==
  /\ InFlush
  /\ failures < MaxFailures
  /\ failures' = failures + 1
  /\ streak' = streak + 1
  /\ staged' = NoTransaction
  /\ \/ /\ writer = "closing"
        /\ writer' = "stopped"
        /\ forgotten' = forgotten \union EventsIn(buffer)
        /\ buffer' = <<>>
     \/ /\ writer = "flushing"
        /\ writer' = "receiving"
        /\ buffer' = AfterFailure
        /\ UNCHANGED forgotten
  /\ rows' = AfterRollback
  /\ UNCHANGED <<callerVars, queue, crashes>>

-----------------------------------------------------------------------------
(* The process.                                                            *)

\* The process dies: a kill, or main returning through `?` before it has
\* joined the writer.  Memory goes; SQLite rolls the open transaction back.
Crash ==
  /\ writer # "dead"
  /\ crashes < MaxCrashes
  /\ crashes' = crashes + 1
  /\ writer' = "dead"
  /\ handles' = {}
  /\ forgotten' = forgotten \union EventsIn(buffer) \union EventsIn(queue)
  /\ queue' = <<>>
  /\ buffer' = <<>>
  /\ staged' = <<>>
  /\ UNCHANGED <<produced, refused, rows, failures, streak>>

\* start_ingest_worker in a new process, on the same database.
Restart ==
  /\ writer \in {"stopped", "dead"}
  /\ handles = {}
  /\ \E h \in Handles : handles' = {h}
  /\ writer' = "opening"
  /\ streak' = 0
  /\ UNCHANGED <<produced, refused, queue, buffer, staged, rows, forgotten,
                 failures, crashes>>

Flush == InsertRow \/ Commit \/ FlushFails

WriterStep ==
  \/ OpenDatabase
  \/ OpenFails
  \/ Receive
  \/ ReceiveTimeout
  \/ Disconnected
  \/ Flush

Next ==
  \/ \E h \in Handles : CloneSender(h) \/ DropSender(h) \/ SendEvent(h)
  \/ WriterStep
  \/ Crash
  \/ Restart

Spec == Init /\ [][Next]_vars

\* The writer thread is always scheduled again; recv_timeout returns.
FairSpec == Spec /\ WF_vars(WriterStep)

-----------------------------------------------------------------------------
(* Correctness.                                                            *)

\* The rows, then what the writer holds, then what the channel holds.
Pipeline == rows \o buffer \o queue

Increasing(s) == \A i, j \in 1..Len(s) : i < j => s[i] < s[j]

\* Every variable keeps its type, and a transaction is open, with at most the
\* buffered events in it, only while the writer flushes.
TypeOK ==
  /\ produced \in Nat
  /\ handles \in SUBSET Handles
  /\ queue \in Seq(Nat)
  /\ writer \in WriterStates
  /\ buffer \in Seq(Nat)
  /\ staged \in Seq(Nat)
  /\ rows \in Seq(Nat)
  /\ refused \in SUBSET Nat
  /\ forgotten \in SUBSET Nat
  /\ failures \in Nat
  /\ streak \in Nat
  /\ crashes \in Nat
  /\ Len(staged) <= Len(buffer)
  /\ ~InFlush => staged = <<>>

\* No event is stored twice and events are stored in the order in which they
\* were sent, whatever flushes fail, are retried, or are cut off by a crash.
StoredOnceInOrder == Increasing(rows)

\* Every call of send_event is accounted for: its event is in exactly one of
\* the table, the buffer, the channel, the refused and the forgotten.  (The
\* pipeline is free of duplicates because it is increasing.)
NoEventUnaccounted ==
  /\ 1..produced = EventsIn(Pipeline) \union refused \union forgotten
  /\ EventsIn(Pipeline) \intersect refused = {}
  /\ EventsIn(Pipeline) \intersect forgotten = {}
  /\ refused \intersect forgotten = {}
  /\ Increasing(Pipeline)

\* The channel keeps to its capacity, and the buffer outgrows a batch by at
\* most one event for every failed flush since the last commit.
MemoryBounded ==
  /\ Len(queue) <= Capacity
  /\ Len(buffer) <= BatchSize + streak

\* When the writer stops, no failure is outstanding and the process is whole,
\* every event accepted so far is in the table, but for those forgotten before
\* this step: the last buffer is flushed, the channel is empty.
CleanStopStoresAll ==
  [][ /\ writer # "stopped" /\ writer' = "stopped"
      /\ streak' = 0 /\ crashes' = crashes
      => EventsIn(rows') \union refused' \union forgotten = 1..produced' ]_vars

\* What a reader of the table sees change is one whole buffer appended, and
\* the buffer is empty from then on: no partial batch, no rewritten row.
WholeBatches ==
  [][rows' # rows => rows' = rows \o buffer /\ buffer' = <<>>]_vars

\* The pipeline is an at-most-once lossy log.
Log == INSTANCE EventLog WITH
         published <- produced,
         waiting <- buffer \o queue,
         log <- rows,
         lost <- refused \union forgotten

ImplementsEventLog == Log!Spec

\* An event the channel accepted reaches the table, or is given up when the
\* writer ends; it does not stay in memory for ever.
AcceptedIsSettled ==
  \A e \in 1..MaxEvents :
    e \in EventsIn(queue \o buffer) ~> e \in EventsIn(rows) \union forgotten
=============================================================================
