--------------------------- MODULE TraceStreaming ---------------------------
(***************************************************************************)
(* The streaming recording path of art::Trace, declared in                 *)
(* runtime/trace.h: the per-thread buffers, FlushStreamingBuffer under     *)
(* tracing_lock_, the two identifier maps, EnsureSpace and WriteToBuf on   *)
(* the shared buf_, FlushThreadBuffer when a thread detaches, and the      *)
(* Stop, Abort or Shutdown that ends the session.                          *)
(*                                                                         *)
(* trace.h states in its comments what RecordStreamingMethodEvent,         *)
(* FlushStreamingBuffer, EnsureSpace and WriteToBuf do and which lock      *)
(* guards which field; the definitions for them are translated from those  *)
(* lines.  What the header leaves to trace.cc, which the repository does   *)
(* not hold, follows the design document (spec.md, sections 4.2, 4.4, 5).  *)
(*                                                                         *)
(* A module behaviour is one streaming session, from just after Start to   *)
(* the end of StopTracing.  The actors are the mutator threads and the     *)
(* controller that ends the session: Stop and Shutdown flush what the      *)
(* threads hold and finish the file, Abort closes it as it is, and so does *)
(* a Stop whose last write fails.  A thread appends events to its own      *)
(* buffer; when the buffer is full, or when the thread detaches, it takes  *)
(* tracing_lock_ and encodes its events one by one into buf_, giving a     *)
(* method an id (and writing the line that defines the id) when it meets   *)
(* the method for the first time.  buf_ is written to the file when it     *)
(* cannot take the next item, and when Stop finishes the file.             *)
(*                                                                         *)
(* An event is its method and its number among the events of its thread.   *)
(* An item of buf_ and of the file is a record, or the line that defines a *)
(* method id or a thread id; items are measured in units of space.         *)
(***************************************************************************)
EXTENDS Integers, Sequences, FiniteSets, FiniteSetsExt, SequencesExt, Functions

CONSTANTS
    Threads,              \* mutator threads
    Methods,              \* ArtMethod*s that are traced
    ThreadBufferRecords,  \* number of events a per-thread buffer holds
    BufferSize,           \* buffer_size_: the size of buf_, in units
    RecordUnits,          \* size of an encoded record
    LineUnits,            \* size of a line that defines an id
    MaxEvents,            \* bound: events one thread reports
    NULL

ASSUME /\ ThreadBufferRecords \in Nat \ {0}
       /\ RecordUnits \in Nat \ {0} /\ LineUnits \in Nat \ {0}
       /\ BufferSize \in Nat /\ BufferSize >= RecordUnits /\ BufferSize >= LineUnits
       /\ MaxEvents \in Nat

VARIABLES
    sink,                  \* "open" while the session is active, then "closed"
                           \* (finished) or "abandoned" (closed as it was)
    suspending,            \* StopTracing is inside its suspend-all block
    finishing,             \* finish_tracing of the StopTracing in progress
    tracing_lock,          \* tracing_lock_: NULL or the thread holding it
    art_method_id_map,     \* art_method_id_map_
    current_method_index,  \* current_method_index_
    thread_id_map,         \* thread_id_map_
    current_thread_index,  \* current_thread_index_
    buf,                   \* buf_: the items encoded and not yet written out
    file,                  \* the items written to the trace file
    tbuf,                  \* per thread: its private buffer of events
    pc,                    \* per thread: "idle", "lock", "find", "encode", "exited"
    next,                  \* per thread: index in tbuf of the event being encoded
    found,                 \* per thread: result of the lookup of the method
    pending,               \* per thread: the event waiting for the flush, or NULL
    exiting,               \* per thread: the flush was called by FlushThreadBuffer
    issued                 \* history: events reported by each thread

vars == <<sink, suspending, finishing, tracing_lock, art_method_id_map,
          current_method_index, thread_id_map, current_thread_index, buf,
          file, tbuf, pc, next, found, pending, exiting, issued>>

\* The state of the teardown.
teardownVars == <<sink, suspending, finishing>>

encoderVars == <<art_method_id_map, current_method_index, thread_id_map,
                 current_thread_index, buf, file>>

-----------------------------------------------------------------------------
(* Data *)

Event == [m : Methods, seq : 1..MaxEvents]

MethodLine(id, m) == [kind |-> "method", id |-> id, m |-> m]
ThreadLine(id, t) == [kind |-> "thread", id |-> id, t |-> t]
Record(tid, mid, t, e) ==
    [kind |-> "record", tid |-> tid, mid |-> mid, t |-> t, e |-> e]

Item == [kind : {"method"}, id : Nat, m : Methods]
          \cup [kind : {"thread"}, id : Nat, t : Threads]
          \cup [kind : {"record"}, tid : Nat, mid : Nat, t : Threads, e : Event]

Size(item) == IF item.kind = "record" THEN RecordUnits ELSE LineUnits

\* cur_offset_ in streaming mode: the space of buf_ that is in use.
Used(b) == FoldLeft(LAMBDA n, item : n + Size(item), 0, b)

\* The encoder's state as one value, for the operators below.
Encoder ==
    [methods |-> art_method_id_map, method_index |-> current_method_index,
     threads |-> thread_id_map, thread_index |-> current_thread_index,
     buf |-> buf, file |-> file]

\* Mutant of EnsureSpace: the comparison is off by one, an item may end one
\* unit past the end of buf_.
EnsureSpace_OffByOne(st, required) ==
    IF Used(st.buf) + required > BufferSize + 1
    THEN [st EXCEPT !.file = @ \o st.buf, !.buf = <<>>]
    ELSE st

\* If buf_ has no room for required_size, its contents are written to the
\* file and current_index is reset to 0.
EnsureSpace(st, required) ==
    IF Used(st.buf) + required > BufferSize
    THEN [st EXCEPT !.file = @ \o st.buf, !.buf = <<>>]
    ELSE st

\* The item is written at current_index, after room was made for it.
WriteToBuf(st, item) ==
    [EnsureSpace(st, Size(item)) EXCEPT !.buf = Append(@, item)]

\* The thread gets the next 16-bit id when it is seen for the first time,
\* and the line that defines the id is written.
GetThreadEncoding(st, t) ==
    IF t \in DOMAIN st.threads
    THEN st
    ELSE WriteToBuf([st EXCEPT !.threads = @ @@ (t :> st.thread_index),
                               !.thread_index = @ + 1],
                    ThreadLine(st.thread_index, t))

\* Mutant of EncodeTraceMethod: the record goes out before the line that
\* defines its method id.
EncodeTraceMethod_LineAfterRecord(st, t, e, known) ==
    IF known
    THEN WriteToBuf(st, Record(st.threads[t], st.methods[e.m], t, e))
    ELSE LET id == st.method_index
             st1 == [st EXCEPT !.methods = (e.m :> id) @@ @,
                               !.method_index = @ + 1]
         IN  WriteToBuf(WriteToBuf(st1, Record(st.threads[t], id, t, e)),
                        MethodLine(id, e.m))

\* One event of a per-thread buffer is encoded: a method that the lookup did
\* not find gets the next id and its line is written, then the record.
EncodeTraceMethod(st, t, e, known) ==
    IF known
    THEN WriteToBuf(st, Record(st.threads[t], st.methods[e.m], t, e))
    ELSE LET id == st.method_index
             st1 == [st EXCEPT !.methods = (e.m :> id) @@ @,
                               !.method_index = @ + 1]
         IN  WriteToBuf(WriteToBuf(st1, MethodLine(id, e.m)),
                        Record(st.threads[t], id, t, e))

\* The encoder's state becomes st.
Becomes(st) ==
    /\ art_method_id_map' = st.methods
    /\ current_method_index' = st.method_index
    /\ thread_id_map' = st.threads
    /\ current_thread_index' = st.thread_index
    /\ buf' = st.buf
    /\ file' = st.file

-----------------------------------------------------------------------------
(* The threads *)

Init ==
    /\ sink = "open"
    /\ suspending = FALSE
    /\ finishing = FALSE
    /\ tracing_lock = NULL
    /\ art_method_id_map = <<>>
    /\ current_method_index = 0
    /\ thread_id_map = <<>>
    /\ current_thread_index = 0
    /\ buf = <<>>
    /\ file = <<>>
    /\ tbuf = [t \in Threads |-> <<>>]
    /\ pc = [t \in Threads |-> "idle"]
    /\ next = [t \in Threads |-> 1]
    /\ found = [t \in Threads |-> FALSE]
    /\ pending = [t \in Threads |-> NULL]
    /\ exiting = [t \in Threads |-> FALSE]
    /\ issued = [t \in Threads |-> 0]

\* A thread that runs managed code: attached, not suspended, tracing active.
Running(t) == pc[t] = "idle" /\ ~suspending /\ sink = "open"

\* The event is recorded in the per-thread buffer if there is room for it;
\* if the buffer is full the buffer is flushed first.
RecordStreamingMethodEvent(t, m) ==
    /\ Running(t)
    /\ issued[t] < MaxEvents
    /\ issued' = [issued EXCEPT ![t] = @ + 1]
    /\ LET e == [m |-> m, seq |-> issued[t] + 1]
       IN  IF Len(tbuf[t]) < ThreadBufferRecords
           THEN /\ tbuf' = [tbuf EXCEPT ![t] = Append(@, e)]
                /\ UNCHANGED <<pc, pending>>
           ELSE /\ pending' = [pending EXCEPT ![t] = e]
                /\ pc' = [pc EXCEPT ![t] = "lock"]
                /\ UNCHANGED tbuf
    /\ UNCHANGED <<teardownVars, tracing_lock, next, found, exiting>>
    /\ UNCHANGED encoderVars

\* FlushThreadBuffer: a thread that is about to detach flushes its buffer.
FlushThreadBuffer(t) ==
    /\ Running(t)
    /\ exiting' = [exiting EXCEPT ![t] = TRUE]
    /\ pc' = [pc EXCEPT ![t] = "lock"]
    /\ UNCHANGED <<teardownVars, tracing_lock, tbuf, next, found, pending,
                   issued>>
    /\ UNCHANGED encoderVars

\* A thread detaches when no session is active: there is nothing to flush.
ThreadDetaches(t) ==
    /\ pc[t] = "idle" /\ ~suspending /\ sink # "open"
    /\ pc' = [pc EXCEPT ![t] = "exited"]
    /\ UNCHANGED <<teardownVars, tracing_lock, tbuf, next, found, pending,
                   exiting, issued>>
    /\ UNCHANGED encoderVars

\* Mutant of FlushLocks: the flush starts without tracing_lock_.
FlushLocks_NoLock(t) ==
    /\ pc[t] = "lock"
    /\ Becomes(GetThreadEncoding(Encoder, t))
    /\ next' = [next EXCEPT ![t] = 1]
    /\ pc' = [pc EXCEPT ![t] = "find"]
    /\ UNCHANGED <<teardownVars, tracing_lock, tbuf, found, pending, exiting,
                   issued>>

\* FlushStreamingBuffer takes tracing_lock_ and looks up the id of its
\* thread.
FlushLocks(t) ==
    /\ pc[t] = "lock"
    /\ tracing_lock = NULL
    /\ tracing_lock' = t
    /\ Becomes(GetThreadEncoding(Encoder, t))
    /\ next' = [next EXCEPT ![t] = 1]
    /\ pc' = [pc EXCEPT ![t] = "find"]
    /\ UNCHANGED <<teardownVars, tbuf, found, pending, exiting, issued>>

\* The method of the next event is looked up in art_method_id_map_.
FlushFinds(t) ==
    /\ pc[t] = "find"
    /\ next[t] <= Len(tbuf[t])
    /\ found' = [found EXCEPT ![t] = tbuf[t][next[t]].m \in DOMAIN art_method_id_map]
    /\ pc' = [pc EXCEPT ![t] = "encode"]
    /\ UNCHANGED <<teardownVars, tracing_lock, tbuf, next, pending, exiting,
                   issued>>
    /\ UNCHANGED encoderVars

\* The event is encoded into buf_, with a new id if the lookup found none.
FlushEncodes(t) ==
    /\ pc[t] = "encode"
    /\ Becomes(EncodeTraceMethod(Encoder, t, tbuf[t][next[t]], found[t]))
    /\ next' = [next EXCEPT ![t] = @ + 1]
    /\ pc' = [pc EXCEPT ![t] = "find"]
    /\ UNCHANGED <<teardownVars, tracing_lock, tbuf, found, pending, exiting,
                   issued>>

\* Mutant of AfterFlush: the event that caused the flush is not recorded.
AfterFlush_EventForgotten(t) ==
    /\ tbuf' = [tbuf EXCEPT ![t] = <<>>]
    /\ pending' = [pending EXCEPT ![t] = NULL]

\* The per-thread buffer is empty again, and the event that had no room is
\* recorded in it.
AfterFlush(t) ==
    /\ tbuf' = [tbuf EXCEPT ![t] = IF pending[t] = NULL THEN <<>> ELSE <<pending[t]>>]
    /\ pending' = [pending EXCEPT ![t] = NULL]

\* Mutant of FlushUnlocks: tracing_lock_ is not released.
FlushUnlocks_LockKept(t) ==
    /\ pc[t] = "find"
    /\ next[t] > Len(tbuf[t])
    /\ AfterFlush(t)
    /\ pc' = [pc EXCEPT ![t] = IF exiting[t] THEN "exited" ELSE "idle"]
    /\ UNCHANGED <<teardownVars, tracing_lock, next, found, exiting, issued>>
    /\ UNCHANGED encoderVars

\* All events are encoded: tracing_lock_ is released, and the thread goes on
\* or is gone.
FlushUnlocks(t) ==
    /\ pc[t] = "find"
    /\ next[t] > Len(tbuf[t])
    /\ AfterFlush(t)
    /\ tracing_lock' = IF tracing_lock = t THEN NULL ELSE tracing_lock
    /\ pc' = [pc EXCEPT ![t] = IF exiting[t] THEN "exited" ELSE "idle"]
    /\ UNCHANGED <<teardownVars, next, found, exiting, issued>>
    /\ UNCHANGED encoderVars

-----------------------------------------------------------------------------
(* The controller: Stop, Abort and Shutdown *)

Operations == {"Stop", "Abort", "Shutdown"}

\* The argument with which an operation calls StopTracing: Stop and
\* Shutdown finish the trace, Abort does not.
finish_tracing(op) == op \in {"Stop", "Shutdown"}

\* StopTracing asks every thread to suspend.
StopSuspendsAll(op) ==
    /\ sink = "open"
    /\ ~suspending
    /\ suspending' = TRUE
    /\ finishing' = finish_tracing(op)
    /\ UNCHANGED <<sink, tracing_lock, tbuf, pc, next, found, pending, exiting, issued>>
    /\ UNCHANGED encoderVars

\* Every thread is suspended, none of them inside a callback.
AllSuspended == suspending /\ \A t \in Threads : pc[t] \in {"idle", "exited"}

\* No per-thread buffer of an attached thread holds an event.
AllFlushed == \A t \in Threads : pc[t] = "idle" => tbuf[t] = <<>>

\* A StopTracing that finishes the trace flushes the buffer of a thread that
\* is still attached, the way the thread itself does: FlushStreamingBuffer,
\* under tracing_lock_.
StopFlushes(t) ==
    /\ sink = "open"
    /\ AllSuspended /\ finishing
    /\ pc[t] = "idle" /\ tbuf[t] # <<>>
    /\ pc' = [pc EXCEPT ![t] = "lock"]
    /\ UNCHANGED <<teardownVars, tracing_lock, tbuf, next, found, pending,
                   exiting, issued>>
    /\ UNCHANGED encoderVars

\* Mutant of FinishTracing: what is left in buf_ is not written out.
FinishTracing_BufNotWritten(st) == [st EXCEPT !.buf = <<>>]

\* What is left in buf_ is written to the file.
FinishTracing(st) == [st EXCEPT !.file = @ \o st.buf, !.buf = <<>>]

\* The file is closed in state s and the threads resume.
Closes(s) ==
    /\ sink = "open"
    /\ AllSuspended
    /\ sink' = s
    /\ suspending' = FALSE
    /\ UNCHANGED <<finishing, tracing_lock, tbuf, pc, next, found, pending,
                   exiting, issued>>

\* No per-thread buffer holds an event any more: buf_ is written out and
\* the file is finished.
StopFinishes ==
    /\ finishing /\ AllFlushed
    /\ Becomes(FinishTracing(Encoder))
    /\ Closes("closed")

\* The last write fails: the session ends all the same, the file stays as
\* it was.
SinkFails ==
    /\ finishing /\ AllFlushed
    /\ UNCHANGED encoderVars
    /\ Closes("abandoned")

\* Abort: what the threads and buf_ still hold is not written.
AbortFinishes ==
    /\ ~finishing
    /\ UNCHANGED encoderVars
    /\ Closes("abandoned")

Finishes == StopFinishes \/ SinkFails \/ AbortFinishes

-----------------------------------------------------------------------------
(* The specification *)

\* The session is over and every thread has detached.
Terminated ==
    /\ sink # "open"
    /\ \A t \in Threads : pc[t] = "exited"
    /\ UNCHANGED vars

Flush(t) == FlushLocks(t) \/ FlushFinds(t) \/ FlushEncodes(t) \/ FlushUnlocks(t)

ThreadStep(t) ==
    \/ \E m \in Methods : RecordStreamingMethodEvent(t, m)
    \/ FlushThreadBuffer(t)
    \/ ThreadDetaches(t)
    \/ Flush(t)

Next ==
    \/ \E t \in Threads : ThreadStep(t)
    \/ \E op \in Operations : StopSuspendsAll(op)
    \/ \E t \in Threads : StopFlushes(t)
    \/ Finishes
    \/ Terminated

\* A thread that flushes goes on flushing, and a StopTracing that has begun
\* goes on, to whichever end.  Nobody is obliged to report an event, to
\* detach or to end the session.
Fairness ==
    /\ \A t \in Threads : WF_vars(Flush(t)) /\ WF_vars(StopFlushes(t))
    /\ WF_vars(Finishes)

Spec == Init /\ [][Next]_vars /\ Fairness

-----------------------------------------------------------------------------
(* Properties *)

TypeOK ==
    /\ sink \in {"open", "closed", "abandoned"}
    /\ suspending \in BOOLEAN
    /\ finishing \in BOOLEAN
    /\ tracing_lock \in Threads \cup {NULL}
    /\ DOMAIN art_method_id_map \subseteq Methods
    /\ current_method_index \in 0..Cardinality(Methods)
    /\ DOMAIN thread_id_map \subseteq Threads
    /\ current_thread_index \in 0..Cardinality(Threads)
    /\ buf \in Seq(Item) /\ Used(buf) <= BufferSize
    /\ file \in Seq(Item)
    /\ \A t \in Threads : tbuf[t] \in Seq(Event) /\ Len(tbuf[t]) <= ThreadBufferRecords
    /\ pc \in [Threads -> {"idle", "lock", "find", "encode", "exited"}]
    /\ next \in [Threads -> 1..(ThreadBufferRecords + 1)]
    /\ found \in [Threads -> BOOLEAN]
    /\ pending \in [Threads -> Event \cup {NULL}]
    /\ exiting \in [Threads -> BOOLEAN]
    /\ issued \in [Threads -> 0..MaxEvents]

\* What a reader of the trace file sees, once buf_ is written out.
Stream == file \o buf

\* A record can be decoded where it stands: the line that defines its method
\* id, naming the method of the event, and the line that defines its thread
\* id stand before it in the file, although ids are given at flush time, by
\* whichever thread flushes first, and buf_ is written out in pieces.
NamesPrecedeUse ==
    \A i \in DOMAIN Stream :
        Stream[i].kind = "record" =>
            /\ \E j \in 1..(i - 1) : Stream[j] = MethodLine(Stream[i].mid, Stream[i].e.m)
            /\ \E j \in 1..(i - 1) : Stream[j] = ThreadLine(Stream[i].tid, Stream[i].t)

\* The numbers of the events of t among the records of a sequence of items.
EventsIn(items, t) ==
    LET own == SelectSeq(items, LAMBDA x : x.kind = "record" /\ x.t = t)
    IN  [j \in DOMAIN own |-> own[j].e.seq]

\* The numbers of the events of t that have been encoded, in file order.
Encoded(t) == EventsIn(Stream, t)

\* The numbers of the events of t that wait in its buffer, not yet encoded
\* by a flush in progress, and of the event that waits for the flush.
Waiting(t) ==
    LET from == IF pc[t] \in {"find", "encode"} THEN next[t] ELSE 1
        rest == SubSeq(tbuf[t], from, Len(tbuf[t]))
    IN  [j \in DOMAIN rest |-> rest[j].seq]
            \o (IF pending[t] = NULL THEN <<>> ELSE <<pending[t].seq>>)

\* No record is lost or duplicated across a flush, and the events of a
\* thread stay in the order the thread reported them: what is encoded,
\* followed by what still waits in the thread's buffer, is exactly the
\* events the thread has reported; and a thread that has detached from the
\* session, or a session that Stop has finished, has nothing waiting.  Only
\* an Abort leaves events behind.
NoRecordLost ==
    \A t \in Threads :
        /\ Encoded(t) \o Waiting(t) = [j \in 1..issued[t] |-> j]
        /\ sink = "closed" \/ (sink = "open" /\ pc[t] = "exited") => Waiting(t) = <<>>

\* The ids of a map: one per key, the numbers from 0 up to the map's index.
Dense(map, index) ==
    /\ IsInjective(map)
    /\ Range(map) = 0..(index - 1)

\* Interning is idempotent and dense under concurrent flushes: a method and
\* a thread have one id each, the ids are 0, 1, 2, ... without gaps, and each
\* id is defined by one line of the file.
InternedIdsDense ==
    /\ Dense(art_method_id_map, current_method_index)
    /\ Dense(thread_id_map, current_thread_index)
    /\ \A m \in Methods :
          Cardinality({i \in DOMAIN Stream : Stream[i].kind = "method" /\ Stream[i].m = m})
              = IF m \in DOMAIN art_method_id_map THEN 1 ELSE 0

\* A Stop, Abort or Shutdown that has begun closes the file: the threads
\* that are inside a flush finish it and release tracing_lock_, and none
\* waits for the lock for ever.
StopCloses == suspending ~> (sink # "open")

-----------------------------------------------------------------------------
(* Refinement *)

TO == INSTANCE TraceOrder WITH
        Sources <- Threads,
        Events <- 1..MaxEvents,
        Capacities <- {MaxEvents * Cardinality(Threads)},
        active <- sink = "open",
        ending <- CASE ~suspending -> "none"
                    [] finishing -> "Stop"
                    [] OTHER -> "Abort",
        capacity <- IF sink = "open" THEN MaxEvents * Cardinality(Threads) ELSE 0,
        reported <- [t \in Threads |-> [j \in 1..issued[t] |-> j]],
        recorded <- [t \in Threads |-> EventsIn(Stream, t)],
        artifacts <- IF sink = "closed"
                     THEN <<[t \in Threads |-> EventsIn(file, t)]>>
                     ELSE <<>>

\* The streaming tracer implements a session of TraceOrder that has room
\* for every event: the records of a thread reach the stream in the order
\* the thread reported the events, one flush after another and under
\* whichever interleaving of the flushes of other threads; the file that
\* Stop finishes holds every event that was reported, those that were
\* still in buf_ and in the per-thread buffers included, and a file that
\* Abort or a failing write leaves is no artifact.
ImplementsTraceOrder == TO!SessionSpec

=============================================================================
