--------------------------- MODULE TraceBuffered ---------------------------
(***************************************************************************)
(* The tracer controller and the buffered (non-streaming) recording path   *)
(* of art::Trace, declared in runtime/trace.h.                             *)
(*                                                                         *)
(* trace.h fixes the state (the_trace_, buf_, cur_offset_, overflow_,      *)
(* stop_tracing_, sampling_pthread_), the record widths, which writers     *)
(* exist in which mode and when the buffer may be read; those definitions  *)
(* are translated from its lines.  The bodies of Start, Stop, Abort and    *)
(* RecordMethodEvent are in trace.cc, which the repository does not hold:  *)
(* these actions follow the design document (spec.md, sections 4.1, 4.4    *)
(* and 5).                                                                 *)
(*                                                                         *)
(* Actors: the CONTROLLERS, threads that call Start, Stop, Abort and       *)
(* Shutdown; the WRITERS, which are the mutator threads (event callbacks,  *)
(* in method tracing) or the one sampling thread (in sampling).  A writer  *)
(* records an event in two steps: it reserves a slice of the buffer by     *)
(* advancing the atomic cursor, then encodes the record into the slice.  A *)
(* controller that ends the session tells the sampling thread to stop and  *)
(* joins it, suspends the writers, removes the listener, and only then     *)
(* reads the buffer; the sink may fail when the trace is written.          *)
(*                                                                         *)
(* A record is abstracted to its writer and the number of the event among  *)
(* that writer's events of the session; a slice of the buffer is its first *)
(* byte offset, with the record widths of the file format.                 *)
(***************************************************************************)
EXTENDS Integers, Sequences, FiniteSets, FiniteSetsExt, SequencesExt

CONSTANTS
    Threads,         \* mutator threads
    SamplingThread,  \* the sampling thread
    Controllers,     \* threads that call Start, Stop, Abort
    BufferSizes,     \* the values of buffer_size Start is called with
    ClockSources,    \* subset of {"thread_cpu", "wall", "dual"}
    MaxEvents,       \* bound: events one writer reports in one session
    MaxSessions,     \* bound: sessions started
    NULL

ASSUME /\ SamplingThread \notin Threads
       /\ BufferSizes \subseteq Nat \ {0}
       /\ ClockSources \subseteq {"thread_cpu", "wall", "dual"}
       /\ MaxEvents \in Nat /\ MaxSessions \in Nat

VARIABLES
    the_trace,         \* the_trace_: NULL or the configuration of the session
    trace_lock,        \* Locks::trace_lock_: NULL or the controller holding it
    suspending,        \* a controller is inside its suspend-all block
    listening,         \* the listener is registered with the instrumentation
    sampling_pthread,  \* "none", "running", "exited"
    stop_tracing,      \* stop_tracing_
    cur_offset,        \* cur_offset_
    overflow,          \* overflow_
    buf,               \* buf_: the slices reserved so far
    wpc,               \* per writer: "idle" or "reserved"
    slot,              \* per writer: the offset of the slice it reserved
    cpc,               \* per controller: "idle", "join", "suspend", "quiesce", "finish"
    cop,               \* per controller: "none", "Stop", "Abort", "Shutdown"
    issued,            \* history: events reported by each writer in this session
    artifacts,         \* history: what was persisted, one entry per Stop
    sessions           \* history: number of sessions started

vars == <<the_trace, trace_lock, suspending, listening, sampling_pthread,
          stop_tracing, cur_offset, overflow, buf, wpc, slot, cpc, cop,
          issued, artifacts, sessions>>

sessionVars == <<the_trace, trace_lock, suspending, listening,
                 sampling_pthread, stop_tracing, cpc, cop, artifacts, sessions>>

bufferVars == <<cur_offset, overflow, buf, wpc, slot, issued>>

-----------------------------------------------------------------------------
(* Data *)

Writers == Threads \cup {SamplingThread}

\* TraceMode and the arguments of Start that the control flow reads.
Config == [mode : {"MethodTracing", "Sampling"},
           clock : ClockSources,
           buffer_size : BufferSizes]

\* TracingMode, as GetMethodTracingMode reports it.
TracingMode ==
    CASE the_trace = NULL                   -> "kTracingInactive"
      [] the_trace.mode = "MethodTracing"   -> "kMethodTracingActive"
      [] OTHER                              -> "kSampleProfilingActive"

\* Record formats v2 and v3: u2 thread id, u4 method id and action, u4 time
\* delta, and a second u4 when the clock is dual.
RecordSize(clock) == 2 + 4 + 4 + (IF clock = "dual" THEN 4 ELSE 0)

\* A slice of buf_: where it starts, whose event it holds, whether the
\* record has been encoded into it.
Slice == [off : Nat, src : Writers, seq : Nat, written : BOOLEAN]

\* Who writes into buf_: the threads in method tracing, and only the sampling
\* thread in sampling.
MayWrite(w) ==
    /\ the_trace # NULL
    /\ IF the_trace.mode = "MethodTracing"
       THEN w \in Threads /\ listening
       ELSE w = SamplingThread /\ sampling_pthread = "running" /\ ~stop_tracing

\* Mutant of WritersQuiesced: the buffer is read without waiting for the
\* stores of the writers.
WritersQuiesced_NotAwaited == TRUE

\* The buffer may be read when the sources of events are shut down and all
\* their stores have completed.
WritersQuiesced == \A w \in Writers : wpc[w] = "idle"

\* The records of the buffer in the order of their offsets, as FinishTracing
\* writes them out.
RecordsInOrder ==
    LET s == SetToSortSeq(buf, LAMBDA a, b : a.off < b.off)
    IN  [i \in DOMAIN s |-> [src |-> s[i].src, seq |-> s[i].seq,
                             written |-> s[i].written]]

-----------------------------------------------------------------------------
(* The writers: RecordMethodEvent *)

Init ==
    /\ the_trace = NULL
    /\ trace_lock = NULL
    /\ suspending = FALSE
    /\ listening = FALSE
    /\ sampling_pthread = "none"
    /\ stop_tracing = FALSE
    /\ cur_offset = 0
    /\ overflow = FALSE
    /\ buf = {}
    /\ wpc = [w \in Writers |-> "idle"]
    /\ slot = [w \in Writers |-> 0]
    /\ cpc = [c \in Controllers |-> "idle"]
    /\ cop = [c \in Controllers |-> "none"]
    /\ issued = [w \in Writers |-> 0]
    /\ artifacts = <<>>
    /\ sessions = 0

\* The compare of the reservation: the slice must end within the capacity.
Fits(old, size) == old + size <= the_trace.buffer_size

\* Mutant of Reserve: the cursor is read and the slice taken, but the
\* advanced cursor is not stored.
Reserve_CursorNotStored(w) ==
    /\ slot' = [slot EXCEPT ![w] = cur_offset]
    /\ buf' = buf \cup {[off |-> cur_offset, src |-> w, seq |-> issued[w] + 1,
                         written |-> FALSE]}
    /\ wpc' = [wpc EXCEPT ![w] = "reserved"]
    /\ UNCHANGED <<cur_offset, overflow>>

\* The cursor is advanced by the record width in one atomic step; the slice
\* begins where the cursor was.  The comparison with the capacity is part of
\* that step: a reservation that would exceed it leaves the cursor alone.
Reserve(w) ==
    /\ cur_offset' = cur_offset + RecordSize(the_trace.clock)
    /\ slot' = [slot EXCEPT ![w] = cur_offset]
    /\ buf' = buf \cup {[off |-> cur_offset, src |-> w, seq |-> issued[w] + 1,
                         written |-> FALSE]}
    /\ wpc' = [wpc EXCEPT ![w] = "reserved"]
    /\ UNCHANGED overflow

\* Mutant of Drop: the cursor was advanced before the capacity was compared.
Drop_CursorAdvanced(w) ==
    /\ overflow' = TRUE
    /\ cur_offset' = cur_offset + RecordSize(the_trace.clock)
    /\ UNCHANGED <<buf, wpc, slot>>

\* Mutant of Drop: the record is dropped and overflow_ is left as it is.
Drop_FlagNotSet(w) == UNCHANGED <<overflow, cur_offset, buf, wpc, slot>>

\* The reservation would exceed the capacity: the overflow flag is set and
\* the record is dropped.
Drop(w) ==
    /\ overflow' = TRUE
    /\ UNCHANGED <<cur_offset, buf, wpc, slot>>

\* A writer reports an event.  A suspended thread does not start one.
RecordMethodEvent(w) ==
    /\ wpc[w] = "idle"
    /\ MayWrite(w)
    /\ ~suspending
    /\ issued[w] < MaxEvents
    /\ issued' = [issued EXCEPT ![w] = @ + 1]
    /\ IF Fits(cur_offset, RecordSize(the_trace.clock)) THEN Reserve(w) ELSE Drop(w)
    /\ UNCHANGED sessionVars

\* The callbacks of the instrumentation that report a method event.  The
\* other callbacks that Trace implements leave the trace alone: they are
\* steps that change no variable, and no action stands for them.
MethodCallbacks == {"MethodEntered", "MethodExited", "MethodUnwind"}

\* The instrumentation calls the listener back on thread t.
Callback(t, callback) == callback \in MethodCallbacks /\ RecordMethodEvent(t)

\* The writer encodes the record into the slice it reserved.  It holds
\* tracing_lock_, which RecordMethodEvent takes after the reservation: the
\* sections under the lock touch the slices of their own writers only and
\* exclude one another, so that a section is one step and the lock has no
\* variable.  A writer between the two steps is one that has reserved and
\* waits for the lock or holds it.
EncodeEventEntry(w) ==
    /\ wpc[w] = "reserved"
    /\ buf' = {IF s.off = slot[w] THEN [s EXCEPT !.written = TRUE] ELSE s : s \in buf}
    /\ wpc' = [wpc EXCEPT ![w] = "idle"]
    /\ UNCHANGED <<cur_offset, overflow, slot, issued>>
    /\ UNCHANGED sessionVars

\* Mutant of SamplingThreadExits: the thread looks at the_trace_ and not at
\* stop_tracing_.
SamplingThreadExits_WaitsForSessionEnd ==
    /\ sampling_pthread = "running"
    /\ the_trace = NULL
    /\ wpc[SamplingThread] = "idle"
    /\ sampling_pthread' = "exited"
    /\ UNCHANGED <<the_trace, trace_lock, suspending, listening, stop_tracing,
                   cpc, cop, artifacts, sessions>>
    /\ UNCHANGED bufferVars

\* The sampling thread finds stop_tracing_ set when it wakes, and exits.  It
\* is started by a caller that does not hold trace_lock_ and takes no step
\* under that lock here: the controller keeps the lock while it joins.
SamplingThreadExits ==
    /\ sampling_pthread = "running"
    /\ stop_tracing
    /\ wpc[SamplingThread] = "idle"
    /\ sampling_pthread' = "exited"
    /\ UNCHANGED <<the_trace, trace_lock, suspending, listening, stop_tracing,
                   cpc, cop, artifacts, sessions>>
    /\ UNCHANGED bufferVars

-----------------------------------------------------------------------------
(* The controllers: Start, Stop, Abort, Shutdown *)

\* The operations that end a session.  Shutdown is the Stop of a runtime
\* that exits.
Operations == {"Stop", "Abort", "Shutdown"}

\* finish_tracing of StopTracing: whether the trace is finished and written.
finish_tracing(op) == op \in {"Stop", "Shutdown"}

\* The constructor of Trace: an empty buffer, the cursor at its start, no
\* overflow.
NewBuffer ==
    /\ cur_offset' = 0
    /\ overflow' = FALSE
    /\ buf' = {}
    /\ issued' = [w \in Writers |-> 0]
    /\ UNCHANGED <<wpc, slot>>

\* Start succeeds: no session is active and the sink could be opened.  The
\* session is created, and the listener is registered or the sampling thread
\* spawned.
Start(c, cfg) ==
    /\ cpc[c] = "idle"
    /\ trace_lock = NULL
    /\ the_trace = NULL
    /\ sessions < MaxSessions
    /\ the_trace' = cfg
    /\ NewBuffer
    /\ listening' = (cfg.mode = "MethodTracing")
    /\ sampling_pthread' = IF cfg.mode = "Sampling" THEN "running" ELSE "none"
    /\ stop_tracing' = FALSE
    /\ sessions' = sessions + 1
    /\ UNCHANGED <<trace_lock, suspending, cpc, cop, artifacts>>

\* Start fails: a session is already active, or the sink cannot be opened.
\* Nothing changes.
StartFails(c) ==
    /\ cpc[c] = "idle"
    /\ trace_lock = NULL
    /\ UNCHANGED vars

\* StopTracing finds a session: from here on it is serialized against every
\* other Start, Stop, Abort and Shutdown, and the sampling thread is told to
\* stop.
StopBegins(c, op) ==
    /\ cpc[c] = "idle"
    /\ trace_lock = NULL
    /\ the_trace # NULL
    /\ trace_lock' = c
    /\ stop_tracing' = TRUE
    /\ cop' = [cop EXCEPT ![c] = op]
    /\ cpc' = [cpc EXCEPT ![c] = "join"]
    /\ UNCHANGED <<the_trace, suspending, listening, sampling_pthread,
                   artifacts, sessions>>
    /\ UNCHANGED bufferVars

\* StopTracing finds no session: nothing changes.
StopNotRunning(c) ==
    /\ cpc[c] = "idle"
    /\ trace_lock = NULL
    /\ the_trace = NULL
    /\ UNCHANGED vars

\* The sampling thread, if there is one, is joined.
StopJoins(c) ==
    /\ cpc[c] = "join"
    /\ sampling_pthread # "running"
    /\ sampling_pthread' = "none"
    /\ cpc' = [cpc EXCEPT ![c] = "suspend"]
    /\ UNCHANGED <<the_trace, trace_lock, suspending, listening, stop_tracing,
                   cop, artifacts, sessions>>
    /\ UNCHANGED bufferVars

\* The controller asks every thread to suspend.
StopSuspendsAll(c) ==
    /\ cpc[c] = "suspend"
    /\ suspending' = TRUE
    /\ cpc' = [cpc EXCEPT ![c] = "quiesce"]
    /\ UNCHANGED <<the_trace, trace_lock, listening, sampling_pthread,
                   stop_tracing, cop, artifacts, sessions>>
    /\ UNCHANGED bufferVars

\* Every thread is suspended, none inside a callback: the listener is
\* removed and the threads are resumed.
StopRemovesListener(c) ==
    /\ cpc[c] = "quiesce"
    /\ WritersQuiesced
    /\ listening' = FALSE
    /\ suspending' = FALSE
    /\ cpc' = [cpc EXCEPT ![c] = "finish"]
    /\ UNCHANGED <<the_trace, trace_lock, sampling_pthread, stop_tracing,
                   cop, artifacts, sessions>>
    /\ UNCHANGED bufferVars

\* What FinishTracing persists.
Artifact ==
    [records |-> RecordsInOrder, overflow |-> overflow,
     issued |-> issued, config |-> the_trace]

\* Mutant of Persist: Abort writes the buffer out as Stop does.
Persist_AlsoOnAbort(c) == artifacts' = Append(artifacts, Artifact)

\* Stop writes the buffer to the sink; Abort discards it.
Persist(c) ==
    artifacts' = IF finish_tracing(cop[c]) THEN Append(artifacts, Artifact)
                 ELSE artifacts

\* The end of StopTracing: the session is destroyed and trace_lock_ released.
DestroysSession(c) ==
    /\ the_trace' = NULL
    /\ trace_lock' = NULL
    /\ cpc' = [cpc EXCEPT ![c] = "idle"]
    /\ cop' = [cop EXCEPT ![c] = "none"]
    /\ UNCHANGED <<suspending, listening, sampling_pthread, stop_tracing, sessions>>
    /\ UNCHANGED bufferVars

\* The buffer is read and the session is destroyed.
StopFinishes(c) ==
    /\ cpc[c] = "finish"
    /\ Persist(c)
    /\ DestroysSession(c)

\* The sink fails while FinishTracing writes or closes it: the failure is
\* logged, no artifact is left, and the session is destroyed all the same.
SinkFails(c) ==
    /\ cpc[c] = "finish"
    /\ finish_tracing(cop[c])
    /\ UNCHANGED artifacts
    /\ DestroysSession(c)

-----------------------------------------------------------------------------
(* The specification *)

WriterStep(w) ==
    \/ w \in Threads /\ \E callback \in MethodCallbacks : Callback(w, callback)
    \/ w = SamplingThread /\ RecordMethodEvent(w)
    \/ EncodeEventEntry(w)

Teardown(c) ==
    \/ StopJoins(c) \/ StopSuspendsAll(c) \/ StopRemovesListener(c)
    \/ StopFinishes(c) \/ SinkFails(c)

ControllerStep(c) ==
    \/ \E cfg \in Config : Start(c, cfg)
    \/ StartFails(c)
    \/ \E op \in Operations : StopBegins(c, op)
    \/ StopNotRunning(c)
    \/ Teardown(c)

Next ==
    \/ \E w \in Writers : WriterStep(w)
    \/ SamplingThreadExits
    \/ \E c \in Controllers : ControllerStep(c)

\* A writer inside a record finishes it, the sampling thread wakes up, and a
\* controller inside StopTracing goes on.  Nobody is obliged to report an
\* event or to call Start or Stop.
Fairness ==
    /\ \A w \in Writers : WF_vars(EncodeEventEntry(w))
    /\ WF_vars(SamplingThreadExits)
    /\ \A c \in Controllers : WF_vars(Teardown(c))

Spec == Init /\ [][Next]_vars /\ Fairness

-----------------------------------------------------------------------------
(* Properties *)

TypeOK ==
    /\ the_trace \in Config \cup {NULL}
    /\ trace_lock \in Controllers \cup {NULL}
    /\ suspending \in BOOLEAN
    /\ listening \in BOOLEAN
    /\ sampling_pthread \in {"none", "running", "exited"}
    /\ stop_tracing \in BOOLEAN
    /\ cur_offset \in Nat
    /\ the_trace # NULL => cur_offset <= the_trace.buffer_size
    /\ overflow \in BOOLEAN
    /\ buf \subseteq Slice
    /\ wpc \in [Writers -> {"idle", "reserved"}]
    /\ slot \in [Writers -> Nat]
    /\ cpc \in [Controllers -> {"idle", "join", "suspend", "quiesce", "finish"}]
    /\ cop \in [Controllers -> Operations \cup {"none"}]
    /\ issued \in [Writers -> 0..MaxEvents]
    /\ sessions \in 0..MaxSessions
    /\ \A c \in Controllers : (cpc[c] = "idle") = (cop[c] = "none")
    /\ \A c \in Controllers : cpc[c] # "idle" => trace_lock = c

\* The bytes of a slice.
Bytes(s) == s.off .. (s.off + RecordSize(the_trace.clock) - 1)

\* The slices that writers reserve concurrently through cur_offset_ never
\* overlap, and each lies within the buffer, also when the capacity is not a
\* multiple of the record width and when several writers meet at the last
\* free slice.
ReservedSlicesDisjoint ==
    the_trace # NULL =>
        /\ \A s \in buf : Bytes(s) \subseteq 0..(the_trace.buffer_size - 1)
        /\ \A s, t \in buf : s # t => Bytes(s) \cap Bytes(t) = {}

\* No partial record is ever written out: Stop reads the buffer only after
\* the writers are shut down, so every slice it finds has been encoded,
\* although reserving and encoding are two steps of the writer.
NoPartialRecord ==
    \A i \in DOMAIN artifacts :
        \A j \in DOMAIN artifacts[i].records : artifacts[i].records[j].written

\* The events of a writer that an artifact holds, in the order of the file.
EventsOf(a, w) ==
    LET own == SelectSeq(a.records, LAMBDA r : r.src = w)
    IN  [j \in DOMAIN own |-> own[j].seq]

\* Number of events reported in the session of an artifact.
Reported(a) == SumFunction(a.issued)

\* Number of records the buffer of an artifact's session can hold.
Capacity(a) == a.config.buffer_size \div RecordSize(a.config.clock)

\* Overflow is exact: of N reported events exactly N - floor(capacity /
\* record width) are dropped when the buffer is too small and none otherwise,
\* and the overflow flag is set exactly when an event was dropped.
DroppedCountExact ==
    \A i \in DOMAIN artifacts :
        LET a == artifacts[i]
        IN  /\ Len(a.records) = Min({Reported(a), Capacity(a)})
            /\ a.overflow = (Reported(a) > Capacity(a))

\* Every Stop, Abort and Shutdown completes and leaves the tracer inactive,
\* also when the sink fails: the sampling thread sees the stop flag and is
\* joined, and the writers that are inside a record leave it.
TeardownCompletes ==
    \A c \in Controllers : (cpc[c] # "idle") ~> (cpc[c] = "idle" /\ the_trace = NULL)

-----------------------------------------------------------------------------
(* Refinement *)

\* The events of w that are encoded in buf_, in the order of their offsets.
Recorded(w) == EventsOf([records |-> SelectSeq(RecordsInOrder, LAMBDA r : r.written)], w)

TO == INSTANCE TraceOrder WITH
        Sources <- Writers,
        Events <- 1..MaxEvents,
        Capacities <- {c.buffer_size \div RecordSize(c.clock) : c \in Config},
        active <- the_trace # NULL,
        ending <- CASE trace_lock = NULL -> "none"
                    [] finish_tracing(cop[trace_lock]) -> "Stop"
                    [] OTHER -> "Abort",
        capacity <- IF the_trace = NULL THEN 0
                    ELSE the_trace.buffer_size \div RecordSize(the_trace.clock),
        reported <- [w \in Writers |-> [j \in 1..issued[w] |-> j]],
        recorded <- [w \in Writers |-> Recorded(w)],
        artifacts <- [i \in DOMAIN artifacts |->
                         [w \in Writers |-> EventsOf(artifacts[i], w)]]

\* The buffered tracer implements TraceOrder: per writer, an artifact holds
\* the first events the writer reported in that session, in the order it
\* reported them, and nothing of an earlier session or of a slice not yet
\* encoded, however RecordMethodEvent of several writers and Start, Stop,
\* Abort and Shutdown of several controllers interleave; a session that Stop
\* or Shutdown ends persists all that had room unless the sink fails, and
\* one that Abort ends persists nothing.
ImplementsTraceOrder == TO!Spec

=============================================================================
