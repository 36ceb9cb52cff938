---------------------------- MODULE TraceSampling ----------------------------
(***************************************************************************)
(* The Sampling Coordinator of the tracer, runtime/trace.h: one session in *)
(* trace mode kSampling, from the start of the sampling thread to the end  *)
(* of the session.                                                         *)
(*                                                                         *)
(* The sampling thread wakes, takes the call stack of every live thread    *)
(* and gives it to CompareAndUpdateStackTrace, which turns the difference  *)
(* to the sample before into exit and enter events.  The threads run on    *)
(* between two samples, so the stack that is taken is any stack.  A stack  *)
(* is the sequence of its methods, the bottom frame first; a thread that   *)
(* was never sampled has no sample, which compares as the empty stack.     *)
(* A sample is kept in a vector that the thread owns; the vector of the    *)
(* sample before goes to temp_stack_trace_, from where the next sample     *)
(* takes it.  The thread that stops the session sets stop_tracing_ and     *)
(* joins the sampling thread before it finishes the trace.                 *)
(*                                                                         *)
(* The bodies are in trace.cc, outside these files: the steps follow the   *)
(* design document, and the declarations of trace.h where they say what a  *)
(* member is for.                                                          *)
(***************************************************************************)
EXTENDS Integers, Sequences, SequencesExt, FiniteSets

CONSTANTS
    Threads,     \* the threads of the application
    Methods,     \* the methods they call
    MaxDepth,    \* bound on the depth of a call stack
    MaxTicks,    \* bound on the number of times the sampling thread wakes
    NULL

VARIABLES
    status,         \* per thread: "unstarted", "alive", "exited"
    sample,         \* per thread: the vector of its stack trace sample, or NULL
    heap,           \* what each stack-trace vector holds
    temp_stack_trace,  \* temp_stack_trace_: the unused vector, or NULL
    events,         \* the events logged for each thread, in order
    threads_list,   \* threads_list_: the threads whose name is saved
    sampler,        \* the sampling thread: "sleeping", "sampling", "exited"
    todo,           \* the threads it has yet to sample in this round
    stop_tracing,   \* stop_tracing_
    finished,       \* the session has finished the trace
    ticks           \* how often the sampling thread woke

vars == <<status, sample, heap, temp_stack_trace, events, threads_list,
          sampler, todo, stop_tracing, finished, ticks>>
control == <<stop_tracing, finished>>
samples == <<sample, heap, temp_stack_trace, events>>

\* The threads that run.
alive == {t \in Threads : status[t] = "alive"}

\* The call stacks that a thread may be found with.
Stacks == UNION {[1..n -> Methods] : n \in 0..MaxDepth}

TraceAction == {"kTraceMethodEnter", "kTraceMethodExit", "kTraceUnroll"}

Event(action, method) == [action |-> action, method |-> method]

\* The vectors of stack traces: one for each thread and one to spare.
Vectors == 1..(Cardinality(Threads) + 1)

\* The sample of a thread as a stack.
StackTraceSample(t) == IF sample[t] = NULL THEN <<>> ELSE heap[sample[t]]

-----------------------------------------------------------------------------
(* AllocStackTrace, FreeStackTrace *)

\* The vectors that a thread or temp_stack_trace_ holds.
InUse == {sample[t] : t \in Threads} \cup {temp_stack_trace}

\* Mutant of AllocStackTrace: the vector is handed out and kept as well.
AllocStackTrace_NotReleased ==
    [stack_trace |-> IF temp_stack_trace # NULL THEN temp_stack_trace
                     ELSE Min(Vectors \ InUse),
     temp_stack_trace |-> temp_stack_trace]

\* The old vector is reused if there is one, otherwise a new one is
\* allocated; temp_stack_trace_ has given its vector away.
AllocStackTrace ==
    [stack_trace |-> IF temp_stack_trace # NULL THEN temp_stack_trace
                     ELSE Min(Vectors \ InUse),
     temp_stack_trace |-> NULL]

\* The vector is cleared and stored for later use; vectors is the heap.
FreeStackTrace(vectors, stack_trace) ==
    [heap |-> [vectors EXCEPT ![stack_trace] = <<>>], temp_stack_trace |-> stack_trace]

-----------------------------------------------------------------------------
(* CompareAndUpdateStackTrace *)

\* The frames that the two traces share, counted from the bottom up to the
\* first difference.
RECURSIVE CommonFrames(_, _)
CommonFrames_None(old, new) == 0
CommonFrames(old, new) ==
    IF old # <<>> /\ new # <<>> /\ Head(old) = Head(new)
    THEN 1 + CommonFrames(Tail(old), Tail(new))
    ELSE 0

\* The frames above the common ones.
Above(trace, common) == SubSeq(trace, common + 1, Len(trace))

\* Mutant of Exited: the old frames are left from the bottom up.
Exited_BottomUp(old, common) ==
    [i \in 1..(Len(old) - common) |-> Event("kTraceMethodExit", Above(old, common)[i])]

\* The exit events: the old frames above the common ones, from the top down.
Exited(old, common) ==
    [i \in 1..(Len(old) - common) |->
        Event("kTraceMethodExit", Reverse(Above(old, common))[i])]

\* The enter events: the new frames above the common ones, from the bottom
\* up.
Entered(new, common) ==
    [i \in 1..(Len(new) - common) |-> Event("kTraceMethodEnter", Above(new, common)[i])]

\* The thread takes the vector stack_trace, filled with frames, as its
\* sample; the difference to the sample before is logged, and the vector of
\* the sample before, if there was one, is freed.
CompareAndUpdateStackTrace(thread, stack_trace, frames) ==
    LET old == StackTraceSample(thread)
        common == CommonFrames(old, frames)
        filled == [heap |-> [heap EXCEPT ![stack_trace] = frames],
                   temp_stack_trace |-> AllocStackTrace.temp_stack_trace]
        freed == IF sample[thread] = NULL THEN filled
                 ELSE FreeStackTrace(filled.heap, sample[thread])
    IN  /\ sample' = [sample EXCEPT ![thread] = stack_trace]
        /\ events' = [events EXCEPT
                         ![thread] = @ \o Exited(old, common) \o Entered(frames, common)]
        /\ heap' = freed.heap
        /\ temp_stack_trace' = freed.temp_stack_trace

-----------------------------------------------------------------------------
(* A thread of the application *)

\* A thread of the application starts to run.
ThreadStarts(t) ==
    /\ status[t] = "unstarted"
    /\ status' = [status EXCEPT ![t] = "alive"]
    /\ UNCHANGED <<samples, threads_list, sampler, todo, control, ticks>>

\* The id and the name of a thread are saved before it exits, while a
\* session is there.
StoreExitingThreadInfo(thread) ==
    threads_list' = IF finished THEN threads_list ELSE threads_list \cup {thread}

\* Mutant of ThreadExits: the round of the sampling thread still holds the
\* thread.
ThreadExits_StillInRound(t) ==
    /\ t \in alive
    /\ status' = [status EXCEPT ![t] = "exited"]
    /\ StoreExitingThreadInfo(t)
    /\ UNCHANGED <<samples, sampler, todo, control, ticks>>

\* A thread exits.  It leaves the list of threads of the runtime, which is
\* what a round of the sampling thread goes over: todo, the rest of the
\* round, loses the thread.
ThreadExits(t) ==
    /\ t \in alive
    /\ status' = [status EXCEPT ![t] = "exited"]
    /\ todo' = todo \ {t}
    /\ StoreExitingThreadInfo(t)
    /\ UNCHANGED <<samples, sampler, control, ticks>>

-----------------------------------------------------------------------------
(* RunSamplingThread *)

\* The interval has passed: the thread wakes and starts a round over the
\* live threads.  A tick that falls into a round is not kept for later.
Wake ==
    /\ sampler = "sleeping"
    /\ ~stop_tracing
    /\ ticks < MaxTicks
    /\ sampler' = "sampling"
    /\ todo' = alive
    /\ ticks' = ticks + 1
    /\ UNCHANGED <<status, samples, threads_list, control>>

\* The stack of one thread is taken into a vector and compared.
Sample(t) ==
    /\ sampler = "sampling"
    /\ t \in todo
    /\ \E frames \in Stacks :
          CompareAndUpdateStackTrace(t, AllocStackTrace.stack_trace, frames)
    /\ todo' = todo \ {t}
    /\ UNCHANGED <<status, threads_list, sampler, control, ticks>>

Sleep ==
    /\ sampler = "sampling"
    /\ todo = {}
    /\ sampler' = "sleeping"
    /\ UNCHANGED <<status, samples, threads_list, todo, control, ticks>>

\* The thread finds stop_tracing_ set when it wakes, and exits.
SamplerExits ==
    /\ sampler = "sleeping"
    /\ stop_tracing
    /\ sampler' = "exited"
    /\ UNCHANGED <<status, samples, threads_list, todo, control, ticks>>

-----------------------------------------------------------------------------
(* The end of the session *)

\* Stop or Abort tells the sampling thread to stop.
StopTracing ==
    /\ ~stop_tracing
    /\ stop_tracing' = TRUE
    /\ UNCHANGED <<status, samples, threads_list, sampler, todo, finished, ticks>>

\* Mutant of Join: the trace is finished without the join.
Join_NoWait ==
    /\ stop_tracing
    /\ ~finished
    /\ finished' = TRUE
    /\ threads_list' = threads_list \cup alive
    /\ UNCHANGED <<status, samples, sampler, todo, stop_tracing, ticks>>

\* The sampling thread is joined and the trace is finished: the threads
\* that live are added to threads_list_.
Join ==
    /\ stop_tracing
    /\ sampler = "exited"
    /\ ~finished
    /\ finished' = TRUE
    /\ threads_list' = threads_list \cup alive
    /\ UNCHANGED <<status, samples, sampler, todo, stop_tracing, ticks>>

-----------------------------------------------------------------------------
(* The specification *)

Init ==
    /\ status = [t \in Threads |-> "unstarted"]
    /\ sample = [t \in Threads |-> NULL]
    /\ heap = [v \in Vectors |-> <<>>]
    /\ temp_stack_trace = NULL
    /\ events = [t \in Threads |-> <<>>]
    /\ threads_list = {}
    /\ sampler = "sleeping"
    /\ todo = {}
    /\ stop_tracing = FALSE
    /\ finished = FALSE
    /\ ticks = 0

SamplerNext == Wake \/ Sleep \/ SamplerExits \/ \E t \in Threads : Sample(t)

Next ==
    \/ \E t \in Threads : ThreadStarts(t) \/ ThreadExits(t)
    \/ SamplerNext
    \/ StopTracing
    \/ Join

Spec == Init /\ [][Next]_vars

-----------------------------------------------------------------------------
(* Properties *)

TypeOK ==
    /\ status \in [Threads -> {"unstarted", "alive", "exited"}]
    /\ sample \in [Threads -> Vectors \cup {NULL}]
    /\ heap \in [Vectors -> Stacks]
    /\ temp_stack_trace \in Vectors \cup {NULL}
    /\ \A t \in Threads : \A i \in DOMAIN events[t] :
          events[t][i] \in [action : TraceAction, method : Methods]
    /\ threads_list \subseteq Threads
    /\ sampler \in {"sleeping", "sampling", "exited"}
    /\ todo \subseteq alive
    /\ stop_tracing \in BOOLEAN /\ finished \in BOOLEAN
    /\ ticks \in 0..MaxTicks

\* What a reader of the trace makes of the events of a thread: an enter
\* event pushes its method, an exit event pops it and must name the method
\* on top.
Unbalanced == <<"unbalanced">>
Replay(log) ==
    FoldLeft(LAMBDA st, e :
                 IF st = Unbalanced THEN Unbalanced
                 ELSE IF e.action = "kTraceMethodEnter" THEN Append(st, e.method)
                 ELSE IF st # <<>> /\ Last(st) = e.method THEN Front(st)
                 ELSE Unbalanced,
             <<>>, log)

\* The events that CompareAndUpdateStackTrace logs for a thread, over all
\* the samples taken of it, are those of a run of the thread: every exit
\* event names the method entered last and not yet left, and what is entered
\* and not left is the sample that the thread holds.
EventsReplayToSample == \A t \in Threads : Replay(events[t]) = StackTraceSample(t)

\* A sample costs as many events as frames changed: a step logs, for a
\* thread, one event for each frame of the old and of the new sample above
\* their longest common part, and none for a thread that is not sampled.
DiffEmitsOnlyChangedFrames ==
    [][\A t \in Threads :
          LET old == StackTraceSample(t)
              new == StackTraceSample(t)'
              common == Len(LongestCommonPrefix({old, new}))
          IN  Len(events'[t]) - Len(events[t])
                 = (Len(old) - common) + (Len(new) - common)]_vars

\* A stack-trace vector has one owner: the vector that temp_stack_trace_
\* keeps for the next AllocStackTrace is the sample of no thread, and no two
\* threads hold the same vector, whichever threads start, are sampled for
\* the first time or exit between two allocations.
VectorsOwnedOnce ==
    \A t \in Threads : sample[t] # NULL =>
        /\ sample[t] # temp_stack_trace
        /\ \A u \in Threads \ {t} : sample[u] # sample[t]

\* The threads with events whose name threads_list_ does not hold.
Unnamed == {t \in Threads : events[t] # <<>> /\ t \notin threads_list}

\* A finished trace is complete and final.  The sampling thread is a writer
\* of the trace, so the session is finished only when it has gone: no event
\* is logged afterwards, also when the session is stopped in the middle of a
\* round.  And the name of every thread with events is in threads_list_, for
\* a thread that exited during the session by StoreExitingThreadInfo.
FinishedTraceIsFinal ==
    /\ [](finished => Unnamed = {})
    /\ [][finished => events' = events]_vars

=============================================================================
