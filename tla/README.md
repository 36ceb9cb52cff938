# TLA+ models of the ART runtime sources in this repository

This directory is a model-checking project for the six source files of the
repository (`src/`), written in TLA+ and checked with TLC.  `PROJECT.json`
is the machine-readable index of what is here: components, runs, mutants, the
map from definitions to source lines, findings and hazards.

## 1. Inventory

### 1.1 What the repository contains

| File | What it is | Executable code in `src/` |
|---|---|---|
| `src/runtime/trace.h` | Declaration of the method-tracing engine `art::Trace`: modes, record format, fields, locks | declarations and field comments only; `trace.cc` is not in `src/` |
| `src/runtime/native_stack_dump.cc` | Native stack dump with symbolisation through an `addr2line` child process | all of it |
| `src/runtime/oat_quick_method_header.cc` | Translation between native PCs and dex PCs through stack maps | all of it |
| `src/runtime/quick_exception_handler.h` | State of exception delivery / deoptimisation | accessors only |
| `src/artd/path_utils.cc` | Validation and construction of artifact and profile paths | all of it |
| `src/compiler/optimizing/constant_folding.h` | Declaration of the constant-folding pass | none |

`spec.md` describes the tracing engine as the core of the system.  Its
implementation file is not part of `src/`, so the tracing engine is modelled
from `spec.md` together with what `trace.h` does fix (the enumerations, the
record layouts, the fields, which lock guards which field, and the comments on
`cur_offset_` and on when the buffer may be read).  Every definition of that
kind that has no code under `src/` is marked `spec_modelled` in the map.  The
other files are modelled from their code.

### 1.2 Components, their state and operations

**Tracer Controller** (`Trace::Start/Stop/Abort/Shutdown`, `the_trace_`,
`trace.h:138-179, 351-358`).  State: the singleton `the_trace_` guarded by
`Locks::trace_lock_`, the session configuration (output mode, trace mode, clock
source, buffer size), the listener registration, the sampling thread handle.
Operations: `Start` (fails if a session exists, if the sink cannot be opened),
`Stop` (finish and write), `Abort` (discard), `Shutdown`.  Interacts with every
mutator thread (it suspends them to install or remove the listener) and with
the Buffer Manager (it reads the buffer when the writers are quiesced).

**Buffer Manager** (`buf_`, `cur_offset_`, `overflow_`, `RecordMethodEvent`,
`RecordStreamingMethodEvent`, `FlushStreamingBuffer`, `FlushThreadBuffer`,
`trace.h:289-337, 366-416`).  Buffered mode: one byte region, an atomic cursor
advanced by the record size to reserve a slice, overflow flag.  Streaming mode:
one private buffer per thread, flushed to the file under `tracing_lock_`.

**Identifier Interner** (`EncodeTraceMethod`, `GetThreadEncoding`,
`art_method_id_map_`, `thread_id_map_`, `trace.h:339-349, 431-437`).  Two
append-only maps with a next-index counter each, mutated under
`tracing_lock_`.

**Record Encoder** (`EncodeEventEntry`, record formats, `trace.h:59-99,
295-302`).  Pure: thread id, method id with the action in its two low bits,
one or two clock deltas; 10 or 14 bytes.

**Event Listener Adapter** (`MethodEntered/Exited/Unwind` and the no-op
callbacks, `trace.h:193-237`).  Runs on the mutator thread; reads the clocks,
then records.

**Sampling Coordinator** (`RunSamplingThread`, `CompareAndUpdateStackTrace`,
`stop_tracing_`, `trace.h:190-191, 238-243, 261-262, 357-361, 418-426`).  One
thread that samples stacks periodically and emits the difference; stopped
cooperatively and joined by `Stop`.

**Native stack dump** (`DumpNativeStack`, `Addr2line`, `Connect`, `Drain`,
`Addr2linePipe`, `native_stack_dump.cc:70-430`).  State: the frames of the
unwound stack, the `addr2line_state` pipe (two descriptors, the file the child
works on, the child's pid, the `odd` indentation flag), the output stream.
Operations: `Connect` (two `pipe()` calls and a `fork()`, each of which can
fail), `Addr2line` (filter, reconnect when the file changes, send one offset,
drain), `Drain` (poll with a 500 ms or 50 ms timeout, read up to 127 bytes,
prefix and copy lines, count expected lines), destruction of the pipe (SIGKILL
to the child).  The child process is a second actor: it answers
asynchronously, can be slow, can exit.

**StripParameters** (`native_stack_dump.cc:303-317`).  Pure: removes
parenthesised parameter lists from a function name.

**PC translation** (`OatQuickMethodHeader::ToDexPc`, `ToNativeQuickPc`,
`ToNativeQuickPcForCatchHandlers`, `IsNterpMethodHeader`,
`oat_quick_method_header.cc:30-133`).  Pure lookups in a method's stack maps,
with a native / nterp / optimized case split and an abort-on-failure switch.

**Exception handler state** (`QuickExceptionHandler`,
`quick_exception_handler.h:44-181`).  A record of where a long jump will land;
only accessors are in `src/`.

**Artifact path builder** (`path_utils.cc:56-277`).  Pure: validators
(`ValidateAbsoluteNormalPath`, `ValidatePathElement`,
`ValidatePathElementSubstring`), the `Build*Path` functions, which return
either a path or an error, and `ListManagedFiles`, which collects the glob
patterns of the files artd manages and returns the files that match.

**Constant folding pass** (`constant_folding.h`).  Declaration only.

### 1.3 How the components interact

* Mutator threads call the Event Listener Adapter, which calls the Interner
  and the Buffer Manager; in buffered mode the threads share only the atomic
  cursor, in streaming mode they share `tracing_lock_`, the two maps and the
  file.
* The Controller and the mutators share `the_trace_`, the listener
  registration and the buffer: `Stop` must read the buffer only when no writer
  is inside a record.
* The sampling thread is one more writer, and `Stop` must join it.
* `DumpNativeStack` and the `addr2line` child share two pipes.  The parent
  writes one request per frame and reads with a timeout; nothing ties an
  answer to its request but the order of the bytes.
* `DumpNativeStack` calls `StripParameters` on every function name and
  `OatQuickMethodHeader::GetCode` for frames without a name.

### 1.4 What is hard

* Buffered tracing: a reservation and the write into the reserved slice are
  two steps; another thread reserves in between; the buffer fills exactly or
  with less than one record left; `Stop` reads while a slice is reserved but
  not written.
* Streaming tracing: a thread's buffer fills while another thread flushes; a
  method id is assigned at flush time and its name line must precede the first
  record that uses it in the file; a thread exits with a non-empty buffer;
  `Stop` runs while a thread is inside a flush.
* Controller: two `Start`s race; `Stop` races `Start`; an event callback reads
  `the_trace_` while `Stop` clears it; the sink fails when everything else
  of `Stop` is done.
* Native stack dump: a timeout fires and the answer arrives later, under the
  next frame; a read returns half a line; the child dies in the middle of an
  answer; `pipe()` or `fork()` fails after descriptors were already opened;
  the child is killed but never waited for.
* StripParameters: the loop bounds, unmatched parentheses, negative nesting.
* Path builder: the validator compares paths, element by element, and the
  builders paste text, so a path passes that is not in normal form as text
  (`//a`, `/a//b`), that has an empty file name (`/a/`, `/`) or lies in the
  root; `.` and `..` as names, a `/` inside a name; the patterns of `ListManagedFiles` and the names that the builders
  give are written apart and have to agree.
* PC translation: the offset of a pc is computed in `uintptr_t` and kept in
  32 bits; `ToNativeQuickPcForCatchHandlers` has two results and three ways
  out.
* Sampling: the difference of two stacks as events; a thread that exits
  between two samples; a stop in the middle of a round; one spare vector
  that goes from the cache to a thread and from a thread back to the cache.
* Record format: the method index and the action share four bytes; the
  header announces the size of the records that follow.
* Native stack dump, again: whether addr2line is used is decided once, from
  a `popen` that only says that a shell could be started.

### 1.5 What makes each component correct

| Component | Properties |
|---|---|
| Tracer as a whole | it implements `TraceOrder`: per thread, what is recorded is a prefix of what the thread reported, in order; Stop and Shutdown persist it once everything that fits is recorded, or nothing when the sink fails, Abort persists nothing; sessions do not mix |
| Buffer Manager, buffered | reserved slices never overlap; every record of the artifact is completely written; dropped events = emitted - floor(capacity / record size) and overflow is set iff an event was dropped |
| Buffer Manager, streaming | no record is lost across a flush; a record in the file is preceded by the definition of its method id and thread id; flushes are mutually exclusive |
| Interner | idempotent, dense, append-only |
| Controller | at most one session; `Start` fails without side effects; the session always becomes inactive |
| Sampling Coordinator | the events of a thread replay to its last sample; a sample costs only the frames that changed; a stack-trace vector has one owner; a finished trace names every thread with events and gets no event any more |
| Record Encoder | a reader that follows the header reads the events back, up to the greatest value of every field |
| PC translation | `ToDexPc` agrees with the stack maps for a pc in the code; the row given back agrees with the address returned; `LOG(FATAL)` only with `abort_on_failure` |
| Native stack dump | descriptors opened by a failed `Connect` are all closed; at most one child is alive and none at the end; a prefix is written at the start of every line and nowhere else; with a child that answers in time every answer is printed under its own frame; the dump terminates |
| StripParameters | equals the reference on matched names; erases whole groups only |
| Path builder | a primary profile lies in the directory of its package; distinct requests name distinct files; a profile derived from a dex file lies beside it, in whatever form the dex path was accepted; no call reaches `LOG(FATAL)`; every profile built is a managed file; in the data directory of an app only files below `oat` are managed |

## 2. Plan

Modules in the order in which they are written: first what can be translated
from code, then the core of the design document.

| # | Module | Models | Composes | Status |
|---|---|---|---|---|
| 1 | `StripParameters` | the scan of `StripParameters`, with a reference definition | - | done |
| 2 | `NativeStackDump` | `DumpNativeStack`, `Addr2line`, `Connect`, `Drain`, `~Addr2linePipe` and the child process | - | done |
| 3 | `TraceBuffered` | controller life cycle and buffered-mode recording | - | done |
| 4 | `TraceStreaming` | per-thread buffers, flush under `tracing_lock_`, interner, thread detach, Stop | - | done |
| 5 | `PathUtils` | validators and builders over strings of a few symbols | - | done |
| 6 | `TraceOrder` | abstract specification "per thread, what is recorded is what the thread reported, in order, and Stop persists it"; `TraceBuffered` and `TraceStreaming` are shown to implement it through a refinement mapping | 3, 4 | done |
| 7 | `PathUtils`, extended | `ListManagedFiles` with a matcher for `*` and `**`, related to the names the builders give | 5 | done |
| 8 | `OatQuickMethodHeader` | the three PC translations over a small stack-map table; the offset truncated to 32 bits; the failure paths | - | done |
| 9 | `TraceSampling` | the sampling thread: rounds, `CompareAndUpdateStackTrace`, exit and enter events of the difference, exit of a thread, stop and join | - | done |
| 10 | `RecordEncoder` | header and records byte by byte, with a reader as the reference; fields cut to their widths | - | done |
| 11 | `TraceBuffered`, extended | `Shutdown`, a sink that cannot be opened or fails at the end of Stop, the callbacks of the listener | 3, 6 | done |
| 12 | `TraceSampling`, composed | the events of the sampler written through the reservation of `TraceBuffered`, with overflow | 3, 9 | not written (section 6) |
| 14 | `TraceStreaming`, extended | `Abort` and `Shutdown` of a streaming session, a last write that fails | 4, 6 | done; the identifier space used up is not modelled (section 6) |
| 13 | `TraceSampling`, extended | `AllocStackTrace` and `FreeStackTrace`: the one vector kept in `temp_stack_trace_` and the samples the threads hold; threads that start during the session | 9 | done |

## 3. Modules

Every module that is checked by itself has an `MC` module that fixes its
constants and one or two configuration files; `TraceOrder` is checked through
the two modules that implement it.  `NULL` is a model value where a module
has it.

### 3.1 `StripParameters`

`StripParametersOf(name)` is the loop of `native_stack_dump.cc:305-317` as a
recursive operator over the index `i`, with `end` and `nesting` as its
arguments: `LoopEntry` is the state before the loop, `LoopBody` one
iteration, `Erase` the call of `erase`.  A name is a sequence over `(`, `)`
and one ordinary character.  The action `Call` applies the function to a name,
as `DumpNativeStack` does at lines 389-393.  The reference definition removes
every matched top-level group.

### 3.2 `NativeStackDump`

One behaviour is one call of `DumpNativeStack`.  The parent is a program
counter `pc` over the statements at which something outside the function is
touched; the child is the process that `fork` creates.

| State | Code |
|---|---|
| `use`, `num`, `cur` | whether addr2line is used, the frames, the frame being printed |
| `pipe` | `addr2line_state`: `NULL` or the record `file`, `odd` (the child's pid is `child`) |
| `fds` | the descriptors the parent holds |
| `drain` | the locals of `Drain`: `expected`, `prefix_written`, where to return |
| `child`, `reqs`, `chan` | the child's life, the requests it has not read, the units of text it has written and the parent has not read |
| `os` | the output stream, as a sequence of tokens: frame header, prefix with its indentation, text, newline |

| Action | Code |
|---|---|
| `UnwindFails`, `UnwindSucceeds` | lines 339-362; `UseAddr2line` is the decision at 350-358, with `RunCommand` (288-300) as what it returns: whether `popen` could start the shell |
| `PrintFrame`, `EndOfFrames` | the loop body 364-425 and the final `Drain(0)` 427-429 |
| `Addr2lineEntry` (inside `PrintFrame`) | the suffix filter and the comparison of the file, 232-254 |
| `CloseEarly`, `FirstPipe`, `SecondPipe`, `ForkFails`, `ForkSucceeds` | `pipe->reset()` at 255 and `Connect`, 113-154, one action per system call, each with its failure |
| `Send` | the write of the offset, 270-287 |
| `DrainPollError`, `DrainTimeout`, `DrainHangup`, `DrainReadError`, `DrainRead(n)` | the five outcomes of one turn of the loop of `Drain`, 167-229; `Consume` is the inner loop over what was read |
| `Exit` | the destructor of `addr2line_state` at 430 |
| `ChildExec`, `ChildExecFails` | lines 135-145 in the child |
| `ChildAnswer`, `ChildExits`, `ChildDiesMidAnswer` | the addr2line program: it reads one request and writes the lines of one answer (a function and a location, twice with an inlined frame), or ends |

A read returns between one and `MaxRead` units of what the child has
written; a unit is a part of a line or its end, so that a read can end in the
middle of a line.

### 3.3 `TraceBuffered`

One behaviour is the life of the tracer in buffered (non-streaming) mode:
sessions are started, written to, and stopped, aborted or shut down.

| State | Code |
|---|---|
| `the_trace` | `the_trace_` and the constant fields of the session (mode, clock source, `buffer_size_`) |
| `trace_lock` | `Locks::trace_lock_` |
| `suspending`, `listening` | the suspend-all block of Stop; the registration of the listener |
| `sampling_pthread`, `stop_tracing` | `sampling_pthread_`, `stop_tracing_` |
| `cur_offset`, `overflow`, `buf` | `cur_offset_`, `overflow_`, and `buf_` as the set of slices reserved in it |
| `wpc`, `slot` | per writer: whether it is between the reservation and the write, and its slice |
| `cpc`, `cop` | per controller: where it is in `StopTracing`, and for which of `Operations` (Stop, Abort, Shutdown) |
| `issued`, `artifacts`, `sessions` | history: events reported, what was persisted, sessions started |

`RecordMethodEvent(w)` is the reservation: the comparison with the capacity
and the advance of the cursor are one atomic step (a compare-and-swap), the
write of the record (`EncodeEventEntry(w)`) is a second step.  `Start` is one
step under `trace_lock_`.  Stop, Abort and Shutdown are `StopBegins` (the
lock, the flag), `StopJoins`, `StopSuspendsAll`, `StopRemovesListener`
(enabled when the writers are quiesced), and then `StopFinishes` (the buffer
is read and persisted when `finish_tracing` is set, which it is for Stop and
Shutdown, and discarded by Abort) or `SinkFails` (nothing is persisted);
both end in `DestroysSession`.  The writers are the threads in method
tracing and the sampling thread in sampling (`trace.h:404-407`).  A thread
reports through `Callback`, for one of the three `MethodCallbacks`
(`trace.h:193-205`); the other callbacks that `Trace` implements change no
variable and have no action.  `EncodeEventEntry` requires `tracing_lock_`
(`trace.h:302`), which `RecordMethodEvent` must not hold when it is called
(`trace.h:289-293`) and so takes after the reservation.  The module has no
variable for this lock: the sections under it exclude one another and each
writes the slice of its own writer only, so a section is one step, and a
writer in `wpc = "reserved"` is one that waits for the lock or holds it.

### 3.4 `TraceStreaming`

One behaviour is one streaming session from just after Start to the end of
the Stop, Shutdown or Abort that closes it.

| State | Code |
|---|---|
| `tbuf`, `pending` | the per-thread buffers; the event that found its buffer full |
| `tracing_lock` | `tracing_lock_` |
| `art_method_id_map`, `current_method_index`, `thread_id_map`, `current_thread_index` | the fields of the same names |
| `buf`, `file` | `buf_` in streaming mode, and the trace file |
| `pc`, `next`, `found`, `exiting` | per thread: where it is in `FlushStreamingBuffer` |
| `sink` | `"open"` while the session is active; then `"closed"`, the file finished by Stop, or `"abandoned"`, the file left as it was |
| `suspending`, `finishing` | the suspend-all block of `StopTracing`, and its argument `finish_tracing` |

`RecordStreamingMethodEvent` appends to the buffer or starts a flush.  A
flush is `FlushLocks` (the lock, the id of the thread), then for every event
`FlushFinds` (the lookup in `art_method_id_map_`) and `FlushEncodes` (a new id
and its line if the lookup found none, then the record, each through
`EnsureSpace` and `WriteToBuf`), then `FlushUnlocks`.  The lookup and the
insertion are separate steps on purpose: they are atomic only because of the
lock.  `FlushThreadBuffer` is the flush of a detaching thread.

The end of the session is `StopSuspendsAll(op)`, which fixes `finishing`
(`finish_tracing(op)`: true for Stop and Shutdown, false for Abort, the
argument with which the three inline wrappers at `trace.h:171-178` call
`StopTracing`, whose body is in `trace.cc`), and then, once every thread is
suspended outside a flush: when `finishing`, `StopFlushes(t)` for every
attached thread with events left and `StopFinishes`, which writes out `buf_`, or
`SinkFails`, when that write fails; without it `AbortFinishes`, which
writes nothing and leaves the buffers of the threads as they are.

### 3.5 `PathUtils`

The validators and builders are operators with the names of the functions.
A result is `[status |-> "ok", path |-> ...]` or `[status |-> "error", why
|-> ...]`; `OrReturn` is the macro `OR_RETURN`.  A string is a sequence of
symbols: `/`, `.`, NUL and one ordinary character in what the caller gives,
and one symbol for each piece of text a builder inserts.
`std::filesystem::path` is defined by what the C++ standard says of
`is_absolute`, `lexically_normal`, `parent_path`, `filename` and the
comparison of two paths, for every absolute path.  The comparison goes over
the filenames (`PathElements`, `SamePath`): separators that follow each
other count as one, and a separator at the end is an empty filename.  The
last test of `ValidateAbsoluteNormalPath` (line 67) is such a comparison, so
it rejects a path exactly when one of its filenames is `.` or `..`, and lets
`//a`, `/a//b`, `/a/` and `/` through.  `parent_path` is the text before the
filename without the separators at its end (`/a` for `/a//b` and for `/a/`,
the root as written for `//a`).  `NewFile::BuildTempPath` is in another file;
`BuildTempPath` takes it to append `.<id>.tmp`, the form that the pattern
`.*.tmp` of `ListManagedFiles` (line 143) is there for.  The conversions of other files (`DexLocationToOatFilename`,
`DexLocationToOdexFilename`, `OatPathToVdexPath`, `ReplaceFileExtension`) are
left open: their result is the argument tagged with the conversion's name.
An action calls an entry point with a request; `Return` hands the result
over.

`ListManagedFiles` is `Glob(ManagedPatterns, files)` after the two lookups of
the environment.  `ManagedPatterns` is the list that lines 129-150 build, as a
set (the matcher does not look at the order): `DataRoots` is the loop over the
data directories, `SecondaryOatDir` and `MaybeTmpSuffix` are the variables of
the same names.  `tools::Glob` is in another file; `MatchesPath` and
`MatchesName` define it by the syntax its documentation gives: `*` stands for
any text inside one path element, `**` as an element for zero or more
elements.  `CallListManagedFiles` runs the function on a file system that
holds one file, which is enough because a file matches by itself.

### 3.6 `TraceOrder` and the refinement

`TraceOrder` is what the tracer promises, without buffers, cursors and locks.
Its state is, per source of events, the sequence `reported` and the sequence
`recorded`, the `capacity` of the session, whether a session is `active`,
which operation is `ending` it, and the `artifacts` persisted so far.
`Record(s)` records the next reported event of `s` while there is room,
`Stop` persists what is recorded and is enabled only when everything that fits
is recorded, `StopFails` is a Stop whose sink fails and persists nothing,
`Abort` persists nothing.

| Abstract | `TraceBuffered` | `TraceStreaming` |
|---|---|---|
| `active` | `the_trace # NULL` | `sink = "open"` |
| `ending` | the operation of the controller that holds `trace_lock`, Shutdown counting as Stop | while `suspending`: `"Stop"` when `finishing`, `"Abort"` when not |
| `capacity` | `buffer_size` divided by the record size | all events fit |
| `reported[s]` | `1..issued[s]` | `1..issued[s]` |
| `recorded[s]` | the events of the slices of `s` that are written, in the order of the buffer | the events of `s` in what is encoded (`buf_` and the file) |
| `artifacts` | the events per writer of each persisted artifact | the file, once `sink = "closed"`; an abandoned file is none |

`ImplementsTraceOrder` is `TO!Spec` for `TraceBuffered`, which starts
inactive, and `TO!SessionSpec` for `TraceStreaming`, which starts with its
session.  The order guarantee of the design document, the separation of
sessions, "Abort persists nothing" and "the file is complete at close" are
consequences of the refinement and are no longer stated one by one.

### 3.7 `OatQuickMethodHeader`

`ToDexPc`, `ToNativeQuickPc` and `ToNativeQuickPcForCatchHandlers` are
operators with the parameters of the functions; a result is
`[status |-> "value", value |-> ...]` or `[status |-> "fatal"]` for
`LOG(FATAL)`, and the catch-handler translation adds `row`, what the call
leaves in `*stack_map_row`.  `SoughtOffset` is line 35: the difference in
`uintptr_t`, stored in a `uint32_t`.  `NativePc` is the sum in `uintptr_t`.
`Failure` is the common end of the three functions.  A header is its entry
point, whether it is the nterp header, and its table of stack maps; a stack
map is a row of the table, row 0 the invalid one.  The three searches of
`stack_map.h` are outside `src/` and are defined by their declarations: the
first map that is no catch map with the offset, the first map with the dex
pc, the last catch map with the dex pc list.

### 3.8 `TraceSampling`

One behaviour is one sampling session.  `Wake` starts a round over the live
threads, `Sample(t)` takes the stack of one thread into the vector that
`AllocStackTrace` gives and applies `CompareAndUpdateStackTrace`, `Sleep`
ends the round, `SamplerExits` is the thread that finds `stop_tracing_` set
when it wakes.  `ThreadStarts(t)` is a thread that begins during the
session, `ThreadExits(t)` one that ends: it saves its name
(`StoreExitingThreadInfo`) and leaves the list of threads that the round of
the sampling thread goes over (`todo`; the round thread by thread is the
model's rendering of "a snapshot for a defined set of live threads", the
body of `RunSamplingThread` being in `trace.cc`);
`StopTracing` sets the flag and `Join` finishes the trace once the sampling
thread has exited, adding the live threads to `threads_list_`.  The threads
run between two samples, so the stack that `Sample` takes is any stack of up
to `MaxDepth` frames.  `CompareAndUpdateStackTrace` keeps the frames that
both stacks share from the bottom (`CommonFrames`), logs exit events for the
old frames above them from the top down (`Exited`) and enter events for the
new ones from the bottom up (`Entered`).

| State | Code |
|---|---|
| `status` | per thread: not started, alive, exited |
| `sample` | per thread: the vector that holds its last sample, `NULL` before the first |
| `heap` | the contents of the vectors |
| `temp_stack_trace` | `temp_stack_trace_`: the one unused vector kept for the next sample |
| `events`, `threads_list` | the events logged per thread; `threads_list_` |
| `sampler`, `todo`, `ticks` | the sampling thread, the threads left in its round, the rounds so far |
| `stop_tracing`, `finished` | `stop_tracing_`; the trace has been finished |

`AllocStackTrace` hands out the cached vector and empties the cache, or a
new vector when the cache is empty.  `CompareAndUpdateStackTrace` gives the
thread the new vector and passes the old one to `FreeStackTrace`, which
clears it and puts it into the cache.

### 3.9 `RecordEncoder`

`TraceData(clock, start_time, events)` is the binary part of a trace:
`TraceHeader` (magic, version, offset to data, start time, record size,
padding to 32 bytes) and one `EncodeEventEntry` per event (thread id in two
bytes, `EncodeTraceMethodAndAction` in four, one or two clock differences of
four bytes each), every field through `LittleEndian`.  The values given to
the encoder are those of their C++ types and fit their fields.  The reader in the properties (`ReadTrace`,
`ReadRecord`) is the reference: it takes the offset and the record size from
the header and cuts the data accordingly.

## 4. Runs

| Run | Configuration | Result | States |
|---|---|---|---|
| `strip_reference` | `MCStripParameters.cfg` | holds | 1,093 |
| `strip_comment` | `MCStripParametersComment.cfg` | violated, as expected | - |
| `dump_any_child` | `MCNativeStackDumpSlow.cfg` | holds | 104,647 |
| `dump_prompt_child` | `MCNativeStackDumpPrompt.cfg` | holds | 16,093 |
| `trace_buffered` | `MCTraceBuffered.cfg` | holds | 307,249 |
| `trace_streaming` | `MCTraceStreaming.cfg` | holds | 70,630 |
| `path_builders` | `MCPathUtils.cfg` | holds | 23,361 |
| `path_normal_form` | `MCPathUtilsNormal.cfg` | violated, as expected | - |
| `pc_translation` | `MCOatQuickMethodHeader.cfg` | holds | 192,625 |
| `trace_sampling` | `MCTraceSampling.cfg` | holds | 171,620 |
| `record_format` | `MCRecordEncoder.cfg` | holds | 7,060 |

**`strip_reference`**: for every name of up to six symbols whose
parentheses match, the function returns the name without its top-level
groups, except a group that opens at the first character
(`StripMatchesReference`), and what it erases is always a whole group
(`OnlyWholeGroupsErased`).

**`strip_comment`**: the comment above the function says that matching
top-level parentheses are found and removed.  `StripsEveryTopLevelGroup`
states that literally and is violated: the loop stops before index 0, so a
group that opens at the first character stays (`(x)f(y)` becomes `(x)f`).
Names that addr2line prints do not begin with a parenthesis, so this is a
difference between the comment and the code and no failure of the dump.

**`dump_any_child`**: the child may be slow (`ChildIsPrompt = FALSE`: a
timeout can fire while the answer is still to come).  `NoDescriptorLeak`: the
parent holds exactly the two ends of the current pipe, or nothing, whenever it
is not inside `Connect`, whichever of the system calls failed.
`NoStrayChild`: when the dump is done no child is alive.  `OneChildAtATime`:
a new connection is made only when no child is alive.
`PrefixOnlyAtLineStart` and `IndentFollowsLineKind`: the prefix is written
once per line although lines arrive in pieces, and the indentation alternates
with the lines of the child although `odd` and `prefix_written` live in
different places.  `DumpTerminates`: every dump ends.

**`dump_prompt_child`**: with a child that answers or dies before the poll
times out, every answer line in the output stands under the frame whose
request it answers (`AnswersUnderOwnFrame`).  Without the assumption the code
prints a late answer under a later frame; nothing says it must not, so this is
recorded among the hazards.

**`trace_buffered`**: `ReservedSlicesDisjoint` and `TypeOK` (the cursor never
passes the end of the buffer) for concurrent reservations;
`NoPartialRecord` for the read in Stop; `DroppedCountExact` for the overflow;
`ImplementsTraceOrder`: every step of the controllers and writers is a step
of `TraceOrder` or leaves its state alone, so that what Stop persists is, per
writer, a prefix in order of what the writer reported, nothing of an earlier
session, and nothing at all for Abort or when the sink fails;
`TeardownCompletes`: a Stop, Abort or Shutdown that has begun ends with the
session destroyed and the lock free, with a sink that works or fails.

**`trace_streaming`**: `NamesPrecedeUse` (a record can be decoded where it
stands in the file); `NoRecordLost` (what is encoded followed by what still
waits is exactly what the thread reported, and nothing waits after a detach
from the session or after a Stop that finished; only an Abort leaves events
behind); `InternedIdsDense` (one id per method and thread, no gaps, one
defining line per id); `ImplementsTraceOrder`: the file that Stop finishes
holds every event that was reported, per thread in the order of the reports,
and the file that an Abort or a failing write leaves, cut wherever the
flushes had got to, is no artifact; `StopCloses`: a Stop, Shutdown or Abort
that has begun closes the file, also when it begins while a thread holds
`tracing_lock_`; `TypeOK` includes that the use of `buf_` never passes its
size.

**`path_builders`**: `PrimaryProfileInsidePackageDirectory`,
`DistinctRequestsDistinctFiles`, and `TypeOK`, which includes that no call
reaches `LOG(FATAL)`.  `DexProfileBesideDex`: for every dex path that
`ValidateDexPath` accepts, with doubled separators, with a separator at the
end, in the root or the root itself, the prebuilt profile is in the
directory of the dex file and the secondary profiles are in its `oat`
directory, under a name that begins with that of the dex file, and no
element of the path is `.` or `..`; directories are compared as the file
system sees them, by their filenames.  `BuiltProfilesAreManaged`: the
path built for a primary profile, for a secondary profile of a dex file in
the data directory of an app (on internal storage or on an expanded volume),
and for the temporary file of either, matches a pattern of
`ListManagedFiles`.  `OnlyOatFilesOfAppsAreManaged`: of the files in the data
directory of an app, `ListManagedFiles` returns only profiles, artifacts and
their temporary files below a directory `oat`, as the comment at line 140
says.

**`path_normal_form`**: `AcceptedPathIsInNormalForm` says what the name of
`ValidateAbsoluteNormalPath` and its error message say: an accepted path is
its own normal form, character by character.  TLC answers with the request
for the prebuilt profile of `//a`, which is accepted and returns
`//a.prof`.  The comparison at line 67 is one of paths and not of strings.
Nothing in these files depends on the stricter reading (the run
`path_builders` holds with such paths among its inputs); a caller that takes
an accepted path for canonical text, to compare or to use as a key, would.

**`pc_translation`**: `ToDexPcAgreesWithStackMaps`: for a pc within 2^32
bytes above the entry point (scaled: 2^`U32Bits`), also when the code lies
across the end of the address space, the dex pc returned is that of a stack
map at that pc, and a map at that pc is found.  Outside that range the offset
wraps and the function can answer with the map of another address; nothing in
the code says which pcs a caller may pass, so this is a hazard and no finding.
`CatchRowAgreesWithPc`: the row left in `*stack_map_row` is that of a catch
map at the address returned, or the row of the invalid map when there is
none, also on the path that aborts; only the nterp header leaves the caller's
value.  `TypeOK` includes that `LOG(FATAL)` is reached only with
`abort_on_failure`.

**`trace_sampling`**: `EventsReplayToSample`: the events logged for a thread
over all its samples form a well-nested run that ends in the sample the
thread holds.  `DiffEmitsOnlyChangedFrames`: a step logs exactly one event per
frame above the longest common part of the old and the new sample (the
reference is `LongestCommonPrefix` of the community modules).
`VectorsOwnedOnce`: the vector of a thread's sample is neither the cached
vector nor the sample of another thread, through every hand-over between the
cache, the sampling thread and the threads; it needs a thread that is
sampled for the first time after another thread has given a vector back.
`FinishedTraceIsFinal`: once the trace is finished no event is logged, also
when the stop comes in the middle of a round, and every thread with events
is in `threads_list_`, also one that exited before the end.
`TypeOK` includes that the round never holds a thread that has exited.  The
session ends, so the run does not check for deadlock.

**`record_format`**: `TraceRoundTrip`: the reader finds the magic, the
version and the start time, as many records as events, and for every event
its thread, method, action and clock differences, the greatest value of
every field included.  `TypeOK` includes the length of the trace.

Every property of a passing run has a mutant in `PROJECT.json`: a definition
changed the way a slip in the code would change it, under which the property
is violated.

## 5. Bounds, fairness, assumptions

### 5.1 Bounds

| Constant | Value | Why it is enough |
|---|---|---|
| `StripParameters`: length of a name | 6 | two groups side by side, a group in a group, and an unmatched parenthesis on either side of a group all fit |
| `MaxFrames` | 3 | a frame after a reconnect after a frame: the file changes and changes back |
| `Files`, `IgnoredFiles` | 2, 1 | the same file twice, a different file, a file that is skipped |
| `MaxPairs` | 2 | an answer with an inlined frame: four lines where two are expected |
| `MaxRead` | 3 | a read that ends inside a line, at its end, and inside the next |
| `Threads`, `Controllers` (buffered) | 2, 2 | two writers at the last slice; a Stop or Shutdown against a Start or an Abort |
| `BufferSizes` | 20, 34 | with records of 10 and 14 bytes: exact fit (20/10), a remainder (34/10, 20/14, 34/14) |
| `MaxEvents` (buffered) | 2 per writer | up to six events for at most three slices: overflow happens |
| `MaxSessions` | 2 | a session after a session |
| `Threads`, `Methods` (streaming) | 2, 2 | two flushes that meet the same new method; a method known to one flush and new to the next |
| `ThreadBufferRecords`, `MaxEvents` (streaming) | 2, 3 | a flush caused by a full buffer, followed by an event left for the detach or for Stop |
| `BufferSize`, `RecordUnits`, `LineUnits` | 5, 1, 2 | `buf_` is written out between a line and a record that uses it, and is not empty at the end |
| `Names`, `Ids`, `DexPaths` | strings up to 2, 1, 4 symbols, and six dex paths in and above the data directory of an app | `.`, `..`, `a/`, `/a`; `/a/.`, `/../` (rejected), `//a`, `/a//`, `/a/`, `//`, `/a/a` (accepted); a dex file in an app on internal and on expanded storage, in a subdirectory, with an empty filename, written with a doubled separator, and one level too high |
| `Files` | 1,134 paths | three roots, seven areas (app data of both kinds, `user/oat`, installed apps, profiles, dalvik-cache, elsewhere), six positions relative to `oat`, nine names (profile, artifacts, temporary files, other) |
| `PtrBits`, `U32Bits` | 3, 2 | addresses wrap at 8 and offsets at 4, so that a pc below the entry point, a pc a full offset range above it, and code across the end of the address space all occur |
| `EntryPoints`, `CodeInfos` | {0, 3, 6, 7}, tables of up to 2 stack maps | two maps with the same offset or dex pc (first and last match differ), catch and ordinary maps side by side |
| `Threads`, `Methods`, `MaxDepth`, `MaxTicks` (sampling) | 2, 2, 2, 2 | a sample that leaves two different frames and enters two others; a second sample after any change; a thread that exits between its samples; a thread that starts after the other was sampled twice, when the cache holds a vector; a stop inside a round |
| `Vectors` | one per thread and one more | every thread holds a sample while the sampling thread fills a new one |
| `ByteBits` | 4 | fields of 8, 16 and 32 bits: every field has more than one byte, and the start time stays a number TLC can hold |
| `ThreadIds`, `MethodIndexes`, `ClockDiffs` | edges of the fields | the least and the greatest thread id; the greatest index that fits beside the action; a clock difference whose bytes all differ, and the greatest |
| `MaxRecords` | 2 | the reader has to find the second record from the size in the header |

Counters that the code does not bound (`issued`, `sessions`) are bounded in
the guards of the actions that advance them.

### 5.2 Fairness

* `NativeStackDump`: weak fairness of the parent's steps that do not depend
  on an error (`DumperProceeds`) and of the child's steps.  The parent is a
  sequential program that the scheduler runs; poll's timeout makes `Drain`
  return without the child.  The error outcomes of `poll` and `read` are not
  fair: they may never happen.
* `TraceBuffered`: weak fairness of `EncodeEventEntry(w)` (a thread that has
  reserved a slice is running and writes it), of `SamplingThreadExits` (the
  sampling thread wakes after its interval) and of the steps of a Stop,
  Abort or Shutdown that has begun; whether the sink fails is not a matter
  of fairness, both ends destroy the session.  No fairness for reporting events or for calling
  Start or Stop.
* `TraceStreaming`: weak fairness of the steps of a flush per thread (the
  thread runs, and the mutex is handed over when it is free for good), of
  `StopFlushes` and of the end of the teardown, whichever of
  `StopFinishes`, `SinkFails` and `AbortFinishes` it is: whether the write
  fails is not a matter of fairness.
* `TraceSampling`, `TraceOrder` and the modules of pure functions have no
  fairness: only safety is checked of them.  That a stopped session ends is
  checked in `TraceBuffered`, which has the sampling thread and the join.

### 5.3 Assumptions on the environment

* The addr2line child writes whole units and answers requests in order; it
  may be slow, may die at any time, and prints at most `MaxPairs` pairs per
  request.
* In `dump_prompt_child` the child answers before the poll times out.
* A thread inside a callback is not suspended before the callback returns.
* An item of the streaming buffer is not larger than the buffer.
* The searches of `stack_map.h`, `NterpGetDexPC` and `NterpGetCatchHandler`
  behave as their declarations say; the callers of `ToNativeQuickPc` keep its
  `DCHECK`s.
* `tools::Glob` matches as its documentation says, and `*` also matches a
  name that begins with a dot.  It reports a file under the name the file
  system gives it, so a built path is looked up by the file it names
  (`FileOf`).
* `std::filesystem::path` is that of libc++, with which the platform is
  built: the parent of `//a` is `//`.
* `NewFile::BuildTempPath(final, id)` is `final.id.tmp`.
* The sampling thread does not take `Locks::trace_lock_`, which a Stop holds
  from its first step to the end of the session; `RunSamplingThread`
  requires only that its caller does not hold it (`trace.h:262`), and the
  order in which `StopTracing` releases the lock and joins is in `trace.cc`.
* The stack of a thread is taken in one step.
* `Shutdown` takes the steps of `Stop` in the same order: the design
  document calls its ordering relaxed and does not say in what.
* `AllocStackTrace` and `FreeStackTrace` are called as their comments in
  `trace.h` and the design document say: the first by the sampling thread
  for every sample, the second by `CompareAndUpdateStackTrace` for the
  sample it replaces.
* A thread may start at any time during a sampling session.

## 6. Not modelled

* `trace.cc` is not in `src/`: what the tracing modules say beyond `trace.h`
  follows the design document, and the map marks it.  The DDMS output, the
  queries of the session (`GetOutputMode` and the like), the reading of the
  clocks, the length of the sampling interval, the text summary at the end
  of the file and the record format v1 are not modelled.
* The identifier space used up: `GetThreadEncoding` returns 16 bits and a
  method index has 30.  The design document says in one sentence that the
  session is then aborted; where the encoder notices, and what becomes of
  the flush that was going on, is in `trace.cc`.  `RecordEncoder` is given
  identifiers that fit; the reaction of the session is not modelled, for
  there is no code or text to take it from.  The same holds for a clock
  difference past 32 bits of microseconds (70 minutes): the difference is
  taken in `trace.cc`.
* A second session in `TraceStreaming`: `TraceBuffered` has `Start` after
  `Stop`; what becomes of the events a thread still holds from an aborted
  streaming session when the next one starts is not in `trace.h` and not in
  the design document, so a behaviour of `TraceStreaming` ends with its
  session.
* The events of the sampler written through the reservation of
  `TraceBuffered` (row 12 of the plan): in `TraceBuffered` the sampling
  thread is already a writer like any other, and `TraceSampling` checks the
  events it logs against the samples.  A buffer that overflows keeps a
  prefix of what each writer reported (`ImplementsTraceOrder`), and a prefix
  of the events of a thread replays to a stack of that thread; the
  composition would check the two modules again on a larger state space and
  nothing new of the code.
* The path that `FindAddr2line` builds, the unwinder and the text of a frame
  line in `native_stack_dump.cc`: formatting.  The stubs of
  `DumpNativeStack` for other systems than Linux do nothing.  The zombie
  that the destructor of `Addr2linePipe` leaves (it kills and never waits) is
  a hazard without a property: the code holds no state that a wait would
  change.  So is the prefix written in the middle of a line that a dying
  child left unterminated: the format the code promises to parsing tools
  (the comment above the frame loop) allows any data before the frame
  number, and `PrefixOnlyAtLineStart` is stated so that it allows the case.
* The conversions of other files that the path builders call
  (`OatFileAssistant`, `file_utils`), and `tools::Glob` itself, which is
  defined here by its documentation.
* `quick_exception_handler.h`: the header declares the handler record with
  its setters and getters; everything that changes the record in a way worth
  checking (`FindCatch`, `DeoptimizeStack`, `DoLongJump`) is in
  `quick_exception_handler.cc`, which is not in `src/`, and the design
  document does not describe it.  There is nothing to translate and nothing
  to model from.
* `constant_folding.h`: the declaration of a pass with one `Run` method; its
  body is not in `src/` and the design document does not describe it.
