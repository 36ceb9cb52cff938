---------------------------- MODULE RecordEncoder ----------------------------
(***************************************************************************)
(* The binary form of a trace, runtime/trace.h: the header of the file and *)
(* the records of the events, as the comment "File format" lays them out,  *)
(* byte by byte in little-endian order.                                    *)
(*                                                                         *)
(* The encoder is a pure function: it is an operator, and an action        *)
(* applies it to the events of a session.  The fields keep their widths   *)
(* in bytes; a byte has ByteBits bits, eight in the program and fewer in a *)
(* model.  The values of an event are those of their types: a thread id    *)
(* of two bytes, a clock difference of four, and a method index that fits  *)
(* beside the action (a session whose identifiers run out is aborted and   *)
(* writes no further record).                                              *)
(* The reader of the properties is the other side of the format: it takes  *)
(* the offset of the data and the size of a record from the header.        *)
(***************************************************************************)
EXTENDS Integers, Sequences, SequencesExt

CONSTANTS
    ByteBits,        \* bits of a byte
    ClockSources,    \* subset of {"thread_cpu", "wall", "dual"}
    ThreadIds,       \* thread ids given to the encoder
    MethodIndexes,   \* method indexes given to the encoder
    ClockDiffs,      \* clock differences given to the encoder
    StartTimes,      \* start times of a session, in microseconds
    MaxRecords,      \* bound on the events of a session
    NULL

VARIABLES
    request,    \* the session whose trace is written
    result      \* the bytes of the trace

vars == <<request, result>>

TraceAction == {"kTraceMethodEnter", "kTraceMethodExit", "kTraceUnroll"}
TraceActionCode ==
    [a \in TraceAction |-> CASE a = "kTraceMethodEnter" -> 0
                             [] a = "kTraceMethodExit" -> 1
                             [] a = "kTraceUnroll" -> 2]
kTraceMethodActionMask == 3
TraceActionBits == 2

kTraceMagicValue == 1464814675   \* 0x574f4c53, 'SLOW'
kTraceHeaderLength == 32

Byte == 0..(2^ByteBits - 1)

\* The number of values of a field of n bytes.
Width(n) == 2^(ByteBits * n)

ASSUME /\ ThreadIds \subseteq 0..(Width(2) - 1)
       /\ ClockDiffs \subseteq 0..(Width(4) - 1)
       /\ MethodIndexes \subseteq 0..(Width(4) \div 2^TraceActionBits - 1)

\* The value in n bytes, the low byte first; bits above the field are lost.
LittleEndian(val, n) == [i \in 1..n |-> (val \div Width(i - 1)) % Width(1)]

Append2LE(val) == LittleEndian(val, 2)
Append4LE(val) == LittleEndian(val, 4)
Append8LE(val) == LittleEndian(val, 8)

\* Version 2 has one clock, version 3 the two of "dual".
GetTraceVersion(clock) == IF clock = "dual" THEN 3 ELSE 2

GetRecordSize(clock) == IF clock = "dual" THEN 14 ELSE 10

\* "method ID | method action" in four bytes: the action is in the two low
\* bits, the index above them.
EncodeTraceMethodAndAction(method_index, action) ==
    ((method_index * 2^TraceActionBits) % Width(4)) + TraceActionCode[action]

\* Mutant of Clocks: both differences are written whatever the clock.
Clocks_Both(clock, thread_clock_diff, wall_clock_diff) ==
    <<thread_clock_diff, wall_clock_diff>>

\* The clock differences that a record holds.
Clocks(clock, thread_clock_diff, wall_clock_diff) ==
    CASE clock = "thread_cpu" -> <<thread_clock_diff>>
      [] clock = "wall" -> <<wall_clock_diff>>
      [] clock = "dual" -> <<thread_clock_diff, wall_clock_diff>>

EncodeEventEntry(clock, e) ==
    LET times == Clocks(clock, e.thread_clock_diff, e.wall_clock_diff)
    IN  Append2LE(e.thread_id)
            \o Append4LE(EncodeTraceMethodAndAction(e.method_index, e.action))
            \o FlattenSeq([i \in DOMAIN times |-> Append4LE(times[i])])

\* Mutant of TraceHeader: the record size is that of one clock.
TraceHeader_SingleClockSize(clock, start_time) ==
    LET fields == Append4LE(kTraceMagicValue) \o Append2LE(GetTraceVersion(clock))
                      \o Append2LE(kTraceHeaderLength) \o Append8LE(start_time)
                      \o Append2LE(GetRecordSize("wall"))
    IN  fields \o [i \in 1..(kTraceHeaderLength - Len(fields)) |-> 0]

\* The header: magic, version, offset to data, start time, record size,
\* and padding to 32 bytes.
TraceHeader(clock, start_time) ==
    LET fields == Append4LE(kTraceMagicValue) \o Append2LE(GetTraceVersion(clock))
                      \o Append2LE(kTraceHeaderLength) \o Append8LE(start_time)
                      \o Append2LE(GetRecordSize(clock))
    IN  fields \o [i \in 1..(kTraceHeaderLength - Len(fields)) |-> 0]

\* The binary part of the trace of a session.
TraceData(clock, start_time, events) ==
    TraceHeader(clock, start_time)
        \o FlattenSeq([i \in DOMAIN events |-> EncodeEventEntry(clock, events[i])])

-----------------------------------------------------------------------------
(* The specification: a session is written, and the trace is taken *)

MethodEvent ==
    [thread_id : ThreadIds, method_index : MethodIndexes, action : TraceAction,
     thread_clock_diff : ClockDiffs, wall_clock_diff : ClockDiffs]

Init == request = NULL /\ result = NULL

Write ==
    /\ request = NULL
    /\ \E clock \in ClockSources, start_time \in StartTimes,
          events \in BoundedSeq(MethodEvent, MaxRecords) :
        /\ request' = [clock |-> clock, start_time |-> start_time, events |-> events]
        /\ result' = TraceData(clock, start_time, events)

Return ==
    /\ request # NULL
    /\ request' = NULL
    /\ result' = NULL

Next == Write \/ Return

Spec == Init /\ [][Next]_vars

-----------------------------------------------------------------------------
(* Properties *)

\* The reader.
FromLittleEndian(bytes) ==
    FoldRight(LAMBDA byte, val : Width(1) * val + byte, bytes, 0)

Field(bytes, from, n) == FromLittleEndian(SubSeq(bytes, from, from + n - 1))

ReadRecord(bytes) ==
    [thread_id |-> Field(bytes, 1, 2),
     method_index |-> Field(bytes, 3, 4) \div 2^TraceActionBits,
     action |-> Field(bytes, 3, 4) % (kTraceMethodActionMask + 1),
     clocks |-> [i \in 1..((Len(bytes) - 6) \div 4) |-> Field(bytes, 3 + 4 * i, 4)]]

ReadTrace(bytes) ==
    LET offset == Field(bytes, 7, 2)
        size == Field(bytes, 17, 2)
    IN  [magic |-> Field(bytes, 1, 4),
         version |-> Field(bytes, 5, 2),
         start_time |-> Field(bytes, 9, 8),
         records |-> [i \in 1..((Len(bytes) - offset) \div size) |->
                         ReadRecord(SubSeq(bytes, offset + (i - 1) * size + 1,
                                           offset + i * size))]]

TypeOK ==
    /\ request = NULL <=> result = NULL
    /\ result # NULL =>
          /\ \A i \in DOMAIN result : result[i] \in Byte
          /\ Len(result) = kTraceHeaderLength
                              + Len(request.events) * GetRecordSize(request.clock)

\* A reader that follows the header finds the session again, whatever the
\* clock: the magic is that of the format, the version and the start time
\* are those of the session, there are as many records as events, and the
\* record of an event gives back its thread, method and action and the
\* differences of the clocks of the session, the thread clock first.
TraceRoundTrip ==
    result # NULL =>
        LET trace == ReadTrace(result)
            events == request.events
        IN  /\ trace.magic = kTraceMagicValue % Width(4)
            /\ trace.version = GetTraceVersion(request.clock)
            /\ trace.start_time = request.start_time
            /\ DOMAIN trace.records = DOMAIN events
            /\ \A i \in DOMAIN events :
                  trace.records[i] =
                      [thread_id |-> events[i].thread_id,
                       method_index |-> events[i].method_index,
                       action |-> TraceActionCode[events[i].action],
                       clocks |-> Clocks(request.clock, events[i].thread_clock_diff,
                                         events[i].wall_clock_diff)]

=============================================================================
