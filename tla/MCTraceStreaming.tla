-------------------------- MODULE MCTraceStreaming --------------------------
(***************************************************************************)
(* TraceStreaming for TLC.  Two threads and two methods, so that both      *)
(* threads meet a method for the first time in flushes that overlap in     *)
(* time; per-thread buffers of two events and three events per thread, so  *)
(* that a thread flushes because its buffer is full, goes on, and leaves   *)
(* events for its detach or for Stop; a buf_ of five units with records of *)
(* one unit and lines of two, so that buf_ is written out between a line   *)
(* and a record that uses it, and is not empty at the end.                 *)
(***************************************************************************)
EXTENDS TraceStreaming

MCThreadBufferRecords == 2
MCBufferSize == 5
MCRecordUnits == 1
MCLineUnits == 2
MCMaxEvents == 3

=============================================================================
