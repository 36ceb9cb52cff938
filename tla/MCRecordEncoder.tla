-------------------------- MODULE MCRecordEncoder --------------------------
(***************************************************************************)
(* RecordEncoder for TLC.  A byte has four bits, so that a field of four   *)
(* bytes has 16 bits and the start time, of eight bytes, is a number that  *)
(* TLC can hold.  The values are those at the edges of the fields: the     *)
(* least and the greatest thread id, the least method index and the        *)
(* greatest that fits beside the action, a clock difference with all bytes *)
(* different and the greatest, and a start time that needs six bytes.  Two *)
(* events, so that the reader has to find the second record.               *)
(***************************************************************************)
EXTENDS RecordEncoder

MCByteBits == 4
MCThreadIds == {0, 2^8 - 1}
MCMethodIndexes == {1, 2^14 - 1}
MCClockDiffs == {4660, 2^16 - 1}   \* 0x1234, and the last before the clock wraps
MCStartTimes == {2^20 + 5}
MCMaxRecords == 2

=============================================================================
