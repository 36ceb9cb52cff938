-------------------------- MODULE MCTraceBuffered --------------------------
(***************************************************************************)
(* TraceBuffered for TLC.  Two mutator threads, so that two writers meet   *)
(* at the cursor; two controllers, so that Start, Stop and Abort race.     *)
(* A buffer of 20 bytes holds two 10-byte records exactly and one 14-byte  *)
(* record with 6 bytes left; a buffer of 34 bytes holds three 10-byte      *)
(* records with 4 bytes left and two 14-byte records with 6 left.  With    *)
(* two events per writer the four events of a session overflow every one   *)
(* of these buffers and a session of fewer events fits.  Two sessions, so  *)
(* that a session starts on what the one before has left.                  *)
(***************************************************************************)
EXTENDS TraceBuffered

MCBufferSizes == {20, 34}
MCClockSources == {"thread_cpu", "dual"}
MCMaxEvents == 2
MCMaxSessions == 2

=============================================================================
