-------------------------- MODULE MCTraceSampling --------------------------
(***************************************************************************)
(* TraceSampling for TLC: two threads and two methods, stacks of up to two *)
(* frames, so that a sample can leave two different frames and enter two   *)
(* others, and two rounds of the sampling thread, so that a thread is      *)
(* sampled for the first time and again after any change, starts after the *)
(* other has been sampled and so takes the cached vector, exits between    *)
(* two samples, and the session is stopped in a round.                     *)
(***************************************************************************)
EXTENDS TraceSampling

MCMaxDepth == 2
MCMaxTicks == 2

=============================================================================
