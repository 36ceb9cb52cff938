----------------------------- MODULE TraceOrder -----------------------------
(***************************************************************************)
(* What a tracing session promises of the artifact it leaves, whichever    *)
(* way it buffers: the records of one source stand in the artifact in the  *)
(* order in which the source reported the events, nothing is promised      *)
(* across sources; a session records the events reported until its         *)
(* capacity is used up and drops the later ones; a session that is ended   *)
(* by Stop persists exactly what was recorded, or nothing when the sink    *)
(* fails, and one that is ended by Abort persists nothing.                 *)
(*                                                                         *)
(* TraceBuffered and TraceStreaming implement this specification, each     *)
(* under its own refinement mapping.                                       *)
(***************************************************************************)
EXTENDS Integers, Sequences, FiniteSets, FiniteSetsExt, Functions

CONSTANTS
    Sources,      \* who reports events
    Events,       \* what is reported
    Capacities    \* the numbers of records a session may be given room for

VARIABLES
    active,       \* a session exists
    ending,       \* "none", or the operation that is ending the session
    capacity,     \* the number of records the session has room for
    reported,     \* per source: the events reported in this session
    recorded,     \* per source: the events that are recorded
    artifacts     \* what was persisted, one entry per Stop

vars == <<active, ending, capacity, reported, recorded, artifacts>>

None == [s \in Sources |-> <<>>]

Total(f) == SumFunction([s \in Sources |-> Len(f[s])])

Inactive == active = FALSE /\ ending = "none" /\ capacity = 0

\* A session that has just been started.
Started ==
    /\ active = TRUE /\ ending = "none" /\ capacity \in Capacities
    /\ reported = None /\ recorded = None

Start ==
    /\ ~active
    /\ Started'
    /\ UNCHANGED artifacts

Report(s) ==
    /\ active
    /\ \E e \in Events : reported' = [reported EXCEPT ![s] = Append(@, e)]
    /\ UNCHANGED <<active, ending, capacity, recorded, artifacts>>

\* The next event of s that is not recorded is, while there is room.
Record(s) ==
    /\ active
    /\ Len(recorded[s]) < Len(reported[s])
    /\ Total(recorded) < capacity
    /\ recorded' = [recorded EXCEPT ![s] = Append(@, reported[s][Len(@) + 1])]
    /\ UNCHANGED <<active, ending, capacity, reported, artifacts>>

\* Stop or Abort begins; events are still reported and recorded.
Begin ==
    /\ active /\ ending = "none"
    /\ ending' \in {"Stop", "Abort"}
    /\ UNCHANGED <<active, capacity, reported, recorded, artifacts>>

\* Stop persists what is recorded, and nothing that has room is missing.
Stop ==
    /\ active /\ ending = "Stop"
    /\ Total(recorded) = Min({Total(reported), capacity})
    /\ artifacts' = Append(artifacts, recorded)
    /\ Inactive'
    /\ UNCHANGED <<reported, recorded>>

Abort ==
    /\ active /\ ending = "Abort"
    /\ Inactive'
    /\ UNCHANGED <<reported, recorded, artifacts>>

\* The sink fails at the end of Stop: the session ends, and nothing is
\* persisted.
StopFails ==
    /\ active /\ ending = "Stop"
    /\ Inactive'
    /\ UNCHANGED <<reported, recorded, artifacts>>

Init == Inactive /\ reported = None /\ recorded = None /\ artifacts = <<>>

Next ==
    \/ Start \/ Begin \/ Stop \/ StopFails \/ Abort
    \/ \E s \in Sources : Report(s) \/ Record(s)

Spec == Init /\ [][Next]_vars

\* The same, for behaviours that begin with a session just started.
SessionSpec == Started /\ artifacts = <<>> /\ [][Next]_vars

=============================================================================
