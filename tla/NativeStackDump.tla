-------------------------- MODULE NativeStackDump --------------------------
(***************************************************************************)
(* DumpNativeStack of runtime/native_stack_dump.cc with its helpers        *)
(* Addr2line, Connect, Drain, WritePrefix and the Addr2linePipe struct.    *)
(*                                                                         *)
(* Two actors.  The DUMPER is the thread that prints the stack: for every  *)
(* frame it prints a header line and, when the frame can be symbolised,    *)
(* sends the frame's offset to an addr2line child process and copies the   *)
(* child's answer to the output, waiting for it with a timeout.  The CHILD *)
(* is that process: it is forked by Connect, answers a request with one or *)
(* more pairs of lines (function, location), and can exit at any time.     *)
(* They share two pipes: `reqs` (dumper to child) and `chan` (child to     *)
(* dumper).  One child serves one file; a frame of another file makes the  *)
(* dumper kill the child and fork a new one.                               *)
(*                                                                         *)
(* Data is abstracted to what the control flow reads.  A frame is the      *)
(* three tests that decide try_addr2line and the file it lies in.  The     *)
(* child's output is a sequence of units, a unit being the text of a line  *)
(* or its newline, so that a read can return part of a line.  The output   *)
(* stream is the sequence of what was written: frame headers, prefixes,    *)
(* and the units copied from the child.                                    *)
(***************************************************************************)
EXTENDS Integers, Sequences, FiniteSets, SequencesExt

CONSTANTS
    Files,          \* files addr2line can work on
    IgnoredFiles,   \* map names Addr2line returns on (.dex, .jar, .vdex, [vdso])
    MaxFrames,      \* bound: the most frames an unwound stack has
    MaxPairs,       \* bound: the most (function, location) pairs in one answer
    MaxRead,        \* bound: the most units one read returns (kMaxBuffer - 1)
    ChildIsPrompt,  \* TRUE: the child answers before a timeout can fire
    NULL

ASSUME /\ Files # {} /\ Files \cap IgnoredFiles = {}
       /\ MaxFrames \in Nat \ {0}
       /\ MaxPairs \in Nat \ {0}
       /\ MaxRead \in Nat \ {0}
       /\ ChildIsPrompt \in BOOLEAN
       /\ NULL \notin Files \cup IgnoredFiles

VARIABLES
    pc,       \* where the dumper is
    use,      \* use_addr2line
    num,      \* number of frames printed so far
    cur,      \* map_src and frame number Addr2line was called with
    pipe,     \* addr2line_state: NULL or [file, odd]
    fds,      \* descriptors open in the dumper
    drain,    \* the locals of Drain: expected, prefix_written, where to return
    child,    \* the addr2line process: "none", "forked", "running", "dead"
    reqs,     \* offsets written to the child's stdin and not yet read by it
    chan,     \* units written to the child's stdout and not yet read
    os        \* the output stream

vars == <<pc, use, num, cur, pipe, fds, drain, child, reqs, chan, os>>

dumperVars == <<pc, use, num, cur, pipe, fds, drain, os>>

-----------------------------------------------------------------------------
(* Data *)

\* A frame, as far as lines 375-401 test it, and the name of its map.
Frame == [mapped : BOOLEAN, named : BOOLEAN, func : BOOLEAN,
          src : Files \cup IgnoredFiles]

\* try_addr2line: a map, a function name, and a map with a name.
TryAddr2line(f) == f.mapped /\ f.func /\ f.named

\* The four descriptors of Connect.
CallerToAddr2line == {"c2a_r", "c2a_w"}
Addr2lineToCaller == {"a2c_r", "a2c_w"}

\* What the Addr2linePipe struct keeps open: in and out.
PipeEnds == {"a2c_r", "c2a_w"}

\* The units of the answer to the request of frame k: 2p lines, each a text
\* and a newline.  Lines 1, 3, ... are function names, 2, 4, ... locations.
Answer(k, p) ==
    [i \in 1..(4 * p) |->
        <<IF i % 2 = 1 THEN "txt" ELSE "nl", k, (i + 1) \div 2>>]

Units == {"txt", "nl"} \X (0..(MaxFrames - 1)) \X (1..(2 * MaxPairs))

Tokens == Units \cup ({"hdr"} \X (0..(MaxFrames - 1))) \cup ({"pfx"} \X BOOLEAN)
                \cup {<<"unwind failed">>}

NoDrain == [expected |-> 0, prefix_written |-> FALSE, ret |-> "Frames"]

EnterDrain(n, ret) == [expected |-> n, prefix_written |-> FALSE, ret |-> ret]

\* Addr2linePipe's constructor: odd starts true.
NewPipe(file) == [file |-> file, odd |-> TRUE]

ChildAlive == child \in {"forked", "running"}

-----------------------------------------------------------------------------
(* The dumper: DumpNativeStack *)

Init ==
    /\ pc = "Unwind"
    /\ use = FALSE
    /\ num = 0
    /\ cur = [src |-> NULL, k |-> 0]
    /\ pipe = NULL
    /\ fds = {}
    /\ drain = NoDrain
    /\ child = "none"
    /\ reqs = <<>>
    /\ chan = <<>>
    /\ os = <<>>

\* The unwinder fails: one line is printed and the function returns.
UnwindFails ==
    /\ pc = "Unwind"
    /\ os' = Append(os, <<"unwind failed">>)
    /\ pc' = "Done"
    /\ UNCHANGED <<use, num, cur, pipe, fds, drain, child, reqs, chan>>

\* What RunCommand returns: whether popen could start the shell, which says
\* nothing of the command the shell then runs.  Its output is thrown away.
RunCommand == BOOLEAN

\* addr2line is used on a host build, while the runtime is aborting, if the
\* command FindAddr2line names could be run with -h.
UseAddr2line(kUseAddr2line, gAborting, ran) == kUseAddr2line /\ gAborting > 0 /\ ran

\* The unwinder succeeds, and use_addr2line is decided, once for all frames.
UnwindSucceeds ==
    /\ pc = "Unwind"
    /\ \E kUseAddr2line \in BOOLEAN, gAborting \in 0..1, ran \in RunCommand :
           use' = UseAddr2line(kUseAddr2line, gAborting, ran)
    /\ pc' = "Frames"
    /\ UNCHANGED <<num, cur, pipe, fds, drain, child, reqs, chan, os>>

\* Where the body of Addr2line goes for map_src, up to its first system call.
Addr2lineEntry(src) ==
    CASE src \in IgnoredFiles              -> [pc |-> "Frames", drain |-> drain]
      [] pipe # NULL /\ pipe.file = src    -> [pc |-> "Send", drain |-> drain]
      [] pipe # NULL /\ pipe.file # src    -> [pc |-> "Drain",
                                               drain |-> EnterDrain(0, "Reconnect")]
      [] OTHER                             -> [pc |-> "Reconnect", drain |-> drain]

\* One iteration of the loop over the frames: the header line is printed,
\* and Addr2line is entered if the frame and the build allow it.
PrintFrame(f) ==
    /\ pc = "Frames"
    /\ num < MaxFrames
    /\ os' = Append(os, <<"hdr", num>>)
    /\ num' = num + 1
    /\ IF TryAddr2line(f) /\ use
       THEN /\ cur' = [src |-> f.src, k |-> num]
            /\ pc' = Addr2lineEntry(f.src).pc
            /\ drain' = Addr2lineEntry(f.src).drain
       ELSE UNCHANGED <<cur, pc, drain>>
    /\ UNCHANGED <<use, pipe, fds, child, reqs, chan>>

\* After the last frame: what is left of the child's output is drained.
EndOfFrames ==
    /\ pc = "Frames"
    /\ IF pipe # NULL
       THEN pc' = "Drain" /\ drain' = EnterDrain(0, "Exit")
       ELSE pc' = "Exit" /\ UNCHANGED drain
    /\ UNCHANGED <<use, num, cur, pipe, fds, child, reqs, chan, os>>

-----------------------------------------------------------------------------
(* Addr2linePipe's destructor and Connect *)

\* The effect of pipe->reset(): ~Addr2linePipe kills the child, the two File
\* members close their descriptors, and with them the pipes are gone.
ResetPipe ==
    /\ pipe' = NULL
    /\ fds' = fds \ PipeEnds
    /\ child' = IF pipe # NULL /\ ChildAlive THEN "dead" ELSE child
    /\ reqs' = IF pipe # NULL THEN <<>> ELSE reqs
    /\ chan' = IF pipe # NULL THEN <<>> ELSE chan

\* Mutant of CloseEarly: Connect is entered without the reset.
CloseEarly_KeepsPipe ==
    /\ pc = "Reconnect"
    /\ pc' = "Pipe1"
    /\ UNCHANGED <<use, num, cur, pipe, fds, drain, child, reqs, chan, os>>

\* Addr2line, line 255: "Close early", then Connect is entered.
CloseEarly ==
    /\ pc = "Reconnect"
    /\ ResetPipe
    /\ pc' = "Pipe1"
    /\ UNCHANGED <<use, num, cur, drain, os>>

\* pipe(caller_to_addr2line)
FirstPipe ==
    /\ pc = "Pipe1"
    /\ \/ fds' = fds \cup CallerToAddr2line /\ pc' = "Pipe2"
       \/ fds' = fds /\ pc' = "Frames"
    /\ UNCHANGED <<use, num, cur, pipe, drain, child, reqs, chan, os>>

\* pipe(addr2line_to_caller); on failure the first pipe is closed.
SecondPipe ==
    /\ pc = "Pipe2"
    /\ \/ fds' = fds \cup Addr2lineToCaller /\ pc' = "Fork"
       \/ fds' = fds \ CallerToAddr2line /\ pc' = "Frames"
    /\ UNCHANGED <<use, num, cur, pipe, drain, child, reqs, chan, os>>

\* Mutant of ForkFails: only the first pipe is closed.
ForkFails_LeaksSecondPipe ==
    /\ pc = "Fork"
    /\ fds' = fds \ CallerToAddr2line
    /\ pc' = "Frames"
    /\ UNCHANGED <<use, num, cur, pipe, drain, child, reqs, chan, os>>

\* fork() returns -1: all four descriptors are closed.
ForkFails ==
    /\ pc = "Fork"
    /\ fds' = fds \ (CallerToAddr2line \cup Addr2lineToCaller)
    /\ pc' = "Frames"
    /\ UNCHANGED <<use, num, cur, pipe, drain, child, reqs, chan, os>>

\* fork() succeeds.  The child has its own copies of the descriptors and is
\* about to dup2, close and execv; the parent closes the two ends that are
\* the child's and wraps the other two in a new Addr2linePipe.
ForkSucceeds ==
    /\ pc = "Fork"
    /\ child' = "forked"
    /\ fds' = fds \ {"c2a_r", "a2c_w"}
    /\ pipe' = NewPipe(cur.src)
    /\ pc' = "Send"
    /\ UNCHANGED <<use, num, cur, drain, reqs, chan, os>>

\* Addr2line, lines 276-286: the offset is written to the child.  The write
\* fails when nobody has the other end open any more; then the pipe is reset.
Send ==
    /\ pc = "Send"
    /\ IF ChildAlive
       THEN /\ reqs' = Append(reqs, cur.k)
            /\ drain' = EnterDrain(2, "Frames")
            /\ pc' = "Drain"
            /\ UNCHANGED <<pipe, fds, child, chan>>
       ELSE /\ ResetPipe
            /\ pc' = "Frames"
            /\ UNCHANGED drain
    /\ UNCHANGED <<use, num, cur, os>>

\* Mutant of Exit: the pipe is dropped without the kill of its destructor.
Exit_WithoutKill ==
    /\ pc = "Exit"
    /\ pipe' = NULL
    /\ fds' = fds \ PipeEnds
    /\ pc' = "Done"
    /\ UNCHANGED <<use, num, cur, drain, child, reqs, chan, os>>

\* The end of DumpNativeStack: addr2line_state goes out of scope.
Exit ==
    /\ pc = "Exit"
    /\ ResetPipe
    /\ pc' = "Done"
    /\ UNCHANGED <<use, num, cur, drain, os>>

-----------------------------------------------------------------------------
(* Drain *)

\* The locals the inner loop of Drain works on, with the stream and the flag.
DrainState == [os |-> os, pw |-> drain.prefix_written,
               odd |-> pipe.odd, expected |-> drain.expected]

\* WritePrefix, if no prefix has been written for the current line yet.
WithPrefix(st) ==
    IF st.pw THEN st.os ELSE Append(st.os, <<"pfx", st.odd>>)

\* Mutant of Consume: expected is decremented without the test for zero.
Consume_UnguardedDecrement(st, u) ==
    IF u[1] = "txt"
    THEN [st EXCEPT !.os = Append(WithPrefix(st), u), !.pw = TRUE]
    ELSE [os |-> Append(WithPrefix(st), u), pw |-> FALSE,
          odd |-> ~st.odd, expected |-> st.expected - 1]

\* Mutant of Consume: odd is flipped inside the "if (expected > 0)" block.
Consume_FlipsWhileExpected(st, u) ==
    IF u[1] = "txt"
    THEN [st EXCEPT !.os = Append(WithPrefix(st), u), !.pw = TRUE]
    ELSE [os |-> Append(WithPrefix(st), u), pw |-> FALSE,
          odd |-> IF st.expected > 0 THEN ~st.odd ELSE st.odd,
          expected |-> IF st.expected > 0 THEN st.expected - 1 ELSE 0]

\* The inner loop of Drain on one unit of what was read: text is copied
\* behind a prefix; a newline ends the line, flips odd and counts.
Consume(st, u) ==
    IF u[1] = "txt"
    THEN [st EXCEPT !.os = Append(WithPrefix(st), u), !.pw = TRUE]
    ELSE [os |-> Append(WithPrefix(st), u), pw |-> FALSE,
          odd |-> ~st.odd,
          expected |-> IF st.expected > 0 THEN st.expected - 1 ELSE 0]

\* What poll() sees on the read end of the child's output.
Readable == chan # <<>>
HungUp == chan = <<>> /\ ~ChildAlive /\ "a2c_w" \notin fds

\* Drain returns to the place it was called from.
DrainReturns ==
    /\ pc' = drain.ret
    /\ drain' = NoDrain

\* poll() fails.
DrainPollError ==
    /\ pc = "Drain"
    /\ ResetPipe
    /\ DrainReturns
    /\ UNCHANGED <<use, num, cur, os>>

\* Mutant of DrainTimeout: after a timeout Drain polls again.
DrainTimeout_Retries ==
    /\ pc = "Drain"
    /\ ~Readable /\ ~HungUp
    /\ ChildIsPrompt => reqs = <<>>
    /\ UNCHANGED vars

\* poll() times out, after 500 ms while lines are expected and after 50 ms
\* otherwise: nothing to read, and the other end still open.  A prompt child
\* lets this happen only when it has nothing left to answer.
DrainTimeout ==
    /\ pc = "Drain"
    /\ ~Readable /\ ~HungUp
    /\ ChildIsPrompt => reqs = <<>>
    /\ DrainReturns
    /\ UNCHANGED <<use, num, cur, pipe, fds, child, reqs, chan, os>>

\* poll() reports no POLLIN: the child has exited and all it wrote was read.
DrainHangup ==
    /\ pc = "Drain"
    /\ HungUp
    /\ ResetPipe
    /\ DrainReturns
    /\ UNCHANGED <<use, num, cur, os>>

\* read() fails although poll() reported data.
DrainReadError ==
    /\ pc = "Drain"
    /\ Readable
    /\ ResetPipe
    /\ DrainReturns
    /\ UNCHANGED <<use, num, cur, os>>

\* Mutant of DrainRead: prefix_written is a local of the loop body.
DrainRead_PrefixPerRead(n) ==
    /\ pc = "Drain"
    /\ Readable
    /\ n \in 1..Len(chan)
    /\ LET st == FoldLeft(Consume, [DrainState EXCEPT !.pw = FALSE], SubSeq(chan, 1, n))
       IN  /\ os' = st.os
           /\ pipe' = [pipe EXCEPT !.odd = st.odd]
           /\ drain' = [drain EXCEPT !.expected = st.expected,
                                     !.prefix_written = st.pw]
    /\ chan' = SubSeq(chan, n + 1, Len(chan))
    /\ UNCHANGED <<pc, use, num, cur, fds, child, reqs>>

\* Mutant of DrainRead: Drain returns as soon as the expected lines are in.
DrainRead_StopsAtExpected(n) ==
    /\ pc = "Drain"
    /\ Readable
    /\ n \in 1..Len(chan)
    /\ LET st == FoldLeft(Consume, DrainState, SubSeq(chan, 1, n))
       IN  /\ os' = st.os
           /\ pipe' = [pipe EXCEPT !.odd = st.odd]
           /\ IF drain.expected > 0 /\ st.expected = 0
              THEN DrainReturns
              ELSE /\ drain' = [drain EXCEPT !.expected = st.expected,
                                             !.prefix_written = st.pw]
                   /\ UNCHANGED pc
    /\ chan' = SubSeq(chan, n + 1, Len(chan))
    /\ UNCHANGED <<use, num, cur, fds, child, reqs>>

\* read() returns the next n units, which the inner loop copies to the
\* stream; then Drain polls again, with the short timeout once it expects
\* no more lines.
DrainRead(n) ==
    /\ pc = "Drain"
    /\ Readable
    /\ n \in 1..Len(chan)
    /\ LET st == FoldLeft(Consume, DrainState, SubSeq(chan, 1, n))
       IN  /\ os' = st.os
           /\ pipe' = [pipe EXCEPT !.odd = st.odd]
           /\ drain' = [drain EXCEPT !.expected = st.expected,
                                     !.prefix_written = st.pw]
    /\ chan' = SubSeq(chan, n + 1, Len(chan))
    /\ UNCHANGED <<pc, use, num, cur, fds, child, reqs>>

-----------------------------------------------------------------------------
(* The child: the environment of DumpNativeStack *)

\* execv succeeds: addr2line runs.
ChildExec ==
    /\ child = "forked"
    /\ child' = "running"
    /\ UNCHANGED <<dumperVars, reqs, chan>>

\* execv fails and the child calls exit(1).
ChildExecFails ==
    /\ child = "forked"
    /\ child' = "dead"
    /\ reqs' = <<>>
    /\ UNCHANGED <<dumperVars, chan>>

\* addr2line answers its oldest request with p pairs of lines.
ChildAnswer(p) ==
    /\ child = "running"
    /\ reqs # <<>>
    /\ chan' = chan \o Answer(Head(reqs), p)
    /\ reqs' = Tail(reqs)
    /\ UNCHANGED <<dumperVars, child>>

\* addr2line exits between two answers.
ChildExits ==
    /\ child = "running"
    /\ child' = "dead"
    /\ reqs' = <<>>
    /\ UNCHANGED <<dumperVars, chan>>

\* addr2line dies after it wrote the beginning of a line.
ChildDiesMidAnswer ==
    /\ child = "running"
    /\ reqs # <<>>
    /\ chan' = Append(chan, <<"txt", Head(reqs), 1>>)
    /\ child' = "dead"
    /\ reqs' = <<>>
    /\ UNCHANGED dumperVars

-----------------------------------------------------------------------------
(* The specification *)

\* DumpNativeStack has returned.
Terminated ==
    /\ pc = "Done"
    /\ UNCHANGED vars

\* The steps the dumper takes when no system call fails.
DumperProceeds ==
    \/ UnwindFails \/ UnwindSucceeds
    \/ \E f \in Frame : PrintFrame(f)
    \/ EndOfFrames
    \/ CloseEarly \/ FirstPipe \/ SecondPipe \/ ForkFails \/ ForkSucceeds
    \/ Send
    \/ DrainTimeout \/ DrainHangup
    \/ \E n \in 1..MaxRead : DrainRead(n)
    \/ Exit

\* poll() or read() fails.
DumperFails == DrainPollError \/ DrainReadError

Dumper == DumperProceeds \/ DumperFails

ChildStarts == ChildExec \/ ChildExecFails

ChildServes == (\E p \in 1..MaxPairs : ChildAnswer(p)) \/ ChildDiesMidAnswer

Child == ChildStarts \/ ChildServes \/ ChildExits

Next == Dumper \/ Child \/ Terminated

\* The dumper is a running thread and the child a running process: each
\* takes a step it can take.  Nothing obliges a system call to fail, and
\* nothing obliges the child to exit.
Fairness ==
    /\ WF_vars(DumperProceeds)
    /\ WF_vars(ChildStarts)
    /\ WF_vars(ChildServes)

Spec == Init /\ [][Next]_vars /\ Fairness

-----------------------------------------------------------------------------
(* Properties *)

TypeOK ==
    /\ pc \in {"Unwind", "Frames", "Reconnect", "Pipe1", "Pipe2", "Fork",
               "Send", "Drain", "Exit", "Done"}
    /\ use \in BOOLEAN
    /\ num \in 0..MaxFrames
    /\ cur \in [src : Files \cup IgnoredFiles \cup {NULL}, k : 0..(MaxFrames - 1)]
    /\ pipe \in {NULL} \cup [file : Files, odd : BOOLEAN]
    /\ fds \subseteq CallerToAddr2line \cup Addr2lineToCaller
    /\ drain \in [expected : 0..2, prefix_written : BOOLEAN,
                  ret : {"Frames", "Reconnect", "Exit"}]
    /\ child \in {"none", "forked", "running", "dead"}
    /\ reqs \in Seq(0..(MaxFrames - 1))
    /\ chan \in Seq(Units)
    /\ os \in Seq(Tokens)

\* Connect closes what it opened on every failure path (second pipe(),
\* fork()), and a reset pipe closes both its ends: outside Connect the dumper
\* holds exactly the two ends of a live Addr2linePipe, or nothing.
NoDescriptorLeak ==
    pc \notin {"Pipe2", "Fork"} => fds = IF pipe = NULL THEN {} ELSE PipeEnds

\* A child that is alive is the child of the current Addr2linePipe: every way
\* of dropping the pipe (file change, write error, poll error, hang-up, end
\* of DumpNativeStack) kills it, so none outlives the dump.
NoStrayChild ==
    ChildAlive => pipe # NULL

\* A step that installs a pipe to a child for another file.
NewConnection ==
    /\ pipe' # NULL
    /\ pipe = NULL \/ pipe.file # pipe'.file

\* A child is forked only when no child is alive: the "Close early" reset of
\* Addr2line comes before Connect, so two addr2line processes never run side
\* by side, also when the Drain before it has left the old child running.
OneChildAtATime ==
    [][NewConnection => ~ChildAlive]_vars

\* Drain writes one prefix per line of the child's output, in front of it:
\* prefix_written survives from one read to the next, so a line whose text
\* and newline arrive in two reads is not split by a second prefix.  (A line
\* the child never finished stays without its newline.)
PrefixOnlyAtLineStart ==
    \A i \in DOMAIN os :
        /\ os[i][1] = "txt" => i > 1 /\ os[i - 1][1] = "pfx"
        /\ os[i][1] = "nl"  => i > 1 /\ os[i - 1] = <<"txt", os[i][2], os[i][3]>>
        /\ os[i][1] = "pfx" => i < Len(os) /\ os[i + 1][1] = "txt"

\* The odd flag of the pipe, flipped at every newline in Drain, keeps step
\* with the child's output: function lines (1st, 3rd, ... of an answer) get
\* the short indentation, location lines the long one, however the lines are
\* split over reads and over calls of Drain.
IndentFollowsLineKind ==
    \A i \in DOMAIN os :
        os[i][1] = "txt" /\ i > 1 /\ os[i - 1][1] = "pfx"
            => os[i - 1][2] = (os[i][3] % 2 = 1)

\* The header under which position i of the stream is printed.
HeaderAbove(i) ==
    LET hs == {j \in 1..i : os[j][1] = "hdr"}
    IN  IF hs = {} THEN NULL ELSE os[Max(hs)][2]

\* With a child that answers before the timeout, every line of an answer is
\* printed under the header of the frame it was asked for: Drain(2) goes on
\* reading after its two expected lines and returns only when the pipe is
\* empty, so the lines of inlined functions are not left for the next frame.
AnswersUnderOwnFrame ==
    \A i \in DOMAIN os :
        os[i][1] \in {"txt", "nl"} => HeaderAbove(i) = os[i][2]

\* DumpNativeStack returns: every wait in Drain is bounded by the timeout of
\* poll(), whatever the child does or fails to do.
DumpTerminates == <>(pc = "Done")

=============================================================================
