-------------------------- MODULE StripParameters --------------------------
(***************************************************************************)
(* StripParameters of runtime/native_stack_dump.cc: the function that      *)
(* removes the parameter lists from a demangled function name before a     *)
(* native frame is printed.  The name is scanned once from its last        *)
(* character down to its SECOND one; a ')' met at nesting 0 marks the end  *)
(* of a group, the '(' that brings the nesting back to 0 erases the group. *)
(*                                                                         *)
(* A name is a sequence of characters: the two parentheses, which the      *)
(* function tells apart, and the members of Letters, which it copies.      *)
(* Positions are 1-based here and 0-based in the code, so the code's loop  *)
(* "i = size-1 .. 1" is "i = Len .. 2", and its exclusive end  i + 1  is   *)
(* the inclusive position of the ')'.                                      *)
(***************************************************************************)
EXTENDS Integers, Sequences, FiniteSets

CONSTANTS
    Letters,    \* the characters of a name other than the parentheses
    MaxLen      \* the longest name the model passes to StripParameters

LParen == "("
RParen == ")"

ASSUME /\ Letters # {}
       /\ {LParen, RParen} \cap Letters = {}
       /\ MaxLen \in Nat

Chars == {LParen, RParen} \cup Letters

\* The names the model calls StripParameters with.
Names == UNION {[1..n -> Chars] : n \in 0..MaxLen}

VARIABLES
    name,       \* the argument of the last call
    result      \* what the call returned

vars == <<name, result>>

-----------------------------------------------------------------------------
(* The algorithm *)

\* Mutant of Erase: the two bounds are taken in the wrong order.
Erase_SwappedBounds(s, from, to) == SubSeq(s, 1, to) \o SubSeq(s, from, Len(s))

\* s without its positions from..to (std::string::erase).
Erase(s, from, to) == SubSeq(s, 1, from - 1) \o SubSeq(s, to + 1, Len(s))

\* The locals of StripParameters on entry to its loop.
LoopEntry(s) == [name |-> s, end |-> Len(s), nesting |-> 0]

\* Mutant of LoopBody: end is moved at every ')', not only at nesting 0.
LoopBody_EndAtEveryClose(st, i) ==
    CASE st.name[i] = RParen ->
            [st EXCEPT !.nesting = @ + 1, !.end = i]
      [] st.name[i] = LParen ->
            [st EXCEPT !.nesting = @ - 1,
                       !.name = IF st.nesting = 1 THEN Erase(@, i, st.end) ELSE @]
      [] OTHER -> st

\* One iteration of the loop, at position i of the current name.
LoopBody(st, i) ==
    CASE st.name[i] = RParen ->
            [st EXCEPT !.nesting = @ + 1,
                       !.end = IF st.nesting = 0 THEN i ELSE @]
      [] st.name[i] = LParen ->
            [st EXCEPT !.nesting = @ - 1,
                       !.name = IF st.nesting = 1 THEN Erase(@, i, st.end) ELSE @]
      [] OTHER -> st

\* Mutant of LoopFrom: the loop runs down to the first character (i >= 0).
RECURSIVE LoopFrom_ToFirstChar(_, _)
LoopFrom_ToFirstChar(st, i) ==
    IF i < 1 THEN st.name ELSE LoopFrom_ToFirstChar(LoopBody(st, i), i - 1)

\* The loop from position i down to the second character.
RECURSIVE LoopFrom(_, _)
LoopFrom(st, i) ==
    IF i < 2 THEN st.name ELSE LoopFrom(LoopBody(st, i), i - 1)

StripParametersOf(s) == LoopFrom(LoopEntry(s), Len(s))

-----------------------------------------------------------------------------
(* The specification: any number of calls, each with any name *)

Init ==
    /\ name = <<>>
    /\ result = <<>>

Call(s) ==
    /\ name' = s
    /\ result' = StripParametersOf(s)

Next == \E s \in Names : Call(s)

Spec == Init /\ [][Next]_vars

-----------------------------------------------------------------------------
(* Reference definitions: what "the top-level groups of a name" are *)

\* Opening minus closing parentheses among the first k characters of s.
Depth(s, k) ==
    Cardinality({j \in 1..k : s[j] = LParen}) - Cardinality({j \in 1..k : s[j] = RParen})

\* Every parenthesis of s has its partner.
Balanced(s) ==
    /\ Depth(s, Len(s)) = 0
    /\ \A k \in 1..Len(s) : Depth(s, k) >= 0

\* Position k of a balanced s is a parenthesis of, or lies inside, a
\* top-level group.
InGroup(s, k) == Depth(s, k) > 0 \/ s[k] = RParen

\* s is one or more complete groups and nothing else.
OnlyGroups(s) ==
    /\ s # <<>>
    /\ Balanced(s)
    /\ \A k \in 1..Len(s) : InGroup(s, k)

\* The positions of the group that opens at the first character, if any.
LeadingGroup(s) ==
    IF s = <<>> \/ s[1] # LParen
    THEN {}
    ELSE {k \in 1..Len(s) : \A j \in 1..(k - 1) : Depth(s, j) > 0}

\* The characters of s at the positions in K, in order.
KeepAt(s, K) ==
    LET kept[i \in 0..Len(s)] ==
            IF i = 0 THEN <<>>
            ELSE IF i \in K THEN Append(kept[i - 1], s[i]) ELSE kept[i - 1]
    IN  kept[Len(s)]

\* The maximal runs <<a, b>> of positions of s that are not in K.
ErasedRuns(s, K) ==
    LET D == (1..Len(s)) \ K
    IN  {r \in D \X D :
            /\ r[1] <= r[2]
            /\ \A k \in r[1]..r[2] : k \in D
            /\ (r[1] - 1) \notin D
            /\ (r[2] + 1) \notin D}

-----------------------------------------------------------------------------
(* Properties *)

TypeOK ==
    /\ name \in Names
    /\ result \in Names
    /\ Len(result) <= Len(name)

\* For a name whose parentheses all match, StripParameters returns the name
\* without its top-level groups, except a group that opens at the very first
\* character, which the loop's bound  i > 0  never reaches and so keeps.
StripMatchesReference ==
    Balanced(name) =>
        result = KeepAt(name, {k \in 1..Len(name) :
                                  ~InGroup(name, k) \/ k \in LeadingGroup(name)})

\* Whatever the name, matched or not: what StripParameters erases is made of
\* complete groups only.  The erase(i, end - i) call never takes a character
\* outside a "(...)" with it, an unmatched parenthesis never makes it erase
\* anything, and end is never used stale.
OnlyWholeGroupsErased ==
    \E K \in SUBSET (1..Len(name)) :
        /\ result = KeepAt(name, K)
        /\ \A r \in ErasedRuns(name, K) : OnlyGroups(SubSeq(name, r[1], r[2]))

\* The function's comment: "Remove method parameters by finding matching
\* top-level parenthesis and removing them."  Read literally, no group is
\* left in what a matched name is stripped to.
StripsEveryTopLevelGroup ==
    Balanced(name) => \A k \in 1..Len(result) : result[k] \notin {LParen, RParen}

=============================================================================
