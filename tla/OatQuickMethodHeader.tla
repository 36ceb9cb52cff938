------------------------ MODULE OatQuickMethodHeader ------------------------
(***************************************************************************)
(* The translations between native program counters and dex program        *)
(* counters of runtime/oat_quick_method_header.cc: ToDexPc,                 *)
(* ToNativeQuickPc and ToNativeQuickPcForCatchHandlers.                     *)
(*                                                                         *)
(* The functions are pure: they are operators, and an action applies one   *)
(* to a call.  Addresses are uintptr_t and offsets uint32_t; both keep     *)
(* their wrap-around, with widths PtrBits and U32Bits that the model makes *)
(* small.  A method header is its entry point, whether it is the nterp     *)
(* header, and the stack maps of its CodeInfo.                             *)
(*                                                                         *)
(* CodeInfo and StackMap are declared in stack_map.h, outside these files. *)
(* A stack map is a row of the table, 0 for the invalid one; the three     *)
(* searches are defined by what stack_map.h says of them.                  *)
(* NterpGetDexPC reads the dex pc that the frame holds, and                *)
(* NterpGetCatchHandler returns an address the environment gives.          *)
(***************************************************************************)
EXTENDS Integers, Sequences, SequencesExt

CONSTANTS
    PtrBits,       \* width of uintptr_t
    U32Bits,       \* width of uint32_t
    EntryPoints,   \* entry points of the method headers
    CodeInfos,     \* tables of stack maps
    DexPcs,        \* dex pcs of stack maps and of calls
    DexPcLists,    \* dex pc lists: a dex pc, then those of inlined frames
    NterpCatchHandler,  \* the address NterpGetCatchHandler returns
    NULL

ASSUME /\ U32Bits \in Nat /\ PtrBits \in Nat /\ U32Bits <= PtrBits

VARIABLES
    request,       \* the call made
    result         \* what it returned

vars == <<request, result>>

UintPtr == 0..(2^PtrBits - 1)
Uint32 == 0..(2^U32Bits - 1)
UINTPTR_MAX == 2^PtrBits - 1
kDexNoIndex == 2^U32Bits - 1

StackMap == [native_pc_offset : Uint32, dex_pcs : DexPcLists, catch : BOOLEAN]

\* The header of a compiled method, and that of nterp, which has no CodeInfo.
Header == [nterp : {FALSE}, entry_point : EntryPoints, code_info : CodeInfos]
            \cup [nterp : {TRUE}, entry_point : EntryPoints, code_info : {<<>>}]

-----------------------------------------------------------------------------
(* stack_map.h *)

GetStackMapForNativePcOffset(ci, offset) ==
    SelectInSeq(ci, LAMBDA sm : ~sm.catch /\ sm.native_pc_offset = offset)

GetStackMapForDexPc(ci, dex_pc) ==
    SelectInSeq(ci, LAMBDA sm : sm.dex_pcs[1] = dex_pc)

GetCatchStackMapForDexPc(ci, dex_pc_list) ==
    SelectLastInSeq(ci, LAMBDA sm : sm.catch /\ sm.dex_pcs = dex_pc_list)

\* StackMap::Row: the index of the row, and -1 in 32 bits for the invalid map.
Row(stack_map) == (stack_map - 1) % 2^U32Bits

-----------------------------------------------------------------------------
(* The translations *)

Value(v) == [status |-> "value", value |-> v]
Fatal == [status |-> "fatal"]

\* Mutant of Failure: the test of abort_on_failure is inverted.
Failure_Inverted(abort_on_failure, value) ==
    IF abort_on_failure THEN Value(value) ELSE Fatal

\* The end of the three functions: LOG(FATAL), or the value for a failure.
Failure(abort_on_failure, value) == IF abort_on_failure THEN Fatal ELSE Value(value)

\* entry_point + stack_map.GetNativePcOffset(), in uintptr_t.
NativePc(h, stack_map) ==
    (h.entry_point + h.code_info[stack_map].native_pc_offset) % 2^PtrBits

\* Mutant of SoughtOffset: the entry point is not subtracted.
SoughtOffset_PcTaken(h, pc) == pc % 2^U32Bits

\* pc - entry_point in uintptr_t, stored in a uint32_t.
SoughtOffset(h, pc) == ((pc - h.entry_point) % 2^PtrBits) % 2^U32Bits

ToDexPc(h, frame, pc, abort_on_failure) ==
    LET stack_map == GetStackMapForNativePcOffset(h.code_info, SoughtOffset(h, pc))
    IN  IF frame.native THEN Value(kDexNoIndex)
        ELSE IF h.nterp THEN Value(frame.dex_pc)
        ELSE IF stack_map # 0 THEN Value(h.code_info[stack_map].dex_pcs[1])
        ELSE Failure(abort_on_failure, kDexNoIndex)

ToNativeQuickPc(h, dex_pc, abort_on_failure) ==
    LET stack_map == GetStackMapForDexPc(h.code_info, dex_pc)
    IN  IF stack_map # 0 THEN Value(NativePc(h, stack_map))
        ELSE Failure(abort_on_failure, UINTPTR_MAX)

\* Mutant of ToNativeQuickPcForCatchHandlers: the row is written only when
\* the map is valid.
ToNativeQuickPcForCatchHandlers_RowOnSuccess(h, dex_pc_list, row, abort_on_failure) ==
    LET stack_map == GetCatchStackMapForDexPc(h.code_info, dex_pc_list)
    IN  IF h.nterp THEN Value(NterpCatchHandler) @@ [row |-> row]
        ELSE IF stack_map # 0
             THEN Value(NativePc(h, stack_map)) @@ [row |-> Row(stack_map)]
             ELSE Failure(abort_on_failure, UINTPTR_MAX) @@ [row |-> row]

\* row is *stack_map_row as the caller left it.  The nterp header returns
\* before the row is written.
ToNativeQuickPcForCatchHandlers(h, dex_pc_list, row, abort_on_failure) ==
    LET stack_map == GetCatchStackMapForDexPc(h.code_info, dex_pc_list)
    IN  IF h.nterp THEN Value(NterpCatchHandler) @@ [row |-> row]
        ELSE (IF stack_map # 0 THEN Value(NativePc(h, stack_map))
              ELSE Failure(abort_on_failure, UINTPTR_MAX)) @@ [row |-> Row(stack_map)]

-----------------------------------------------------------------------------
(* The specification: a call and its return, one after another *)

Init == request = NULL /\ result = NULL

\* A quick frame: whether its method is native, and the dex pc that a frame
\* of nterp holds.
Frame == [native : BOOLEAN, dex_pc : DexPcs]

CallToDexPc ==
    /\ request = NULL
    /\ \E h \in Header, frame \in Frame, pc \in UintPtr, abort \in BOOLEAN :
        /\ request' = [fn |-> "ToDexPc", h |-> h, frame |-> frame, pc |-> pc,
                       abort_on_failure |-> abort]
        /\ result' = ToDexPc(h, frame, pc, abort)

\* The callers keep the DCHECKs: the method is not native and the header is
\* not that of nterp.
CallToNativeQuickPc ==
    /\ request = NULL
    /\ \E h \in Header, dex_pc \in DexPcs, abort \in BOOLEAN :
        /\ ~h.nterp
        /\ request' = [fn |-> "ToNativeQuickPc", h |-> h, dex_pc |-> dex_pc,
                       abort_on_failure |-> abort]
        /\ result' = ToNativeQuickPc(h, dex_pc, abort)

\* The caller's row is the row of the invalid map, or what was there.
CallToNativeQuickPcForCatchHandlers ==
    /\ request = NULL
    /\ \E h \in Header, list \in DexPcLists, row \in {0, Row(0)}, abort \in BOOLEAN :
        /\ request' = [fn |-> "ToNativeQuickPcForCatchHandlers", h |-> h,
                       dex_pc_list |-> list, row |-> row,
                       abort_on_failure |-> abort]
        /\ result' = ToNativeQuickPcForCatchHandlers(h, list, row, abort)

\* The caller has taken the result.
Return ==
    /\ request # NULL
    /\ request' = NULL
    /\ result' = NULL

Next ==
    \/ CallToDexPc
    \/ CallToNativeQuickPc
    \/ CallToNativeQuickPcForCatchHandlers
    \/ Return

Spec == Init /\ [][Next]_vars

-----------------------------------------------------------------------------
(* Properties *)

Returned(fn) == request # NULL /\ request.fn = fn /\ result.status = "value"

TypeOK ==
    /\ request = NULL <=> result = NULL
    /\ result # NULL => result.status \in {"value", "fatal"}
    /\ result # NULL /\ result.status = "fatal" => request.abort_on_failure
    /\ Returned("ToDexPc") => result.value \in Uint32
    /\ Returned("ToNativeQuickPc") => result.value \in UintPtr
    /\ Returned("ToNativeQuickPcForCatchHandlers") =>
          result.value \in UintPtr /\ result.row \in Uint32

\* The addresses of the code of a header: 2^32 bytes from the entry point.
InCode(h, pc) == \E off \in Uint32 : pc = (h.entry_point + off) % 2^PtrBits

\* ToDexPc agrees with the stack maps for every pc in the code of an
\* optimized method, although the offset is computed in uintptr_t and kept
\* in 32 bits: the dex pc returned is that of a stack map whose address,
\* entry point plus native pc offset, is pc; and when the table has such a
\* map, one is found.  (For a pc below the entry point or 2^32 or more above
\* it the offset wraps, and ToDexPc may answer with the map of another
\* address.)
ToDexPcAgreesWithStackMaps ==
    Returned("ToDexPc") /\ ~request.frame.native /\ ~request.h.nterp
        /\ InCode(request.h, request.pc) =>
        LET h == request.h
            at == {i \in DOMAIN h.code_info :
                      ~h.code_info[i].catch /\ NativePc(h, i) = request.pc}
        IN  IF at = {} THEN result.value = kDexNoIndex /\ ~request.abort_on_failure
            ELSE \E i \in at : result.value = h.code_info[i].dex_pcs[1]

\* What ToNativeQuickPcForCatchHandlers leaves in *stack_map_row agrees with
\* the address it returns: for an optimized method the row is that of a
\* catch stack map at the address returned, or the row of the invalid map
\* when no address is returned, on the path that aborts too; only the nterp
\* header leaves the caller's value.
CatchRowAgreesWithPc ==
    request # NULL /\ request.fn = "ToNativeQuickPcForCatchHandlers" =>
        LET h == request.h
            row == IF result.status = "value" THEN result.row ELSE request.row
        IN  IF h.nterp THEN result.row = request.row
            ELSE IF result.status = "fatal" \/ row = Row(0)
                 THEN GetCatchStackMapForDexPc(h.code_info, request.dex_pc_list) = 0
                 ELSE /\ row + 1 \in DOMAIN h.code_info
                      /\ h.code_info[row + 1].catch
                      /\ NativePc(h, row + 1) = result.value

=============================================================================
