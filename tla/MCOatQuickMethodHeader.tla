------------------------ MODULE MCOatQuickMethodHeader ------------------------
(***************************************************************************)
(* OatQuickMethodHeader for TLC.  Addresses of three bits and offsets of   *)
(* two, so that a pc lies below the entry point, more than the range of an *)
(* offset above it, and in code that wraps around the end of the address   *)
(* space; tables of up to two stack maps, so that two maps share an        *)
(* offset or a dex pc and a catch map stands beside an ordinary one.       *)
(***************************************************************************)
EXTENDS OatQuickMethodHeader

MCPtrBits == 3
MCU32Bits == 2
MCEntryPoints == {0, 3, 6, 7}
MCDexPcs == {0, 1}
MCDexPcLists == {<<0>>, <<1>>, <<0, 1>>}
MCCodeInfos == BoundedSeq(StackMap, 2)

=============================================================================
