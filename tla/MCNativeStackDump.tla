------------------------- MODULE MCNativeStackDump -------------------------
(***************************************************************************)
(* NativeStackDump for TLC: two files addr2line can read and one ignored   *)
(* one, so that a frame can hit the same file, another file or a filtered  *)
(* one; three frames, so that an answer can be late by one and by two      *)
(* frames; answers of one or two pairs of lines, so that an answer can be  *)
(* longer than the two lines Drain expects; reads of up to three units, so *)
(* that a read can end inside a line, at its end, or inside the next one.  *)
(***************************************************************************)
EXTENDS NativeStackDump

MCFiles == {"libA", "libB"}
MCIgnoredFiles == {"base.vdex"}
MCMaxFrames == 3
MCMaxPairs == 2
MCMaxRead == 3

=============================================================================
