------------------------- MODULE MCStripParameters -------------------------
(***************************************************************************)
(* StripParameters for TLC: every name of up to 6 characters over the two  *)
(* parentheses and one letter (1093 names).  Six characters are enough for *)
(* two groups side by side, a group nested in a group, a group at the      *)
(* first character followed by another, and every unmatched arrangement    *)
(* around them.                                                            *)
(***************************************************************************)
EXTENDS StripParameters

MCLetters == {"x"}
MCMaxLen == 6

=============================================================================
