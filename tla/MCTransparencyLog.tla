-------------------------- MODULE MCTransparencyLog --------------------------
(* Small instance of TransparencyLog for TLC: two entries, all logs of up to *)
(* eight of them, and of up to three with a write that fails or is cut.      *)
EXTENDS TransparencyLog, TLC

CONSTANTS d1, d2

MCEntries == {d1, d2}
MCSymmetry == Permutations(MCEntries)

=============================================================================
