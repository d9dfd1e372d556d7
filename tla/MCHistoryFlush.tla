--------------------------- MODULE MCHistoryFlush ---------------------------
(* HistoryFlush for TLC, with two conversations as model values. *)
EXTENDS HistoryFlush

CONSTANTS c1, c2

=============================================================================
