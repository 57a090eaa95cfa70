--------------------------- MODULE AppendOnlyTable ---------------------------
(***************************************************************************)
(* What a table addressed by index promises to whoever keeps an index: it  *)
(* may grow by any number of entries at a time, and an index, once         *)
(* assigned, never changes what it resolves to.                            *)
(***************************************************************************)
EXTENDS SequencesExt

VARIABLE table

Init == table = <<>>

Grow == table # table' /\ IsPrefix(table, table')

Spec == Init /\ [][Grow]_table
=============================================================================
