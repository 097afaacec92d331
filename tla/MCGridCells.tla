---------------------------- MODULE MCGridCells ----------------------------
(* One group and two products; rows are interchangeable. *)
EXTENDS GridCells, TLC

Inputs == [kind \in {"main", "remarks", "pkg", "qty", "free", "formula", "approval"} |->
    CASE kind = "main" -> {None, 0, 2, -1}
      [] kind = "free" -> {None, 2}
      [] OTHER -> {None, Text}]
RowSymmetry == Permutations(Rows) \cup Permutations(Products)
=============================================================================
