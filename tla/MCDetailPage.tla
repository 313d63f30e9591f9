---------------------------- MODULE MCDetailPage ----------------------------
(* Instances of DetailPage. *)
EXTENDS DetailPage, TLC

\* Requests are interchangeable, and so are objects.
Symmetry == Permutations(Call) \cup Permutations(Object)
=============================================================================
