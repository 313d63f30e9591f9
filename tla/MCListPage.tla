----------------------------- MODULE MCListPage -----------------------------
(* Instances of ListPage, over the requests its pages send. *)
EXTENDS ListPage, ClusterRequests

\* Requests are interchangeable.
Symmetry == Permutations(Call)
=============================================================================
