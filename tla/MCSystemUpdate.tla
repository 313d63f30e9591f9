---- MODULE MCSystemUpdate ----
(* Instance of SystemUpdate for TLC. *)
EXTENDS SystemUpdate
====
