---------------------------- MODULE MCYamlEditor ----------------------------
(* Instances of YamlEditor. *)
EXTENDS YamlEditor, TLC

\* The hosts in ListPages and DetailPages: a page that closes the editor on another
\* route also waits.
AllHosts == HostType \ {[route |-> "closes", waits |-> FALSE]}

\* Objects are interchangeable.
Symmetry == Permutations(Object)
=============================================================================
