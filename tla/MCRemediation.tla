---------------------------- MODULE MCRemediation ----------------------------
(* Plans and small instances for Remediation. *)
EXTENDS Remediation, TLC

act(kind, namespace, resourceKind, name, replicas) ==
  [kind |-> kind, namespace |-> namespace, resourceKind |-> resourceKind, name |-> name,
   replicas |-> replicas]

restart == act("restart_deployment", "own", "Deployment", "api", NoParameters)
scale   == act("scale_deployment", "own", "Deployment", "api", 100)
suspend == act("suspend_cronjob", "own", "CronJob", "job", NoParameters)
tooMany == act("scale_deployment", "own", "Deployment", "api", 101)
display == act("", "own", "Deployment", "api", NoParameters)

\* A one-step plan, one of two steps on the same object, one whose second step
\* policy denies, and one with a display-only action before one to run.
Plans4 == {<<restart>>, <<restart, scale>>, <<suspend, tooMany>>, <<display, suspend>>}

Plans2 == {<<restart>>, <<suspend>>}

Symmetry == Permutations(Worker)
=============================================================================
