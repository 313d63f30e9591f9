------------------------------- MODULE Policy -------------------------------
(***************************************************************************)
(* policy/evaluator.go and aiops/risk_review.go: the allowlist over        *)
(* structured actions, and approvability derived from it alone.            *)
(*                                                                         *)
(* An action is [kind, namespace, resourceKind, name, replicas]:           *)
(*   namespace   "own": that of the incident; anything else is foreign     *)
(*   name        a model value; NoName and Wildcard are the values that    *)
(*               the rules tell apart                                      *)
(*   replicas    the Parameters map: NoParameters, or the integer under    *)
(*               "replicas"; whatever Atoi refuses is a negative integer   *)
(***************************************************************************)
EXTENDS Integers

CONSTANTS NoName, Wildcard, NoParameters

Denied == [allowed |-> FALSE, risk |-> "high"]

Allowed(risk) == [allowed |-> TRUE, risk |-> risk]

Named(action, resourceKind) ==
  action.resourceKind = resourceKind /\ action.name # NoName

\* The risk of a denied action is raised to high by BuildEffectiveRiskReview.
Evaluate(action) ==
  CASE \/ action.namespace # "own"
       \/ action.name = Wildcard
       \/ action.resourceKind = "Secret" -> Denied
    [] /\ action.kind = "restart_deployment"
       /\ action.replicas = NoParameters
       /\ Named(action, "Deployment")    -> Allowed("medium")
    [] /\ action.kind = "scale_deployment"
       /\ action.replicas # NoParameters
       /\ action.replicas \in 0..100
       /\ Named(action, "Deployment")    -> Allowed("medium")
    [] /\ action.kind = "suspend_cronjob"
       /\ action.replicas = NoParameters
       /\ Named(action, "CronJob")       -> Allowed("low")
    [] OTHER                             -> Denied

\* BuildEffectiveRiskReview: an empty plan, or one with an action of high risk,
\* is never approvable; the model's review has no say.
Approvable(plan) ==
  /\ DOMAIN plan # {}
  /\ \A i \in DOMAIN plan : Evaluate(plan[i]).allowed /\ Evaluate(plan[i]).risk # "high"
=============================================================================
