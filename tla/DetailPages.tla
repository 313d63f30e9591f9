----------------------------- MODULE DetailPages -----------------------------
(***************************************************************************)
(* web/src/pages: the pages about one object, a record for each of the     *)
(* three parts a page is written in.  The object is named by the route;    *)
(* going from one object to another of the kind keeps the component.       *)
(*                                                                         *)
(*   Hooks    rows       "guarded": demo item after a failure, operations  *)
(*                       withdrawn;  "live": item of the cluster only      *)
(*            onRoute    does a change of route close what is open         *)
(*            saveWaits  a saved manifest waits for the refetch            *)
(*   View     tabs       "yaml", "logs", "terminal" fetch or connect when  *)
(*                       shown                                             *)
(*            ops        operations beside the manifest's editor           *)
(*   Dialogs  dialogs that are part of the page; the others are            *)
(*            confirmations of the application                             *)
(*                                                                         *)
(* Cards, tags and related objects are layout.                             *)
(***************************************************************************)

Tab == {"overview", "containers", "events", "logs", "terminal", "jobs", "pods",
        "yaml", "related"}
DetailPageType ==
  [ hooks: [rows: {"guarded", "live"}, onRoute: {"closes", "stays"}, saveWaits: BOOLEAN],
    view:  [tabs: SUBSET Tab, ops: SUBSET {"scale", "restart", "suspend", "exec"}],
    dialogs: SUBSET {"scale", "yaml"} ]

PlainTabs == {"overview", "yaml", "related"}
PlainHooks == [rows |-> "live", onRoute |-> "closes", saveWaits |-> TRUE]

ClusterRoleBindingHooks == PlainHooks
ClusterRoleBindingView == [tabs |-> PlainTabs, ops |-> {}]
ClusterRoleBindingDialogs == {"yaml"}

ClusterRoleHooks == PlainHooks
ClusterRoleView == [tabs |-> PlainTabs, ops |-> {}]
ClusterRoleDialogs == {"yaml"}

ConfigMapHooks == PlainHooks
ConfigMapView == [tabs |-> PlainTabs, ops |-> {}]
ConfigMapDialogs == {"yaml"}

CronJobHooks ==
  [rows |-> "guarded", onRoute |-> "stays", saveWaits |-> TRUE]
CronJobView == [tabs |-> {"overview", "jobs", "yaml", "related"}, ops |-> {"suspend"}]
CronJobDialogs == {"yaml"}

DaemonSetHooks ==
  [rows |-> "guarded", onRoute |-> "stays", saveWaits |-> TRUE]
DaemonSetView == [tabs |-> {"overview", "pods", "yaml", "related"}, ops |-> {"restart"}]
DaemonSetDialogs == {"yaml"}

DeploymentHooks ==
  [rows |-> "guarded", onRoute |-> "closes", saveWaits |-> TRUE]
DeploymentView ==
  [tabs |-> {"overview", "pods", "yaml", "related"}, ops |-> {"scale", "restart"}]
DeploymentDialogs == {"scale", "yaml"}

EndpointHooks == PlainHooks
EndpointView == [tabs |-> PlainTabs, ops |-> {}]
EndpointDialogs == {"yaml"}

HPAHooks == PlainHooks
HPAView == [tabs |-> PlainTabs, ops |-> {}]
HPADialogs == {"yaml"}

IngressClassHooks == PlainHooks
IngressClassView == [tabs |-> PlainTabs, ops |-> {}]
IngressClassDialogs == {"yaml"}

IngressHooks == PlainHooks
IngressView == [tabs |-> PlainTabs, ops |-> {}]
IngressDialogs == {"yaml"}

JobHooks ==
  [rows |-> "guarded", onRoute |-> "stays", saveWaits |-> TRUE]
JobView == [tabs |-> {"overview", "pods", "yaml", "related"}, ops |-> {"suspend"}]
JobDialogs == {"yaml"}

LimitRangeHooks == PlainHooks
LimitRangeView == [tabs |-> PlainTabs, ops |-> {}]
LimitRangeDialogs == {"yaml"}

NetworkPolicyHooks == PlainHooks
NetworkPolicyView == [tabs |-> PlainTabs, ops |-> {}]
NetworkPolicyDialogs == {"yaml"}

PersistentVolumeClaimHooks == PlainHooks
PersistentVolumeClaimView == [tabs |-> PlainTabs, ops |-> {}]
PersistentVolumeClaimDialogs == {"yaml"}

PersistentVolumeHooks == PlainHooks
PersistentVolumeView == [tabs |-> PlainTabs, ops |-> {}]
PersistentVolumeDialogs == {"yaml"}

PodHooks ==
  [rows |-> "guarded", onRoute |-> "stays", saveWaits |-> FALSE]
PodView ==
  [tabs |-> {"overview", "containers", "events", "logs", "terminal", "yaml", "related"},
   ops |-> {"exec"}]
PodDialogs == {"yaml"}

ReplicaSetHooks ==
  [rows |-> "guarded", onRoute |-> "closes", saveWaits |-> TRUE]
ReplicaSetView == [tabs |-> {"overview", "pods", "yaml", "related"}, ops |-> {"scale"}]
ReplicaSetDialogs == {"scale", "yaml"}

ResourceQuotaHooks == PlainHooks
ResourceQuotaView == [tabs |-> PlainTabs, ops |-> {}]
ResourceQuotaDialogs == {"yaml"}

RoleBindingHooks == PlainHooks
RoleBindingView == [tabs |-> PlainTabs, ops |-> {}]
RoleBindingDialogs == {"yaml"}

RoleHooks == PlainHooks
RoleView == [tabs |-> PlainTabs, ops |-> {}]
RoleDialogs == {"yaml"}

SecretHooks == PlainHooks
SecretView == [tabs |-> PlainTabs, ops |-> {}]
SecretDialogs == {"yaml"}

ServiceAccountHooks == PlainHooks
ServiceAccountView == [tabs |-> PlainTabs, ops |-> {}]
ServiceAccountDialogs == {"yaml"}

ServiceHooks == PlainHooks
ServiceView == [tabs |-> PlainTabs, ops |-> {}]
ServiceDialogs == {"yaml"}

StatefulSetHooks ==
  [rows |-> "guarded", onRoute |-> "closes", saveWaits |-> TRUE]
StatefulSetView ==
  [tabs |-> {"overview", "pods", "yaml", "related"}, ops |-> {"scale", "restart"}]
StatefulSetDialogs == {"scale", "yaml"}

StorageClassHooks == PlainHooks
StorageClassView == [tabs |-> PlainTabs, ops |-> {}]
StorageClassDialogs == {"yaml"}

VPAHooks == PlainHooks
VPAView == [tabs |-> PlainTabs, ops |-> {}]
VPADialogs == {"yaml"}

DetailPageOf ==
  [ kind \in {"ClusterRoleBinding", "ClusterRole", "ConfigMap", "CronJob", "DaemonSet",
       "Deployment", "Endpoints", "HorizontalPodAutoscaler", "IngressClass",
       "Ingress", "Job", "LimitRange", "NetworkPolicy", "PersistentVolumeClaim",
       "PersistentVolume", "Pod", "ReplicaSet", "ResourceQuota", "RoleBinding",
       "Role", "Secret", "ServiceAccount", "Service", "StatefulSet", "StorageClass",
       "VerticalPodAutoscaler"} |->
    CASE kind = "ClusterRoleBinding" ->
           [hooks |-> ClusterRoleBindingHooks, view |-> ClusterRoleBindingView,
            dialogs |-> ClusterRoleBindingDialogs]
      [] kind = "ClusterRole" ->
           [hooks |-> ClusterRoleHooks, view |-> ClusterRoleView,
            dialogs |-> ClusterRoleDialogs]
      [] kind = "ConfigMap" ->
           [hooks |-> ConfigMapHooks, view |-> ConfigMapView,
            dialogs |-> ConfigMapDialogs]
      [] kind = "CronJob" ->
           [hooks |-> CronJobHooks, view |-> CronJobView,
            dialogs |-> CronJobDialogs]
      [] kind = "DaemonSet" ->
           [hooks |-> DaemonSetHooks, view |-> DaemonSetView,
            dialogs |-> DaemonSetDialogs]
      [] kind = "Deployment" ->
           [hooks |-> DeploymentHooks, view |-> DeploymentView,
            dialogs |-> DeploymentDialogs]
      [] kind = "Endpoints" ->
           [hooks |-> EndpointHooks, view |-> EndpointView,
            dialogs |-> EndpointDialogs]
      [] kind = "HorizontalPodAutoscaler" ->
           [hooks |-> HPAHooks, view |-> HPAView,
            dialogs |-> HPADialogs]
      [] kind = "IngressClass" ->
           [hooks |-> IngressClassHooks, view |-> IngressClassView,
            dialogs |-> IngressClassDialogs]
      [] kind = "Ingress" ->
           [hooks |-> IngressHooks, view |-> IngressView,
            dialogs |-> IngressDialogs]
      [] kind = "Job" ->
           [hooks |-> JobHooks, view |-> JobView,
            dialogs |-> JobDialogs]
      [] kind = "LimitRange" ->
           [hooks |-> LimitRangeHooks, view |-> LimitRangeView,
            dialogs |-> LimitRangeDialogs]
      [] kind = "NetworkPolicy" ->
           [hooks |-> NetworkPolicyHooks, view |-> NetworkPolicyView,
            dialogs |-> NetworkPolicyDialogs]
      [] kind = "PersistentVolumeClaim" ->
           [hooks |-> PersistentVolumeClaimHooks, view |-> PersistentVolumeClaimView,
            dialogs |-> PersistentVolumeClaimDialogs]
      [] kind = "PersistentVolume" ->
           [hooks |-> PersistentVolumeHooks, view |-> PersistentVolumeView,
            dialogs |-> PersistentVolumeDialogs]
      [] kind = "Pod" ->
           [hooks |-> PodHooks, view |-> PodView,
            dialogs |-> PodDialogs]
      [] kind = "ReplicaSet" ->
           [hooks |-> ReplicaSetHooks, view |-> ReplicaSetView,
            dialogs |-> ReplicaSetDialogs]
      [] kind = "ResourceQuota" ->
           [hooks |-> ResourceQuotaHooks, view |-> ResourceQuotaView,
            dialogs |-> ResourceQuotaDialogs]
      [] kind = "RoleBinding" ->
           [hooks |-> RoleBindingHooks, view |-> RoleBindingView,
            dialogs |-> RoleBindingDialogs]
      [] kind = "Role" ->
           [hooks |-> RoleHooks, view |-> RoleView,
            dialogs |-> RoleDialogs]
      [] kind = "Secret" ->
           [hooks |-> SecretHooks, view |-> SecretView,
            dialogs |-> SecretDialogs]
      [] kind = "ServiceAccount" ->
           [hooks |-> ServiceAccountHooks, view |-> ServiceAccountView,
            dialogs |-> ServiceAccountDialogs]
      [] kind = "Service" ->
           [hooks |-> ServiceHooks, view |-> ServiceView,
            dialogs |-> ServiceDialogs]
      [] kind = "StatefulSet" ->
           [hooks |-> StatefulSetHooks, view |-> StatefulSetView,
            dialogs |-> StatefulSetDialogs]
      [] kind = "StorageClass" ->
           [hooks |-> StorageClassHooks, view |-> StorageClassView,
            dialogs |-> StorageClassDialogs]
      [] kind = "VerticalPodAutoscaler" ->
           [hooks |-> VPAHooks, view |-> VPAView,
            dialogs |-> VPADialogs] ]

\* Pages that behave alike are one element.
Details == {DetailPageOf[kind] : kind \in DOMAIN DetailPageOf}
=============================================================================
