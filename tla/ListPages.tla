------------------------------ MODULE ListPages ------------------------------
(***************************************************************************)
(* web/src/pages: the resource lists of the console, one record for each   *)
(* of the three parts a page is written in.  The pages are variations of   *)
(* one component, which ListPage models; what varies is here.              *)
(*                                                                         *)
(*   Hooks  how the rows come about and what a mutation's onSuccess does   *)
(*     rows          "unguarded": demo rows whenever there is no answer    *)
(*                   "guarded":   demo rows after a failure, operations off*)
(*                   "live":      rows of the cluster only                 *)
(*     deleteCloses  dialogs that a finished delete closes                 *)
(*     saveWaits     a saved manifest waits for both refetches             *)
(*   Menu   the action column                                              *)
(*     ops           operations on a row                                   *)
(*     when          what the column asks before it offers them            *)
(*   View   the dialogs and the toolbar                                    *)
(*     forms         dialogs with an input; the others are confirmations   *)
(*     create        what the create button asks ("none": there is none)   *)
(*                                                                         *)
(* Columns, metrics and search are layout.  Opening a row leaves the page. *)
(***************************************************************************)

Operation == {"yaml", "scale", "restart", "suspend", "delete"}
ListPageType ==
  [ hooks: [rows: {"unguarded", "guarded", "live"},
            deleteCloses: SUBSET {"scale", "yaml"}, saveWaits: BOOLEAN],
    menu:  [ops: SUBSET Operation, when: {"notDemo", "allowed", "live"}],
    view:  [forms: SUBSET {"scale", "yaml"},
            create: {"none", "live", "allowed"}] ]

DeploymentsHooks ==
  [rows |-> "unguarded", deleteCloses |-> {"scale", "yaml"}, saveWaits |-> FALSE]
DeploymentsMenu == [ops |-> {"yaml", "scale", "restart", "delete"}, when |-> "notDemo"]
DeploymentsView == [forms |-> {"scale", "yaml"}, create |-> "live"]

PodsHooks ==
  [rows |-> "unguarded", deleteCloses |-> {}, saveWaits |-> FALSE]
PodsMenu == [ops |-> {"yaml", "delete"}, when |-> "notDemo"]
PodsView == [forms |-> {"yaml"}, create |-> "none"]

StatefulSetsHooks ==
  [rows |-> "guarded", deleteCloses |-> {"scale", "yaml"}, saveWaits |-> FALSE]
StatefulSetsMenu == [ops |-> {"yaml", "scale", "restart", "delete"}, when |-> "allowed"]
StatefulSetsView == [forms |-> {"scale", "yaml"}, create |-> "allowed"]

DaemonSetsHooks ==
  [rows |-> "guarded", deleteCloses |-> {"yaml"}, saveWaits |-> FALSE]
DaemonSetsMenu == [ops |-> {"yaml", "restart", "delete"}, when |-> "allowed"]
DaemonSetsView == [forms |-> {"yaml"}, create |-> "allowed"]

ReplicaSetsHooks ==
  [rows |-> "guarded", deleteCloses |-> {}, saveWaits |-> FALSE]
ReplicaSetsMenu == [ops |-> {"yaml", "scale"}, when |-> "allowed"]
ReplicaSetsView == [forms |-> {"scale", "yaml"}, create |-> "none"]

JobsHooks ==
  [rows |-> "guarded", deleteCloses |-> {"yaml"}, saveWaits |-> FALSE]
JobsMenu == [ops |-> {"yaml", "suspend", "delete"}, when |-> "allowed"]
JobsView == [forms |-> {"yaml"}, create |-> "allowed"]

CronJobsHooks ==
  [rows |-> "guarded", deleteCloses |-> {"yaml"}, saveWaits |-> FALSE]
CronJobsMenu == [ops |-> {"yaml", "suspend", "delete"}, when |-> "allowed"]
CronJobsView == [forms |-> {"yaml"}, create |-> "allowed"]

ServicesHooks ==
  [rows |-> "live", deleteCloses |-> {"yaml"}, saveWaits |-> TRUE]
ServicesMenu == [ops |-> {"yaml", "delete"}, when |-> "live"]
ServicesView == [forms |-> {"yaml"}, create |-> "live"]

IngressesHooks ==
  [rows |-> "live", deleteCloses |-> {"yaml"}, saveWaits |-> TRUE]
IngressesMenu == [ops |-> {"yaml", "delete"}, when |-> "live"]
IngressesView == [forms |-> {"yaml"}, create |-> "live"]

NetworkPoliciesHooks ==
  [rows |-> "live", deleteCloses |-> {"yaml"}, saveWaits |-> TRUE]
NetworkPoliciesMenu == [ops |-> {"yaml", "delete"}, when |-> "live"]
NetworkPoliciesView == [forms |-> {"yaml"}, create |-> "live"]

ConfigMapsHooks ==
  [rows |-> "live", deleteCloses |-> {"yaml"}, saveWaits |-> TRUE]
ConfigMapsMenu == [ops |-> {"yaml", "delete"}, when |-> "live"]
ConfigMapsView == [forms |-> {"yaml"}, create |-> "live"]

SecretsHooks ==
  [rows |-> "live", deleteCloses |-> {"yaml"}, saveWaits |-> TRUE]
SecretsMenu == [ops |-> {"yaml", "delete"}, when |-> "live"]
SecretsView == [forms |-> {"yaml"}, create |-> "live"]

ServiceAccountsHooks ==
  [rows |-> "live", deleteCloses |-> {"yaml"}, saveWaits |-> TRUE]
ServiceAccountsMenu == [ops |-> {"yaml", "delete"}, when |-> "live"]
ServiceAccountsView == [forms |-> {"yaml"}, create |-> "live"]

RolesHooks ==
  [rows |-> "live", deleteCloses |-> {"yaml"}, saveWaits |-> TRUE]
RolesMenu == [ops |-> {"yaml", "delete"}, when |-> "live"]
RolesView == [forms |-> {"yaml"}, create |-> "live"]

RoleBindingsHooks ==
  [rows |-> "live", deleteCloses |-> {"yaml"}, saveWaits |-> TRUE]
RoleBindingsMenu == [ops |-> {"yaml", "delete"}, when |-> "live"]
RoleBindingsView == [forms |-> {"yaml"}, create |-> "live"]

ClusterRolesHooks ==
  [rows |-> "live", deleteCloses |-> {"yaml"}, saveWaits |-> TRUE]
ClusterRolesMenu == [ops |-> {"yaml", "delete"}, when |-> "live"]
ClusterRolesView == [forms |-> {"yaml"}, create |-> "live"]

ClusterRoleBindingsHooks ==
  [rows |-> "live", deleteCloses |-> {"yaml"}, saveWaits |-> TRUE]
ClusterRoleBindingsMenu == [ops |-> {"yaml", "delete"}, when |-> "live"]
ClusterRoleBindingsView == [forms |-> {"yaml"}, create |-> "live"]

HPAsHooks ==
  [rows |-> "live", deleteCloses |-> {"yaml"}, saveWaits |-> TRUE]
HPAsMenu == [ops |-> {"yaml", "delete"}, when |-> "live"]
HPAsView == [forms |-> {"yaml"}, create |-> "live"]

VPAsHooks ==
  [rows |-> "live", deleteCloses |-> {"yaml"}, saveWaits |-> TRUE]
VPAsMenu == [ops |-> {"yaml", "delete"}, when |-> "live"]
VPAsView == [forms |-> {"yaml"}, create |-> "live"]

ResourceQuotasHooks ==
  [rows |-> "live", deleteCloses |-> {"yaml"}, saveWaits |-> TRUE]
ResourceQuotasMenu == [ops |-> {"yaml", "delete"}, when |-> "live"]
ResourceQuotasView == [forms |-> {"yaml"}, create |-> "live"]

LimitRangesHooks ==
  [rows |-> "live", deleteCloses |-> {"yaml"}, saveWaits |-> TRUE]
LimitRangesMenu == [ops |-> {"yaml", "delete"}, when |-> "live"]
LimitRangesView == [forms |-> {"yaml"}, create |-> "live"]

PersistentVolumeClaimsHooks ==
  [rows |-> "live", deleteCloses |-> {"yaml"}, saveWaits |-> TRUE]
PersistentVolumeClaimsMenu == [ops |-> {"yaml", "delete"}, when |-> "live"]
PersistentVolumeClaimsView == [forms |-> {"yaml"}, create |-> "live"]

IngressClassesHooks ==
  [rows |-> "live", deleteCloses |-> {"yaml"}, saveWaits |-> TRUE]
IngressClassesMenu == [ops |-> {"yaml", "delete"}, when |-> "live"]
IngressClassesView == [forms |-> {"yaml"}, create |-> "none"]

PersistentVolumesHooks ==
  [rows |-> "live", deleteCloses |-> {"yaml"}, saveWaits |-> TRUE]
PersistentVolumesMenu == [ops |-> {"yaml", "delete"}, when |-> "live"]
PersistentVolumesView == [forms |-> {"yaml"}, create |-> "none"]

StorageClassesHooks ==
  [rows |-> "live", deleteCloses |-> {"yaml"}, saveWaits |-> TRUE]
StorageClassesMenu == [ops |-> {"yaml", "delete"}, when |-> "live"]
StorageClassesView == [forms |-> {"yaml"}, create |-> "none"]

EndpointsHooks ==
  [rows |-> "live", deleteCloses |-> {}, saveWaits |-> TRUE]
EndpointsMenu == [ops |-> {"yaml"}, when |-> "live"]
EndpointsView == [forms |-> {"yaml"}, create |-> "none"]

-----------------------------------------------------------------------------
\* Resources are written through services/cluster.ts, so a page carries its kind.
ListPageOf ==
  [ kind \in {"Deployment", "Pod", "StatefulSet", "DaemonSet", "ReplicaSet",
       "Job", "CronJob", "Service", "Ingress", "NetworkPolicy", "ConfigMap",
       "Secret", "ServiceAccount", "Role", "RoleBinding", "ClusterRole",
       "ClusterRoleBinding", "HorizontalPodAutoscaler",
       "VerticalPodAutoscaler", "ResourceQuota", "LimitRange",
       "PersistentVolumeClaim", "IngressClass", "PersistentVolume",
       "StorageClass", "Endpoints"} |->
    CASE kind = "Deployment" ->
           [hooks |-> DeploymentsHooks, menu |-> DeploymentsMenu, view |-> DeploymentsView]
      [] kind = "Pod" ->
           [hooks |-> PodsHooks, menu |-> PodsMenu, view |-> PodsView]
      [] kind = "StatefulSet" ->
           [hooks |-> StatefulSetsHooks, menu |-> StatefulSetsMenu, view |-> StatefulSetsView]
      [] kind = "DaemonSet" ->
           [hooks |-> DaemonSetsHooks, menu |-> DaemonSetsMenu, view |-> DaemonSetsView]
      [] kind = "ReplicaSet" ->
           [hooks |-> ReplicaSetsHooks, menu |-> ReplicaSetsMenu, view |-> ReplicaSetsView]
      [] kind = "Job" ->
           [hooks |-> JobsHooks, menu |-> JobsMenu, view |-> JobsView]
      [] kind = "CronJob" ->
           [hooks |-> CronJobsHooks, menu |-> CronJobsMenu, view |-> CronJobsView]
      [] kind = "Service" ->
           [hooks |-> ServicesHooks, menu |-> ServicesMenu, view |-> ServicesView]
      [] kind = "Ingress" ->
           [hooks |-> IngressesHooks, menu |-> IngressesMenu, view |-> IngressesView]
      [] kind = "NetworkPolicy" ->
           [hooks |-> NetworkPoliciesHooks, menu |-> NetworkPoliciesMenu, view |-> NetworkPoliciesView]
      [] kind = "ConfigMap" ->
           [hooks |-> ConfigMapsHooks, menu |-> ConfigMapsMenu, view |-> ConfigMapsView]
      [] kind = "Secret" ->
           [hooks |-> SecretsHooks, menu |-> SecretsMenu, view |-> SecretsView]
      [] kind = "ServiceAccount" ->
           [hooks |-> ServiceAccountsHooks, menu |-> ServiceAccountsMenu, view |-> ServiceAccountsView]
      [] kind = "Role" ->
           [hooks |-> RolesHooks, menu |-> RolesMenu, view |-> RolesView]
      [] kind = "RoleBinding" ->
           [hooks |-> RoleBindingsHooks, menu |-> RoleBindingsMenu, view |-> RoleBindingsView]
      [] kind = "ClusterRole" ->
           [hooks |-> ClusterRolesHooks, menu |-> ClusterRolesMenu, view |-> ClusterRolesView]
      [] kind = "ClusterRoleBinding" ->
           [hooks |-> ClusterRoleBindingsHooks, menu |-> ClusterRoleBindingsMenu, view |-> ClusterRoleBindingsView]
      [] kind = "HorizontalPodAutoscaler" ->
           [hooks |-> HPAsHooks, menu |-> HPAsMenu, view |-> HPAsView]
      [] kind = "VerticalPodAutoscaler" ->
           [hooks |-> VPAsHooks, menu |-> VPAsMenu, view |-> VPAsView]
      [] kind = "ResourceQuota" ->
           [hooks |-> ResourceQuotasHooks, menu |-> ResourceQuotasMenu, view |-> ResourceQuotasView]
      [] kind = "LimitRange" ->
           [hooks |-> LimitRangesHooks, menu |-> LimitRangesMenu, view |-> LimitRangesView]
      [] kind = "PersistentVolumeClaim" ->
           [hooks |-> PersistentVolumeClaimsHooks, menu |-> PersistentVolumeClaimsMenu, view |-> PersistentVolumeClaimsView]
      [] kind = "IngressClass" ->
           [hooks |-> IngressClassesHooks, menu |-> IngressClassesMenu, view |-> IngressClassesView]
      [] kind = "PersistentVolume" ->
           [hooks |-> PersistentVolumesHooks, menu |-> PersistentVolumesMenu, view |-> PersistentVolumesView]
      [] kind = "StorageClass" ->
           [hooks |-> StorageClassesHooks, menu |-> StorageClassesMenu, view |-> StorageClassesView]
      [] kind = "Endpoints" ->
           [hooks |-> EndpointsHooks, menu |-> EndpointsMenu, view |-> EndpointsView] ]

\* Pages that behave alike are one element.
Lists == {ListPageOf[kind] : kind \in DOMAIN ListPageOf}
=============================================================================
