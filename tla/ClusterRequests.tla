--------------------------- MODULE ClusterRequests ---------------------------
(***************************************************************************)
(* web/src/services/cluster.ts: what the console can ask of the cluster    *)
(* service, per kind.  scope tells how the object is named in the path;    *)
(* reads are queries of the pages, writes their mutations.  A request is   *)
(* one HTTP call that ends within the 15 s of services/http.ts.            *)
(***************************************************************************)
EXTENDS ListPages, DetailPages, TLC

Namespaced(writes) ==
  [scope |-> "namespace", reads |-> {"list", "yaml"}, writes |-> writes]
ClusterWide(writes) ==
  [scope |-> "cluster", reads |-> {"list", "yaml"}, writes |-> writes]

\* updateXYaml
Saved == {"yaml"}
\* deleteX, through deleteNamespacedResource or deleteClusterResource
SavedAndDeleted == Saved \cup {"delete"}

PodRequests ==
  [scope  |-> "namespace",
   reads  |-> {"list", "yaml", "events", "logs", "describe"},
   writes |-> SavedAndDeleted]

\* One kind of manifest at a time; the kind is in the manifest.
CreateRequest == {"create"}

\* The terminal: a socket, opened by a URL.
ExecRequest == {"exec"}

DeploymentRequests  == Namespaced(SavedAndDeleted \cup {"scale", "restart"})
StatefulSetRequests == Namespaced(SavedAndDeleted \cup {"scale", "restart"})
ReplicaSetRequests  == Namespaced(Saved \cup {"scale"})
DaemonSetRequests   == Namespaced(SavedAndDeleted \cup {"restart"})
JobRequests         == Namespaced(SavedAndDeleted \cup {"suspend"})
CronJobRequests     == Namespaced(SavedAndDeleted \cup {"suspend"})

ServiceRequests       == Namespaced(SavedAndDeleted)
EndpointsRequests     == Namespaced(Saved)
IngressRequests       == Namespaced(SavedAndDeleted)
IngressClassRequests  == ClusterWide(SavedAndDeleted)
NetworkPolicyRequests == Namespaced(SavedAndDeleted)

ServiceAccountRequests     == Namespaced(SavedAndDeleted)
RoleRequests               == Namespaced(SavedAndDeleted)
ClusterRoleRequests        == ClusterWide(SavedAndDeleted)
RoleBindingRequests        == Namespaced(SavedAndDeleted)
ClusterRoleBindingRequests == ClusterWide(SavedAndDeleted)

ConfigMapRequests == Namespaced(SavedAndDeleted)
SecretRequests    == Namespaced(SavedAndDeleted)

HPARequests == Namespaced(SavedAndDeleted)
VPARequests == [Namespaced(SavedAndDeleted) EXCEPT !.reads = @ \cup {"readiness"}]

ResourceQuotaRequests == Namespaced(SavedAndDeleted)
LimitRangeRequests    == Namespaced(SavedAndDeleted)

ClaimRequests            == Namespaced(SavedAndDeleted)
PersistentVolumeRequests == ClusterWide(SavedAndDeleted)
StorageClassRequests     == ClusterWide(SavedAndDeleted)

RequestsOf ==
  [Pod |-> PodRequests, Deployment |-> DeploymentRequests,
   StatefulSet |-> StatefulSetRequests, ReplicaSet |-> ReplicaSetRequests,
   DaemonSet |-> DaemonSetRequests, Job |-> JobRequests, CronJob |-> CronJobRequests,
   Service |-> ServiceRequests, Endpoints |-> EndpointsRequests,
   Ingress |-> IngressRequests, IngressClass |-> IngressClassRequests,
   NetworkPolicy |-> NetworkPolicyRequests, ServiceAccount |-> ServiceAccountRequests,
   Role |-> RoleRequests, ClusterRole |-> ClusterRoleRequests,
   RoleBinding |-> RoleBindingRequests, ClusterRoleBinding |-> ClusterRoleBindingRequests,
   ConfigMap |-> ConfigMapRequests, Secret |-> SecretRequests,
   HorizontalPodAutoscaler |-> HPARequests, VerticalPodAutoscaler |-> VPARequests,
   ResourceQuota |-> ResourceQuotaRequests, LimitRange |-> LimitRangeRequests,
   PersistentVolumeClaim |-> ClaimRequests,
   PersistentVolume |-> PersistentVolumeRequests, StorageClass |-> StorageClassRequests]

\* components/workload/ResourceYamlCreateButton.tsx: the kinds with a template, and
\* whether the manifest must carry the selected namespace or none.
TemplateScope ==
  [kind \in {"ClusterRole", "ClusterRoleBinding"} |-> "cluster"]
  @@ [kind \in {"ConfigMap", "CronJob", "DaemonSet", "Deployment", "HorizontalPodAutoscaler",
                "Ingress", "Job", "LimitRange", "NetworkPolicy", "PersistentVolumeClaim",
                "ResourceQuota", "Role", "RoleBinding", "Secret", "Service",
                "ServiceAccount", "StatefulSet", "VerticalPodAutoscaler"} |-> "namespace"]

\* A page offers what there is a request for, and knows how its object is named.
ASSUME PagesAreServed ==
  /\ DOMAIN RequestsOf = DOMAIN ListPageOf /\ DOMAIN RequestsOf = DOMAIN DetailPageOf
  /\ \A kind \in DOMAIN RequestsOf :
       /\ ListPageOf[kind] \in ListPageType /\ DetailPageOf[kind] \in DetailPageType
       /\ ListPageOf[kind].menu.ops \subseteq RequestsOf[kind].writes
       /\ DetailPageOf[kind].view.ops \subseteq RequestsOf[kind].writes \cup ExecRequest
  /\ DOMAIN TemplateScope = {kind \in DOMAIN ListPageOf : ListPageOf[kind].view.create # "none"}
  /\ \A kind \in DOMAIN TemplateScope : TemplateScope[kind] = RequestsOf[kind].scope
=============================================================================
