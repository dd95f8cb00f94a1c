-------------------------- MODULE ReadinessFilter --------------------------
(***************************************************************************)
(* The readiness filter of replica_calculator.go, pod by pod: which pods   *)
(* GetResourceReplicas averages a resource metric over (groupPods and      *)
(* removeMetricsForPods) and which pods GetExternalMetricReplicas counts   *)
(* as ready (getReadyPodsCount).  The pods' statuses and the metric        *)
(* samples are the environment and change freely; the filter is compared  *)
(* with the rules of the readiness filter stated in the spec (section 4.1).*)
(*                                                                         *)
(* A pod's status is reduced to what the filter reads: its phase, its     *)
(* Ready condition (or none), whether StartTime is set, and whether the    *)
(* condition's LastTransitionTime lies within ReadinessDelay of StartTime. *)
(***************************************************************************)
EXTENDS FiniteSets

CONSTANTS
  TargetPods,   \* pods of the WPA's namespace matching the target's selector
  OtherPods,    \* pods of other namespaces carrying the same labels
  StrayPods     \* pods matching the metric selector but not the target's
ASSUME TargetPods # {} /\ TargetPods \cap (OtherPods \cup StrayPods) = {}

VARIABLES
  pods,       \* the status of every pod the lister may return
  sampled,    \* the pods the resource metrics client returned a sample for
  resource    \* metric.Resource.Name

rvars == <<pods, sampled, resource>>

Phases == {"Pending", "Running", "Succeeded", "Failed"}
\* The Ready condition's status, "None" when getPodCondition finds none.
ReadyStatus == {"None", "True", "False", "Unknown"}
PodStatus == [phase : Phases, ready : ReadyStatus, started : BOOLEAN, withinDelay : BOOLEAN]
Resources == {"cpu", "memory"}

\* getPodCondition's nil, or a nil StartTime: the filter cannot time the pod.
Untimed(p) == pods[p].ready = "None" \/ ~pods[p].started

(***************************************************************************)
(* getReadyPodsCount: a pod is tolerated as ready when it has a Ready      *)
(* condition and a StartTime, and is Running and Ready, or still Pending   *)
(* within the readiness delay.  No pod listed, or none tolerated, is an    *)
(* error.                                                                  *)
(***************************************************************************)
ToleratedAsReady(p) ==
  /\ ~Untimed(p)
  /\ \/ pods[p].phase = "Running" /\ pods[p].ready = "True"
     \/ pods[p].phase = "Pending" /\ pods[p].withinDelay

getReadyPodsCount(podList) ==
  LET counted == {p \in podList : ToleratedAsReady(p)}
  IN [ok |-> podList # {} /\ counted # {}, counted |-> counted]

(***************************************************************************)
(* groupPods: Failed and Pending pods are ignored, pods without a sample   *)
(* are missing, and for CPU only, a pod that cannot be timed or is unready *)
(* and has never been ready is ignored; the rest are ready.                *)
(***************************************************************************)
CPUIgnored(p) ==
  Untimed(p) \/ (pods[p].ready = "False" /\ pods[p].withinDelay)

groupPods(podList, metrics, res) ==
  LET skipped == {p \in podList : pods[p].phase \in {"Failed", "Pending"}}
      withSample == (podList \ skipped) \cap metrics
      cpuIgnored == {p \in withSample : res = "cpu" /\ CPUIgnored(p)}
  IN [readyPods |-> withSample \ cpuIgnored, ignoredPods |-> skipped \cup cpuIgnored]

removeMetricsForPods(metrics, ignored) == metrics \ ignored

(***************************************************************************)
(* The pods each calculator divides by.  GetResourceReplicas lists the     *)
(* WPA's namespace, groups, removes the ignored pods' samples and fails    *)
(* when none is left; GetExternalMetricReplicas counts across all          *)
(* namespaces (metav1.NamespaceAll).                                       *)
(***************************************************************************)
ResourceDivisor ==
  LET g == groupPods(TargetPods, sampled, resource)
      ok == removeMetricsForPods(sampled, g.ignoredPods) # {}
  IN IF ok THEN g.readyPods ELSE {}

ExternalDivisor ==
  LET c == getReadyPodsCount(TargetPods \cup OtherPods)
  IN IF c.ok THEN c.counted ELSE {}

-----------------------------------------------------------------------------
\* A fresh rollout: every pod just created, nothing reported yet.
RInit ==
  /\ pods = [p \in TargetPods \cup OtherPods |->
               [phase |-> "Pending", ready |-> "None", started |-> FALSE, withinDelay |-> FALSE]]
  /\ sampled = {}
  /\ resource \in Resources

\* The kubelet or the scheduler changes one pod's status.
PodStatusChanges(p, st) ==
  /\ pods[p] # st
  /\ pods' = [pods EXCEPT ![p] = st]
  /\ UNCHANGED <<sampled, resource>>

\* The metrics server starts or stops reporting a pod.
SampleChanges(p) ==
  /\ sampled' = IF p \in sampled THEN sampled \ {p} ELSE sampled \cup {p}
  /\ UNCHANGED <<pods, resource>>

RNext ==
  \/ \E p \in DOMAIN pods, st \in PodStatus : PodStatusChanges(p, st)
  \/ \E p \in TargetPods \cup StrayPods : SampleChanges(p)

RSpec == RInit /\ [][RNext]_rvars
-----------------------------------------------------------------------------
(* Spec section 4.1: the filter's input is the pod list of the target; a   *)
(* Failed pod is never ready, a Pending one only on the external path      *)
(* within the readiness delay, a pod without a sample is missing, and on   *)
(* the resource path a pod whose Ready condition is False and which has    *)
(* never been ready is ignored.                                            *)
SpecReadyResource ==
  {p \in TargetPods \cap sampled :
     /\ pods[p].phase \notin {"Failed", "Pending"}
     /\ ~(pods[p].ready = "False" /\ pods[p].started /\ pods[p].withinDelay)}

SpecReadyExternal ==
  {p \in TargetPods :
     /\ pods[p].phase # "Failed"
     /\ pods[p].phase = "Pending" => ~Untimed(p) /\ pods[p].withinDelay}

(* Every pod a calculator divides the summed metric by is a pod of the     *)
(* target that the readiness rules of spec section 4.1 count as ready, for *)
(* resource metrics (groupPods) and external ones (getReadyPodsCount).     *)
DivisorPodsAreReady ==
  /\ ResourceDivisor \subseteq SpecReadyResource
  /\ ExternalDivisor \subseteq SpecReadyExternal
=============================================================================
