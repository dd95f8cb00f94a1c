-------------------------- MODULE StatusConditions --------------------------
(***************************************************************************)
(* The Conditions of a WPA status across reconciles.  Each reconcile works *)
(* on the status it read, calls setCondition once per decision point of    *)
(* the path it takes (in code order), and persists the result through      *)
(* updateStatusIfNeeded, or persists nothing when that write fails or the  *)
(* reconcile returned before it.                                           *)
(*                                                                         *)
(* A condition is [type, status, lastTransitionTime]; reason and message   *)
(* are left out.  Which path a reconcile takes, and whether each forbidden *)
(* window is still open, is a free choice here: every combination is      *)
(* reachable with suitable metrics, LastScaleTime and clock.              *)
(***************************************************************************)
EXTENDS Integers, Sequences, SequencesExt

CONSTANTS
  DryRun,     \* wpa.Spec.DryRun
  MaxTime     \* bound of the clock, seconds

ASSUME DryRun \in BOOLEAN /\ MaxTime \in Nat

VARIABLES
  conditions, \* wpa.Status.Conditions as stored
  now

cvars == <<conditions, now>>

ConditionTypes == {"AbleToScale", "ScalingActive", "ScalingLimited", "DryRun"}

\* corev1.ConditionStatus values the controller sets.
ConditionStatus == {"True", "False"}

\* One setCondition call: the type and the status it sets.
Call(type, status) == [type |-> type, status |-> status]

(***************************************************************************)
(* setConditionInList: update the first condition of the type, appending   *)
(* one (with an empty status) when there is none; LastTransitionTime       *)
(* becomes now whenever the status set differs from the one held.          *)
(***************************************************************************)
\* Mutant: the search for an existing condition of the type is skipped.
setConditionInListMutant(list, c) ==
  Append(list, [type |-> c.type, status |-> c.status, lastTransitionTime |-> now])

\* Mutant: the status assignment is dropped; a new condition keeps "".
setConditionInListNoStatusMutant(list, c) ==
  LET found == {i \in DOMAIN list : list[i].type = c.type}
  IN IF found = {}
     THEN Append(list, [type |-> c.type, status |-> "", lastTransitionTime |-> now])
     ELSE list

setConditionInList(list, c) ==
  LET found == {i \in DOMAIN list : list[i].type = c.type}
  IN IF found = {}
     THEN Append(list, [type |-> c.type, status |-> c.status, lastTransitionTime |-> now])
     ELSE LET i == Min(found)
          IN [list EXCEPT ![i].lastTransitionTime =
                            IF list[i].status # c.status THEN now ELSE @,
                          ![i].status = c.status]

\* Reconcile: the DryRun condition, then reconcileWPA's first AbleToScale.
Prelude == << Call("DryRun", IF DryRun THEN "True" ELSE "False"), Call("AbleToScale", "True") >>

\* rescale: ReadyForScale, then in DryRun nothing more, else the outcome of
\* the scale update (FailedUpdateScale or SucceededRescale).
RescaleCalls ==
  IF DryRun THEN {<< Call("AbleToScale", "True") >>}
  ELSE {<< Call("AbleToScale", "True"), Call("AbleToScale", ok) >> : ok \in ConditionStatus}

\* shouldScale: BackoffDownscale, then BackoffUpscale or BackoffBoth.
BackoffCalls(down, up) ==
  (IF down THEN << Call("AbleToScale", "False") >> ELSE << >>)
  \o (IF up THEN << Call("AbleToScale", "False") >> ELSE << >>)

\* The metrics path: ValidMetricFound, ScalingLimited from normalization,
\* the cooldown gate, and a rescale unless both directions back off.
MetricsCalls ==
  UNION { { << Call("ScalingActive", "True"), Call("ScalingLimited", limited) >>
              \o BackoffCalls(down, up) \o r :
              r \in IF down /\ up THEN {<< >>} ELSE RescaleCalls \cup {<< >>} } :
          limited \in ConditionStatus, down \in BOOLEAN, up \in BOOLEAN }

\* Reconcile's invalid-spec exit: FailedSpecCheck, before the DryRun condition.
InvalidSpecCalls == << Call("AbleToScale", "False") >>

\* The invalid-spec exit, and the switch of reconcileWPA: disabled, forced
\* bounds, metric error, metrics.
Paths ==
  { InvalidSpecCalls } \cup
  { Prelude \o p :
      p \in {<< Call("ScalingActive", "False") >>} \cup RescaleCalls \cup MetricsCalls }

Reconcile ==
  \E p \in Paths, persisted \in BOOLEAN :
    /\ conditions' = IF persisted THEN FoldLeft(setConditionInList, conditions, p)
                     ELSE conditions
    /\ UNCHANGED now

Tick ==
  /\ now < MaxTime
  /\ now' = now + 1
  /\ UNCHANGED conditions

CInit ==
  /\ conditions = << >>
  /\ now = 0

CNext == Reconcile \/ Tick

CSpec == CInit /\ [][CNext]_cvars
-----------------------------------------------------------------------------
CTypeOK ==
  /\ now \in 0..MaxTime
  /\ conditions \in Seq([type : ConditionTypes, status : ConditionStatus,
                         lastTransitionTime : 0..MaxTime])

(* Spec section 3: a WPA status holds at most one condition of each type,  *)
(* however many setCondition calls the reconciles made.                    *)
UniqueConditionTypes ==
  \A i, j \in DOMAIN conditions : i # j => conditions[i].type # conditions[j].type
=============================================================================
