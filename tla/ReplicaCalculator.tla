------------------------- MODULE ReplicaCalculator -------------------------
(***************************************************************************)
(* The replica calculator of replica_calculator.go: turns one metric       *)
(* reading into a replica proposal (GetExternalMetricReplicas,             *)
(* GetResourceReplicas, getReplicaCount).                                   *)
(*                                                                         *)
(* Data abstraction.  A reading is what the metric client and the pod      *)
(* lister return for one MetricSpec, reduced to what the arithmetic uses:  *)
(*   fetched  - the metrics client call succeeded;                          *)
(*   ready    - the number of pods the readiness filter counts as ready     *)
(*              (getReadyPodsCount for external metrics, the readyPods set  *)
(*              of groupPods for resource metrics);                         *)
(*   sum      - the sum of the retained samples, in milli-units;            *)
(*   stray    - samples remain for pods outside the target's pod list       *)
(*              (removeMetricsForPods only drops the ignored pods);         *)
(*   lag      - how far the metric timestamp lies behind the wall clock.    *)
(* The float64 arithmetic of getReplicaCount is computed exactly over the  *)
(* rationals: usage = sum / averaged, tolerance = TolerancePct / 100.      *)
(***************************************************************************)
EXTENDS Integers, FiniteSetsExt

CONSTANTS
  TolerancePct,   \* wpa.Spec.Tolerance, in percent
  Algorithm,      \* wpa.Spec.Algorithm: "average" or "absolute"
  Int32OfPosInf   \* int32(+Inf): implementation-defined in Go

\* amd64 (CVTTSD2SL) yields the "integer indefinite" MinInt32, arm64 saturates.
ASSUME TolerancePct \in 0..100
ASSUME Algorithm \in {"average", "absolute"}
ASSUME Int32OfPosInf \in {-2147483647 - 1, 2147483647}

\* ceil(a / b) for a >= 0, b > 0
CeilDiv(a, b) == (a + b - 1) \div b

\* The divisor of the summed samples: the ready-pod count for "average".
Averaged(ready) == IF Algorithm = "average" THEN ready ELSE 1

\* usage > highMark * (1 + tolerance), usage = sum / averaged
AboveHighMark(sum, averaged, highMark) ==
  100 * sum > (100 + TolerancePct) * highMark * averaged

\* usage < lowMark * (1 - tolerance)
BelowLowMark(sum, averaged, lowMark) ==
  100 * sum < (100 - TolerancePct) * lowMark * averaged

(***************************************************************************)
(* getReplicaCount: above the adjusted high mark scale to                 *)
(* ceil(N * usage / highMark); below the adjusted low mark to              *)
(* max(floor(N * usage / lowMark), 1); otherwise stay at N.  With no ready *)
(* pod to average over, usage is sum / 0: +Inf when sum > 0 (above the    *)
(* high mark, converted by int32(math.Ceil(+Inf))), NaN when sum = 0 (no   *)
(* comparison holds, so it stays at N).                                    *)
(***************************************************************************)
getReplicaCount(currentReplicas, sum, averaged, lowMark, highMark) ==
  CASE AboveHighMark(sum, averaged, highMark) ->
         IF averaged = 0 THEN Int32OfPosInf
         ELSE CeilDiv(currentReplicas * sum, highMark * averaged)
    [] BelowLowMark(sum, averaged, lowMark) ->
         Max({(currentReplicas * sum) \div (lowMark * averaged), 1})
    [] OTHER -> currentReplicas

(***************************************************************************)
(* The outcome of one MetricSpec: ok = FALSE is an error return.           *)
(* aboveHigh / inBand say where the usage lay, for the properties.         *)
(***************************************************************************)
Outcome(ok, replicas, ts, aboveHigh, inBand) ==
  [ok |-> ok, replicas |-> replicas, ts |-> ts,
   aboveHigh |-> aboveHigh, inBand |-> inBand]

Failed == Outcome(FALSE, 0, 0, FALSE, FALSE)

Evaluate(base, rd, m, now) ==
  LET avg == Averaged(rd.ready) IN
  Outcome(TRUE, getReplicaCount(base, rd.sum, avg, m.low, m.high), now - rd.lag,
          AboveHighMark(rd.sum, avg, m.high),
          ~AboveHighMark(rd.sum, avg, m.high) /\ ~BelowLowMark(rd.sum, avg, m.low))

(***************************************************************************)
(* GetExternalMetricReplicas: fails when no pod is tolerated as ready or   *)
(* the external metric cannot be fetched; the base of the proposal is the  *)
(* ready-pod count, not the target's status replicas.                      *)
(***************************************************************************)
GetExternalMetricReplicas(rd, m, now) ==
  IF rd.ready = 0 \/ ~rd.fetched THEN Failed
  ELSE Evaluate(rd.ready, rd, m, now)

(***************************************************************************)
(* GetResourceReplicas: fails when the resource metric cannot be fetched   *)
(* or no sample is left once the ignored pods' are removed; the base is    *)
(* target.Status.Replicas.  Stray samples survive with no ready pod.       *)
(***************************************************************************)
GetResourceReplicas(rd, m, statusReplicas, now) ==
  IF ~rd.fetched \/ (rd.ready = 0 /\ ~rd.stray) THEN Failed
  ELSE Evaluate(statusReplicas, rd, m, now)
=============================================================================
