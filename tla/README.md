# TLA+ models of the WatermarkPodAutoscaler controller

This directory holds TLA+ models of the WatermarkPodAutoscaler (WPA) controller.
The controller is in `src/pkg/controller/watermarkpodautoscaler/watermarkpodautoscaler_controller.go`.
The replica calculator is in `src/unnamed/part_001`, which is `replica_calculator.go`.
The models are checked with TLC.

## 1. The system

A WPA object names a target that has a `/scale` subresource. It also carries a
list of metrics, each with a low and a high watermark. The controller
reconciles each WPA on every event and again every 15 s (`resRepeat`).

| Part | Code | What it does |
|---|---|---|
| Reconciliation driver | `Reconcile` (C 183-252), `reconcileWPA` (C 255-384) | Reads the WPA through the cache-backed client and reads the target's scale. It exits early when the target is disabled or out of bounds. Otherwise it computes a proposal from the metrics, normalizes it, gates it by cooldowns, writes the scale (unless DryRun), then writes the status. Any error is requeued after 1 s. |
| Readiness filter | `getReadyPodsCount`, `groupPods`, `removeMetricsForPods` (R 209-289) | Decides which pods count as ready. For external metrics it counts pods in *all* namespaces. |
| Replica calculator | `GetExternalMetricReplicas` (R 55-107), `GetResourceReplicas` (R 109-175) | Reads one metric and averages it over the ready pods. The base of the proposal is the ready-pod count for external metrics and `status.replicas` for resource metrics. |
| Watermark evaluator | `getReplicaCount` (R 177-207) | Takes `ceil(N·u/high)` above the tolerance-adjusted high mark and `max(floor(N·u/low),1)` below the low mark. Inside the band it returns N unchanged. |
| Metric aggregator | `computeReplicasForMetrics` (C 496-623) | The first error aborts the whole computation. Otherwise the largest proposal wins, together with its metric timestamp. |
| Normalizer | `normalizeDesiredReplicas`, `convertDesiredReplicasWithRules`, scale limits (C 666-762) | Clamps the proposal to `[min, max]` and to the rate limit `N ± max(1, floor(f·N/100))`. The down limit is skipped when `MinReplicas = 0`. |
| Cooldown gate | `shouldScale`, `canScale` (C 411-459) | Refuses an upscale or downscale that falls inside its forbidden window after `LastScaleTime`. The window is measured against the winning metric's timestamp. |
| Status | `setStatus`, `setCurrentReplicasInStatus`, `updateStatusIfNeeded` (C 461-494) | Builds the status and writes it only if it changed. `LastScaleTime` is set whenever `rescale` is true. |

How the parts interact:
- The driver is the only actor that writes. Its writes go to two objects: the target's scale and the WPA status.
- Three other actors change what the driver reads:
  - the workload controller, which moves `status.replicas` toward `spec.replicas`;
  - users, who edit `spec.replicas` on the target and the WPA's spec;
  - the informer cache, which catches up with the API server some time after a status write.
- Only `LastScaleTime` survives from one reconcile to the next, and it is stored in the WPA status. The cooldowns depend on it.

Operations that change state:
- the scale update (C 360);
- the status update (C 365 and C 383);
- requeueing (C 221-251): every path through `reconcileWPA` requeues, and the invalid-spec exit does not unless its status write failed;
- the watch predicate (C 146-157), which enqueues the WPA on a spec change but not on a status change.

The hard behaviours come from the split between the two writes:
- the scale can be written while the status update fails;
- the WPA can be read from a stale cache;
- retries come after 1 s;
- metrics can disagree with each other;
- pods can be unready;
- arithmetic at the boundaries (0, `MinReplicas = 0`, limits).

## 2. Modules

| Module | Models | State / operators |
|---|---|---|
| `ReplicaCalculator` | Replica calculator and watermark evaluator | Pure operators: `getReplicaCount`, `GetExternalMetricReplicas`, `GetResourceReplicas`. The float arithmetic is done exactly over the rationals, with tolerance in percent. A division by zero gives +Inf (sum > 0) or NaN (sum = 0). The conversion `int32(math.Ceil(+Inf))` is the constant `Int32OfPosInf`. Go leaves it to the platform; amd64 gives MinInt32. |
| `WatermarkPodAutoscaler` | Driver, work queue, aggregator, normalizer, cooldown gate, status, requeue fairness | Variables and actions listed below. |
| `ReadinessFilter` | Readiness filter, pod by pod | `pods` (phase, Ready condition, StartTime set, transition within the readiness delay), `sampled`, `resource`. The operators `getReadyPodsCount`, `groupPods` and `removeMetricsForPods` give the pods each calculator divides by. These are compared with the rules of spec §4.1 for pods of the target, of other namespaces (`OtherPods`) and outside the pod list (`StrayPods`). |
| `StatusConditions` | `setCondition` / `setConditionInList` and every call site, the invalid-spec exit's included | `conditions` as stored, and `now`. |
| `AutoscalerAbstract` | What the autoscaler promises, not code | `replicas`, `current`, `lastScale`, `clock`. A rescale is one atomic step: it forces the size into bounds, or it moves within bounds, rate band and cooldown. |
| `MC_WatermarkPodAutoscaler` | Model values | The metric lists: one resource metric and one external metric with watermarks 20/40, or the resource metric alone. The sample sums: {0, 50, 150}. MinInt32 for amd64. |

`WatermarkPodAutoscaler` variables:
- `now`: the wall clock in seconds.
- `scale = [spec, status]`: the target's replica counts.
- `wpa`: the persisted status, reduced to `lastScaleTime`.
- `cache` and `cacheFresh`: the informer's copy of the status, and whether it is up to date.
- `pc`: the phase of the one reconcile in flight. The phases are `Idle`, `UpdateScale` and `UpdateStatus`.
- `rec`: the locals of `reconcileWPA`: the values read (including the scale as read, `read`) and decided.
- `lastWrite`: a history variable holding the time of the last scale write.
- `loadHigh`: the environment's load. Once it rises it stays above every high mark, and readings are then restricted to those the calculator finds above the high mark.
- `spec = [defaulted, valid]`: the WPA's spec as the API server holds it. `defaulted` is `IsDefaultWatermarkPodAutoscaler`, `valid` is `CheckWPAValidity` (both are outside `src/`).
- `cachedSpec`: the spec as the informer cache holds it; `Reconcile` decides on this copy.
- `answering`: the environment's set of the target's RESTMappings whose `Scales().Get` currently succeeds.
- `queued`: whether the work queue holds the WPA's key. The queue is dirty while a reconcile runs, and it never hands the key to two workers at once.

Each reconcile path is one action.

| Action | Code |
|---|---|
| `ReconcileDefaults` | C 211-220: a cached spec that lacks defaults is `Update`d with them. On success the key is requeued (`Requeue: true`); on a conflict the error requeues it. Either way nothing else happens. |
| `ReconcileTargetError` | C 262-279: `getScaleForResourceMappings` found no scale. `reconcileWPA` returns the error and the key is requeued after 1 s, a step that changes nothing. |
| `ReconcileInvalidSpec` | C 221-235: the `FailedSpecCheck` exit, which only writes the status |
| `ReconcileDisabled` | the `spec.replicas == 0` exit |
| `ReconcileOutOfBounds` | the forced rescale outside `[min, max]` or at 0 |
| `ReconcileMetricsError` | a metric error, so only `CurrentReplicas` is refreshed |
| `ReconcileMetrics` | the whole proposal → normalize → `shouldScale` → DryRun/rescale decision, through `Conclude` |
| `ScaleUpdateSucceeds` / `ScaleUpdateFails` | C 358-375. The update succeeds only if the scale still equals the one read; otherwise it is a resourceVersion conflict. |
| `StatusUnchanged` / `StatusUpdateSucceeds` / `StatusUpdateFails` | `updateStatusIfNeeded` and the result `Reconcile` returns (`Requeues`). An update is refused when the WPA was read from a stale cache, or when the spec was edited while the reconcile ran; this is the resourceVersion conflict. |

Every reconcile action starts with `Dequeue`: the key is queued and no reconcile of it is in flight. The reconcileWPA paths also require `ScaleResolvable`: `getScaleForResourceMappings` (C 391-408) is a `FoldLeft` of `TryMapping` over `ScaleMappings`, which stops at the first mapping that answers, collects the errors of the others, and adds "scale not found" when none answers. `ScaleRead` is the test of C 276.

The environment actions are:
- `Tick`;
- `WorkloadConverges`;
- `UserScales(n)`, where n ranges over `UserReplicas`;
- `UserEditsSpec(s)`: the spec is edited into any of the four `SpecView`s. A reconcile in flight will meet a conflict on its status write. With a fresh cache the update event enqueues the key at once;
- `CacheSyncs`: the cache catches up, and the update event it delivers enqueues the key when the spec changed (`updatePredicate`, C 146-158). A status change alone enqueues nothing;
- `MappingsChange(works)`: the set of answering mappings changes (only with `MappingsMayFail`);
- `LoadRises`: the load rises for good (only with `SustainedLoad`);
- `ClockSlides`: past `MaxTime` (only with `SlidingClock`), a second passes by moving every stored timestamp one second back, with a floor of 0, while `now` stays at `MaxTime`. A decision depends only on `now - t`, and differences beyond the longest window plus the metric lag decide nothing (an `ASSUME`). So this keeps the state space finite without stopping time.

Data abstraction:
- A metric reading is a record `[fetched, ready, sum, lag, stray]`.
  - `ready` ranges over 0 to the matching pods. For external metrics, these include `ForeignPods` from other namespaces.
  - `stray` says that samples of pods outside the target's pod list survived `removeMetricsForPods`. It is enabled by `StrayMetrics`, for resource metrics only.
- Whether the reported status fields changed is left as a free choice. So a status write may happen even when `lastScaleTime` is equal.
- Conditions are modelled on their own in `StatusConditions`, because no decision of the driver reads them. Each reconcile path is the sequence of `setCondition` calls it makes, in code order. The calls are folded over the stored list with `setConditionInList`. Which path is taken, and whether each forbidden window is open, is a free choice. Events and gauges are left out.

**Refinement.** `ImplementsAutoscaler` instantiates `AutoscalerAbstract` with this mapping:
- `replicas ← scale.spec`;
- `current ← scale.status`;
- `clock ← now`;
- `lastScale ← lastScaleBar`. This is the `LastScaleTime` the reconcile will store while it is in `UpdateStatus`, and the stored one otherwise.

The scale write is the abstract `Rescale`. Every other step is a stutter or an environment step.

## 3. Runs

All runs use one resource and one external metric, `MinReplicas = 1`,
`MaxReplicas = 3`, limit factors of 50 %, an upscale window of 1 s, a downscale
window of 2 s, tolerance 10 %, the `average` algorithm, an initial 2 replicas,
users setting 0 or 4, and `MaxTime = 4`. Exceptions are noted in the table.

These bounds are enough to reach every case:
- every branch of `convertDesiredReplicasWithRules`, including the scale-up limit (2 → 3), the scale-down limit (3 → 2) and the clamps (4 → 3, 0 → disabled);
- usage below, inside and above the band for 1–3 ready pods;
- both windows expiring and not expiring within 4 s.

| Run | cfg | Expect | Checks | Shows |
|---|---|---|---|---|
| faults | `WPA_faults.cfg` (`SpecMayBeInvalid`, `MaxTime = 3`) | pass (≈2.66M states, 95 s) | `TypeOK`, `ReconcileNeverLost`, `WriteWithinBounds`, `RateLimitRespected`, `NoDownscaleWhileResourceAboveHigh` | The three write properties hold with failing scale and status writes, a lagging cache and user edits: every write is in `[max(min,1), max]`, within the rate limit, and never a downscale while a resource metric is above its high mark. Across spec edits that drop defaults or make the spec invalid and valid again, a valid WPA always has a reconcile queued or running, or a spec change on its way from the lagging cache, whose update event will enqueue it. |
| cooldown | `WPA_cooldown.cfg` (`MappingsMayFail`, two mappings; ≈94K states) | pass | `LastScaleTimeOnlyOnWrite`, `ScaleLookupFirstMappingWins`, `CooldownRespected`, `ImplementsAutoscaler` | With reliable status writes and a fresh cache, the forbidden windows hold on the wall clock. The two-phase reconcile also implements the atomic abstract autoscaler. While mappings stop and start answering, the lookup finds a scale exactly when some mapping answers, through the first one that does, for every order of up to three mappings (the reference is `SelectInSeq`). |
| liveness | `WPA_liveness.cfg` | pass (`FairSpec`, `MaxTime = 2` with the sliding clock, no metric lag, users set 4, `SustainedLoad`; ≈74K states) | `BoundsEventuallyRestored`, `ScaledUpUnderLoad` | With failing writes and a lagging cache, a `spec.replicas` that a user set outside the bounds is eventually brought back. A load that stays above every high mark eventually takes `spec.replicas` to `MaxReplicas`, through cooldowns, conflicts and failed status writes (or to 0, when a user disables autoscaling). |
| conditions | `Conditions.cfg` (`StatusConditions`) | pass | `CTypeOK`, `UniqueConditionTypes` | However reconcile paths follow each other, the stored status has at most one condition of each type. |
| cooldown_status_failure | `WPA_cooldown_status_failure.cfg` | violation | `CooldownRespected` | The scale is written, then the status update fails, so `LastScaleTime` is lost. The retry 1 s later rescales again inside the 2 s window. |
| cooldown_stale_cache | `WPA_cooldown_stale_cache.cfg` | violation | `CooldownRespected` | A reconcile reads the cached WPA, which lacks the new `LastScaleTime`, and rescales inside the window. The model's requeue is untimed; in the code this needs an informer lag longer than the requeue delay, which is rare but possible. |
| rate_limit_min_zero | `WPA_rate_limit_min_zero.cfg` | violation | `RateLimitRespected` | With `MinReplicas = 0`, 3 replicas are written down to 1 in one step, although the down limit is 2. |
| dead_band | `WPA_dead_band.cfg` (external metric only) | violation | `DeadBandHolds` | A user scales the target up; with 3 pods of which 2 are ready, the external metric is inside its band, yet the controller writes 2 replicas. The cause is that the ready count is used as the base (R 105). The property asks that an in-band decision does not change the size, so the unchanged-size write of C 412 does not count. |
| dry_run_last_scale_time | `WPA_dry_run_last_scale_time.cfg` | violation | `LastScaleTimeOnlyOnWrite` | In DryRun mode, `setStatus(..., rescale=true)` records a `LastScaleTime` without any write. |
| spec_lag | `WPA_spec_lag.cfg` (`MaxReplicas = 4`, up limit 100 %) | violation | `SpecNotLoweredInDownscaleWindow` | After 2 → 4 whose pods are not up yet, a decision 1 s later that counts as an upscale from 2 lowers `spec.replicas` 4 → 3. |
| readiness | `Readiness.cfg` (`ReadinessFilter`; one target pod, one pod of another namespace, one stray sample) | violation | `DivisorPodsAreReady` | A pod of another namespace, Pending within the readiness delay, is counted by `getReadyPodsCount(NamespaceAll)` and divides an external metric (R 63). With `OtherPods = {}` the same property fails another way: a memory metric is averaged over a Running pod that is unready and was never ready, because `groupPods` ignores such pods for CPU only (R 264). |
| stray_metrics_inf | `WPA_stray_metrics_inf.cfg` (resource metric only, `StrayMetrics`) | violation | `NoDownscaleWhileResourceAboveHigh` | No pod is ready but stray samples remain. The usage is +Inf, the proposal is MinInt32, and the controller downscales 2 → 1. |

Every property of a passing run has a mutant in `PROJECT.json`. Each mutant is
a plausible bug in the mapped operator that TLC detects:
- the wrong max rule;
- a reconcileWPA error returned without `RequeueAfter`;
- a lookup loop that does not `break` at the first answering mapping;
- an off-by-one in the up limit, in the down limit or in `shouldScale`;
- `LastScaleTime` recorded on a failed update;
- a scale update that does not send the new size;
- `setConditionInList` that appends without searching, or drops the status.

The max rule mutant breaks both `NoDownscaleWhileResourceAboveHigh` and `ScaledUpUnderLoad`: when the last metric wins, a high resource metric can be overridden for good.

**Fairness** (`FairSpec`, used only by the liveness run):
- `WF` of starting a reconcile. The work queue hands out every queued key, and the controller requeues every WPA every 15 s (`resRepeat`) and after 1 s on error.
- `WF` of finishing the call in flight. Every API call returns, with success or error.
- `SF` of a successful scale update. Conflicts and API errors are transient, so the update that keeps being retried eventually succeeds.
- `WF` of the workload converging and of the cache syncing. Both are other controllers that keep running.

- `WF` of time passing (`Tick`, or `ClockSlides` past `MaxTime`). The wall clock never stops.

Users and the load get no fairness. They need not act, and a user who keeps
moving the size out of bounds would defeat any progress property. The liveness
run keeps `SpecMayBeInvalid` off: an invalid spec stops autoscaling by design.

## 4. Findings

The violation runs above are the findings, detailed in `PROJECT.json`:
- The dead band is broken for external metrics when pods are unready.
- The cooldown is broken by a partial failure and by a stale cache read.
- The rate limit is skipped when `MinReplicas = 0`.
- In DryRun mode, `LastScaleTime` is recorded without a write (against spec section 3; section 9, which makes a dry run behave like a real one but for the write, pulls the other way).
- The cooldown is measured against `status.replicas` but overwrites `spec.replicas`, so the requested size can drop inside the downscale window (C 359).
- Division by zero with stray samples, followed by `int32(+Inf)`, turns unbounded load into a downscale (R 171, R 188).
- External metrics count ready pods across all namespaces (R 63). For memory, pods that are unready and were never ready are averaged, because the CPU-only rule applies (R 264).

Five more behaviours were met while modelling. They are listed as hazards in
`PROJECT.json` and not run as violations:
- The forced bounds path (C 305) rewrites the scale at every reconcile, with no cooldown. The abstract spec allows this, because enforcing the bounds is meant to override the cooldown.
- While `LastScaleTime` is nil, `shouldScale` returns true before the D = N test (C 412). So the first metric-driven reconcile writes the unchanged size and starts the windows. The abstract spec allows this only before the first scale.
- `AbleToScale` is set True, then possibly False by `shouldScale`, then True again within one reconcile (C 286). Each flip stamps `lastTransitionTime`, so the stored time moves while the stored status does not. The spec says the time changes only when the status does.
- A target that cannot be found is retried every second (C 248, `RequeueAfter` on every reconcileWPA error); the spec (§7) says a missing target is not requeued. The model follows the code (`ReconcileTargetError`).
- When the scale cannot be read, `reconcileWPA` returns before any status write, so the `AbleToScale` False condition the spec describes for a failed scale get is never persisted.

## 5. Not modelled

| Part | Reason |
|---|---|
| Reasons and messages of conditions, events | Reported only. |
| Prometheus gauges and `cleanupAssociatedMetrics` | Observability only. |
| Controller wiring (`newReconciler`, `add`, `initializePodInformer`) | Bootstrap I/O. |
| Defaulting and validation | Not under `src/`. Each is reduced to one flag of `spec`; the `Update` and the exits that use them are modelled. |
| The finalizer and the deleted-WPA exit (C 196-209) | `handleFinalizer` is not under `src/`. Deleting the WPA ends its reconciles, which no property is about. |
| `ParseGroupVersion` and `RESTMappings` errors (C 263-273) | Both depend only on the spec, and end like `ReconcileTargetError`. |
| `go.mod` (`src/unnamed/part_000`) | Not code. |
| Float rounding and int32 overflow of finite proposals | IEEE doubles are beyond TLC's integers; listed as hazards. |

## 6. Plan, in order of importance

1. **Edge runs.** A driver run with `ForeignPods > 0` end to end, and int32 conversion of large finite proposals.
2. **Conditions against decisions.** Compose `StatusConditions` with the driver, so that `AbleToScale` and `ScalingLimited` are checked against the decision actually taken.
3. **Transition times.** With a run slot free, a violation run of the `lastTransitionTime` flicker against the spec's rule.
