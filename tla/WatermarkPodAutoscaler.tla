----------------------- MODULE WatermarkPodAutoscaler -----------------------
(***************************************************************************)
(* The reconcile loop of watermarkpodautoscaler_controller.go for one WPA  *)
(* object, together with the environment it talks to:                      *)
(*   - the target's scale subresource (spec.replicas written by the        *)
(*     controller or a user, status.replicas following it);                *)
(*   - the WPA status stored by the API server and the informer cache the  *)
(*     controller reads it from (client.Get reads the cache);              *)
(*   - the metrics clients, whose readings are chosen at each reconcile;   *)
(*   - the wall clock, in whole seconds.                                   *)
(* The work queue runs at most one reconcile per key, so one reconcile is  *)
(* in flight at a time; it is split at its I/O calls into the phases       *)
(* Idle -> (UpdateScale) -> UpdateStatus -> Idle.                          *)
(***************************************************************************)
EXTENDS Integers, Sequences, SequencesExt

CONSTANTS
  MinReplicas,            \* *wpa.Spec.MinReplicas (defaulted, so never nil)
  MaxReplicas,            \* wpa.Spec.MaxReplicas
  ScaleUpLimitFactor,     \* wpa.Spec.ScaleUpLimitFactor, percent
  ScaleDownLimitFactor,   \* wpa.Spec.ScaleDownLimitFactor, percent
  UpscaleForbiddenWindowSeconds,
  DownscaleForbiddenWindowSeconds,
  DryRun,                 \* wpa.Spec.DryRun
  TolerancePct,
  Algorithm,
  Metrics,                \* wpa.Spec.Metrics: <<[type, low, high], ...>>
  Samples,                \* possible sums of a metric's samples (milli-units)
  MetricLag,              \* possible ages of a metric timestamp, seconds
  ForeignPods,            \* pods of other namespaces matching the selector
  StrayMetrics,           \* resource samples may come from pods outside the pod list
  Int32OfPosInf,          \* int32(+Inf) on the build's architecture
  InitReplicas,           \* replica counts the target may start with
  UserReplicas,           \* values a user may write to spec.replicas
  MaxTime,                \* bound of the clock
  StatusWriteMayFail,     \* the status update may fail transiently
  CacheMayLag,            \* the informer cache may serve an old WPA
  NoTime,                 \* model value: LastScaleTime is nil
  NoWrite,                \* model value: the controller never wrote the scale
  SustainedLoad,          \* the load on the target may rise above every high mark for good
  SlidingClock,           \* past MaxTime, time passes by moving every timestamp back
  SpecMayBeInvalid,       \* a user may edit the spec, into one that lacks defaults or is invalid
  ScaleMappings,          \* r.restMapper.RESTMappings(targetGK), in order
  NoMapping,              \* model value: the zero GroupResource
  MappingsMayFail         \* the Get through a mapping may fail (API errors, a missing target)

ASSUME MinReplicas \in Nat /\ MaxReplicas \in Nat \ {0} /\ MinReplicas <= MaxReplicas
ASSUME ScaleUpLimitFactor \in Nat /\ ScaleDownLimitFactor \in 0..100
ASSUME UpscaleForbiddenWindowSeconds \in Nat /\ DownscaleForbiddenWindowSeconds \in Nat
ASSUME DryRun \in BOOLEAN /\ StatusWriteMayFail \in BOOLEAN /\ CacheMayLag \in BOOLEAN
ASSUME Len(Metrics) > 0 /\
       \A i \in DOMAIN Metrics : Metrics[i].type \in {"external", "resource"}
                                 /\ 0 <= Metrics[i].low /\ Metrics[i].low < Metrics[i].high
ASSUME Samples \subseteq Nat /\ MetricLag \subseteq Nat /\ ForeignPods \in Nat
ASSUME StrayMetrics \in BOOLEAN
ASSUME InitReplicas \subseteq Nat /\ UserReplicas \subseteq Nat /\ MaxTime \in Nat
ASSUME NoMapping \notin Range(ScaleMappings) /\ MappingsMayFail \in BOOLEAN
ASSUME SustainedLoad \in BOOLEAN /\ SlidingClock \in BOOLEAN /\ SpecMayBeInvalid \in BOOLEAN
\* A timestamp MaxTime - 0 or older is as old as any older one for shouldScale.
ASSUME SlidingClock =>
         MaxTime >= Max({UpscaleForbiddenWindowSeconds, DownscaleForbiddenWindowSeconds})
                    + Max(MetricLag)

RC == INSTANCE ReplicaCalculator

VARIABLES
  now,          \* wall clock, seconds
  scale,        \* [spec, status]: the target's scale subresource
  wpa,          \* WPA status stored by the API server
  cache,        \* WPA status as the informer cache holds it
  cacheFresh,   \* the cache holds the API server's latest version
  pc,           \* phase of the reconcile in flight
  rec,          \* locals of the reconcile in flight
  lastWrite,    \* history: time of the controller's latest scale write
  loadHigh,     \* environment: every metric reads above its high mark
  spec,         \* the WPA spec as the API server holds it, reduced to
                \* [defaulted, valid]: IsDefaultWatermarkPodAutoscaler, CheckWPAValidity
  cachedSpec,   \* the spec as the informer cache holds it
  queued,       \* the work queue holds the WPA's key (dirty)
  answering     \* environment: the mappings whose Scales().Get succeeds

vars == <<now, scale, wpa, cache, cacheFresh, pc, rec, lastWrite, loadHigh, spec, cachedSpec,
          queued, answering>>

(***************************************************************************)
(* The WPA status as far as the decision reads it back: LastScaleTime.     *)
(* CurrentReplicas, DesiredReplicas, CurrentMetrics and Conditions are     *)
(* only reported; whether a reconcile changed them is a free choice at the *)
(* status write (it decides whether updateStatusIfNeeded writes at all).   *)
(***************************************************************************)
Status == [lastScaleTime : 0..MaxTime \cup {NoTime}]
Driver == {"disabled", "bounds", "metrics", "error", "invalid"}

-----------------------------------------------------------------------------
(* Normalizer and cooldown gate (controller.go).                           *)

\* calculateScaleUpLimit: TO how much we may upscale, not BY how much.
\* Mutant: the limit counted one past "TO how much" (off by one).
calculateScaleUpLimitMutant(currentReplicas) ==
  currentReplicas + Max({1, (ScaleUpLimitFactor * currentReplicas) \div 100}) + 1

calculateScaleUpLimit(currentReplicas) ==
  currentReplicas + Max({1, (ScaleUpLimitFactor * currentReplicas) \div 100})

\* Mutant: the scale-down limit taken one replica further down.
calculateScaleDownLimitMutant(currentReplicas) ==
  currentReplicas - Max({1, (ScaleDownLimitFactor * currentReplicas) \div 100}) - 1

calculateScaleDownLimit(currentReplicas) ==
  currentReplicas - Max({1, (ScaleDownLimitFactor * currentReplicas) \div 100})

(***************************************************************************)
(* convertDesiredReplicasWithRules: the lower bound is 1 when MinReplicas  *)
(* is 0 (and then the scale-down limit is not consulted), else the         *)
(* scale-down limit (floored by MinReplicas) or MinReplicas; the upper     *)
(* bound is the scale-up limit (capped by MaxReplicas) or MaxReplicas.     *)
(***************************************************************************)
\* Mutant: the scale-up limit is not capped by MaxReplicas.
convertDesiredReplicasWithRulesMutant(currentReplicas, desiredReplicas) ==
  LET scaleDownLimit == calculateScaleDownLimit(currentReplicas)
      scaleUpLimit   == calculateScaleUpLimit(currentReplicas)
      minimumAllowedReplicas ==
        CASE MinReplicas = 0 -> 1
          [] desiredReplicas < scaleDownLimit -> Max({scaleDownLimit, MinReplicas})
          [] OTHER -> MinReplicas
      maximumAllowedReplicas ==
        IF desiredReplicas > scaleUpLimit THEN scaleUpLimit ELSE MaxReplicas
  IN CASE desiredReplicas < minimumAllowedReplicas -> minimumAllowedReplicas
       [] desiredReplicas > maximumAllowedReplicas -> maximumAllowedReplicas
       [] OTHER -> desiredReplicas

convertDesiredReplicasWithRules(currentReplicas, desiredReplicas) ==
  LET scaleDownLimit == calculateScaleDownLimit(currentReplicas)
      scaleUpLimit   == calculateScaleUpLimit(currentReplicas)
      minimumAllowedReplicas ==
        CASE MinReplicas = 0 -> 1
          [] desiredReplicas < scaleDownLimit -> Max({scaleDownLimit, MinReplicas})
          [] OTHER -> MinReplicas
      maximumAllowedReplicas ==
        IF desiredReplicas > scaleUpLimit
        THEN Min({scaleUpLimit, MaxReplicas}) ELSE MaxReplicas
  IN CASE desiredReplicas < minimumAllowedReplicas -> minimumAllowedReplicas
       [] desiredReplicas > maximumAllowedReplicas -> maximumAllowedReplicas
       [] OTHER -> desiredReplicas

normalizeDesiredReplicas(currentReplicas, desiredReplicas) ==
  convertDesiredReplicasWithRules(currentReplicas, desiredReplicas)

\* canScale: never when nothing changes; else only in a direction not backing off.
canScale(backoffUp, backoffDown, currentReplicas, desiredReplicas) ==
  /\ desiredReplicas # currentReplicas
  /\ \/ ~backoffUp /\ desiredReplicas > currentReplicas
     \/ ~backoffDown /\ desiredReplicas < currentReplicas

shouldScale(lastScaleTime, currentReplicas, desiredReplicas, timestamp) ==
  \/ lastScaleTime = NoTime
  \/ /\ lastScaleTime # NoTime
     /\ canScale(lastScaleTime + UpscaleForbiddenWindowSeconds - timestamp > 0,
                 lastScaleTime + DownscaleForbiddenWindowSeconds - timestamp > 0,
                 currentReplicas, desiredReplicas)

-----------------------------------------------------------------------------
(* Metric aggregation (computeReplicasForMetrics).                         *)

\* The readings the metric clients and the pod lister may return for
\* metric m while the target has statusReplicas replicas.
Readings(m, statusReplicas) ==
  LET podsMatching == IF m.type = "external"
                      THEN statusReplicas + ForeignPods ELSE statusReplicas
      stray == IF m.type = "resource" /\ StrayMetrics THEN BOOLEAN ELSE {FALSE}
  IN [fetched : {FALSE}, ready : {0}, sum : {0}, lag : {0}, stray : {FALSE}]
     \cup [fetched : {TRUE}, ready : 0..podsMatching, sum : Samples, lag : MetricLag,
           stray : stray]

MetricOutcome(m, rd, statusReplicas) ==
  IF m.type = "external" THEN RC!GetExternalMetricReplicas(rd, m, now)
  ELSE RC!GetResourceReplicas(rd, m, statusReplicas, now)

\* Under a high load only readings the calculator finds above the high mark.
ReadingChoices(statusReplicas) ==
  {r \in [DOMAIN Metrics -> UNION {Readings(Metrics[i], statusReplicas) : i \in DOMAIN Metrics}] :
     \A i \in DOMAIN Metrics :
       /\ r[i] \in Readings(Metrics[i], statusReplicas)
       /\ loadHigh => MetricOutcome(Metrics[i], r[i], statusReplicas).aboveHigh}

\* One step of the loop over wpa.Spec.Metrics: the first error aborts, and
\* the proposal is replaced when none is held yet or the new one is larger.
\* Mutant: the last metric's proposal wins instead of the largest.
TakeProposalMutant(acc, o) ==
  CASE ~acc.ok -> acc
    [] ~o.ok -> RC!Failed
    [] OTHER -> [acc EXCEPT !.replicas = o.replicas, !.ts = o.ts]

TakeProposal(acc, o) ==
  CASE ~acc.ok -> acc
    [] ~o.ok -> RC!Failed
    [] acc.replicas = 0 \/ o.replicas > acc.replicas -> [acc EXCEPT !.replicas = o.replicas, !.ts = o.ts]
    [] OTHER -> acc

computeReplicasForMetrics(outcomes) ==
  FoldLeft(TakeProposal, RC!Outcome(TRUE, 0, 0, FALSE, FALSE), outcomes)

-----------------------------------------------------------------------------
(* Status handling.                                                        *)

\* setStatus: LastScaleTime becomes time.Now() when rescale is set, and is
\* otherwise carried over from the status read.
\* Mutant: LastScaleTime recorded one second early.
setStatusMutant(orig, rescale) ==
  [lastScaleTime |-> IF rescale THEN now - 1 ELSE orig.lastScaleTime]

setStatus(orig, rescale) ==
  [lastScaleTime |-> IF rescale THEN now ELSE orig.lastScaleTime]

\* setCurrentReplicasInStatus: only the reported replica count changes.
setCurrentReplicasInStatus(orig) == setStatus(orig, FALSE)

EmptyStatus == [lastScaleTime |-> NoTime]

\* The locals of reconcileWPA do not outlive the call.
NoRec == [cur |-> 0, desired |-> 0, driver |-> "disabled", resAboveHigh |-> FALSE,
          allInBand |-> FALSE, orig |-> EmptyStatus, status |-> EmptyStatus, fresh |-> TRUE,
          read |-> [spec |-> 0, status |-> 0]]

Rec(cur, desired, driver, resAboveHigh, allInBand, status) ==
  [cur |-> cur, desired |-> desired, driver |-> driver, resAboveHigh |-> resAboveHigh,
   allInBand |-> allInBand, orig |-> cache, status |-> status, fresh |-> cacheFresh,
   read |-> scale]

-----------------------------------------------------------------------------
(* reconcileWPA: the decision, taken on the cached WPA and a fresh scale.  *)

\* After the decision: rescale goes to the scale update, or in DryRun
\* straight to the status with LastScaleTime set; no rescale keeps
\* desiredReplicas = currentReplicas.
Conclude(cur, desired, rescale, driver, resAboveHigh, allInBand) ==
  CASE rescale /\ ~DryRun ->
         /\ pc' = "UpdateScale"
         /\ rec' = Rec(cur, desired, driver, resAboveHigh, allInBand, cache)
    [] rescale /\ DryRun ->
         /\ pc' = "UpdateStatus"
         /\ rec' = Rec(cur, desired, driver, resAboveHigh, allInBand,
                       setStatus(cache, TRUE))
    [] OTHER ->
         /\ pc' = "UpdateStatus"
         /\ rec' = Rec(cur, cur, driver, resAboveHigh, allInBand,
                       setStatus(cache, FALSE))

(***************************************************************************)
(* getScaleForResourceMappings: the RESTMappings are tried in order until  *)
(* a Scales().Get succeeds; targetGR is the mapping tried last, and every  *)
(* failed Get adds an error.  With no scale, "scale not found" is added.   *)
(* works: the mappings whose Get succeeds (answering, in the driver).     *)
(***************************************************************************)
\* Mutant: the loop does not break at the first scale it gets.
TryMappingMutant(works, acc, m) ==
  [found |-> m \in works, gr |-> m, errs |-> acc.errs + (IF m \in works THEN 0 ELSE 1)]

TryMapping(works, acc, m) ==
  IF acc.found THEN acc
  ELSE [found |-> m \in works, gr |-> m, errs |-> acc.errs + (IF m \in works THEN 0 ELSE 1)]

getScaleForResourceMappings(mappings, works) ==
  LET r == FoldLeft(LAMBDA acc, m : TryMapping(works, acc, m),
                    [found |-> FALSE, gr |-> NoMapping, errs |-> 0], mappings)
  IN [r EXCEPT !.errs = @ + (IF r.found THEN 0 ELSE 1)]

\* reconcileWPA returns when no scale came back (its error then always says
\* "not found"), and otherwise goes on, whatever errors earlier mappings gave.
ScaleRead(r) == ~(~r.found /\ r.errs > 0)

ScaleResolvable == ScaleRead(getScaleForResourceMappings(ScaleMappings, answering))

(***************************************************************************)
(* Reconcile: the work queue hands out the key when it is queued and no    *)
(* reconcile of it is running, and forgets the dirty mark.  The WPA is     *)
(* read from the cache.  A spec that lacks defaults is defaulted by an     *)
(* Update and requeued.  A spec that CheckWPAValidity rejects only gets    *)
(* the FailedSpecCheck condition written (updateStatusIfNeeded).  Any      *)
(* other spec goes to reconcileWPA.  The finalizer is not modelled.        *)
(***************************************************************************)
SpecView == [defaulted : BOOLEAN, valid : BOOLEAN]

Dequeue == pc = "Idle" /\ queued /\ queued' = FALSE

(* client.Update of the defaulted copy of the cached object: the cached    *)
(* resourceVersion makes it conflict when the cache is behind; any other   *)
(* error is possible too.  Success returns Requeue: true, and an error is  *)
(* requeued by the rate limiter, so the key stays queued either way.       *)
ReconcileDefaults ==
  /\ pc = "Idle" /\ queued /\ ~cachedSpec.defaulted
  /\ \/ /\ cacheFresh
        /\ spec' = [spec EXCEPT !.defaulted = TRUE]
        /\ cachedSpec' = IF CacheMayLag THEN cachedSpec ELSE spec'
        /\ cacheFresh' = ~CacheMayLag
     \/ UNCHANGED <<answering, spec, cachedSpec, cacheFresh>>
  /\ UNCHANGED <<answering, queued, loadHigh, now, scale, wpa, cache, pc, rec, lastWrite>>

ReconcileInvalidSpec ==
  /\ Dequeue /\ cachedSpec.defaulted /\ ~cachedSpec.valid
  /\ pc' = "UpdateStatus"
  /\ rec' = Rec(scale.status, scale.status, "invalid", FALSE, FALSE, cache)
  /\ UNCHANGED <<answering, spec, cachedSpec, loadHigh, now, scale, wpa, cache, cacheFresh, lastWrite>>

(* reconcileWPA returns an error before any status write when the target's *)
(* scale cannot be read; Reconcile sets AbleToScale in memory only and     *)
(* returns RequeueAfter one second, so the key is queued again.  The      *)
(* ParseGroupVersion and RESTMappings errors before it end the same way.   *)
ReconcileTargetError ==
  /\ pc = "Idle" /\ queued /\ cachedSpec.defaulted /\ cachedSpec.valid
  /\ ~ScaleResolvable
  /\ UNCHANGED vars

\* spec.replicas = 0: autoscaling is disabled for the target.
ReconcileDisabled ==
  /\ Dequeue /\ cachedSpec.defaulted /\ cachedSpec.valid /\ ScaleResolvable
  /\ scale.spec = 0
  /\ Conclude(scale.status, 0, FALSE, "disabled", FALSE, FALSE)
  /\ UNCHANGED <<answering, spec, cachedSpec, loadHigh, now, scale, wpa, cache, cacheFresh, lastWrite>>

\* status.replicas outside [MinReplicas, MaxReplicas] or 0: forced, no cooldown.
ReconcileOutOfBounds ==
  LET cur == scale.status IN
  /\ Dequeue /\ cachedSpec.defaulted /\ cachedSpec.valid /\ ScaleResolvable
  /\ scale.spec # 0
  /\ \/ cur > MaxReplicas
     \/ cur < MinReplicas
     \/ cur = 0
  /\ Conclude(cur, CASE cur > MaxReplicas -> MaxReplicas
                     [] cur < MinReplicas -> MinReplicas
                     [] OTHER -> 1,
              TRUE, "bounds", FALSE, FALSE)
  /\ UNCHANGED <<answering, spec, cachedSpec, loadHigh, now, scale, wpa, cache, cacheFresh, lastWrite>>

InRange(cur) == cur # 0 /\ MinReplicas <= cur /\ cur <= MaxReplicas

\* A metric fails: only currentReplicas is refreshed in the status.
ReconcileMetricsError ==
  LET cur == scale.status IN
  /\ Dequeue /\ cachedSpec.defaulted /\ cachedSpec.valid /\ ScaleResolvable
  /\ scale.spec # 0 /\ InRange(cur)
  /\ \E rds \in ReadingChoices(cur) :
       ~computeReplicasForMetrics([i \in DOMAIN Metrics |-> MetricOutcome(Metrics[i], rds[i], cur)]).ok
  /\ pc' = "UpdateStatus"
  /\ rec' = Rec(cur, cur, "error", FALSE, FALSE, setCurrentReplicasInStatus(cache))
  /\ UNCHANGED <<answering, spec, cachedSpec, loadHigh, now, scale, wpa, cache, cacheFresh, lastWrite>>

\* All metrics read: propose, normalize, and pass the cooldown gate on the
\* timestamp of the metric that won the proposal.
ReconcileMetrics ==
  LET cur == scale.status IN
  /\ Dequeue /\ cachedSpec.defaulted /\ cachedSpec.valid /\ ScaleResolvable
  /\ scale.spec # 0 /\ InRange(cur)
  /\ \E rds \in ReadingChoices(cur) :
       LET outcomes == [i \in DOMAIN Metrics |-> MetricOutcome(Metrics[i], rds[i], cur)]
           result   == computeReplicasForMetrics(outcomes)
           proposed == Max({result.replicas, 0})
           ts       == IF result.replicas > 0 THEN result.ts ELSE now
           desired  == normalizeDesiredReplicas(cur, proposed)
           resAboveHigh == \E i \in DOMAIN Metrics :
                             Metrics[i].type = "resource" /\ outcomes[i].aboveHigh
           allInBand == \A i \in DOMAIN Metrics : outcomes[i].inBand
       IN /\ result.ok
          /\ Conclude(cur, desired, shouldScale(cache.lastScaleTime, cur, desired, ts),
                      "metrics", resAboveHigh, allInBand)
  /\ UNCHANGED <<answering, spec, cachedSpec, loadHigh, now, scale, wpa, cache, cacheFresh, lastWrite>>

-----------------------------------------------------------------------------
(* The scale update and its failure (FailedRescale).  The update sends     *)
(* back the Scale object read at the start of reconcileWPA, whose          *)
(* resourceVersion makes the API server reject it (a conflict) when the    *)
(* target changed in between; any other error is also possible.           *)

\* Mutant: the Scale object is sent back without the new spec.replicas.
ScaleUpdateSucceedsMutant ==
  /\ pc = "UpdateScale"
  /\ scale = rec.read
  /\ scale' = [scale EXCEPT !.spec = rec.read.spec]
  /\ lastWrite' = now
  /\ rec' = [rec EXCEPT !.status = setStatus(rec.orig, TRUE)]
  /\ pc' = "UpdateStatus"
  /\ UNCHANGED <<answering, spec, cachedSpec, queued, loadHigh, now, wpa, cache, cacheFresh>>

ScaleUpdateSucceeds ==
  /\ pc = "UpdateScale"
  /\ scale = rec.read
  /\ scale' = [scale EXCEPT !.spec = rec.desired]
  /\ lastWrite' = now
  /\ rec' = [rec EXCEPT !.status = setStatus(rec.orig, TRUE)]
  /\ pc' = "UpdateStatus"
  /\ UNCHANGED <<answering, spec, cachedSpec, queued, loadHigh, now, wpa, cache, cacheFresh>>

\* Mutant: the failed update still records a rescale in the status.
ScaleUpdateFailsMutant ==
  /\ pc = "UpdateScale"
  /\ rec' = [rec EXCEPT !.status = setStatus(rec.orig, TRUE)]
  /\ pc' = "UpdateStatus"
  /\ UNCHANGED <<answering, spec, cachedSpec, queued, loadHigh, now, scale, wpa, cache, cacheFresh, lastWrite>>

ScaleUpdateFails ==
  /\ pc = "UpdateScale"
  /\ rec' = [rec EXCEPT !.status = setCurrentReplicasInStatus(rec.orig)]
  /\ pc' = "UpdateStatus"
  /\ UNCHANGED <<answering, spec, cachedSpec, queued, loadHigh, now, scale, wpa, cache, cacheFresh, lastWrite>>

(* updateStatusIfNeeded: no write when the status equals the one read;     *)
(* the write is rejected when the WPA was read from a stale cache.  A      *)
(* status with the same LastScaleTime may still differ in its reported     *)
(* fields, so it may be written as well.                                   *)

(***************************************************************************)
(* The result Reconcile returns: every path through reconcileWPA requeues  *)
(* (resRepeat after syncPeriod, or RequeueAfter one second on its error);  *)
(* the invalid-spec exit requeues only when its status write failed (the   *)
(* error goes to the rate-limited queue) and otherwise waits for the       *)
(* user's next spec edit.                                                  *)
(***************************************************************************)
\* Mutant: an error of reconcileWPA is returned as Result{} without RequeueAfter.
RequeuesMutant(failed) == rec.driver # "invalid" /\ ~failed

Requeues(failed) == rec.driver # "invalid" \/ failed

StatusUnchanged ==
  /\ pc = "UpdateStatus"
  /\ rec.status = rec.orig
  /\ pc' = "Idle"
  /\ rec' = NoRec
  /\ queued' = (queued \/ Requeues(FALSE))
  /\ UNCHANGED <<answering, spec, cachedSpec, loadHigh, now, scale, wpa, cache, cacheFresh, lastWrite>>

StatusUpdateSucceeds ==
  /\ pc = "UpdateStatus"
  /\ rec.fresh
  /\ wpa' = rec.status
  /\ cache' = IF CacheMayLag THEN cache ELSE rec.status
  /\ cacheFresh' = ~CacheMayLag
  /\ pc' = "Idle"
  /\ rec' = NoRec
  /\ queued' = (queued \/ Requeues(FALSE))
  /\ UNCHANGED <<answering, spec, cachedSpec, loadHigh, now, scale, lastWrite>>

StatusUpdateFails ==
  /\ pc = "UpdateStatus"
  /\ ~rec.fresh \/ StatusWriteMayFail
  /\ pc' = "Idle"
  /\ rec' = NoRec
  /\ queued' = (queued \/ Requeues(TRUE))
  /\ UNCHANGED <<answering, spec, cachedSpec, loadHigh, now, scale, wpa, cache, cacheFresh, lastWrite>>

-----------------------------------------------------------------------------
(* Environment.                                                            *)

Tick ==
  /\ now < MaxTime
  /\ now' = now + 1
  /\ UNCHANGED <<answering, spec, cachedSpec, queued, loadHigh, scale, wpa, cache, cacheFresh, pc, rec, lastWrite>>

\* The workload controller moves status.replicas one pod toward spec.replicas.
WorkloadConverges ==
  /\ scale.status # scale.spec
  /\ scale' = [scale EXCEPT !.status = IF scale.status < scale.spec THEN @ + 1 ELSE @ - 1]
  /\ UNCHANGED <<answering, spec, cachedSpec, queued, loadHigh, now, wpa, cache, cacheFresh, pc, rec, lastWrite>>

UserScales(n) ==
  /\ scale.spec # n
  /\ scale' = [scale EXCEPT !.spec = n]
  /\ UNCHANGED <<answering, spec, cachedSpec, queued, loadHigh, now, wpa, cache, cacheFresh, pc, rec, lastWrite>>

\* Past MaxTime a second passes by moving every stored timestamp one second
\* back (none earlier than 0) while the clock stays at MaxTime: only the
\* differences now - t enter a decision, and those beyond MaxTime do not
\* change one (see the ASSUME on SlidingClock).
Earlier(t) == IF t \in {NoTime, NoWrite} THEN t ELSE Max({t - 1, 0})

EarlierStatus(st) == [st EXCEPT !.lastScaleTime = Earlier(@)]

ClockSlides ==
  /\ SlidingClock
  /\ now = MaxTime
  /\ wpa' = EarlierStatus(wpa)
  /\ cache' = EarlierStatus(cache)
  /\ rec' = [rec EXCEPT !.orig = EarlierStatus(@), !.status = EarlierStatus(@)]
  /\ lastWrite' = Earlier(lastWrite)
  /\ UNCHANGED <<answering, spec, cachedSpec, queued, loadHigh, now, scale, cacheFresh, pc>>

\* The load on the target rises above every high mark and stays there.
LoadRises ==
  /\ SustainedLoad
  /\ ~loadHigh
  /\ loadHigh' = TRUE
  /\ UNCHANGED <<answering, spec, cachedSpec, queued, now, scale, wpa, cache, cacheFresh, pc, rec, lastWrite>>

(***************************************************************************)
(* A user edits the spec: it may lack defaults or be invalid.  The edit    *)
(* bumps the resourceVersion, so the status write of a reconcile in flight *)
(* now conflicts.  The informer delivers the update event once its cache   *)
(* holds the new spec; updatePredicate enqueues the key because the spec   *)
(* changed.  Status changes are filtered out.                              *)
(***************************************************************************)
UserEditsSpec(s) ==
  /\ SpecMayBeInvalid
  /\ spec' = s
  /\ rec' = IF pc = "Idle" THEN rec ELSE [rec EXCEPT !.fresh = FALSE]
  /\ IF CacheMayLag
     THEN /\ cacheFresh' = FALSE
          /\ UNCHANGED <<cachedSpec, queued>>
     ELSE /\ cachedSpec' = s
          /\ queued' = TRUE
          /\ UNCHANGED cacheFresh
  /\ UNCHANGED <<answering, loadHigh, now, scale, wpa, cache, pc, lastWrite>>

\* Which mappings answer a Scales().Get changes.
MappingsChange(works) ==
  /\ MappingsMayFail
  /\ answering' = works
  /\ UNCHANGED <<spec, cachedSpec, queued, loadHigh, now, scale, wpa, cache, cacheFresh, pc, rec, lastWrite>>

\* The informer catches up; a spec change passes updatePredicate.
CacheSyncs ==
  /\ ~cacheFresh
  /\ cache' = wpa
  /\ cachedSpec' = spec
  /\ queued' = (queued \/ cachedSpec # spec)
  /\ cacheFresh' = TRUE
  /\ UNCHANGED <<answering, spec, loadHigh, now, scale, wpa, pc, rec, lastWrite>>

-----------------------------------------------------------------------------
Init ==
  /\ now = 0
  /\ \E n \in InitReplicas : scale = [spec |-> n, status |-> n]
  /\ wpa = EmptyStatus
  /\ cache = EmptyStatus
  /\ cacheFresh = TRUE
  /\ pc = "Idle"
  /\ rec = NoRec
  /\ lastWrite = NoWrite
  /\ loadHigh = FALSE
  /\ spec = [defaulted |-> TRUE, valid |-> TRUE]
  /\ cachedSpec = spec
  /\ answering = Range(ScaleMappings)
  /\ queued = TRUE

Next ==
  \/ ReconcileDefaults
  \/ ReconcileTargetError
  \/ ReconcileInvalidSpec
  \/ ReconcileDisabled
  \/ ReconcileOutOfBounds
  \/ ReconcileMetricsError
  \/ ReconcileMetrics
  \/ ScaleUpdateSucceeds
  \/ ScaleUpdateFails
  \/ StatusUnchanged
  \/ StatusUpdateSucceeds
  \/ StatusUpdateFails
  \/ Tick
  \/ WorkloadConverges
  \/ \E n \in UserReplicas : UserScales(n)
  \/ \E s \in SpecView : UserEditsSpec(s)
  \/ \E works \in SUBSET Range(ScaleMappings) \ {answering} : MappingsChange(works)
  \/ CacheSyncs
  \/ ClockSlides
  \/ LoadRises

Spec == Init /\ [][Next]_vars

(***************************************************************************)
(* Fairness.  Every return of Reconcile requeues the key (resRepeat after  *)
(* syncPeriod, or RequeueAfter one second on error), so a reconcile that   *)
(* can start eventually does, and every API call of one in flight        *)
(* returns.  Scale-update failures and conflicts are transient, so   *)
(* an update that is attempted again and again eventually succeeds.  The   *)
(* workload controller eventually brings status.replicas to spec.replicas  *)
(* and the informer eventually catches up.  Time passes (with the sliding *)
(* clock, also past MaxTime).  Users and the load are left unfair.         *)
(***************************************************************************)
ReconcileStarts ==
  ReconcileDefaults \/ ReconcileInvalidSpec \/ ReconcileDisabled \/ ReconcileOutOfBounds \/ ReconcileMetricsError \/ ReconcileMetrics

\* Each API call of the reconcile in flight returns, with success or an error.
ReconcileProceeds ==
  \/ ScaleUpdateSucceeds \/ ScaleUpdateFails
  \/ StatusUnchanged \/ StatusUpdateSucceeds \/ StatusUpdateFails

Fairness ==
  /\ WF_vars(ReconcileStarts)
  /\ WF_vars(ReconcileProceeds)
  /\ SF_vars(ScaleUpdateSucceeds)
  /\ WF_vars(WorkloadConverges)
  /\ WF_vars(CacheSyncs)
  /\ WF_vars(Tick \/ ClockSlides)

FairSpec == Spec /\ Fairness
-----------------------------------------------------------------------------
(* Invariants and properties.                                              *)

TypeOK ==
  /\ now \in 0..MaxTime
  /\ scale \in [spec : Nat, status : Nat]
  /\ wpa \in Status /\ cache \in Status /\ cacheFresh \in BOOLEAN
  /\ pc \in {"Idle", "UpdateScale", "UpdateStatus"}
  /\ rec \in [cur : Nat, desired : Nat, driver : Driver, resAboveHigh : BOOLEAN,
              allInBand : BOOLEAN, orig : Status, status : Status, fresh : BOOLEAN,
              read : [spec : Nat, status : Nat]]
  /\ lastWrite \in {NoWrite} \cup 0..MaxTime
  /\ loadHigh \in BOOLEAN /\ spec \in SpecView /\ cachedSpec \in SpecView /\ queued \in BOOLEAN
  /\ answering \subseteq Range(ScaleMappings)

\* The step that writes spec.replicas, and the one deciding it from metrics.
Write == ScaleUpdateSucceeds
MetricWrite == ScaleUpdateSucceeds /\ rec.driver = "metrics"

(* Every replica count the controller writes to the target's scale, on     *)
(* any path of reconcileWPA (forced bounds or metrics), lies in            *)
(* [max(MinReplicas, 1), MaxReplicas]; in particular it never writes 0,    *)
(* which would disable autoscaling of the target for good.                 *)
WriteWithinBounds ==
  [][Write => rec.desired \in Max({MinReplicas, 1})..MaxReplicas]_vars

(* Spec section 8, rate-limit respect: a write decided from metrics moves  *)
(* the replica count from status.replicas N by at most                     *)
(* max(1, floor(f * N / 100)) in either direction (normalizeDesiredReplicas).*)
RateLimitRespected ==
  [][MetricWrite =>
       LET n == rec.cur IN
       rec.desired \in n - Max({1, (ScaleDownLimitFactor * n) \div 100})
                       ..n + Max({1, (ScaleUpLimitFactor * n) \div 100})]_vars

(* However the metrics disagree, while some resource metric is above its   *)
(* tolerance-adjusted high watermark the controller never writes fewer     *)
(* replicas than the target has: the max-over-metrics rule of              *)
(* computeReplicasForMetrics, normalization and the cooldown gate together.*)
NoDownscaleWhileResourceAboveHigh ==
  [][MetricWrite /\ rec.resAboveHigh => rec.desired >= rec.cur]_vars

(* Spec section 8, dead band: when every metric is inside its tolerance    *)
(* band, reconcileWPA does not change the target's size.  A write of the   *)
(* unchanged size, which shouldScale allows while LastScaleTime is nil     *)
(* (C 412), is not a change and is left to its own hazard.                 *)
DeadBandHolds ==
  [][MetricWrite /\ rec.allInBand => rec.desired = rec.cur]_vars

(* Whatever the order of spec edits, defaulting, failing status writes,   *)
(* a lagging informer and reconciles, a WPA whose spec is valid always has *)
(* a reconcile queued or in flight, or an update event still to come from  *)
(* the informer: no return of Reconcile leaves it waiting for an event     *)
(* that never comes.  updatePredicate drops the controller's own status    *)
(* writes, and only the invalid-spec exit relies on the user's next edit.  *)
ReconcileNeverLost ==
  spec.valid => queued \/ pc # "Idle" \/ cachedSpec # spec

(* Spec section 4.7, step 3: the target's scale is resolved through the    *)
(* candidate mappings, and the first one that works wins.  For every list  *)
(* of up to one more mapping than configured, whichever mappings answer    *)
(* now, getScaleForResourceMappings with reconcileWPA's                    *)
(* test yields a scale exactly when some mapping works.  The scale is      *)
(* then updated through the first working mapping's group-resource, even   *)
(* though earlier mappings left an error.                                  *)
ScaleLookupFirstMappingWins ==
  \A ms \in SeqOf(Range(ScaleMappings), Len(ScaleMappings) + 1) :
    LET r == getScaleForResourceMappings(ms, answering)
        i == SelectInSeq(ms, LAMBDA m : m \in answering)
    IN /\ ScaleRead(r) <=> i # 0
       /\ i # 0 => r.gr = ms[i]

(* Spec section 3: LastScaleTime is set only when the controller actually  *)
(* wrote spec.replicas, and never names a time after its latest write.     *)
LastScaleTimeOnlyOnWrite ==
  wpa.lastScaleTime # NoTime => lastWrite # NoWrite /\ wpa.lastScaleTime <= lastWrite

(* Spec section 8, cooldown: a scale write decided from metrics comes at   *)
(* least UpscaleForbiddenWindowSeconds after the previous write when it    *)
(* grows the target and DownscaleForbiddenWindowSeconds when it shrinks    *)
(* it, measured on the wall clock (shouldScale reads LastScaleTime back    *)
(* from the WPA status).                                                   *)
CooldownRespected ==
  [][MetricWrite /\ lastWrite # NoWrite =>
       now - lastWrite >= IF rec.desired > rec.cur
                          THEN UpscaleForbiddenWindowSeconds
                          ELSE DownscaleForbiddenWindowSeconds]_vars

(* A metric-driven write never lowers the target's spec.replicas within    *)
(* DownscaleForbiddenWindowSeconds of the previous write.  reconcileWPA    *)
(* classifies the move against status.replicas but overwrites              *)
(* spec.replicas, so while status still lags an earlier upscale a decision *)
(* the cooldown gate sees as an upscale shrinks the requested size.        *)
SpecNotLoweredInDownscaleWindow ==
  [][MetricWrite /\ lastWrite # NoWrite /\ rec.desired < scale.spec =>
       now - lastWrite >= DownscaleForbiddenWindowSeconds]_vars

(* A target whose spec.replicas is set (by a user or anyone) to a nonzero  *)
(* value outside [max(MinReplicas, 1), MaxReplicas] is eventually brought  *)
(* back inside, or disabled.  reconcileWPA only forces the bounds on        *)
(* status.replicas (its first switch cases), so this relies on the metrics *)
(* path, the workload following spec.replicas, and retries of a failed     *)
(* scale update.                                                           *)
SpecOutOfBounds ==
  scale.spec # 0 /\ scale.spec \notin Max({MinReplicas, 1})..MaxReplicas

BoundsEventuallyRestored ==
  SpecOutOfBounds ~> ~SpecOutOfBounds

(* Once the load stays above every high watermark, the target is          *)
(* eventually asked for MaxReplicas (or autoscaling is disabled by a user  *)
(* setting 0).  Each reconcile must propose more than status.replicas      *)
(* (the max over metrics of computeReplicasForMetrics), pass the upscale   *)
(* cooldown once time has passed, survive scale-update conflicts with the  *)
(* workload controller, and start again from the status it reached.        *)
ScaledUpUnderLoad ==
  loadHigh ~> scale.spec \in {0, MaxReplicas}

-----------------------------------------------------------------------------
(***************************************************************************)
(* Refinement.  The requested and running sizes are the scale's spec and  *)
(* status; the abstract time of the last scale is the LastScaleTime the    *)
(* next decision will read: the one the reconcile in flight is about to    *)
(* persist once it has reached its status update, the stored one before.  *)
(***************************************************************************)
lastScaleBar ==
  IF pc = "UpdateStatus" THEN rec.status.lastScaleTime ELSE wpa.lastScaleTime

Abstract == INSTANCE AutoscalerAbstract
              WITH replicas <- scale.spec, current <- scale.status,
                   lastScale <- lastScaleBar, clock <- now

(* The two-phase reconcile of reconcileWPA (decide on the cached WPA and   *)
(* the scale read, update the scale, then the status) implements the       *)
(* atomic autoscaler: every scale write is a forced move to the nearest    *)
(* bound or a rate-limited move past its forbidden window, and             *)
(* LastScaleTime changes only with such a write.                           *)
ImplementsAutoscaler == Abstract!ASpec
=============================================================================
