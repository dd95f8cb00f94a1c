\* Reconcile with reliable status writes and an up-to-date cache; also the refinement of the atomic autoscaler.
CONSTANTS
  MinReplicas = 1
  MaxReplicas = 3
  ScaleUpLimitFactor = 50
  ScaleDownLimitFactor = 50
  UpscaleForbiddenWindowSeconds = 1
  DownscaleForbiddenWindowSeconds = 2
  DryRun = FALSE
  TolerancePct = 10
  Algorithm = "average"
  Metrics <- MCMetrics
  Samples <- MCSamples
  MetricLag = {0, 1}
  ForeignPods = 0
  StrayMetrics = FALSE
  Int32OfPosInf <- MCInt32OfPosInfAmd64
  InitReplicas = {2}
  UserReplicas = {0, 4}
  MaxTime = 4
  StatusWriteMayFail = FALSE
  CacheMayLag = FALSE
  NoTime = NoTime
  NoWrite = NoWrite
  SustainedLoad = FALSE
  SlidingClock = FALSE
  SpecMayBeInvalid = FALSE
  ScaleMappings <- MCScaleMappings
  NoMapping = NoMapping
  MappingsMayFail = TRUE
  m1 = m1
  m2 = m2
SPECIFICATION Spec
INVARIANTS
  LastScaleTimeOnlyOnWrite
  ScaleLookupFirstMappingWins
PROPERTY  ImplementsAutoscaler
