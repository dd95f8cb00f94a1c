\* Liveness under the requeue fairness, with failing writes, a lagging cache,
\* a load that may rise for good, and time passing past MaxTime.
CONSTANTS
  MinReplicas = 1
  MaxReplicas = 3
  ScaleUpLimitFactor = 50
  ScaleDownLimitFactor = 50
  UpscaleForbiddenWindowSeconds = 1
  DownscaleForbiddenWindowSeconds = 2
  DryRun = FALSE
  TolerancePct = 10
  Algorithm = "average"
  Metrics <- MCMetrics
  Samples <- MCSamples
  MetricLag = {0}
  ForeignPods = 0
  StrayMetrics = FALSE
  Int32OfPosInf <- MCInt32OfPosInfAmd64
  InitReplicas = {2}
  UserReplicas = {4}
  MaxTime = 2
  StatusWriteMayFail = TRUE
  CacheMayLag = TRUE
  NoTime = NoTime
  NoWrite = NoWrite
  SustainedLoad = TRUE
  SlidingClock = TRUE
  SpecMayBeInvalid = FALSE
  ScaleMappings <- MCScaleMappings
  NoMapping = NoMapping
  MappingsMayFail = FALSE
  m1 = m1
  m2 = m2
SPECIFICATION FairSpec
PROPERTY BoundsEventuallyRestored ScaledUpUnderLoad
