--------------------- MODULE MC_WatermarkPodAutoscaler ---------------------
(* Model values for checking WatermarkPodAutoscaler with TLC.              *)
EXTENDS WatermarkPodAutoscaler

\* One resource metric and one external metric, both with watermarks
\* 20 / 40 (per pod when averaged).  With the samples below and 1..4 ready
\* pods the usage falls below, inside and above the band.
MCMetrics ==
  << [type |-> "resource", low |-> 20, high |-> 40],
     [type |-> "external", low |-> 20, high |-> 40] >>

\* A single resource metric.
MCResourceOnly == << [type |-> "resource", low |-> 20, high |-> 40] >>

\* A single external metric.
MCExternalOnly == << [type |-> "external", low |-> 20, high |-> 40] >>

MCSamples == {0, 50, 150}

\* Two RESTMappings for the target's group-kind (say apps/v1 and a legacy
\* group-version of the same kind).
CONSTANTS m1, m2
MCScaleMappings == <<m1, m2>>

\* int32(+Inf) as a linux/amd64 build computes it (CVTTSD2SL: MinInt32).
MCInt32OfPosInfAmd64 == -2147483647 - 1
=============================================================================
