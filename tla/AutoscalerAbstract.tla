------------------------- MODULE AutoscalerAbstract -------------------------
(***************************************************************************)
(* What a watermark autoscaler promises about one target, with no metrics, *)
(* no caches and no partial writes: a rescale is one atomic step that sets *)
(* the requested size and the time of the last scale together.            *)
(*   - Outside [MinReplicas, MaxReplicas] (or at 0) the target is forced   *)
(*     to the nearest bound, at any time.                                  *)
(*   - Inside, a rescale changes the size, stays within the bounds and the *)
(*     per-direction rate limit, and waits out the forbidden window of its *)
(*     direction since the last scale.                                     *)
(* A target never scaled may also be "rescaled" to its current size, as    *)
(* shouldScale allows any move when LastScaleTime is nil.                  *)
(* Users may set the requested size, and the workload follows it one pod   *)
(* at a time.                                                              *)
(***************************************************************************)
EXTENDS Integers, FiniteSetsExt

CONSTANTS
  MinReplicas, MaxReplicas,
  ScaleUpLimitFactor, ScaleDownLimitFactor,
  UpscaleForbiddenWindowSeconds, DownscaleForbiddenWindowSeconds,
  InitReplicas, UserReplicas, MaxTime,
  NoTime                   \* no scale has happened yet

VARIABLES
  replicas,     \* the size requested of the target
  current,      \* the size the target runs at
  lastScale,    \* the time of the last rescale, or NoTime
  clock

avars == <<replicas, current, lastScale, clock>>

Bounds == Max({MinReplicas, 1})..MaxReplicas

InBounds(c) == c # 0 /\ MinReplicas <= c /\ c <= MaxReplicas

\* The sizes a single rescale may move a target of c replicas to.
RateBand(c) ==
  c - Max({1, (ScaleDownLimitFactor * c) \div 100})
    .. c + Max({1, (ScaleUpLimitFactor * c) \div 100})

\* The forbidden window of the move from c to n has passed.
CooledDown(c, n) ==
  \/ lastScale = NoTime
  \/ /\ lastScale # NoTime
     /\ n > c => clock - lastScale >= UpscaleForbiddenWindowSeconds
     /\ n < c => clock - lastScale >= DownscaleForbiddenWindowSeconds

AInit ==
  /\ current \in InitReplicas
  /\ replicas = current
  /\ lastScale = NoTime
  /\ clock = 0

Rescale(n) ==
  /\ replicas # 0
  /\ n \in Bounds
  /\ \/ /\ ~InBounds(current)
        /\ n = IF current > MaxReplicas THEN MaxReplicas ELSE Max({MinReplicas, 1})
     \/ /\ InBounds(current)
        /\ n # current \/ lastScale = NoTime   \* never scaled: see the header
        /\ n \in RateBand(current)
        /\ CooledDown(current, n)
  /\ replicas' = n
  /\ lastScale' = clock
  /\ UNCHANGED <<current, clock>>

SetByUser(n) ==
  /\ replicas # n
  /\ replicas' = n
  /\ UNCHANGED <<current, lastScale, clock>>

Follow ==
  /\ current # replicas
  /\ current' = IF current < replicas THEN current + 1 ELSE current - 1
  /\ UNCHANGED <<replicas, lastScale, clock>>

Advance ==
  /\ clock < MaxTime
  /\ clock' = clock + 1
  /\ UNCHANGED <<replicas, current, lastScale>>

ANext ==
  \/ \E n \in Bounds : Rescale(n)
  \/ \E n \in UserReplicas : SetByUser(n)
  \/ Follow
  \/ Advance

ASpec == AInit /\ [][ANext]_avars
=============================================================================
