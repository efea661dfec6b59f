------------------------ MODULE CadenceHistoryProofs ------------------------
(***************************************************************************)
(* Proofs about CadenceHistory, for any counter, any gaps and any deltas.  *)
(*                                                                         *)
(* What keeps a slow camera or a smooth mouse from arming the classifier   *)
(* is its mean of the camera's intervals: how small it can be, now and     *)
(* after so many batches in a row.                                         *)
(***************************************************************************)
EXTENDS CadenceHistory, TLAPS

HistoryTypeOK ==
    /\ ClassTypeOK
    /\ steady \in BOOLEAN
    /\ slow \in BOOLEAN
    /\ batches \in 0..ArmingBatches

\* Without a turn there is no row, and the count is never ahead of the row.
RowInv ==
    /\ since_turn = 0 => since_call = 0
    /\ ~affected /\ since_turn = NoTurn => consecutive = 0
    /\ ~affected => consecutive <= batches

\* The mean of a slow camera is a slow one.
SlowInv ==
    slow => ~affected /\ (camera_interval = 0 \/ camera_interval >= Scale * (FastCamera + 1))

\* How many hundredths of a millisecond the mean is at least after so many
\* batches in a row.
Least(count) ==
    CASE count = 0 -> 74
      [] count = 1 -> 238
      [] count = 2 -> 377
      [] count = 3 -> 506
      [] OTHER -> 682

\* A second, in the steps of the mean.
Second == Frequency * Scale

SmoothInv ==
    steady =>
    /\ ~affected
    /\ called => since_call = 0 /\ since_turn = 0
    /\ IF camera_interval = 0
       THEN consecutive = 0
       ELSE 100000 * camera_interval >= Least(consecutive) * Second

HistoryInv == HistoryTypeOK /\ RowInv /\ SlowInv

-----------------------------------------------------------------------------
(* Numbers.                                                                *)

LEMMA DividedBy20 ==
    ASSUME NEW x \in Nat
    PROVE  x \div 20 \in Nat /\ 20 * (x \div 20) <= x /\ x < 20 * (x \div 20) + 20
  OBVIOUS

LEMMA ProductGrows ==
    ASSUME NEW a \in Nat, NEW b \in Nat, NEW s \in Nat, a <= b
    PROVE  a * s \in Nat /\ b * s \in Nat /\ a * s <= b * s
<1>1. PICK d \in Nat : b = a + d
  <2>1. b - a \in Nat /\ b = a + (b - a)
    OBVIOUS
  <2> QED
    BY <2>1
<1>2. b * s = a * s + d * s /\ d * s \in Nat /\ a * s \in Nat
  BY <1>1
<1> QED
  BY <1>2

\* The new mean, whatever way it is written.
LEMMA NextCameraIs ==
    ASSUME NEW interval \in Nat, camera_interval \in Nat
    PROVE  /\ NextCamera(interval) \in Nat
           /\ interval * Scale \in Nat
           /\ camera_interval = 0 => NextCamera(interval) = interval * Scale
           /\ camera_interval # 0 =>
                 /\ 20 * NextCamera(interval) <= 17 * camera_interval + 3 * (interval * Scale)
                 /\ 20 * NextCamera(interval) > 17 * camera_interval + 3 * (interval * Scale) - 20
<1>1. interval * Scale \in Nat /\ 3 * interval * Scale = 3 * (interval * Scale)
  BY ScalePositive
<1>2. CASE camera_interval = 0
  BY <1>1, <1>2 DEF NextCamera
<1>3. CASE camera_interval # 0
  <2> DEFINE x == 17 * camera_interval + 3 * (interval * Scale)
  <2>1. x \in Nat
    BY <1>1
  <2>2. NextCamera(interval) = x \div 20
    BY <1>1, <1>3 DEF NextCamera
  <2> HIDE DEF x
  <2>3. x \div 20 \in Nat /\ 20 * (x \div 20) <= x /\ x < 20 * (x \div 20) + 20
    BY <2>1, DividedBy20
  <2>4. NextCamera(interval) \in Nat /\ 20 * NextCamera(interval) <= x
        /\ 20 * NextCamera(interval) > x - 20
    BY <2>1, <2>2, <2>3
  <2> QED
    BY <1>1, <1>3, <2>4 DEF x
<1> QED
  BY <1>2, <1>3

LEMMA ThresholdsNat ==
    /\ LongestGap \in Nat /\ MinimumBatch \in Nat /\ MaximumBatch \in Nat
    /\ FastCamera \in Nat /\ 1000 * (FastCamera + 1) > 9 * Frequency
    /\ 1000 * MinimumBatch >= 12 * Frequency - 999
    /\ CallAgeCap \in Nat /\ TurnAgeCap \in Nat
    /\ LongestGap < CallAgeCap /\ MaximumBatch < TurnAgeCap
  BY FrequencyNat
  DEF LongestGap, MinimumBatch, MaximumBatch, FastCamera, CallAgeCap, TurnAgeCap

-----------------------------------------------------------------------------
(* Types.                                                                  *)

LEMMA AgedTypes ==
    ASSUME ClassTypeOK, NEW gap \in Gaps
    PROVE  /\ gap \in Nat /\ since_call + gap \in Nat
           /\ CallAged(gap) \in 0..CallAgeCap
           /\ TurnAged(gap) \in {NoTurn} \cup 0..TurnAgeCap
           /\ NextCamera(since_call + gap) \in Nat
           /\ Counted \in 0..ArmingBatches
<1>1. gap \in Nat /\ since_call \in Nat
  BY GapsNat, ThresholdsNat DEF ClassTypeOK
<1>2. CallAged(gap) \in 0..CallAgeCap
  BY <1>1, ThresholdsNat DEF CallAged, ClassTypeOK
<1>3. TurnAged(gap) \in {NoTurn} \cup 0..TurnAgeCap
  BY <1>1, ThresholdsNat DEF TurnAged, ClassTypeOK
<1>4. NextCamera(since_call + gap) \in Nat
  BY <1>1, NextCameraIs DEF ClassTypeOK
<1>5. Counted \in 0..ArmingBatches
  BY DEF Counted, ClassTypeOK, ArmingBatches
<1> QED
  BY <1>1, <1>2, <1>3, <1>4, <1>5

\* What an observed cadence does to the count.
LEMMA CadenceCounts ==
    ASSUME NEW gap, NEW input, ObserveCadence(gap, input)
    PROVE  \/ /\ consecutive' = consecutive /\ affected' = affected
              /\ IsTurn(input) => TurnAged(gap) \in {NoTurn, 0}
           \/ /\ consecutive' = Counted /\ affected' = (affected \/ Arms)
              /\ IsTurn(input) /\ TurnAged(gap) # NoTurn
              /\ CoarseBatch(TurnAged(gap), NextCamera(since_call + gap))
           \/ /\ consecutive' = (IF affected THEN consecutive ELSE 0)
              /\ affected' = affected
              /\ IsTurn(input) /\ TurnAged(gap) # NoTurn
              /\ ~CoarseBatch(TurnAged(gap), NextCamera(since_call + gap))
  BY Zenon DEF ObserveCadence

LEMMA ObserveTypes ==
    ASSUME ClassTypeOK, NEW gap \in Gaps, NEW input, Observe(gap, input)
    PROVE  ClassTypeOK'
<1>1. /\ CallAged(gap) \in 0..CallAgeCap
      /\ TurnAged(gap) \in {NoTurn} \cup 0..TurnAgeCap
      /\ NextCamera(since_call + gap) \in Nat
      /\ Counted \in 0..ArmingBatches
  BY AgedTypes
<1>2. /\ 0 \in 0..CallAgeCap /\ 0 \in {NoTurn} \cup 0..TurnAgeCap
      /\ 0 \in 0..ArmingBatches /\ 0 # ArmingBatches
  BY ThresholdsNat DEF ArmingBatches
<1>3. CASE ObserveUnusable(gap, input)
  BY <1>1, <1>2, <1>3 DEF ObserveUnusable, ClassTypeOK
<1>4. CASE ObserveRestart(gap, input)
  BY <1>1, <1>2, <1>4 DEF ObserveRestart, ClassTypeOK
<1>5. CASE ObservePause(gap, input)
  BY <1>2, <1>5 DEF ObservePause, ClassTypeOK
<1>6. CASE ObserveCadence(gap, input)
  <2>1. /\ since_call' = 0 /\ called' = called
        /\ camera_interval' = NextCamera(since_call + gap)
        /\ since_turn' \in {0, TurnAged(gap)}
    BY <1>6 DEF ObserveCadence
  <2>2. /\ consecutive' \in 0..ArmingBatches /\ affected' \in BOOLEAN
        /\ consecutive' = ArmingBatches => affected'
    <3>1. Counted = ArmingBatches => Arms
      BY DEF Arms, ArmingBatches
    <3>2. /\ consecutive \in 0..ArmingBatches /\ affected \in BOOLEAN
          /\ consecutive = ArmingBatches => affected
      BY DEF ClassTypeOK
    <3> QED
      BY <1>1, <1>2, <1>6, <3>1, <3>2, CadenceCounts
  <2> QED
    BY <1>1, <1>2, <2>1, <2>2 DEF ClassTypeOK
<1> QED
  BY <1>3, <1>4, <1>5, <1>6 DEF Observe

LEMMA CallTypes ==
    ASSUME HistoryTypeOK, NEW gap \in Gaps, NEW delta \in Deltas, Call(gap, delta)
    PROVE  HistoryTypeOK'
<1>1. ClassTypeOK'
  BY ObserveTypes DEF HistoryTypeOK, Call
<1>2. steady' \in BOOLEAN /\ slow' \in BOOLEAN
  BY DEF HistoryTypeOK, Call
<1>3. batches' \in 0..ArmingBatches
  BY DEF HistoryTypeOK, Call, Batches, ArmingBatches
<1> QED
  BY <1>1, <1>2, <1>3 DEF HistoryTypeOK

-----------------------------------------------------------------------------
(* The count and the row.                                                  *)

\* An age of nothing is the age of this very tick.
LEMMA AgedNothing ==
    ASSUME ClassTypeOK, RowInv, NEW gap \in Gaps, TurnAged(gap) = 0
    PROVE  since_call + gap = 0 /\ CallAged(gap) = 0
<1>1. gap \in Nat /\ since_turn \in {NoTurn} \cup Nat
  BY GapsNat, ThresholdsNat DEF ClassTypeOK
<1>2. since_turn = 0 /\ gap = 0
  BY <1>1, ThresholdsNat DEF TurnAged, NoTurn
<1> QED
  BY <1>2, ThresholdsNat DEF RowInv, CallAged

LEMMA CallCounts ==
    ASSUME HistoryTypeOK, RowInv, NEW gap \in Gaps, NEW delta \in Deltas, Call(gap, delta)
    PROVE  /\ RowInv'
           /\ consecutive' > 0 /\ ~affected => batches' >= consecutive'
           /\ affected' /\ ~affected => batches' = ArmingBatches
<1>1. ClassTypeOK /\ batches \in 0..ArmingBatches /\ batches' \in 0..ArmingBatches
  BY CallTypes DEF HistoryTypeOK
<1>2. Observe(gap, delta)
  BY DEF Call
<1>3. affected \in BOOLEAN /\ consecutive \in 0..ArmingBatches
  BY <1>1 DEF ClassTypeOK
<1>4. CASE consecutive' = 0 /\ affected' = affected
           /\ (since_turn' = 0 => since_call' = 0)
  BY <1>1, <1>4 DEF RowInv
<1>5. CASE ObserveUnusable(gap, delta)
  <2>1. since_turn' = 0 => since_call' = 0
    BY <1>1, <1>5, AgedNothing DEF ObserveUnusable
  <2> QED
    BY <1>4, <1>5, <2>1 DEF ObserveUnusable
<1>6. CASE ObserveRestart(gap, delta)
  BY <1>4, <1>6 DEF ObserveRestart
<1>7. CASE ObservePause(gap, delta)
  BY <1>4, <1>7 DEF ObservePause
<1>8. CASE ObserveCadence(gap, delta)
  <2>1. since_call' = 0 /\ TurnAged(gap) # 0
    BY <1>1, <1>8, AgedNothing DEF ObserveCadence, Restarts
  <2>2. since_turn' = IF IsTurn(delta) THEN 0 ELSE TurnAged(gap)
    BY <1>8 DEF ObserveCadence
  <2>3. TurnAged(gap) = NoTurn <=> since_turn = NoTurn
    BY <1>1, GapsNat, ThresholdsNat DEF TurnAged, NoTurn, ClassTypeOK
  <2>4. CASE affected
    <3>1. affected'
      BY <1>8, <2>4, CadenceCounts
    <3> QED
      BY <2>1, <2>4, <3>1 DEF RowInv
  <2>5. CASE ~affected
    <3>1. batches' = IF IsTurn(delta) THEN Batches(gap) ELSE batches
      BY <2>5 DEF Call
    <3>2. CASE /\ consecutive' = consecutive /\ affected' = affected
               /\ IsTurn(delta) => TurnAged(gap) \in {NoTurn, 0}
      <4>1. CASE IsTurn(delta)
        BY <1>1, <1>3, <1>4, <2>1, <2>3, <2>5, <3>2, <4>1 DEF RowInv
      <4>2. CASE ~IsTurn(delta)
        <5>1. batches' = batches /\ since_turn' = TurnAged(gap)
          BY <2>2, <3>1, <4>2
        <5> QED
          BY <1>1, <1>3, <2>1, <2>3, <2>5, <3>2, <5>1 DEF RowInv
      <4> QED
        BY <4>1, <4>2
    <3>3. CASE /\ consecutive' = Counted /\ affected' = (affected \/ Arms)
               /\ IsTurn(delta) /\ TurnAged(gap) # NoTurn
               /\ CoarseBatch(TurnAged(gap), NextCamera(since_call + gap))
      <4>1. TurnAged(gap) \in MinimumBatch..MaximumBatch
        BY <1>1, <3>3, AgedTypes, ThresholdsNat DEF CoarseBatch, NoTurn
      <4>2. batches' = IF batches < ArmingBatches THEN batches + 1 ELSE ArmingBatches
        BY <2>3, <3>1, <3>3, <4>1 DEF Batches
      <4>3. consecutive' = IF consecutive < ArmingBatches THEN consecutive + 1 ELSE ArmingBatches
        BY <3>3 DEF Counted
      <4>4. affected' => consecutive' >= ArmingBatches
        BY <2>5, <3>3 DEF Arms
      <4>5. since_turn' = 0
        BY <2>2, <3>3
      <4> QED
        BY <1>1, <1>3, <2>1, <2>5, <4>2, <4>3, <4>4, <4>5 DEF RowInv, ArmingBatches, NoTurn
    <3>4. CASE consecutive' = (IF affected THEN consecutive ELSE 0) /\ affected' = affected
      BY <1>4, <2>1, <2>5, <3>4
    <3> QED
      BY <1>8, <3>2, <3>3, <3>4, CadenceCounts
  <2> QED
    BY <1>3, <2>4, <2>5
<1> QED
  BY <1>2, <1>5, <1>6, <1>7, <1>8 DEF Observe

-----------------------------------------------------------------------------
(* The slow camera.                                                        *)

\* No batch is coarse on a camera whose mean is a slow one.
LEMMA SlowNotCoarse ==
    ASSUME NEW source, NEW camera \in Nat, camera >= Scale * (FastCamera + 1)
    PROVE  ~CoarseBatch(source, camera)
<1>1. 1000 * (Scale * (FastCamera + 1)) > 9 * Frequency * Scale
  <2>1. FastCamera \in Nat /\ 1000 * (FastCamera + 1) >= 9 * Frequency + 1
    BY ThresholdsNat, FrequencyNat
  <2>2. (9 * Frequency + 1) * Scale <= (1000 * (FastCamera + 1)) * Scale
    BY <2>1, FrequencyNat, ScalePositive, ProductGrows
  <2>3. /\ (9 * Frequency + 1) * Scale = 9 * Frequency * Scale + Scale
        /\ (1000 * (FastCamera + 1)) * Scale = 1000 * (Scale * (FastCamera + 1))
    BY <2>1, FrequencyNat, ScalePositive
  <2>4. 9 * Frequency * Scale \in Nat /\ Scale * (FastCamera + 1) \in Nat
    BY <2>1, FrequencyNat, ScalePositive
  <2> QED
    BY <2>2, <2>3, <2>4, ScalePositive
<1>2. Scale * (FastCamera + 1) \in Nat /\ 9 * Frequency * Scale \in Nat
  BY ThresholdsNat, FrequencyNat, ScalePositive
<1>3. 1000 * camera > 9 * Frequency * Scale
  BY <1>1, <1>2
<1> QED
  BY <1>2, <1>3 DEF CoarseBatch

\* The mean of slow intervals is slow.
LEMMA SlowMean ==
    ASSUME NEW interval \in Nat, interval > FastCamera, camera_interval \in Nat,
           camera_interval = 0 \/ camera_interval >= Scale * (FastCamera + 1)
    PROVE  NextCamera(interval) >= Scale * (FastCamera + 1)
<1> DEFINE m == Scale * (FastCamera + 1)
<1>1. m \in Nat /\ m <= interval * Scale /\ interval * Scale \in Nat
  <2>1. FastCamera + 1 \in Nat /\ FastCamera + 1 <= interval
    BY ThresholdsNat
  <2>2. (FastCamera + 1) * Scale <= interval * Scale /\ (FastCamera + 1) * Scale \in Nat
        /\ interval * Scale \in Nat
    BY <2>1, ScalePositive, ProductGrows
  <2>3. (FastCamera + 1) * Scale = m
    BY <2>1, ScalePositive
  <2> QED
    BY <2>2, <2>3
<1> HIDE DEF m
<1>2. CASE camera_interval = 0
  BY <1>1, <1>2, NextCameraIs DEF m
<1>3. CASE camera_interval # 0
  <2>1. camera_interval >= m
    BY <1>3 DEF m
  <2>2. NextCamera(interval) \in Nat
        /\ 20 * NextCamera(interval) > 17 * camera_interval + 3 * (interval * Scale) - 20
    BY <1>3, NextCameraIs
  <2>3. NextCamera(interval) >= m
    BY <1>1, <2>1, <2>2
  <2> QED
    BY <2>3 DEF m
<1> QED
  BY <1>2, <1>3

LEMMA CallSlow ==
    ASSUME HistoryTypeOK, SlowInv, NEW gap \in Gaps, NEW delta \in Deltas, Call(gap, delta)
    PROVE  SlowInv'
<1> SUFFICES ASSUME slow'
             PROVE  /\ ~affected'
                    /\ \/ camera_interval' = 0
                       \/ camera_interval' >= Scale * (FastCamera + 1)
  BY DEF SlowInv
<1>1. /\ slow /\ (called => gap > FastCamera)
      /\ ~affected
      /\ camera_interval = 0 \/ camera_interval >= Scale * (FastCamera + 1)
  BY DEF Call, SlowInv, HistoryTypeOK
<1>2. Observe(gap, delta) /\ ClassTypeOK
  BY DEF Call, HistoryTypeOK
<1>3. CASE ObserveUnusable(gap, delta)
  BY <1>1, <1>3 DEF ObserveUnusable
<1>4. CASE ObserveRestart(gap, delta)
  BY <1>1, <1>4 DEF ObserveRestart
<1>5. CASE ObservePause(gap, delta)
  BY <1>1, <1>5 DEF ObservePause
<1>6. CASE ObserveCadence(gap, delta)
  <2>1. called /\ camera_interval' = NextCamera(since_call + gap)
    BY <1>6 DEF ObserveCadence, Restarts
  <2>2. since_call + gap \in Nat /\ since_call + gap > FastCamera /\ camera_interval \in Nat
    BY <1>1, <1>2, <2>1, GapsNat, ThresholdsNat DEF ClassTypeOK
  <2>3. camera_interval' >= Scale * (FastCamera + 1) /\ camera_interval' \in Nat
    BY <1>1, <2>1, <2>2, SlowMean, NextCameraIs
  <2>4. ~CoarseBatch(TurnAged(gap), NextCamera(since_call + gap))
    BY <2>1, <2>3, SlowNotCoarse
  <2>5. affected' = affected
    BY <1>6, <2>4, CadenceCounts
  <2> QED
    BY <1>1, <2>3, <2>5
<1> QED
  BY <1>2, <1>3, <1>4, <1>5, <1>6 DEF Observe

-----------------------------------------------------------------------------
(* The smooth mouse.                                                       *)

\* A call after a millisecond or more keeps the mean above 0.74 ms.
LEMMA MeanAfterCall ==
    ASSUME NEW c \in Nat, NEW d \in Nat, NEW g \in Nat, NEW P \in Nat,
           20 * d > 17 * c + 3 * g - 20, 1000 * g >= P, P >= 25000,
           100000 * c >= 74 * P
    PROVE  100000 * d >= 74 * P
  OBVIOUS

LEMMA LeastLarge == \A count \in 0..4 : Least(count) \in Nat /\ Least(count) >= 74
  BY DEF Least

LEMMA SteadyCall ==
    ASSUME HistoryTypeOK, NEW gap, NEW delta, Call(gap, delta), steady'
    PROVE  steady /\ IsTurn(delta) /\ (called => ~Brief(gap))
<1>1. steady
  BY DEF Call, HistoryTypeOK
<1>2. IsTurn(delta)
  BY DEF Call, HistoryTypeOK
<1>3. called => ~Brief(gap)
  BY DEF Call, HistoryTypeOK, Brief
<1> QED
  BY <1>1, <1>2, <1>3

\* On a smooth mouse the turn before came with the call before.  A batch came
\* 12 ms and two and a half means after it, and takes the mean up.
LEMMA SmoothCadence ==
    ASSUME Frequency >= 25000, HistoryTypeOK, SmoothInv,
           NEW gap \in Gaps, NEW delta \in Deltas, Call(gap, delta), steady',
           ObserveCadence(gap, delta)
    PROVE  SmoothInv'
<1> DEFINE c == camera_interval
           d == NextCamera(since_call + gap)
           g == gap * Scale
<1>1. /\ steady /\ IsTurn(delta) /\ ~Brief(gap)
      /\ called /\ ~affected /\ since_call = 0 /\ since_turn = 0
      /\ since_call + gap # 0
  <2>1. steady /\ IsTurn(delta) /\ (called => ~Brief(gap))
    BY SteadyCall
  <2>2. called /\ since_call + gap # 0
    BY DEF ObserveCadence, Restarts
  <2>3. ~affected /\ since_call = 0 /\ since_turn = 0
    BY <2>1, <2>2 DEF SmoothInv
  <2> QED
    BY <2>1, <2>2, <2>3
<1>2. /\ gap \in Nat /\ gap > 0 /\ 1000 * gap >= Frequency /\ since_call + gap = gap
  BY <1>1, GapsNat, FrequencyNat DEF Brief
<1>3. /\ c \in Nat /\ consecutive \in 0..4 /\ ClassTypeOK
  BY <1>1 DEF HistoryTypeOK, ClassTypeOK, ArmingBatches
<1>4. /\ Second \in Nat /\ Second >= 25000 /\ Second >= 25000 * Scale /\ Scale \in Nat
      /\ Scale > 0
  <2>1. 25000 * Scale <= Second /\ Second \in Nat
    BY FrequencyNat, ScalePositive, ProductGrows DEF Second
  <2> QED
    BY <2>1, ScalePositive
<1>5. g \in Nat /\ g > 0 /\ 1000 * g >= Second
  <2>1. Frequency * Scale <= (1000 * gap) * Scale /\ g \in Nat
    BY <1>2, FrequencyNat, ScalePositive, ProductGrows
  <2>2. (1000 * gap) * Scale = 1000 * g
    BY <1>2, ScalePositive
  <2>3. g > 0
    BY <1>4, <2>1, <2>2 DEF Second
  <2> QED
    BY <2>1, <2>2, <2>3 DEF Second
<1>6. /\ d \in Nat
      /\ c = 0 => d = g
      /\ c # 0 => 20 * d > 17 * c + 3 * g - 20
  BY <1>2, <1>3, NextCameraIs
<1>7. /\ called' /\ since_call' = 0 /\ since_turn' = 0 /\ camera_interval' = d
  BY <1>1 DEF ObserveCadence
<1>8. TurnAged(gap) \in Nat /\ TurnAged(gap) <= gap
  BY <1>1, <1>2, ThresholdsNat DEF TurnAged, NoTurn
<1>9. CASE CoarseBatch(TurnAged(gap), d)
  <2> DEFINE source == TurnAged(gap)
  <2>1. /\ source >= MinimumBatch /\ d > 0
        /\ 1000 * d <= 9 * Frequency * Scale
        /\ 2 * source * Scale >= 5 * d
    BY <1>9 DEF CoarseBatch
  <2>2. 1000 * d <= 9 * Second
    BY <2>1, FrequencyNat, ScalePositive DEF Second
  <2>3. 2 * g >= 5 * d
    <3>1. source * Scale <= g /\ source * Scale \in Nat
      BY <1>2, <1>4, <1>8, ProductGrows
    <3>2. 2 * source * Scale = 2 * (source * Scale)
      BY <1>4, <1>8
    <3> QED
      BY <1>5, <1>6, <2>1, <3>1, <3>2
  <2>4. c # 0
    BY <1>5, <1>6, <2>3
  <2>5. 1000 * g >= 12 * Second - 999 * Scale
    <3>1. 1000 * gap + 999 >= 12 * Frequency
      BY <1>2, <1>8, <2>1, ThresholdsNat, FrequencyNat
    <3>2. (12 * Frequency) * Scale <= (1000 * gap + 999) * Scale
      BY <1>2, <1>4, <3>1, FrequencyNat, ProductGrows
    <3>3. (12 * Frequency) * Scale = 12 * Second /\ (1000 * gap + 999) * Scale = 1000 * g + 999 * Scale
      BY <1>2, <1>4, FrequencyNat DEF Second
    <3> QED
      BY <1>4, <1>5, <3>2, <3>3
  <2>6. 100000 * c >= Least(consecutive) * Second
    BY <1>1, <2>4 DEF SmoothInv
  <2>7. /\ consecutive = 4 => 1000 * d > 9 * Second
        /\ consecutive # 4 => 100000 * d >= Least(consecutive + 1) * Second
    <3>1. 20 * d > 17 * c + 3 * g - 20
      BY <1>6, <2>4
    <3>2. c \in Nat /\ d \in Nat /\ g \in Nat /\ Second \in Nat /\ Scale \in Nat
      BY <1>3, <1>4, <1>5, <1>6
    <3>3. Second >= 25000 /\ Second >= 25000 * Scale
      BY <1>4
    <3> HIDE DEF c, d, g, Second
    <3>4. CASE consecutive = 0
      BY <2>3, <2>5, <2>6, <3>1, <3>2, <3>3, <3>4 DEF Least
    <3>5. CASE consecutive = 1
      BY <2>3, <2>5, <2>6, <3>1, <3>2, <3>3, <3>5 DEF Least
    <3>6. CASE consecutive = 2
      BY <2>3, <2>5, <2>6, <3>1, <3>2, <3>3, <3>6 DEF Least
    <3>7. CASE consecutive = 3
      BY <2>3, <2>5, <2>6, <3>1, <3>2, <3>3, <3>7 DEF Least
    <3>8. CASE consecutive = 4
      BY <2>3, <2>5, <2>6, <3>1, <3>2, <3>3, <3>8 DEF Least
    <3> QED
      BY <1>3, <3>4, <3>5, <3>6, <3>7, <3>8
  <2>8. consecutive # 4 /\ 100000 * d >= Least(consecutive + 1) * Second
    BY <1>4, <1>6, <2>2, <2>7
  <2>9. consecutive' = consecutive + 1 /\ ~affected'
    <3>1. Counted = consecutive + 1 /\ Counted < ArmingBatches
      BY <1>3, <2>8 DEF Counted, ArmingBatches
    <3>2. affected \in BOOLEAN /\ affected' \in BOOLEAN
      BY CallTypes DEF HistoryTypeOK, ClassTypeOK
    <3>3. consecutive' = Counted /\ affected' = (affected \/ Arms)
      <4>1. source # 0 /\ source # NoTurn
        BY <1>1, <1>2, ThresholdsNat DEF TurnAged, NoTurn
      <4> QED
        BY <1>1, <1>9, <4>1, CadenceCounts
    <3> QED
      BY <1>1, <1>3, <3>1, <3>2, <3>3 DEF Arms, ArmingBatches
  <2>10. /\ camera_interval' # 0
         /\ 100000 * camera_interval' >= Least(consecutive') * Second
    BY <1>6, <1>7, <2>1, <2>8, <2>9
  <2> QED
    BY <1>7, <2>9, <2>10 DEF SmoothInv, Second
<1>10. CASE ~CoarseBatch(TurnAged(gap), d)
  <2>1. consecutive' = 0 /\ ~affected'
    <3>1. TurnAged(gap) # 0 /\ TurnAged(gap) # NoTurn
      BY <1>1, <1>2, ThresholdsNat DEF TurnAged, NoTurn
    <3> QED
      BY <1>1, <1>10, <3>1 DEF ObserveCadence
  <2>2. 100000 * d >= 74 * Second
    <3>1. CASE c = 0
      BY <1>4, <1>5, <1>6, <3>1
    <3>2. CASE c # 0
      <4>1. 100000 * c >= Least(consecutive) * Second
        BY <1>1, <3>2 DEF SmoothInv
      <4>2. Least(consecutive) * Second >= 74 * Second
        BY <1>3, <1>4, LeastLarge, ProductGrows
      <4>3. 100000 * c >= 74 * Second
        <5>1. Least(consecutive) * Second \in Nat
          BY <1>3, <1>4, LeastLarge
        <5> QED
          BY <1>3, <1>4, <4>1, <4>2, <5>1
      <4> QED
        BY <1>3, <1>4, <1>5, <1>6, <3>2, <4>3, MeanAfterCall
    <3> QED
      BY <3>1, <3>2
  <2>3. Least(consecutive') = 74
    BY <2>1 DEF Least
  <2> QED
    BY <1>7, <2>1, <2>2, <2>3 DEF SmoothInv
<1> QED
  BY <1>9, <1>10

LEMMA CallSmooth ==
    ASSUME Frequency >= 25000, HistoryTypeOK, SmoothInv,
           NEW gap \in Gaps, NEW delta \in Deltas, Call(gap, delta)
    PROVE  SmoothInv'
<1> SUFFICES ASSUME steady'
             PROVE  SmoothInv'
  BY DEF SmoothInv
<1>1. /\ steady /\ IsTurn(delta) /\ ~affected
      /\ Observe(gap, delta)
  <2>1. steady /\ IsTurn(delta) /\ Observe(gap, delta)
    BY SteadyCall DEF Call
  <2> QED
    BY <2>1 DEF SmoothInv
<1>2. ~NoFrequency /\ delta # NotFinite
  BY <1>1, FrequencyNat DEF NoFrequency, IsTurn
<1>3. CASE ObserveRestart(gap, delta)
  BY <1>1, <1>3 DEF ObserveRestart, SmoothInv
<1>4. CASE ObservePause(gap, delta)
  BY <1>1, <1>4 DEF ObservePause, SmoothInv
<1>5. CASE ObserveCadence(gap, delta)
  BY <1>5, SmoothCadence
<1> QED
  BY <1>1, <1>2, <1>3, <1>4, <1>5 DEF Observe, ObserveUnusable

-----------------------------------------------------------------------------
(* Results.                                                                *)

LEMMA StartHolds == Init => HistoryInv /\ SmoothInv
<1> SUFFICES ASSUME Init PROVE HistoryInv /\ SmoothInv
  OBVIOUS
<1>1. ClassTypeOK
  <2>1. /\ called = FALSE /\ since_call = 0 /\ since_turn = NoTurn
        /\ camera_interval = 0 /\ consecutive = 0 /\ affected = FALSE
    BY DEF Init, ClassInit
  <2>2. 0 \in 0..CallAgeCap /\ 0 \in 0..ArmingBatches /\ 0 # ArmingBatches
    BY ThresholdsNat DEF ArmingBatches
  <2> QED
    BY <2>1, <2>2 DEF ClassTypeOK
<1>2. /\ ~affected /\ ~called /\ since_call = 0 /\ camera_interval = 0 /\ consecutive = 0
      /\ batches = 0 /\ steady = TRUE /\ slow = TRUE
  BY DEF Init, ClassInit
<1>3. HistoryTypeOK
  BY <1>1, <1>2 DEF HistoryTypeOK, ArmingBatches
<1>4. RowInv /\ SlowInv /\ SmoothInv
  BY <1>2 DEF RowInv, SlowInv, SmoothInv
<1> QED
  BY <1>3, <1>4 DEF HistoryInv

LEMMA StutterHolds ==
    ASSUME UNCHANGED vars
    PROVE  /\ HistoryInv => HistoryInv'
           /\ SmoothInv => SmoothInv'
  BY DEF vars, classVars, HistoryInv, HistoryTypeOK, ClassTypeOK, RowInv, SlowInv, SmoothInv

\* Every call keeps the types, the count behind the row and the mean of a slow
\* camera slow (cadence_classifier.cpp:10-56).
THEOREM HistoryInvariant == Spec => []HistoryInv
<1>1. HistoryInv /\ [Next]_vars => HistoryInv'
  <2> SUFFICES ASSUME HistoryInv, [Next]_vars PROVE HistoryInv'
    OBVIOUS
  <2>1. CASE UNCHANGED vars
    BY <2>1, StutterHolds
  <2>2. ASSUME NEW gap \in Gaps, NEW delta \in Deltas, Call(gap, delta)
        PROVE  HistoryInv'
    BY <2>2, CallTypes, CallCounts, CallSlow DEF HistoryInv
  <2> QED
    BY <2>1, <2>2 DEF Next
<1> QED
  BY <1>1, StartHolds, PTL DEF Spec

\* A camera called less than every 9 ms never arms the classifier, however its
\* turns come: its mean never gets below the threshold
\* (cadence_classifier.cpp:33-46).
THEOREM SlowCameraLeftAlone == Spec => []SlowNeverArms
<1>1. HistoryInv => SlowNeverArms
  BY DEF HistoryInv, SlowInv, SlowNeverArms
<1> QED
  BY <1>1, HistoryInvariant, PTL

\* Nothing less than five batched turns in a row arms the classifier
\* (cadence_classifier.cpp:13-53).
THEOREM FiveArm == Spec => ArmedByFive
<1> DEFINE Step == /\ consecutive' > 0 /\ ~affected => batches' >= consecutive'
                   /\ affected' /\ ~affected => batches' = ArmingBatches
<1>1. HistoryInv /\ [Next]_vars => [Step]_vars
  <2> SUFFICES ASSUME HistoryInv, Next PROVE Step
    OBVIOUS
  <2>1. ASSUME NEW gap \in Gaps, NEW delta \in Deltas, Call(gap, delta)
        PROVE  Step
    BY <2>1, CallCounts DEF HistoryInv
  <2> QED
    BY <2>1 DEF Next
<1> QED
  BY <1>1, HistoryInvariant, PTL DEF Spec, ArmedByFive

\* A mouse whose turn arrives with every call is left alone when no two calls
\* come within a millisecond: each batch in a row takes the mean further up, and
\* the fifth would take it past 9 ms.  A counter of 25 kHz is fine enough for
\* the rounding of the mean, which is that of the model
\* (cadence_classifier.cpp:33-53).
THEOREM SmoothMouseLeftAlone ==
    ASSUME Frequency >= 25000
    PROVE  Spec => []SmoothNeverArms
<1>1. HistoryInv /\ SmoothInv /\ [Next]_vars => SmoothInv'
  <2> SUFFICES ASSUME HistoryInv, SmoothInv, [Next]_vars PROVE SmoothInv'
    OBVIOUS
  <2>1. CASE UNCHANGED vars
    BY <2>1, StutterHolds
  <2>2. ASSUME NEW gap \in Gaps, NEW delta \in Deltas, Call(gap, delta)
        PROVE  SmoothInv'
    BY <2>2, CallSmooth DEF HistoryInv
  <2> QED
    BY <2>1, <2>2 DEF Next
<1>2. SmoothInv => SmoothNeverArms
  BY DEF SmoothInv, SmoothNeverArms
<1> QED
  BY <1>1, <1>2, StartHolds, HistoryInvariant, PTL DEF Spec

=============================================================================
