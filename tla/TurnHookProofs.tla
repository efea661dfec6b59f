--------------------------- MODULE TurnHookProofs ---------------------------
(***************************************************************************)
(* What the turn hook promises, for every counter frequency, every set of  *)
(* deltas and every timing of the calls: types, nothing held before the    *)
(* classifier is armed, no turn lost or invented, everything handed on in  *)
(* seven calls, no portion against the turn.                               *)
(***************************************************************************)
EXTENDS TurnHook, TLAPS

Numbers == Int \cup {NotFinite}

-----------------------------------------------------------------------------
(* The arithmetic of the distributor.                                      *)

\* A positive interval is never rounded away, whatever came before.
LEMMA NextIntervalPositive ==
    ASSUME NEW gap \in Nat, gap > 0, frame_interval \in Nat
    PROVE  NextInterval(gap) \in Nat /\ NextInterval(gap) > 0
  <1>1. gap * Scale \in Nat /\ gap * Scale > 0
    BY ScalePositive
  <1> QED
    BY <1>1 DEF NextInterval

LEMMA HorizonNat == Horizon \in Nat /\ Horizon > 0
  BY FrequencyNat DEF Horizon

\* A turn is spread over one to eight calls.
LEMMA SlotCountRange ==
    ASSUME NEW gap \in Nat, gap > 0, frame_interval \in Nat
    PROVE  SlotCount(NextInterval(gap)) \in 1..MaxSlots
  <1> DEFINE interval == NextInterval(gap)
  <1>1. interval \in Nat /\ interval > 0
    BY NextIntervalPositive
  <1>2. Horizon * Scale \in Nat
    BY HorizonNat, ScalePositive
  <1> HIDE DEF interval
  <1>3. (2 * Horizon * Scale + interval) \div (2 * interval) \in Int
    <2>1. 2 * Horizon * Scale \in Nat
      BY HorizonNat, ScalePositive
    <2> QED
      BY <2>1, <1>1
  <1> QED
    BY <1>3 DEF SlotCount, Clamp, MaxSlots, interval

LEMMA PortionInt ==
    ASSUME NEW input \in Int, NEW count \in 1..MaxSlots
    PROVE  Portion(input, count) \in Int /\ Residual(input, count) \in Int
  <1>1. Portion(input, count) \in Int
    BY DEF Portion, MaxSlots
  <1>2. count * Portion(input, count) \in Int
    BY <1>1 DEF MaxSlots
  <1> QED
    BY <1>1, <1>2 DEF Residual

\* For a turn of many units, neither a portion nor the portion with the
\* residual turns back.
LEMMA PortionForward ==
    ASSUME NEW input \in Nat, input >= 64, NEW count \in 1..MaxSlots
    PROVE  /\ Portion(input, count) >= 0
           /\ Portion(input, count) + Residual(input, count) >= 0
  <1>1. CASE count = 1
    BY <1>1 DEF Portion, Residual
  <1>2. CASE count = 2
    BY <1>2 DEF Portion, Residual
  <1>3. CASE count = 3
    BY <1>3 DEF Portion, Residual
  <1>4. CASE count = 4
    BY <1>4 DEF Portion, Residual
  <1>5. CASE count = 5
    BY <1>5 DEF Portion, Residual
  <1>6. CASE count = 6
    BY <1>6 DEF Portion, Residual
  <1>7. CASE count = 7
    BY <1>7 DEF Portion, Residual
  <1>8. CASE count = 8
    BY <1>8 DEF Portion, Residual
  <1> QED
    BY <1>1, <1>2, <1>3, <1>4, <1>5, <1>6, <1>7, <1>8 DEF MaxSlots

LEMMA ShiftedType ==
    ASSUME scheduled \in [Slots -> Int]
    PROVE  Shifted \in [Slots -> Int]
  BY DEF Shifted, Slots, MaxSlots

LEMMA ScheduledType ==
    ASSUME scheduled \in [Slots -> Int],
           NEW input \in Int, NEW count \in 1..MaxSlots
    PROVE  Scheduled(input, count) \in [Slots -> Int]
  <1>1. Portion(input, count) \in Int /\ Residual(input, count) \in Int
    BY PortionInt
  <1>2. Shifted \in [Slots -> Int]
    BY ShiftedType
  <1> HIDE DEF Portion, Residual, Shifted
  <1> QED
    BY <1>1, <1>2 DEF Scheduled

LEMMA EmptyQueueType == EmptyQueue \in [Slots -> Int]
  BY DEF EmptyQueue

LEMMA PendingInt ==
    ASSUME scheduled \in [Slots -> Int]
    PROVE  PendingTotal \in Int
  BY DEF PendingTotal, Slots, MaxSlots

\* What a turn adds to a slot once the slots are shifted.
Added(i, input, count) ==
    (IF i < count - 1 THEN Portion(input, count) ELSE 0)
      + (IF i = count - 2 THEN Residual(input, count) ELSE 0)

AddedNow(input, count) ==
    Portion(input, count) + (IF count = 1 THEN Residual(input, count) ELSE 0)

AddedLater(input, count) ==
    Added(0, input, count) + Added(1, input, count) + Added(2, input, count)
      + Added(3, input, count) + Added(4, input, count) + Added(5, input, count)
      + Added(6, input, count) + Added(7, input, count)

\* The portions and the residual make up the turn, whatever their number.
LEMMA PortionsTotal ==
    ASSUME NEW input \in Int, NEW count \in 1..MaxSlots
    PROVE  AddedNow(input, count) + AddedLater(input, count) = input
  <1> DEFINE P == Portion(input, count)
             R == Residual(input, count)
             A(i) == Added(i, input, count)
             Now == AddedNow(input, count)
             Later == AddedLater(input, count)
  <1>1. P \in Int /\ R \in Int /\ R = input - count * P
    BY PortionInt DEF Residual
  <1>2. /\ A(0) = (IF count > 1 THEN P ELSE 0) + (IF count = 2 THEN R ELSE 0)
        /\ A(1) = (IF count > 2 THEN P ELSE 0) + (IF count = 3 THEN R ELSE 0)
        /\ A(2) = (IF count > 3 THEN P ELSE 0) + (IF count = 4 THEN R ELSE 0)
        /\ A(3) = (IF count > 4 THEN P ELSE 0) + (IF count = 5 THEN R ELSE 0)
        /\ A(4) = (IF count > 5 THEN P ELSE 0) + (IF count = 6 THEN R ELSE 0)
        /\ A(5) = (IF count > 6 THEN P ELSE 0) + (IF count = 7 THEN R ELSE 0)
        /\ A(6) = (IF count > 7 THEN P ELSE 0) + (IF count = 8 THEN R ELSE 0)
        /\ A(7) = 0
    <2>1. count \in 1..8
      BY DEF MaxSlots
    <2> HIDE DEF P, R
    <2> QED
      BY <2>1, <1>1 DEF Added, P, R
  <1>3. Now = P + (IF count = 1 THEN R ELSE 0)
    BY DEF AddedNow
  <1>4. Later = A(0) + A(1) + A(2) + A(3) + A(4) + A(5) + A(6) + A(7)
    BY DEF AddedLater
  <1>5. count \in 1..8
    BY DEF MaxSlots
  <1> HIDE DEF P, R, A, Now, Later
  <1>6. Now + Later = input
    <2>1. CASE count = 1
      BY <2>1, <1>1, <1>2, <1>3, <1>4
    <2>2. CASE count = 2
      BY <2>2, <1>1, <1>2, <1>3, <1>4
    <2>3. CASE count = 3
      BY <2>3, <1>1, <1>2, <1>3, <1>4
    <2>4. CASE count = 4
      BY <2>4, <1>1, <1>2, <1>3, <1>4
    <2>5. CASE count = 5
      BY <2>5, <1>1, <1>2, <1>3, <1>4
    <2>6. CASE count = 6
      BY <2>6, <1>1, <1>2, <1>3, <1>4
    <2>7. CASE count = 7
      BY <2>7, <1>1, <1>2, <1>3, <1>4
    <2>8. CASE count = 8
      BY <2>8, <1>1, <1>2, <1>3, <1>4
    <2> QED
      BY <1>5, <2>1, <2>2, <2>3, <2>4, <2>5, <2>6, <2>7, <2>8
  <1> QED
    BY <1>6 DEF Now, Later

\* What a call hands on and what it leaves add up to what was pending and what
\* came.
LEMMA SpreadTotal ==
    ASSUME scheduled \in [Slots -> Int],
           NEW input \in Int, NEW count \in 1..MaxSlots,
           scheduled' = Scheduled(input, count),
           output' = scheduled[0] + Portion(input, count)
                       + (IF count = 1 THEN Residual(input, count) ELSE 0)
    PROVE  output' + PendingTotal' = PendingTotal + input
  <1> DEFINE A(i) == Added(i, input, count)
             Now == AddedNow(input, count)
  <1>1. Portion(input, count) \in Int /\ Residual(input, count) \in Int
    BY PortionInt
  <1>2. \A i \in 0..7 : scheduled[i] \in Int
    BY DEF Slots, MaxSlots
  <1>3. \A i \in 0..7 : A(i) \in Int
    BY <1>1 DEF Added, MaxSlots
  <1>4. \A i \in 0..7 : scheduled'[i] = (IF i < 7 THEN scheduled[i + 1] ELSE 0) + A(i)
    <2>1. SUFFICES ASSUME NEW i \in 0..7
                   PROVE  scheduled'[i] = (IF i < 7 THEN scheduled[i + 1] ELSE 0) + A(i)
      OBVIOUS
    <2>2. scheduled'[i] = Shifted[i] + (IF i < count - 1 THEN Portion(input, count) ELSE 0)
                            + (IF i = count - 2 THEN Residual(input, count) ELSE 0)
      BY DEF Scheduled, Slots, MaxSlots
    <2>3. Shifted[i] = (IF i < 7 THEN scheduled[i + 1] ELSE 0) /\ Shifted[i] \in Int
      BY <1>2 DEF Shifted, Slots, MaxSlots
    <2> HIDE DEF Shifted, Portion, Residual
    <2> QED
      BY <2>2, <2>3, <1>1 DEF Added, MaxSlots
  <1>5. Now \in Int /\ output' = scheduled[0] + Now
    <2>1. scheduled[0] \in Int
      BY <1>2
    <2>2. Now = Portion(input, count) + (IF count = 1 THEN Residual(input, count) ELSE 0)
      BY DEF AddedNow
    <2> HIDE DEF Now
    <2>3. CASE count = 1
      BY <2>1, <2>2, <2>3, <1>1
    <2>4. CASE count # 1
      BY <2>1, <2>2, <2>4, <1>1
    <2> QED
      BY <2>3, <2>4
  <1>6. Now + (A(0) + A(1) + A(2) + A(3) + A(4) + A(5) + A(6) + A(7)) = input
    BY PortionsTotal DEF AddedLater
  <1> HIDE DEF A, Now
  <1>7. /\ scheduled'[0] = scheduled[1] + A(0) /\ scheduled'[1] = scheduled[2] + A(1)
        /\ scheduled'[2] = scheduled[3] + A(2) /\ scheduled'[3] = scheduled[4] + A(3)
        /\ scheduled'[4] = scheduled[5] + A(4) /\ scheduled'[5] = scheduled[6] + A(5)
        /\ scheduled'[6] = scheduled[7] + A(6) /\ scheduled'[7] = A(7)
    BY <1>2, <1>3, <1>4
  <1> DEFINE Before == PendingTotal
             After == PendingTotal'
  <1>8. After = Before - scheduled[0]
                  + (A(0) + A(1) + A(2) + A(3) + A(4) + A(5) + A(6) + A(7))
    <2>1. After = scheduled'[0] + scheduled'[1] + scheduled'[2] + scheduled'[3]
                    + scheduled'[4] + scheduled'[5] + scheduled'[6] + scheduled'[7]
      BY DEF PendingTotal
    <2>2. Before = scheduled[0] + scheduled[1] + scheduled[2] + scheduled[3]
                     + scheduled[4] + scheduled[5] + scheduled[6] + scheduled[7]
      BY DEF PendingTotal
    <2> HIDE DEF Before, After
    <2> QED
      BY <1>2, <1>3, <1>7, <2>1, <2>2
  <1>9. Before \in Int /\ scheduled[0] \in Int
    BY <1>2, PendingInt
  <1>10. A(0) + A(1) + A(2) + A(3) + A(4) + A(5) + A(6) + A(7) \in Int
    BY <1>3
  <1> HIDE DEF Before, After
  <1>11. output' + After = Before + input
    BY <1>5, <1>6, <1>8, <1>9, <1>10
  <1> QED
    BY <1>11 DEF Before, After

LEMMA ShiftTotal ==
    ASSUME scheduled \in [Slots -> Int], scheduled' = Shifted, output' = scheduled[0]
    PROVE  output' + PendingTotal' = PendingTotal
  <1>1. \A i \in 0..7 : scheduled[i] \in Int
    BY DEF Slots, MaxSlots
  <1>2. /\ scheduled'[0] = scheduled[1] /\ scheduled'[1] = scheduled[2]
        /\ scheduled'[2] = scheduled[3] /\ scheduled'[3] = scheduled[4]
        /\ scheduled'[4] = scheduled[5] /\ scheduled'[5] = scheduled[6]
        /\ scheduled'[6] = scheduled[7] /\ scheduled'[7] = 0
    BY DEF Shifted, Slots, MaxSlots
  <1> QED
    BY <1>1, <1>2 DEF PendingTotal

LEMMA EmptyTotal ==
    ASSUME scheduled = EmptyQueue
    PROVE  PendingTotal = 0
  <1>1. \A i \in 0..7 : scheduled[i] = 0
    BY DEF EmptyQueue, Slots, MaxSlots
  <1> QED
    BY <1>1 DEF PendingTotal

-----------------------------------------------------------------------------
(* The inductive invariant.                                                *)

\* What is pending after some calls without a turn, slot by slot.
EmptiesFromTheBack == \A i \in Slots : i + idle >= 7 => scheduled[i] = 0

\* A frequency of zero arms nothing, and a distributor that must start anew
\* holds nothing: neither the pass-through nor the first call loses a turn.
StartsEmpty ==
    /\ Frequency = 0 => ~affected
    /\ ~primed => scheduled = EmptyQueue

Holds == IdleUntilArmed /\ StartsEmpty /\ EmptiesFromTheBack

IInv == TypeOK /\ Holds

-----------------------------------------------------------------------------
(* Types.                                                                  *)

LEMMA DistributeTypes ==
    ASSUME DistTypeOK, NEW o \in Objects, NEW gap \in Gaps, NEW input \in Numbers,
           Distribute(o, gap, input)
    PROVE  DistTypeOK'
  <1>1. gap \in Nat
    BY GapsNat
  <1>2. gap * Scale \in Nat
    BY <1>1, ScalePositive
  <1>3. EmptyQueue \in [Slots -> Int] /\ PendingTotal \in Int
    BY EmptyQueueType, PendingInt DEF DistTypeOK
  <1>4. CASE PassUnusable(input)
    BY <1>3, <1>4 DEF PassUnusable, DistTypeOK, Numbers
  <1>5. CASE Prime(o, input)
    BY <1>3, <1>5 DEF Prime, DistTypeOK, Numbers
  <1>6. CASE Flush(o, gap, input)
    <2>1. PendingTotal + input \in Int
      BY <1>3, <1>6 DEF Flush, Unusable, Numbers
    <2> QED
      BY <2>1, <1>2, <1>3, <1>6 DEF Flush, DistTypeOK
  <1>7. CASE Spread(o, gap, input)
    <2> DEFINE count == SlotCount(NextInterval(gap))
    <2>1. gap > 0 /\ input \in Int
      BY <1>7 DEF Spread, Unusable, Numbers
    <2>2. count \in 1..MaxSlots /\ NextInterval(gap) \in Nat
      BY <1>1, <2>1, SlotCountRange, NextIntervalPositive DEF DistTypeOK
    <2>3. Shifted \in [Slots -> Int] /\ scheduled[0] \in Int
      BY ShiftedType DEF DistTypeOK, Slots, MaxSlots
    <2>4. scheduled \in [Slots -> Int]
      BY DEF DistTypeOK
    <2> HIDE DEF count
    <2>5. /\ Scheduled(input, count) \in [Slots -> Int]
          /\ Portion(input, count) \in Int
          /\ Residual(input, count) \in Int
      BY <2>1, <2>2, <2>4, ScheduledType, PortionInt
    <2>6. frame_interval' = NextInterval(gap)
      BY <1>7 DEF Spread
    <2>7. scheduled' \in [Slots -> Int] /\ output' \in Int
      <3>1. CASE input = 0
        BY <1>7, <3>1, <2>3 DEF Spread
      <3>2. CASE input # 0
        BY <1>7, <3>2, <2>3, <2>5 DEF Spread, count
      <3> QED
        BY <3>1, <3>2
    <2>8. UNCHANGED <<object, primed>>
      BY <1>7 DEF Spread
    <2> QED
      BY <2>2, <2>6, <2>7, <2>8 DEF DistTypeOK
  <1> QED
    BY <1>4, <1>5, <1>6, <1>7 DEF Distribute

LEMMA AgesNat ==
    /\ CallAgeCap \in Nat /\ TurnAgeCap \in Nat
    /\ LongestGap \in Nat /\ LongestGap < CallAgeCap
  BY FrequencyNat DEF CallAgeCap, TurnAgeCap, LongestGap, MaximumBatch

LEMMA NextCameraNat ==
    ASSUME camera_interval \in Nat, NEW interval \in Nat
    PROVE  NextCamera(interval) \in Nat
  <1>1. interval * Scale \in Nat
    BY ScalePositive
  <1>2. 3 * interval * Scale \in Nat
    BY ScalePositive
  <1> QED
    BY <1>1, <1>2 DEF NextCamera

LEMMA ObserveTypes ==
    ASSUME ClassTypeOK, NEW gap \in Gaps, NEW input \in Numbers, Observe(gap, input)
    PROVE  ClassTypeOK'
  <1>1. gap \in Nat
    BY GapsNat
  <1>2. CallAged(gap) \in 0..CallAgeCap
    BY <1>1, AgesNat DEF CallAged, ClassTypeOK
  <1>3. TurnAged(gap) \in {NoTurn} \cup 0..TurnAgeCap
    BY <1>1, AgesNat DEF TurnAged, ClassTypeOK
  <1>4. 0 \in 0..CallAgeCap /\ 0 \in {NoTurn} \cup 0..TurnAgeCap
    BY AgesNat
  <1>5. Counted \in 0..ArmingBatches
    BY DEF Counted, ClassTypeOK, ArmingBatches
  <1>6. NextCamera(since_call + gap) \in Nat
    BY <1>1, NextCameraNat, AgesNat DEF ClassTypeOK
  <1>7. 0 \in 0..ArmingBatches /\ 0 \in Nat /\ ArmingBatches # 0
    BY DEF ArmingBatches
  <1> HIDE DEF CallAged, TurnAged, Counted, NextCamera
  <1>8. CASE ObserveUnusable(gap, input)
    BY <1>8, <1>2, <1>3, <1>7 DEF ObserveUnusable, ClassTypeOK
  <1>9. CASE ObserveRestart(gap, input)
    BY <1>9, <1>3, <1>4, <1>7 DEF ObserveRestart, ClassTypeOK
  <1>10. CASE ObservePause(gap, input)
    BY <1>10, <1>4, <1>7 DEF ObservePause, ClassTypeOK
  <1>11. CASE ObserveCadence(gap, input)
    <2>1. /\ since_call' = 0 /\ called' = called
          /\ camera_interval' = NextCamera(since_call + gap)
      BY <1>11 DEF ObserveCadence
    <2>2. since_turn' \in {0, TurnAged(gap)}
      BY <1>11 DEF ObserveCadence
    <2>3. consecutive' \in {0, consecutive, Counted}
      BY <1>11 DEF ObserveCadence
    <2>4. affected' \in BOOLEAN /\ (consecutive' = ArmingBatches => affected')
      <3>1. \/ consecutive' = consecutive /\ affected' = affected
            \/ consecutive' = Counted /\ affected' = (affected \/ Arms)
            \/ consecutive' = 0 /\ affected' = affected
        BY <1>11 DEF ObserveCadence
      <3>2. Counted = ArmingBatches => Arms
        BY DEF Arms, ArmingBatches
      <3>3. affected \in BOOLEAN /\ (consecutive = ArmingBatches => affected)
        BY DEF ClassTypeOK
      <3> QED
        BY <3>1, <3>2, <3>3, <1>7
    <2> QED
      BY <2>1, <2>2, <2>3, <2>4, <1>3, <1>4, <1>5, <1>6, <1>7 DEF ClassTypeOK
  <1> QED
    BY <1>8, <1>9, <1>10, <1>11 DEF Observe

\* A classifier stays armed, and without a frequency it is never armed.
LEMMA Latched ==
    ASSUME NEW gap, NEW input, Observe(gap, input), affected \in BOOLEAN
    PROVE  /\ affected => affected'
           /\ Frequency = 0 => affected' = affected
  <1>1. CASE ObserveUnusable(gap, input)
    BY <1>1 DEF ObserveUnusable
  <1>2. CASE ObserveRestart(gap, input)
    BY <1>2 DEF ObserveRestart, NoFrequency
  <1>3. CASE ObservePause(gap, input)
    BY <1>3 DEF ObservePause, NoFrequency
  <1>4. CASE ObserveCadence(gap, input)
    <2>1. affected' = affected \/ affected' = (affected \/ Arms)
      BY <1>4 DEF ObserveCadence
    <2>2. Frequency # 0
      BY <1>4 DEF ObserveCadence, NoFrequency
    <2> QED
      BY <2>1, <2>2
  <1> QED
    BY <1>1, <1>2, <1>3, <1>4 DEF Observe

\* What the hook feeds the distributor, and what it hands to the game.
Fed(delta) == IF affected' THEN delta ELSE 0

LEMMA TurnDeltaSplit ==
    ASSUME NEW o, NEW gap, NEW delta, TurnDelta(o, gap, delta)
    PROVE  /\ Observe(gap, delta)
           /\ Distribute(o, gap, Fed(delta))
           /\ handed' = (IF affected' THEN output' ELSE delta)
           /\ asked' = delta
           /\ idle' = (IF IsTurn(delta) THEN 0 ELSE UpTo(idle))
  BY DEF TurnDelta, Fed, Remember

LEMMA FedNumber ==
    ASSUME NEW delta \in Deltas
    PROVE  delta \in Numbers /\ Fed(delta) \in Numbers
  BY DeltasNumbers DEF Fed, Numbers

LEMMA TypeStep ==
    ASSUME TypeOK, Next
    PROVE  TypeOK'
  <1> PICK o \in Objects, gap \in Gaps, delta \in Deltas : TurnDelta(o, gap, delta)
    BY DEF Next
  <1>1. /\ Observe(gap, delta) /\ Distribute(o, gap, Fed(delta))
        /\ handed' = (IF affected' THEN output' ELSE delta)
        /\ asked' = delta
        /\ idle' = (IF IsTurn(delta) THEN 0 ELSE UpTo(idle))
    BY TurnDeltaSplit
  <1>2. delta \in Numbers /\ Fed(delta) \in Numbers
    BY FedNumber
  <1>3. DistTypeOK'
    BY <1>1, <1>2, DistributeTypes DEF TypeOK
  <1>4. ClassTypeOK'
    BY <1>1, <1>2, ObserveTypes DEF TypeOK
  <1>5. handed' \in Numbers
    BY <1>1, <1>2, <1>3 DEF DistTypeOK, Numbers
  <1>6. idle' \in 0..LongEnough
    BY <1>1 DEF TypeOK, UpTo, LongEnough
  <1> QED
    BY <1>1, <1>3, <1>4, <1>5, <1>6 DEF TypeOK, Numbers

LEMMA TypeInit ==
    ASSUME Init
    PROVE  TypeOK
  <1>1. DistTypeOK
    <2>1. /\ scheduled = EmptyQueue /\ frame_interval = 0 /\ object = NoObject
          /\ primed = FALSE /\ output = 0
      BY DEF Init, DistInit
    <2>2. frame_interval \in Nat /\ output \in Int
      BY <2>1
    <2> HIDE DEF EmptyQueue
    <2> QED
      BY <2>1, <2>2, EmptyQueueType, Zenon DEF DistTypeOK
  <1>2. ClassTypeOK
    <2>1. /\ called = FALSE /\ since_call = 0 /\ since_turn = NoTurn
          /\ camera_interval = 0 /\ consecutive = 0 /\ affected = FALSE
      BY DEF Init, ClassInit
    <2>2. 0 \in 0..CallAgeCap /\ 0 \in 0..ArmingBatches /\ ArmingBatches # 0
      BY AgesNat DEF ArmingBatches
    <2> QED
      BY <2>1, <2>2 DEF ClassTypeOK
  <1> QED
    BY <1>1, <1>2 DEF Init, TypeOK, LongEnough

LEMMA TypeStutter ==
    ASSUME TypeOK, UNCHANGED vars
    PROVE  TypeOK'
  <1>1. DistTypeOK'
    BY DEF TypeOK, DistTypeOK, vars, distVars
  <1>2. ClassTypeOK'
    BY DEF TypeOK, ClassTypeOK, vars, classVars
  <1> QED
    BY <1>1, <1>2 DEF TypeOK, vars, historyVars

\* Every variable of the hook keeps its type, whatever the frequency, the
\* deltas and the timing (turn_distributor.cpp, cadence_classifier.cpp).
THEOREM TypeCorrect == Spec => []TypeOK
  <1>1. Init => TypeOK
    BY TypeInit
  <1>2. TypeOK /\ [Next]_vars => TypeOK'
    BY TypeStep, TypeStutter
  <1> QED
    BY <1>1, <1>2, PTL DEF Spec

-----------------------------------------------------------------------------
(* The promises.                                                           *)

LEMMA EmptySlots ==
    ASSUME scheduled = EmptyQueue
    PROVE  \A i \in Slots : scheduled[i] = 0
  BY DEF EmptyQueue

LEMMA ShiftedEmpty ==
    ASSUME scheduled = EmptyQueue
    PROVE  Shifted = EmptyQueue
  <1>1. \A i \in Slots : i < MaxSlots - 1 => EmptyQueue[i + 1] = 0
    BY DEF EmptyQueue, Slots, MaxSlots
  <1> QED
    BY <1>1 DEF Shifted, EmptyQueue

\* Zeros go through an empty distributor as zeros.
LEMMA ZerosStayZeros ==
    ASSUME scheduled = EmptyQueue, NEW o, NEW gap, Distribute(o, gap, 0)
    PROVE  scheduled' = EmptyQueue /\ output' = 0
  <1>1. PendingTotal = 0 /\ Shifted = EmptyQueue /\ scheduled[0] = 0
    BY EmptyTotal, ShiftedEmpty, EmptySlots DEF Slots, MaxSlots
  <1>2. CASE PassUnusable(0)
    BY <1>2 DEF PassUnusable
  <1>3. CASE Prime(o, 0)
    BY <1>3 DEF Prime
  <1>4. CASE Flush(o, gap, 0)
    BY <1>1, <1>4 DEF Flush
  <1>5. CASE Spread(o, gap, 0)
    BY <1>1, <1>5 DEF Spread
  <1> QED
    BY <1>2, <1>3, <1>4, <1>5 DEF Distribute

\* One call without a turn moves every slot forward, and a turn never reaches
\* the last one.
LEMMA Moves ==
    ASSUME DistTypeOK, EmptiesFromTheBack, idle \in 0..LongEnough,
           NEW o \in Objects, NEW gap \in Gaps, NEW input \in Numbers,
           Distribute(o, gap, input),
           idle' = (IF IsTurn(input) THEN 0 ELSE UpTo(idle))
    PROVE  EmptiesFromTheBack'
  <1>1. CASE scheduled' = EmptyQueue
    BY <1>1 DEF EmptiesFromTheBack, EmptyQueue
  <1>2. CASE Spread(o, gap, input)
    <2> DEFINE count == SlotCount(NextInterval(gap))
    <2>1. input \in Int /\ gap > 0
      BY <1>2 DEF Spread, Unusable, Numbers
    <2>2. count \in 1..MaxSlots
      BY <2>1, SlotCountRange, GapsNat DEF DistTypeOK
    <2>3. \A i \in Slots : Shifted[i] = IF i < 7 THEN scheduled[i + 1] ELSE 0
      BY DEF Shifted, Slots, MaxSlots
    <2> HIDE DEF count
    <2>4. CASE input = 0
      <3>1. scheduled' = Shifted /\ idle' = UpTo(idle)
        BY <1>2, <2>4, NotFiniteOther DEF Spread, IsTurn
      <3>2. idle' = idle + 1 \/ (idle = 8 /\ idle' = 8)
        BY <3>1 DEF UpTo, LongEnough
      <3> SUFFICES ASSUME NEW i \in Slots, i + idle' >= 7
                   PROVE  scheduled'[i] = 0
        BY DEF EmptiesFromTheBack
      <3>3. CASE i = 7
        BY <3>1, <3>3, <2>3
      <3>4. CASE i # 7
        <4>1. i + 1 \in Slots /\ i + 1 + idle >= 7 /\ i < 7
          BY <3>2, <3>4 DEF Slots, MaxSlots, LongEnough
        <4>2. scheduled[i + 1] = 0
          BY <4>1 DEF EmptiesFromTheBack
        <4> QED
          BY <3>1, <4>1, <4>2, <2>3
      <3> QED
        BY <3>3, <3>4
    <2>5. CASE input # 0
      <3>1. scheduled' = Scheduled(input, count) /\ idle' = 0
        BY <1>2, <2>1, <2>5, NotFiniteOther DEF Spread, IsTurn, count
      <3>2. scheduled'[7] = 0
        BY <3>1, <2>2, <2>3 DEF Scheduled, Slots, MaxSlots
      <3> QED
        BY <3>1, <3>2 DEF EmptiesFromTheBack, Slots, MaxSlots
    <2> QED
      BY <2>4, <2>5
  <1> QED
    BY <1>1, <1>2 DEF Distribute, PassUnusable, Prime, Flush

LEMMA HoldsStep ==
    ASSUME IInv, Next
    PROVE  Holds'
  <1> PICK o \in Objects, gap \in Gaps, delta \in Deltas : TurnDelta(o, gap, delta)
    BY DEF Next
  <1>1. /\ Observe(gap, delta) /\ Distribute(o, gap, Fed(delta))
        /\ idle' = (IF IsTurn(delta) THEN 0 ELSE UpTo(idle))
    BY TurnDeltaSplit
  <1>2. Fed(delta) \in Numbers
    BY FedNumber
  <1>3. /\ DistTypeOK /\ affected \in BOOLEAN /\ idle \in 0..LongEnough
        /\ IdleUntilArmed /\ StartsEmpty /\ EmptiesFromTheBack
    BY DEF IInv, TypeOK, ClassTypeOK, Holds
  <1>4. /\ affected => affected'
        /\ Frequency = 0 => affected' = affected
    BY <1>1, <1>3, Latched
  <1>5. ~affected' => scheduled' = EmptyQueue /\ output' = 0
    <2>1. CASE ~affected'
      <3>1. scheduled = EmptyQueue
        BY <2>1, <1>3, <1>4 DEF IdleUntilArmed
      <3>2. Distribute(o, gap, 0)
        BY <2>1, <1>1 DEF Fed
      <3> QED
        BY <3>1, <3>2, ZerosStayZeros
    <2> QED
      BY <2>1
  <1>6. StartsEmpty'
    <2>1. Frequency = 0 => ~affected'
      BY <1>3, <1>4 DEF StartsEmpty
    <2>2. ~primed' => scheduled' = EmptyQueue
      BY <1>1, <1>3
         DEF Distribute, PassUnusable, Prime, Flush, Spread, Starts, StartsEmpty
    <2> QED
      BY <2>1, <2>2 DEF StartsEmpty
  <1>7. EmptiesFromTheBack'
    <2>1. CASE affected'
      <3>1. Fed(delta) = delta
        BY <2>1 DEF Fed
      <3> QED
        BY <1>1, <1>2, <1>3, <3>1, Moves
    <2>2. CASE ~affected'
      BY <2>2, <1>5 DEF EmptiesFromTheBack, EmptyQueue
    <2> QED
      BY <2>1, <2>2
  <1> QED
    BY <1>5, <1>6, <1>7 DEF Holds, IdleUntilArmed

LEMMA Inductive == Spec => []IInv
  <1>1. Init => IInv
    <2> SUFFICES ASSUME Init PROVE IInv
      OBVIOUS
    <2>1. /\ scheduled = EmptyQueue /\ output = 0 /\ affected = FALSE
      BY DEF Init, DistInit, ClassInit
    <2>2. Holds
      BY <2>1, EmptySlots DEF Holds, IdleUntilArmed, StartsEmpty, EmptiesFromTheBack
    <2> QED
      BY <2>2, TypeInit DEF IInv
  <1>2. IInv /\ [Next]_vars => IInv'
    <2> SUFFICES ASSUME IInv, [Next]_vars PROVE IInv'
      OBVIOUS
    <2>1. CASE Next
      BY <2>1, TypeStep, HoldsStep DEF IInv
    <2>2. CASE UNCHANGED vars
      <3>1. Holds'
        BY <2>2
           DEF IInv, Holds, IdleUntilArmed, StartsEmpty, EmptiesFromTheBack,
               vars, distVars, classVars, historyVars
      <3> QED
        BY <2>2, <3>1, TypeStutter DEF IInv
    <2> QED
      BY <2>1, <2>2
  <1> QED
    BY <1>1, <1>2, PTL DEF Spec

\* While the classifier is not armed the distributor holds no turn, so that
\* feeding it zeros and dropping what it returns loses nothing
\* (patch_dll.cpp:62-65).
THEOREM NothingHeldUnarmed == Spec => []IdleUntilArmed
  BY Inductive, PTL DEF IInv, Holds

\* Seven calls without a turn empty the distributor (turn_distributor.cpp:73-104).
THEOREM Drained == Spec => []DrainedInSeven
  <1>1. IInv => DrainedInSeven
    <2> SUFFICES ASSUME IInv, idle >= 7 PROVE scheduled = EmptyQueue
      BY DEF DrainedInSeven
    <2>1. \A i \in Slots : scheduled[i] = 0
      BY DEF IInv, TypeOK, Holds, EmptiesFromTheBack, Slots, MaxSlots
    <2>2. scheduled \in [Slots -> Int]
      BY DEF IInv, TypeOK, DistTypeOK
    <2> QED
      BY <2>1, <2>2 DEF EmptyQueue
  <1> QED
    BY <1>1, Inductive, PTL

-----------------------------------------------------------------------------
(* Conservation.                                                           *)

LEMMA ConservedStep ==
    ASSUME IInv, Holds', Next
    PROVE  GivesUp \/ handed' + PendingTotal' = PendingTotal + asked'
  <1> PICK o \in Objects, gap \in Gaps, delta \in Deltas : TurnDelta(o, gap, delta)
    BY DEF Next
  <1> SUFFICES ASSUME ~GivesUp
               PROVE  handed' + PendingTotal' = PendingTotal + asked'
    OBVIOUS
  <1>1. /\ Observe(gap, delta) /\ Distribute(o, gap, Fed(delta))
        /\ handed' = (IF affected' THEN output' ELSE delta)
        /\ asked' = delta
    BY TurnDeltaSplit
  <1>2. delta \in Int /\ object' = object
    BY <1>1, DeltasNumbers DEF GivesUp
  <1>3. /\ DistTypeOK /\ affected \in BOOLEAN /\ scheduled \in [Slots -> Int]
        /\ IdleUntilArmed /\ IdleUntilArmed' /\ StartsEmpty /\ StartsEmpty'
    BY DEF IInv, TypeOK, DistTypeOK, ClassTypeOK, Holds
  <1>4. scheduled' = EmptyQueue => PendingTotal' = 0
    <2>1. ASSUME scheduled' = EmptyQueue PROVE \A i \in 0..7 : scheduled'[i] = 0
      BY <2>1 DEF EmptyQueue, Slots, MaxSlots
    <2> QED
      BY <2>1 DEF PendingTotal
  <1>5. PendingTotal \in Int
    BY <1>3, PendingInt
  <1>6. CASE ~affected'
    <2>1. ~affected
      BY <1>1, <1>3, <1>6, Latched
    <2>2. PendingTotal = 0 /\ PendingTotal' = 0
      BY <2>1, <1>3, <1>4, <1>6, EmptyTotal DEF IdleUntilArmed
    <2> QED
      BY <2>2, <1>1, <1>2, <1>6
  <1>7. CASE affected'
    <2>1. Distribute(o, gap, delta) /\ handed' = output'
      BY <1>1, <1>7 DEF Fed
    <2>2. Frequency # 0 /\ ~Unusable(delta)
      BY <1>2, <1>3, <1>7, NotFiniteOther DEF StartsEmpty, Unusable
    <2>3. CASE Prime(o, delta)
      <3>1. ~primed /\ scheduled' = EmptyQueue /\ output' = delta
        BY <2>3, <1>2 DEF Prime, Starts
      <3>2. PendingTotal = 0
        BY <3>1, <1>3, EmptyTotal DEF StartsEmpty
      <3> QED
        BY <3>1, <3>2, <2>1, <1>1, <1>2, <1>4
    <2>4. CASE Flush(o, gap, delta)
      <3>1. scheduled' = EmptyQueue /\ output' = PendingTotal + delta
        BY <2>4 DEF Flush
      <3> QED
        BY <3>1, <2>1, <1>1, <1>2, <1>4, <1>5
    <2>5. CASE Spread(o, gap, delta)
      <3> DEFINE count == SlotCount(NextInterval(gap))
      <3>1. gap > 0 /\ gap \in Nat
        BY <2>5, GapsNat DEF Spread
      <3>2. count \in 1..MaxSlots
        BY <3>1, <1>3, SlotCountRange DEF DistTypeOK
      <3> HIDE DEF count
      <3>3. CASE delta = 0
        <4>1. scheduled' = Shifted /\ output' = scheduled[0]
          BY <2>5, <3>3 DEF Spread
        <4>2. output' + PendingTotal' = PendingTotal
          BY <4>1, <1>3, ShiftTotal
        <4> QED
          BY <4>2, <3>3, <2>1, <1>1, <1>5
      <3>4. CASE delta # 0
        <4>1. /\ scheduled' = Scheduled(delta, count)
              /\ output' = scheduled[0] + Portion(delta, count)
                             + (IF count = 1 THEN Residual(delta, count) ELSE 0)
          BY <2>5, <3>4 DEF Spread, count
        <4>2. output' + PendingTotal' = PendingTotal + delta
          BY <4>1, <3>2, <1>2, <1>3, SpreadTotal
        <4> QED
          BY <4>2, <2>1, <1>1
      <3> QED
        BY <3>3, <3>4
    <2> QED
      BY <2>1, <2>2, <2>3, <2>4, <2>5 DEF Distribute, PassUnusable
  <1> QED
    BY <1>6, <1>7

\* The hook neither loses nor invents a turn, at any cadence, except when the
\* object changes or the delta is no number (turn_distributor.cpp:35-105).
THEOREM Conserved == Spec => TurnConserved
  <1>1. IInv /\ IInv' /\ [Next]_vars
          => [GivesUp \/ handed' + PendingTotal' = PendingTotal + asked']_vars
    BY ConservedStep DEF IInv
  <1> QED
    BY <1>1, Inductive, PTL DEF Spec, TurnConserved

-----------------------------------------------------------------------------
(* Direction.                                                              *)

OnlyForward == Deltas \ {NotFinite} \subseteq Nat
Forward == \A i \in Slots : scheduled[i] >= 0

LEMMA ForwardTotal ==
    ASSUME Forward, scheduled \in [Slots -> Int]
    PROVE  PendingTotal >= 0
  <1>1. \A i \in 0..7 : scheduled[i] \in Int /\ scheduled[i] >= 0
    BY DEF Forward, Slots, MaxSlots
  <1> QED
    BY <1>1 DEF PendingTotal

LEMMA ForwardSpread ==
    ASSUME Forward, scheduled \in [Slots -> Int],
           NEW input \in Nat, input >= 64, NEW count \in 1..MaxSlots
    PROVE  /\ \A i \in Slots : Scheduled(input, count)[i] >= 0
           /\ scheduled[0] + Portion(input, count)
                + (IF count = 1 THEN Residual(input, count) ELSE 0) >= 0
  <1> DEFINE P == Portion(input, count)
             R == Residual(input, count)
  <1>1. P \in Int /\ R \in Int
    BY PortionInt
  <1>2. P >= 0 /\ P + R >= 0
    BY PortionForward
  <1>3. \A i \in Slots : Shifted[i] \in Int /\ Shifted[i] >= 0
    <2>1. \A i \in Slots : i < MaxSlots - 1 => i + 1 \in Slots
      BY DEF Slots, MaxSlots
    <2> QED
      BY <2>1 DEF Shifted, Forward
  <1>4. scheduled[0] \in Int /\ scheduled[0] >= 0
    BY DEF Forward, Slots, MaxSlots
  <1>5. \A i \in Slots :
          Scheduled(input, count)[i]
            = Shifted[i] + (IF i < count - 1 THEN P ELSE 0)
                         + (IF i = count - 2 THEN R ELSE 0)
    BY DEF Scheduled
  <1> HIDE DEF P, R, Shifted
  <1>6. \A i \in Slots : Scheduled(input, count)[i] >= 0
    <2> SUFFICES ASSUME NEW i \in Slots
                 PROVE  Scheduled(input, count)[i] >= 0
      OBVIOUS
    <2> DEFINE S == Shifted[i]
               N == Scheduled(input, count)[i]
    <2>1. S \in Int /\ S >= 0 /\ i \in Int /\ count \in Int
      BY <1>3 DEF Slots, MaxSlots
    <2>2. N = S + (IF i < count - 1 THEN P ELSE 0) + (IF i = count - 2 THEN R ELSE 0)
      BY <1>5
    <2> HIDE DEF S, N
    <2>3. N >= 0
      <3>1. CASE i = count - 2
        BY <3>1, <2>1, <2>2, <1>1, <1>2
      <3>2. CASE i # count - 2
        BY <3>2, <2>1, <2>2, <1>1, <1>2
      <3> QED
        BY <3>1, <3>2
    <2> QED
      BY <2>3 DEF N
  <1>7. scheduled[0] + P + (IF count = 1 THEN R ELSE 0) >= 0
    <2>1. CASE count = 1
      BY <2>1, <1>1, <1>2, <1>4
    <2>2. CASE count # 1
      BY <2>2, <1>1, <1>2, <1>4
    <2> QED
      BY <2>1, <2>2
  <1> QED
    BY <1>6, <1>7 DEF P, R

LEMMA ForwardDistribute ==
    ASSUME DistTypeOK, Forward, NEW o \in Objects, NEW gap \in Gaps,
           NEW input \in Numbers, Distribute(o, gap, input),
           input # NotFinite => input = 0 \/ (input \in Nat /\ input >= 64)
    PROVE  Forward' /\ (output' # NotFinite => output' >= 0)
  <1>1. \A i \in Slots : EmptyQueue[i] >= 0
    BY DEF EmptyQueue
  <1>2. /\ scheduled \in [Slots -> Int] /\ PendingTotal \in Int /\ PendingTotal >= 0
    BY PendingInt, ForwardTotal DEF DistTypeOK
  <1>3. CASE PassUnusable(input)
    BY <1>1, <1>3 DEF PassUnusable, Forward
  <1>4. CASE Prime(o, input)
    BY <1>1, <1>4 DEF Prime, Unusable, Forward
  <1>5. CASE Flush(o, gap, input)
    <2>1. input \in Nat /\ output' = PendingTotal + input /\ scheduled' = EmptyQueue
      BY <1>5 DEF Flush, Unusable
    <2> QED
      BY <2>1, <1>1, <1>2 DEF Forward
  <1>6. CASE Spread(o, gap, input)
    <2> DEFINE count == SlotCount(NextInterval(gap))
    <2>1. gap > 0 /\ input \in Nat
      BY <1>6 DEF Spread, Unusable
    <2>2. count \in 1..MaxSlots
      BY <2>1, SlotCountRange, GapsNat DEF DistTypeOK
    <2> HIDE DEF count
    <2>3. CASE input = 0
      <3>1. scheduled' = Shifted /\ output' = scheduled[0]
        BY <1>6, <2>3 DEF Spread
      <3>2. \A i \in Slots : i < MaxSlots - 1 => i + 1 \in Slots
        BY DEF Slots, MaxSlots
      <3>3. \A i \in Slots : Shifted[i] >= 0
        BY <3>2, <1>2 DEF Shifted, Forward
      <3>4. scheduled[0] >= 0
        BY DEF Forward, Slots, MaxSlots
      <3> QED
        BY <3>1, <3>3, <3>4 DEF Forward
    <2>4. CASE input # 0
      <3>1. input >= 64
        BY <2>1, <2>4, NotFiniteOther
      <3>2. /\ scheduled' = Scheduled(input, count)
            /\ output' = scheduled[0] + Portion(input, count)
                           + (IF count = 1 THEN Residual(input, count) ELSE 0)
        BY <1>6, <2>4 DEF Spread, count
      <3> QED
        BY <3>1, <3>2, <2>1, <2>2, <1>2, ForwardSpread DEF Forward
    <2> QED
      BY <2>3, <2>4
  <1> QED
    BY <1>3, <1>4, <1>5, <1>6 DEF Distribute

LEMMA ForwardStep ==
    ASSUME OnlyForward, IInv, Forward, Next
    PROVE  Forward' /\ (handed' # NotFinite => handed' >= 0)
  <1> PICK o \in Objects, gap \in Gaps, delta \in Deltas : TurnDelta(o, gap, delta)
    BY DEF Next
  <1>1. /\ Distribute(o, gap, Fed(delta))
        /\ handed' = (IF affected' THEN output' ELSE delta)
    BY TurnDeltaSplit
  <1>2. delta # NotFinite => delta = 0 \/ (delta \in Nat /\ delta >= 64)
    BY TurnsManyUnits DEF OnlyForward
  <1>3. Fed(delta) # NotFinite
          => Fed(delta) = 0 \/ (Fed(delta) \in Nat /\ Fed(delta) >= 64)
    BY <1>2 DEF Fed
  <1>4. Fed(delta) \in Numbers /\ DistTypeOK
    BY FedNumber DEF IInv, TypeOK
  <1>5. Forward' /\ (output' # NotFinite => output' >= 0)
    BY <1>1, <1>3, <1>4, ForwardDistribute
  <1> QED
    BY <1>1, <1>2, <1>5

\* Turns in one direction are handed on in that direction, at any cadence and
\* however a portion is rounded (turn_distributor.cpp:83-104).
THEOREM NeverReversed == Spec => []NoReversal
  <1>1. IInv /\ Init => NoReversal
    BY EmptySlots DEF Init, DistInit, NoReversal
  <1>2. IInv /\ NoReversal /\ [Next]_vars => NoReversal'
    <2> SUFFICES ASSUME IInv, NoReversal, [Next]_vars, OnlyForward
                 PROVE  Forward' /\ (handed' # NotFinite => handed' >= 0)
      BY DEF NoReversal, OnlyForward, Forward
    <2>1. Forward /\ (handed # NotFinite => handed >= 0)
      BY DEF NoReversal, OnlyForward, Forward
    <2>2. CASE Next
      BY <2>1, <2>2, ForwardStep
    <2>3. CASE UNCHANGED vars
      BY <2>1, <2>3 DEF vars, distVars, Forward
    <2> QED
      BY <2>2, <2>3
  <1> QED
    BY <1>1, <1>2, Inductive, PTL DEF Spec

=============================================================================
