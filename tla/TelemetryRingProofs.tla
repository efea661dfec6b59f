------------------------- MODULE TelemetryRingProofs -------------------------
(***************************************************************************)
(* Proofs about TelemetryRing for any finite set of producers, any capacity *)
(* and any number of events.                                               *)
(***************************************************************************)
EXTENDS TelemetryRing, FiniteSetTheorems, SequenceTheorems, TLAPS

-----------------------------------------------------------------------------
(* Indices.                                                                *)

\* An index advanced by at most the capacity wraps once at most.
LEMMA Wrap ==
    ASSUME NEW r \in Indices, NEW k \in 0..Capacity
    PROVE  /\ (r + k) % Capacity = IF r + k < Capacity THEN r + k ELSE r + k - Capacity
           /\ (r + k) % Capacity \in Indices
<1> USE CapacityPositive DEF Indices
<1>1. CASE r + k < Capacity
  BY <1>1
<1>2. CASE r + k >= Capacity
  BY <1>2
<1>3. QED
  BY <1>1, <1>2

\* Two offsets less than the capacity point at different slots.
LEMMA WrapDistinct ==
    ASSUME NEW r \in Indices, NEW k \in 0..Capacity, NEW m \in 0..Capacity,
           k < m, m < Capacity
    PROVE  (r + k) % Capacity # (r + m) % Capacity
<1> DEFINE a == (r + k) % Capacity
<1> DEFINE b == (r + m) % Capacity
<1>1. a = IF r + k < Capacity THEN r + k ELSE r + k - Capacity
  BY Wrap
<1>2. b = IF r + m < Capacity THEN r + m ELSE r + m - Capacity
  BY Wrap
<1> HIDE DEF a, b
<1>3. a # b
  BY <1>1, <1>2, CapacityPositive DEF Indices
<1>4. QED
  BY <1>3 DEF a, b

LEMMA FollowingIndex ==
    ASSUME NEW r \in Indices
    PROVE  Following(r) \in Indices
BY Wrap, CapacityPositive DEF Following, Indices

-----------------------------------------------------------------------------
(* Types.                                                                  *)

\* What the types rest on: a push makes room before it stores, a drain looks
\* before it takes, and both rely on nobody else changing the count meanwhile.
CountInv ==
    /\ \A p \in Producers : pc[p] \in {"store", "commit"} => count < Capacity
    /\ wpc = "advance" => count > 0

TypeInv == TypeOK /\ Exclusion /\ CountInv

LEMMA PushTypes ==
    ASSUME TypeInv, NEW p \in Producers, TakeSequence(p) \/ Push(p)
    PROVE  TypeOK'
<1> USE CapacityPositive DEF TypeInv, TypeOK, Goto, ringVars, pushVars, drainVars, PushSteps
<1>1. CASE TakeSequence(p)
  <2>1. next_sequence' \in Nat /\ 0..next_sequence \subseteq 0..next_sequence'
    BY <1>1 DEF TakeSequence
  <2>2. slots' \in [Indices -> 0..next_sequence']
    BY <1>1, <2>1 DEF TakeSequence
  <2>3. sequence' \in [Producers -> 0..next_sequence']
    BY <1>1, <2>1 DEF TakeSequence
  <2>4. delivered' \in Seq(0..next_sequence') /\ event' \in 0..next_sequence'
    BY <1>1, <2>1 DEF TakeSequence
  <2>5. QED
    BY <1>1, <2>1, <2>2, <2>3, <2>4 DEF TakeSequence
<1>2. CASE TryPush(p)
  BY <1>2 DEF TryPush
<1>3. CASE DropNewest(p)
  BY <1>3 DEF DropNewest
<1>4. CASE MakeRoom(p)
  BY <1>4, FollowingIndex DEF MakeRoom
<1>5. CASE StoreEvent(p)
  BY <1>5 DEF StoreEvent
<1>6. CASE CommitEvent(p)
  BY <1>6, FollowingIndex DEF CommitEvent, CountInv
<1>7. CASE UnlockPush(p)
  BY <1>7 DEF UnlockPush
<1>8. QED
  BY <1>1, <1>2, <1>3, <1>4, <1>5, <1>6, <1>7 DEF Push

LEMMA DrainTypes ==
    ASSUME TypeInv, CallDrain \/ Drain
    PROVE  TypeOK'
<1> USE CapacityPositive DEF TypeInv, TypeOK, ringVars, pushVars, DrainSteps
<1>1. CASE CallDrain
  BY <1>1 DEF CallDrain
<1>2. CASE TryDrain
  BY <1>2 DEF TryDrain
<1>3. CASE ReadOldest
  BY <1>3 DEF ReadOldest
<1>4. CASE LeaveEmpty
  BY <1>4 DEF LeaveEmpty
<1>5. CASE AdvanceOldest
  BY <1>5, FollowingIndex DEF AdvanceOldest, CountInv
<1>6. CASE ReleaseDrain
  BY <1>6 DEF ReleaseDrain
<1>7. CASE Consume
  <2>1. delivered' \in Seq(0..next_sequence)
    BY <1>7 DEF Consume
  <2>2. QED
    BY <1>7, <2>1 DEF Consume
<1>8. QED
  BY <1>1, <1>2, <1>3, <1>4, <1>5, <1>6, <1>7 DEF Drain

-----------------------------------------------------------------------------
(* Mutual exclusion.                                                       *)

LEMMA PushExclusion ==
    ASSUME TypeInv, NEW p \in Producers, TakeSequence(p) \/ Push(p)
    PROVE  Exclusion' /\ CountInv'
<1> USE DEF TypeInv, TypeOK, Goto, ringVars, pushVars, drainVars
<1> USE DEF Exclusion, Holds, WriterHolds, CountInv
<1>1. CASE TakeSequence(p)
  BY <1>1 DEF TakeSequence
<1>2. CASE TryPush(p)
  BY <1>2 DEF TryPush
<1>3. CASE DropNewest(p)
  BY <1>3 DEF DropNewest
<1>4. CASE MakeRoom(p)
  BY <1>4, CapacityPositive DEF MakeRoom
<1>5. CASE StoreEvent(p)
  BY <1>5 DEF StoreEvent
<1>6. CASE CommitEvent(p)
  BY <1>6 DEF CommitEvent
<1>7. CASE UnlockPush(p)
  BY <1>7 DEF UnlockPush
<1>8. QED
  BY <1>1, <1>2, <1>3, <1>4, <1>5, <1>6, <1>7 DEF Push

LEMMA DrainExclusion ==
    ASSUME TypeInv, CallDrain \/ Drain
    PROVE  Exclusion' /\ CountInv'
<1> USE DEF TypeInv, TypeOK, ringVars, pushVars
<1> USE DEF Exclusion, Holds, WriterHolds, CountInv
<1>1. CASE CallDrain
  BY <1>1 DEF CallDrain
<1>2. CASE TryDrain
  BY <1>2 DEF TryDrain
<1>3. CASE ReadOldest
  BY <1>3 DEF ReadOldest
<1>4. CASE LeaveEmpty
  BY <1>4 DEF LeaveEmpty
<1>5. CASE AdvanceOldest
  BY <1>5 DEF AdvanceOldest
<1>6. CASE ReleaseDrain
  BY <1>6 DEF ReleaseDrain
<1>7. CASE Consume
  BY <1>7 DEF Consume
<1>8. QED
  BY <1>1, <1>2, <1>3, <1>4, <1>5, <1>6, <1>7 DEF Drain

LEMMA TypeInit == Init => TypeInv
BY CapacityPositive
   DEF Init, TypeInv, TypeOK, Exclusion, CountInv, Holds, WriterHolds, Indices, PushSteps,
       DrainSteps

LEMMA TypeInductive == TypeInv /\ [Next]_vars => TypeInv'
<1> SUFFICES ASSUME TypeInv, [Next]_vars PROVE TypeInv'
  OBVIOUS
<1>1. CASE \E p \in Producers : TakeSequence(p) \/ Push(p)
  BY <1>1, PushTypes, PushExclusion DEF TypeInv
<1>2. CASE CallDrain \/ Drain
  BY <1>2, DrainTypes, DrainExclusion DEF TypeInv
<1>3. CASE UNCHANGED vars
  BY <1>3 DEF vars, ringVars, pushVars, drainVars, TypeInv, TypeOK, Exclusion, CountInv,
              Holds, WriterHolds
<1>4. QED
  BY <1>1, <1>2, <1>3 DEF Next

\* The indices stay within the ring and the count within its capacity, whatever
\* the threads' interleaving (telemetry.hpp:42-51, 62-69).
THEOREM TypeCorrect == Spec => []TypeOK
<1>1. TypeInv => TypeOK
  BY DEF TypeInv
<1>2. QED
  BY <1>1, TypeInit, TypeInductive, PTL DEF Spec

\* The flag excludes: at most one thread is in the ring, and a flag that is set
\* has a holder that will clear it (telemetry.hpp:37-52, 59-69).
THEOREM MutualExclusion == Spec => []Exclusion
<1>1. TypeInv => Exclusion
  BY DEF TypeInv
<1>2. QED
  BY <1>1, TypeInit, TypeInductive, PTL DEF Spec

-----------------------------------------------------------------------------
(* Accounting.                                                             *)

\* A push enters InFlight with its sequence number and leaves it when its event
\* is stored or counted as dropped.
LEMMA FlightChange ==
    ASSUME NEW p \in Producers, pc \in [Producers -> PushSteps],
           NEW step \in PushSteps, pc' = [pc EXCEPT ![p] = step]
    PROVE  /\ Cardinality(InFlight) \in Nat
           /\ p \notin InFlight /\ step = "try"
                => Cardinality(InFlight') = Cardinality(InFlight) + 1
           /\ p \in InFlight /\ step \in {"outside", "unlock"}
                => Cardinality(InFlight') = Cardinality(InFlight) - 1
           /\ p \in InFlight /\ step \in {"drop", "room", "store", "commit"}
                => InFlight' = InFlight
           /\ p \notin InFlight /\ step = "outside" => InFlight' = InFlight
<1>1. IsFiniteSet(InFlight)
  BY ProducersFinite, FS_Subset DEF InFlight
<1>2. step = "try" => InFlight' = InFlight \cup {p}
  BY DEF InFlight
<1>3. step \in {"outside", "unlock"} => InFlight' = InFlight \ {p}
  BY DEF InFlight
<1>4. p \in InFlight /\ step \in {"drop", "room", "store", "commit"} => InFlight' = InFlight
  BY DEF InFlight
<1>5. Cardinality(InFlight) \in Nat
  BY <1>1, FS_CardinalityType
<1>6. p \notin InFlight => Cardinality(InFlight \cup {p}) = Cardinality(InFlight) + 1
  BY <1>1, FS_AddElement
<1>7. p \in InFlight => Cardinality(InFlight \ {p}) = Cardinality(InFlight) - 1
  BY <1>1, FS_RemoveElement
<1>8. p \notin InFlight => InFlight \ {p} = InFlight
  OBVIOUS
<1>9. QED
  BY <1>2, <1>3, <1>4, <1>5, <1>6, <1>7, <1>8

LEMMA PushAccounted ==
    ASSUME TypeOK, Accounted, NEW p \in Producers, TakeSequence(p) \/ Push(p)
    PROVE  Accounted'
<1> USE DEF TypeOK, Accounted, Goto, ringVars, pushVars, drainVars
<1>1. UNCHANGED <<wpc, event, delivered>> /\ InHand' = InHand
  BY DEF TakeSequence, Push, TryPush, DropNewest, MakeRoom, StoreEvent, CommitEvent,
         UnlockPush, InHand
<1>2. Len(delivered) \in Nat /\ Len(InHand) \in Nat
  BY DEF InHand
<1>3. CASE TakeSequence(p)
  <2>1. p \notin InFlight /\ pc' = [pc EXCEPT ![p] = "try"]
    BY <1>3 DEF TakeSequence, InFlight
  <2>2. /\ Cardinality(InFlight') = Cardinality(InFlight) + 1
        /\ Cardinality(InFlight) \in Nat
    BY <2>1, FlightChange DEF PushSteps
  <2>3. next_sequence' = next_sequence + 1 /\ UNCHANGED <<count, dropped>>
    BY <1>3 DEF TakeSequence
  <2>4. QED
    BY <1>1, <1>2, <2>2, <2>3
<1>4. CASE TryPush(p)
  <2>1. p \in InFlight /\ \E step \in {"drop", "room"} : pc' = [pc EXCEPT ![p] = step]
    BY <1>4 DEF TryPush, InFlight
  <2>2. InFlight' = InFlight
    BY <2>1, FlightChange DEF PushSteps
  <2>3. QED
    BY <1>1, <1>4, <2>2 DEF TryPush
<1>5. CASE DropNewest(p)
  <2>1. p \in InFlight /\ pc' = [pc EXCEPT ![p] = "outside"]
    BY <1>5 DEF DropNewest, InFlight
  <2>2. /\ Cardinality(InFlight') = Cardinality(InFlight) - 1
        /\ Cardinality(InFlight) \in Nat
    BY <2>1, FlightChange DEF PushSteps
  <2>3. dropped' = dropped + 1 /\ UNCHANGED <<count, next_sequence>>
    BY <1>5 DEF DropNewest
  <2>4. QED
    BY <1>1, <1>2, <2>2, <2>3
<1>6. CASE MakeRoom(p)
  <2>1. p \in InFlight /\ pc' = [pc EXCEPT ![p] = "store"]
    BY <1>6 DEF MakeRoom, InFlight
  <2>2. InFlight' = InFlight
    BY <2>1, FlightChange DEF PushSteps
  <2>3. UNCHANGED next_sequence
    BY <1>6 DEF MakeRoom
  <2>4. CASE count = Capacity
    <3>1. count' = count - 1 /\ dropped' = dropped + 1
      BY <1>6, <2>4 DEF MakeRoom
    <3>2. Cardinality(InFlight) \in Nat
      BY <2>1, FlightChange DEF PushSteps
    <3>3. QED
      BY <1>1, <1>2, <2>2, <2>3, <3>1, <3>2
  <2>5. CASE count # Capacity
    BY <1>1, <1>6, <2>2, <2>3, <2>5 DEF MakeRoom
  <2>6. QED
    BY <2>4, <2>5
<1>7. CASE StoreEvent(p)
  <2>1. p \in InFlight /\ pc' = [pc EXCEPT ![p] = "commit"]
    BY <1>7 DEF StoreEvent, InFlight
  <2>2. InFlight' = InFlight
    BY <2>1, FlightChange DEF PushSteps
  <2>3. QED
    BY <1>1, <1>7, <2>2 DEF StoreEvent
<1>8. CASE CommitEvent(p)
  <2>1. p \in InFlight /\ pc' = [pc EXCEPT ![p] = "unlock"]
    BY <1>8 DEF CommitEvent, InFlight
  <2>2. /\ Cardinality(InFlight') = Cardinality(InFlight) - 1
        /\ Cardinality(InFlight) \in Nat
    BY <2>1, FlightChange DEF PushSteps
  <2>3. count' = count + 1 /\ UNCHANGED <<dropped, next_sequence>>
    BY <1>8 DEF CommitEvent
  <2>4. QED
    BY <1>1, <1>2, <2>2, <2>3
<1>9. CASE UnlockPush(p)
  <2>1. p \notin InFlight /\ pc' = [pc EXCEPT ![p] = "outside"]
    BY <1>9 DEF UnlockPush, InFlight
  <2>2. InFlight' = InFlight
    BY <2>1, FlightChange DEF PushSteps
  <2>3. QED
    BY <1>1, <1>9, <2>2 DEF UnlockPush
<1>10. QED
  BY <1>3, <1>4, <1>5, <1>6, <1>7, <1>8, <1>9 DEF Push

LEMMA DrainAccounted ==
    ASSUME TypeOK, Accounted, CallDrain \/ Drain
    PROVE  Accounted'
<1> USE DEF TypeOK, Accounted, ringVars, pushVars
<1>1. UNCHANGED <<next_sequence, dropped>> /\ InFlight' = InFlight
  BY DEF CallDrain, Drain, TryDrain, ReadOldest, LeaveEmpty, AdvanceOldest, ReleaseDrain,
         Consume, InFlight
<1>2. Cardinality(InFlight) \in Nat
  BY ProducersFinite, FS_Subset, FS_CardinalityType DEF InFlight
<1>3. CASE CallDrain \/ TryDrain \/ ReadOldest \/ LeaveEmpty \/ ReleaseDrain
  <2>1. Len(InHand') = Len(InHand) /\ UNCHANGED <<count, delivered>>
    BY <1>3 DEF CallDrain, TryDrain, ReadOldest, LeaveEmpty, ReleaseDrain, InHand
  <2>2. QED
    BY <1>1, <2>1
<1>4. CASE AdvanceOldest
  <2>1. Len(InHand) = 0 /\ Len(InHand') = 1 /\ count' = count - 1 /\ UNCHANGED delivered
    BY <1>4 DEF AdvanceOldest, InHand
  <2>2. Len(delivered) \in Nat
    OBVIOUS
  <2>3. QED
    BY <1>1, <1>2, <2>1, <2>2
<1>5. CASE Consume
  <2>1. Len(InHand) = 1 /\ Len(InHand') = 0 /\ UNCHANGED count
    BY <1>5 DEF Consume, InHand
  <2>2. Len(delivered') = Len(delivered) + 1 /\ Len(delivered) \in Nat
    BY <1>5 DEF Consume
  <2>3. QED
    BY <1>1, <1>2, <2>1, <2>2
<1>6. QED
  BY <1>3, <1>4, <1>5 DEF Drain

\* No event goes missing uncounted (telemetry.hpp:36-51, 66-71).
THEOREM EveryEventAccounted == Spec => []Accounted
<1>1. Init => Accounted
  <2> SUFFICES ASSUME Init PROVE Accounted
    OBVIOUS
  <2>1. InFlight = {}
    BY DEF Init, InFlight
  <2>2. QED
    BY <2>1, FS_EmptySet DEF Init, Accounted, InHand
<1>2. TypeInv /\ Accounted /\ [Next]_vars => Accounted'
  <2> SUFFICES ASSUME TypeInv, Accounted, [Next]_vars PROVE Accounted'
    OBVIOUS
  <2>1. CASE UNCHANGED vars
    BY <2>1 DEF vars, ringVars, pushVars, drainVars, Accounted, InHand, InFlight
  <2>2. QED
    BY <2>1, PushAccounted, DrainAccounted DEF Next, TypeInv
<1>3. QED
  BY <1>1, <1>2, TypeInit, TypeInductive, PTL DEF Spec

-----------------------------------------------------------------------------
(* The contents of the ring as a sequence.                                 *)

LEMMA FunctionIsSequence ==
    ASSUME NEW S, NEW n \in Nat, NEW f \in [1..n -> S]
    PROVE  f \in Seq(S) /\ Len(f) = n
<1>1. f \in Seq(S)
  BY SeqDef
<1>2. DOMAIN f = 1..n
  OBVIOUS
<1>3. QED
  BY <1>1, <1>2, LenProperties

LEMMA SameElements ==
    ASSUME NEW S, NEW n \in Nat, NEW f \in [1..n -> S], NEW s \in Seq(S), Len(s) = n,
           \A i \in 1..n : f[i] = s[i]
    PROVE  f = s
BY FunctionIsSequence, SeqEqual

LEMMA ContentsType ==
    ASSUME TypeOK
    PROVE  /\ Contents \in Seq(0..next_sequence)
           /\ Len(Contents) = count
<1>1. \A i \in 1..count : (read_index + i - 1) % Capacity \in Indices
  <2> SUFFICES ASSUME NEW i \in 1..count
               PROVE  (read_index + i - 1) % Capacity \in Indices
    OBVIOUS
  <2>1. i - 1 \in 0..Capacity /\ read_index \in Indices
    BY CapacityPositive DEF TypeOK
  <2>2. (read_index + (i - 1)) % Capacity \in Indices
    BY <2>1, Wrap
  <2>3. QED
    BY <2>2, CapacityPositive DEF TypeOK, Indices
<1>2. Contents \in [1..count -> 0..next_sequence]
  BY <1>1 DEF Contents, TypeOK
<1>3. count \in Nat
  BY CapacityPositive DEF TypeOK
<1>4. QED
  BY <1>2, <1>3, FunctionIsSequence

\* Advancing the read index takes the oldest event out.
LEMMA ContentsTail ==
    ASSUME TypeOK, count > 0, UNCHANGED slots,
           read_index' = Following(read_index), count' = count - 1
    PROVE  Contents' = Tail(Contents)
<1> USE CapacityPositive DEF TypeOK
<1>1. \A i \in 1..count - 1 :
          (read_index' + i - 1) % Capacity = (read_index + (i + 1) - 1) % Capacity
  <2> SUFFICES ASSUME NEW i \in 1..count - 1
               PROVE  (read_index' + (i - 1)) % Capacity = (read_index + i) % Capacity
    BY FollowingIndex DEF Indices
  <2>1. read_index' = IF read_index + 1 < Capacity THEN read_index + 1
                                                   ELSE read_index + 1 - Capacity
    BY Wrap DEF Following
  <2>2. (read_index + i) % Capacity = IF read_index + i < Capacity
                                      THEN read_index + i ELSE read_index + i - Capacity
    BY Wrap
  <2>3. read_index' \in Indices /\ i - 1 \in 0..Capacity
    BY FollowingIndex
  <2>4. (read_index' + (i - 1)) % Capacity
            = IF read_index' + (i - 1) < Capacity
              THEN read_index' + (i - 1) ELSE read_index' + (i - 1) - Capacity
    BY <2>3, Wrap
  <2>5. QED
    BY <2>1, <2>2, <2>4 DEF Indices
<1>2. Contents' = [i \in 1..count - 1 |-> slots[(read_index + (i + 1) - 1) % Capacity]]
  BY <1>1 DEF Contents
<1>3. \A i \in 1..count - 1 : Contents'[i] = Contents[i + 1]
  BY <1>2 DEF Contents
<1>4. Contents \in Seq(0..next_sequence) /\ Len(Contents) = count /\ Contents # <<>>
  BY ContentsType
<1>5. /\ Tail(Contents) \in Seq(0..next_sequence)
      /\ Len(Tail(Contents)) = count - 1
      /\ \A i \in 1..count - 1 : Tail(Contents)[i] = Contents[i + 1]
  BY <1>4, HeadTailProperties
<1>6. Contents' \in [1..count - 1 -> 0..next_sequence]
  <2>1. \A i \in 1..count - 1 : Contents[i + 1] \in 0..next_sequence
    BY <1>4, ElementOfSeq
  <2>2. QED
    BY <1>2, <1>3, <2>1
<1>7. count - 1 \in Nat
  OBVIOUS
<1> HIDE DEF TypeOK
<1>8. \A i \in 1..count - 1 : Contents'[i] = Tail(Contents)[i]
  BY <1>3, <1>5
<1>9. QED
  BY <1>5, <1>6, <1>7, <1>8, SameElements

\* Advancing the write index adds the event in the slot it pointed at.
LEMMA ContentsAppend ==
    ASSUME TypeOK, count < Capacity, UNCHANGED <<slots, read_index>>,
           write_index = (read_index + count) % Capacity, count' = count + 1
    PROVE  Contents' = Append(Contents, slots[write_index])
<1> USE CapacityPositive DEF TypeOK
<1>1. Contents' = [i \in 1..count + 1 |-> slots[(read_index + i - 1) % Capacity]]
  BY DEF Contents
<1>2. (read_index + (count + 1) - 1) % Capacity = write_index
  BY DEF Indices
<1>3. Contents \in Seq(0..next_sequence) /\ Len(Contents) = count
  BY ContentsType
<1> DEFINE e == slots[write_index]
<1>4. e \in 0..next_sequence
  OBVIOUS
<1>5. /\ Append(Contents, e) \in Seq(0..next_sequence)
      /\ Len(Append(Contents, e)) = count + 1
      /\ \A i \in 1..count : Append(Contents, e)[i] = Contents[i]
      /\ Append(Contents, e)[count + 1] = e
  <2> HIDE DEF e, TypeOK
  <2>1. QED
    BY <1>3, <1>4, AppendProperties
<1>6. \A i \in 1..count : Contents'[i] = Contents[i] /\ Contents[i] \in 0..next_sequence
  BY <1>1, <1>3, ElementOfSeq DEF Contents
<1>7. Contents'[count + 1] = e
  BY <1>1, <1>2
<1>8. Contents' \in [1..count + 1 -> 0..next_sequence]
  <2>1. ASSUME NEW i \in 1..count + 1 PROVE Contents'[i] \in 0..next_sequence
    <3>1. i \in 1..count \/ i = count + 1
      OBVIOUS
    <3> HIDE DEF TypeOK, e
    <3>2. QED
      BY <1>4, <1>6, <1>7, <3>1
  <2>2. QED
    BY <1>1, <2>1
<1>9. QED
  BY <1>5, <1>6, <1>7, <1>8, SameElements

\* Writing the slot at the write index of a ring with room touches no event
\* that is still to be read.
LEMMA ContentsKept ==
    ASSUME TypeOK, count < Capacity, UNCHANGED <<read_index, count>>,
           write_index = (read_index + count) % Capacity,
           NEW e, slots' = [slots EXCEPT ![write_index] = e]
    PROVE  Contents' = Contents
<1> USE CapacityPositive DEF TypeOK
<1>1. \A i \in 1..count : slots'[(read_index + i - 1) % Capacity]
                            = slots[(read_index + i - 1) % Capacity]
  <2> SUFFICES ASSUME NEW i \in 1..count
               PROVE  slots'[(read_index + (i - 1)) % Capacity]
                        = slots[(read_index + (i - 1)) % Capacity]
    BY DEF Indices
  <2>1. i - 1 \in 0..Capacity /\ count \in 0..Capacity /\ i - 1 < count
    OBVIOUS
  <2>2. (read_index + (i - 1)) % Capacity # write_index
    BY <2>1, WrapDistinct
  <2>3. (read_index + (i - 1)) % Capacity \in Indices
    BY <2>1, Wrap
  <2>4. QED
    BY <2>2, <2>3
<1>2. QED
  BY <1>1 DEF Contents

-----------------------------------------------------------------------------
(* The ring implements the bounded lossy queue.                            *)

RingInv == Placed /\ Distinct

Taken == delivered \o InHand

LEMMA TakenType ==
    ASSUME TypeOK
    PROVE  /\ Taken \in Seq(0..next_sequence)
           /\ wpc \notin {"release", "consume"} => Taken = delivered
           /\ wpc \in {"release", "consume"} => Taken = Append(delivered, event)
<1>1. delivered \in Seq(0..next_sequence) /\ event \in 0..next_sequence
  BY DEF TypeOK
<1>2. InHand \in Seq(0..next_sequence)
  <2>1. <<event>> \in Seq(0..next_sequence) /\ <<>> \in Seq(0..next_sequence)
    BY <1>1
  <2>2. QED
    BY <2>1, Zenon DEF InHand
<1>3. delivered \o <<event>> = Append(delivered, event)
  BY <1>1, AppendIsConcat, Zenon
<1>4. delivered \o <<>> = delivered
  BY <1>1, ConcatEmptySeq
<1>5. Taken \in Seq(0..next_sequence)
  BY <1>1, <1>2, ConcatProperties DEF Taken
<1>6. QED
  BY <1>3, <1>4, <1>5 DEF Taken, InHand

\* The head of the contents is what the read index points at.
LEMMA ContentsHead ==
    ASSUME TypeOK, count > 0
    PROVE  /\ Contents # <<>>
           /\ Head(Contents) = slots[read_index]
           /\ Head(Contents) = Contents[1]
<1>1. Contents \in Seq(0..next_sequence) /\ Len(Contents) = count
  BY ContentsType
<1>2. 1 \in 1..count /\ (read_index + 1 - 1) % Capacity = read_index
  <2>1. count \in Nat /\ read_index \in Indices /\ 0 \in 0..Capacity /\ read_index \in Nat
    BY CapacityPositive DEF TypeOK, Indices
  <2>2. (read_index + 0) % Capacity = read_index
    <3>1. read_index + 0 < Capacity /\ read_index + 0 = read_index
      BY <2>1, CapacityPositive DEF Indices
    <3>2. QED
      BY <2>1, <3>1, Wrap
  <2>3. read_index + 1 - 1 = read_index + 0 /\ 1 \in 1..count
    BY <2>1
  <2>4. QED
    BY <2>2, <2>3
<1>3. Contents[1] = slots[read_index]
  <2>1. Contents[1] = slots[(read_index + 1 - 1) % Capacity]
    BY <1>2, Zenon DEF Contents
  <2>2. QED
    BY <1>2, <2>1, Zenon
<1>4. count \in Nat
  BY CapacityPositive DEF TypeOK
<1>5. Len(Contents) # 0
  BY <1>1, <1>4
<1>6. Contents # <<>> /\ Head(Contents) = Contents[1]
  BY <1>1, <1>5
<1>7. QED
  BY <1>3, <1>6


\* What is present, of two sequences that together have lost nothing but a head.
LEMMA PresentShrinks ==
    ASSUME TypeOK, TypeOK', count > 0, Contents' = Tail(Contents),
           Taken' = Taken \/ Taken' = Append(Taken, Head(Contents)),
           next_sequence' = next_sequence
    PROVE  Queue!Present' \subseteq Queue!Present
<1>1. /\ Contents \in Seq(0..next_sequence) /\ Contents # <<>> /\ Len(Contents) = count
      /\ Taken \in Seq(0..next_sequence)
  BY ContentsType, ContentsHead, TakenType
<1>2. count \in Nat /\ 1 \in 1..count
  BY CapacityPositive DEF TypeOK
<1>3. \A i \in 1..Len(Contents') : \E j \in 1..Len(Contents) : Contents'[i] = Contents[j]
  <2>1. /\ Len(Contents') = count - 1
        /\ \A i \in 1..count - 1 : Contents'[i] = Contents[i + 1]
    BY <1>1, HeadTailProperties
  <2>2. QED
    BY <1>1, <1>2, <2>1
<1>4. \A i \in 1..Len(Taken') :
          \/ \E j \in 1..Len(Taken) : Taken'[i] = Taken[j]
          \/ \E j \in 1..Len(Contents) : Taken'[i] = Contents[j]
  <2>1. CASE Taken' = Taken
    BY <2>1
  <2>2. CASE Taken' = Append(Taken, Head(Contents))
    <3>1. Head(Contents) = Contents[1] /\ Head(Contents) \in 0..next_sequence
      BY <1>1, ContentsHead, HeadTailProperties
    <3>2. /\ Len(Taken') = Len(Taken) + 1
          /\ \A i \in 1..Len(Taken) : Taken'[i] = Taken[i]
          /\ Taken'[Len(Taken) + 1] = Contents[1]
      BY <1>1, <2>2, <3>1, AppendProperties
    <3>3. Len(Taken) \in Nat
      BY <1>1, LenProperties
    <3>4. \A i \in 1..Len(Taken) + 1 : i \in 1..Len(Taken) \/ i = Len(Taken) + 1
      BY <3>3
    <3>5. QED
      BY <1>1, <1>2, <3>2, <3>4, Zenon
  <2>3. QED
    BY <2>1, <2>2
<1>5. Queue!Present = {Contents[i] : i \in 1..Len(Contents)} \cup {Taken[i] : i \in 1..Len(Taken)}
  BY DEF Queue!Present, Taken
<1>6. Queue!Present' = {Contents'[i] : i \in 1..Len(Contents')}
                          \cup {Taken'[i] : i \in 1..Len(Taken')}
  BY DEF Queue!Present, Taken
<1>7. ASSUME NEW e \in Queue!Present' PROVE e \in Queue!Present
  <2>1. CASE \E i \in 1..Len(Contents') : e = Contents'[i]
    BY <1>3, <1>5, <2>1, Zenon
  <2>2. CASE \E i \in 1..Len(Taken') : e = Taken'[i]
    BY <1>4, <1>5, <2>2, Zenon
  <2>3. QED
    BY <1>6, <1>7, <2>1, <2>2
<1>8. QED
  BY <1>7

LEMMA DistinctKept ==
    ASSUME Distinct, UNCHANGED <<sequence, next_sequence>>,
           InFlight' \subseteq InFlight, Queue!Present' \subseteq Queue!Present
    PROVE  Distinct'
BY DEF Distinct

\* A step that changes neither the contents nor what was taken out.
LEMMA PresentKept ==
    ASSUME Contents' = Contents, Taken' = Taken
    PROVE  /\ Queue!Present' = Queue!Present
           /\ UNCHANGED <<next_sequence, dropped>> => UNCHANGED Queue!queueVars
BY DEF Queue!Present, Queue!queueVars, Taken

\* The event a push publishes joins the others.
LEMMA PresentGrows ==
    ASSUME TypeOK, NEW e \in 0..next_sequence, Contents' = Append(Contents, e),
           Taken' = Taken
    PROVE  Queue!Present' \subseteq Queue!Present \cup {e}
<1>1. Contents \in Seq(0..next_sequence) /\ Len(Contents) \in Nat
  BY ContentsType, LenProperties
<1>2. /\ Len(Contents') = Len(Contents) + 1
      /\ \A i \in 1..Len(Contents) : Contents'[i] = Contents[i]
      /\ Contents'[Len(Contents) + 1] = e
  BY <1>1, AppendProperties
<1>3. \A i \in 1..Len(Contents') : i \in 1..Len(Contents) \/ i = Len(Contents) + 1
  BY <1>1, <1>2
<1>4. Queue!Present' = {Contents'[i] : i \in 1..Len(Contents')}
                          \cup {Taken[i] : i \in 1..Len(Taken)}
  BY DEF Queue!Present, Taken
<1>5. Queue!Present = {Contents[i] : i \in 1..Len(Contents)} \cup {Taken[i] : i \in 1..Len(Taken)}
  BY DEF Queue!Present, Taken
<1>6. {Contents'[i] : i \in 1..Len(Contents')}
          \subseteq {Contents[i] : i \in 1..Len(Contents)} \cup {e}
  BY <1>2, <1>3
<1>7. QED
  BY <1>4, <1>5, <1>6

\* Each step of a push keeps RingInv and is a step of the queue or none.
LEMMA PushImplements ==
    ASSUME TypeInv, TypeOK', RingInv, NEW p \in Producers, TakeSequence(p) \/ Push(p)
    PROVE  RingInv' /\ (Queue!QueueNext \/ UNCHANGED Queue!queueVars)
<1> USE DEF Goto, ringVars, pushVars, drainVars, RingInv
<1>1. UNCHANGED <<wpc, event, delivered>> /\ Taken' = Taken
  BY DEF TakeSequence, Push, TryPush, DropNewest, MakeRoom, StoreEvent, CommitEvent,
         UnlockPush, Taken, InHand
<1>2. /\ pc \in [Producers -> PushSteps] /\ sequence \in [Producers -> 0..next_sequence]
      /\ next_sequence \in Nat /\ dropped \in Nat
      /\ TypeOK
  BY DEF TypeInv, TypeOK
<1>3. CASE TakeSequence(p)
  <2>1. Contents' = Contents /\ Queue!Present' = Queue!Present
    BY <1>1, <1>3, PresentKept DEF TakeSequence, Contents
  <2>2. Queue!Present \subseteq 0..next_sequence
    <3>1. Contents \in Seq(0..next_sequence) /\ Taken \in Seq(0..next_sequence)
      BY <1>2, ContentsType, TakenType
    <3>2. QED
      BY <3>1, ElementOfSeq DEF Queue!Present, Taken
  <2>3. InFlight' = InFlight \cup {p} /\ sequence' = [sequence EXCEPT ![p] = next_sequence + 1]
    BY <1>2, <1>3 DEF TakeSequence, InFlight
  <2>4. Distinct'
    BY <1>2, <1>3, <2>1, <2>2, <2>3 DEF TakeSequence, Distinct, InFlight
  <2>5. Placed'
    BY <1>1, <1>2, <1>3 DEF TakeSequence, Placed
  <2>6. Queue!Offer
    BY <1>1, <1>3, <2>1 DEF TakeSequence, Queue!Offer, Taken
  <2>7. QED
    BY <2>4, <2>5, <2>6 DEF Queue!QueueNext
<1>4. CASE TryPush(p) \/ UnlockPush(p)
  <2>1. Contents' = Contents /\ UNCHANGED <<next_sequence, dropped, sequence>>
    BY <1>4 DEF TryPush, UnlockPush, Contents
  <2>2. InFlight' \subseteq InFlight
    BY <1>2, <1>4 DEF TryPush, UnlockPush, InFlight
  <2>3. Placed'
    BY <1>1, <1>2, <1>4 DEF TryPush, UnlockPush, Placed
  <2>4. QED
    BY <1>1, <2>1, <2>2, <2>3, PresentKept, DistinctKept
<1>5. CASE DropNewest(p)
  <2>1. Contents' = Contents /\ UNCHANGED <<next_sequence, sequence>>
    BY <1>5 DEF DropNewest, Contents
  <2>2. InFlight' \subseteq InFlight
    BY <1>2, <1>5 DEF DropNewest, InFlight
  <2>3. Placed'
    BY <1>1, <1>2, <1>5 DEF DropNewest, Placed
  <2>4. Queue!GiveUp
    BY <1>1, <1>5, <2>1 DEF DropNewest, Queue!GiveUp, Taken
  <2>5. QED
    BY <1>1, <2>1, <2>2, <2>3, <2>4, PresentKept, DistinctKept DEF Queue!QueueNext
<1>6. CASE MakeRoom(p)
  <2>1. UNCHANGED <<next_sequence, sequence, slots, write_index>> /\ wpc # "advance"
    BY <1>2, <1>6 DEF MakeRoom, TypeInv, Exclusion, Holds, WriterHolds
  <2>2. InFlight' \subseteq InFlight
    BY <1>2, <1>6 DEF MakeRoom, InFlight
  <2>3. \A q \in Producers : pc'[q] # "commit"
    BY <1>2, <1>6 DEF MakeRoom, TypeInv, Exclusion, Holds
  <2>4. CASE count = Capacity
    <3>1. read_index' = Following(read_index) /\ count' = count - 1 /\ dropped' = dropped + 1
      BY <1>6, <2>4 DEF MakeRoom
    <3>2. count > 0
      BY <2>4, CapacityPositive
    <3>3. Contents' = Tail(Contents)
      BY <1>2, <2>1, <3>1, <3>2, ContentsTail
    <3>4. Queue!Present' \subseteq Queue!Present
      BY <1>1, <1>2, <2>1, <3>2, <3>3, PresentShrinks
    <3>5. write_index' = (read_index' + count') % Capacity
      <4>1. write_index = (read_index + Capacity) % Capacity
        BY <2>4 DEF Placed
      <4>2. write_index = read_index
        BY <1>2, <4>1, Wrap, CapacityPositive DEF TypeOK, Indices
      <4>3. read_index' = IF read_index + 1 < Capacity THEN read_index + 1
                                                       ELSE read_index + 1 - Capacity
        BY <1>2, <3>1, Wrap, CapacityPositive DEF Following, TypeOK
      <4>4. read_index' \in Indices /\ Capacity - 1 \in 0..Capacity
        BY CapacityPositive DEF TypeOK
      <4>5. (read_index' + (Capacity - 1)) % Capacity
              = IF read_index' + (Capacity - 1) < Capacity
                THEN read_index' + (Capacity - 1) ELSE read_index' + (Capacity - 1) - Capacity
        BY <4>4, Wrap
      <4>6. read_index \in 0..Capacity - 1
        BY <1>2 DEF TypeOK, Indices
      <4>7. (read_index' + (Capacity - 1)) % Capacity = read_index
        BY <4>3, <4>5, <4>6, CapacityPositive
      <4>8. QED
        BY <2>1, <2>4, <3>1, <4>2, <4>7
    <3>6. Placed'
      BY <1>1, <2>1, <2>3, <3>5 DEF Placed
    <3>7. Queue!EvictOldest
      <4>1. Len(Contents) = Capacity
        BY <1>2, <2>4, ContentsType
      <4>2. QED
        BY <1>1, <2>1, <3>1, <3>3, <4>1 DEF Queue!EvictOldest, Taken
    <3>8. QED
      BY <2>1, <2>2, <3>4, <3>6, <3>7, DistinctKept DEF Queue!QueueNext
  <2>5. CASE count # Capacity
    <3>1. UNCHANGED <<read_index, count, dropped>>
      BY <1>6, <2>5 DEF MakeRoom
    <3>2. Contents' = Contents
      BY <2>1, <3>1 DEF Contents
    <3>3. Placed'
      BY <1>1, <2>1, <2>3, <3>1 DEF Placed
    <3>4. QED
      BY <1>1, <2>1, <2>2, <3>1, <3>2, <3>3, PresentKept, DistinctKept
  <2>6. QED
    BY <2>4, <2>5
<1>7. CASE StoreEvent(p)
  <2>1. /\ UNCHANGED <<next_sequence, dropped, sequence, read_index, write_index, count>>
        /\ slots' = [slots EXCEPT ![write_index] = sequence[p]]
    BY <1>7 DEF StoreEvent
  <2>2. count < Capacity /\ write_index = (read_index + count) % Capacity
    BY <1>7 DEF StoreEvent, TypeInv, CountInv, Placed
  <2>3. Contents' = Contents
    BY <1>2, <2>1, <2>2, ContentsKept
  <2>4. InFlight' \subseteq InFlight
    BY <1>2, <1>7 DEF StoreEvent, InFlight
  <2>5. wpc # "advance" /\ \A q \in Producers : pc'[q] = "commit" => q = p
    BY <1>2, <1>7 DEF StoreEvent, TypeInv, Exclusion, Holds, WriterHolds
  <2>6. slots'[write_index] = sequence[p]
    BY <1>2, <2>1 DEF TypeOK
  <2>7. Placed'
    BY <1>1, <2>1, <2>2, <2>5, <2>6 DEF Placed
  <2>8. QED
    BY <1>1, <2>1, <2>3, <2>4, <2>7, PresentKept, DistinctKept
<1>8. CASE CommitEvent(p)
  <2>1. /\ UNCHANGED <<next_sequence, dropped, sequence, read_index, slots>>
        /\ write_index' = Following(write_index) /\ count' = count + 1
    BY <1>8 DEF CommitEvent
  <2>2. /\ count < Capacity /\ write_index = (read_index + count) % Capacity
        /\ slots[write_index] = sequence[p]
    BY <1>8 DEF CommitEvent, TypeInv, CountInv, Placed
  <2>3. Contents' = Append(Contents, sequence[p])
    BY <1>2, <2>1, <2>2, ContentsAppend
  <2>4. InFlight' = InFlight \ {p} /\ p \in InFlight
    BY <1>2, <1>8 DEF CommitEvent, InFlight
  <2>5. sequence[p] \in 1..next_sequence /\ sequence[p] \notin Queue!Present
    BY <2>4 DEF Distinct
  <2>6. Queue!Present' \subseteq Queue!Present \cup {sequence[p]}
    BY <1>1, <1>2, <2>3, PresentGrows
  <2>7. Distinct'
    BY <2>1, <2>4, <2>6 DEF Distinct
  <2>8. wpc # "advance" /\ \A q \in Producers : pc'[q] # "commit"
    BY <1>2, <1>8 DEF CommitEvent, TypeInv, Exclusion, Holds, WriterHolds
  <2>9. write_index' = (read_index + (count + 1)) % Capacity
    <3>1. write_index = IF read_index + count < Capacity
                        THEN read_index + count ELSE read_index + count - Capacity
      BY <1>2, <2>2, Wrap DEF TypeOK
    <3>2. write_index' = IF write_index + 1 < Capacity
                         THEN write_index + 1 ELSE write_index + 1 - Capacity
      BY <1>2, <2>1, Wrap, CapacityPositive DEF Following, TypeOK
    <3>3. count + 1 \in 0..Capacity
      BY <1>2, <2>2, CapacityPositive DEF TypeOK
    <3>4. (read_index + (count + 1)) % Capacity
            = IF read_index + (count + 1) < Capacity
              THEN read_index + (count + 1) ELSE read_index + (count + 1) - Capacity
      BY <1>2, <3>3, Wrap DEF TypeOK
    <3>5. read_index \in 0..Capacity - 1 /\ count \in 0..Capacity
      BY <1>2 DEF TypeOK, Indices
    <3>6. QED
      BY <2>2, <3>1, <3>2, <3>4, <3>5, CapacityPositive
  <2>10. Placed'
    BY <1>1, <2>1, <2>8, <2>9 DEF Placed
  <2>11. Queue!Enter
    <3>1. Len(Contents) < Capacity
      BY <1>2, <2>2, ContentsType
    <3>2. QED
      BY <1>1, <2>1, <2>3, <2>5, <3>1 DEF Queue!Enter, Taken
  <2>12. QED
    BY <2>7, <2>10, <2>11 DEF Queue!QueueNext
<1>9. QED
  BY <1>3, <1>4, <1>5, <1>6, <1>7, <1>8 DEF Push

\* So does each step of a drain.
LEMMA DrainImplements ==
    ASSUME TypeInv, TypeOK', RingInv, CallDrain \/ Drain
    PROVE  RingInv' /\ (Queue!QueueNext \/ UNCHANGED Queue!queueVars)
<1> USE DEF ringVars, pushVars, RingInv
<1>1. /\ UNCHANGED <<pc, sequence, next_sequence, dropped, slots, write_index>>
      /\ InFlight' = InFlight
  BY DEF CallDrain, Drain, TryDrain, ReadOldest, LeaveEmpty, AdvanceOldest, ReleaseDrain,
         Consume, InFlight
<1>2. TypeOK
  BY DEF TypeInv
<1>3. CASE CallDrain \/ TryDrain \/ ReadOldest \/ LeaveEmpty \/ ReleaseDrain
  <2>1. UNCHANGED <<read_index, count>> /\ Contents' = Contents
    BY <1>3 DEF CallDrain, TryDrain, ReadOldest, LeaveEmpty, ReleaseDrain, Contents
  <2>2. Taken' = Taken
    BY <1>3 DEF CallDrain, TryDrain, ReadOldest, LeaveEmpty, ReleaseDrain, Taken, InHand
  <2>3. Placed'
    BY <1>1, <1>3, <2>1
       DEF CallDrain, TryDrain, ReadOldest, LeaveEmpty, ReleaseDrain, Placed
  <2>4. QED
    BY <1>1, <2>1, <2>2, <2>3, PresentKept, DistinctKept
<1>4. CASE AdvanceOldest
  <2>1. /\ read_index' = Following(read_index) /\ count' = count - 1
        /\ wpc = "advance" /\ wpc' = "release" /\ UNCHANGED <<event, delivered>>
    BY <1>4 DEF AdvanceOldest
  <2>2. count > 0 /\ event = slots[read_index]
    BY <2>1 DEF TypeInv, CountInv, Placed
  <2>3. Contents' = Tail(Contents)
    BY <1>1, <1>2, <2>1, <2>2, ContentsTail
  <2>4. Contents # <<>> /\ Head(Contents) = event
    BY <1>2, <2>2, ContentsHead
  <2>5. Taken = delivered
    BY <1>2, <2>1, TakenType
  <2>6. Taken' = Append(Taken, Head(Contents))
    <3>1. Taken' = delivered \o <<event>>
      BY <2>1 DEF Taken, InHand
    <3>2. delivered \o <<event>> = Append(delivered, event)
      <4>1. delivered \in Seq(0..next_sequence) /\ event \in 0..next_sequence
        BY <1>2 DEF TypeOK
      <4>2. QED
        BY <4>1, AppendIsConcat
    <3>3. QED
      BY <2>4, <2>5, <3>1, <3>2, Zenon
  <2>7. Queue!Present' \subseteq Queue!Present
    BY <1>1, <1>2, <2>2, <2>3, <2>6, PresentShrinks
  <2>8. \A q \in Producers : pc[q] # "commit"
    BY <2>1 DEF TypeInv, Exclusion, Holds, WriterHolds
  <2>9. write_index' = (read_index' + count') % Capacity
    <3>1. read_index' = IF read_index + 1 < Capacity THEN read_index + 1
                                                     ELSE read_index + 1 - Capacity
      BY <1>2, <2>1, Wrap, CapacityPositive DEF Following, TypeOK
    <3>2. write_index = IF read_index + count < Capacity
                        THEN read_index + count ELSE read_index + count - Capacity
      BY <1>2, Wrap DEF Placed, TypeOK
    <3>3. read_index \in 0..Capacity - 1 /\ count \in 0..Capacity /\ count - 1 \in 0..Capacity
      BY <1>2, <2>2, CapacityPositive DEF TypeOK, Indices
    <3>4. read_index' \in Indices
      BY <1>2, <2>1, FollowingIndex DEF TypeOK
    <3>5. (read_index' + (count - 1)) % Capacity
            = IF read_index' + (count - 1) < Capacity
              THEN read_index' + (count - 1) ELSE read_index' + (count - 1) - Capacity
      BY <3>3, <3>4, Wrap
    <3>6. (read_index' + (count - 1)) % Capacity = write_index
      BY <3>1, <3>2, <3>3, <3>5, CapacityPositive
    <3>7. QED
      BY <1>1, <2>1, <3>6
  <2>10. Placed'
    BY <1>1, <2>1, <2>8, <2>9 DEF Placed
  <2>11. Queue!TakeOldest
    BY <1>1, <2>3, <2>4, <2>6 DEF Queue!TakeOldest, Taken
  <2>12. QED
    BY <1>1, <2>7, <2>10, <2>11, DistinctKept DEF Queue!QueueNext
<1>5. CASE Consume
  <2>1. /\ wpc = "consume" /\ wpc' = "try" /\ delivered' = Append(delivered, event)
        /\ UNCHANGED <<read_index, count, event>>
    BY <1>5 DEF Consume
  <2>2. Contents' = Contents
    BY <1>1, <2>1 DEF Contents
  <2>3. Taken = Append(delivered, event)
    BY <1>2, <2>1, TakenType
  <2>4. Taken' = delivered'
    <3>1. delivered' \in Seq(0..next_sequence') /\ Taken' = delivered' \o <<>>
      BY <2>1 DEF TypeOK, Taken, InHand
    <3>2. QED
      BY <3>1, ConcatEmptySeq
  <2>5. Placed'
    BY <1>1, <2>1 DEF Placed
  <2>6. QED
    BY <1>1, <2>1, <2>2, <2>3, <2>4, <2>5, PresentKept, DistinctKept
<1>6. QED
  BY <1>3, <1>4, <1>5 DEF Drain

LEMMA RingInit == Init => RingInv /\ Queue!QueueInit
<1> SUFFICES ASSUME Init PROVE RingInv /\ Queue!QueueInit
  OBVIOUS
<1>1. InFlight = {} /\ InHand = <<>>
  BY DEF Init, InFlight, InHand
<1>2. write_index = (read_index + count) % Capacity
  BY CapacityPositive DEF Init
<1>3. Contents = <<>>
  <2>1. 1..count = {}
    BY DEF Init
  <2>2. Contents \in [{} -> {}]
    BY <2>1 DEF Contents
  <2>3. QED
    BY <2>2
<1>4. delivered \o <<>> = <<>>
  BY DEF Init
<1>5. Placed /\ Distinct
  BY <1>1, <1>2 DEF Init, Placed, Distinct
<1>6. QED
  BY <1>1, <1>3, <1>4, <1>5 DEF Init, RingInv, Queue!QueueInit

LEMMA RingStep ==
    ASSUME TypeInv, RingInv, [Next]_vars
    PROVE  RingInv' /\ [Queue!QueueNext]_(Queue!queueVars)
<1>1. TypeInv'
  BY TypeInductive
<1>2. CASE UNCHANGED vars
  <2>1. /\ Contents' = Contents /\ Taken' = Taken /\ InFlight' = InFlight
        /\ UNCHANGED <<sequence, next_sequence, dropped>>
    BY <1>2 DEF vars, ringVars, pushVars, drainVars, Contents, Taken, InHand, InFlight
  <2>2. Placed'
    BY <1>2 DEF vars, ringVars, pushVars, drainVars, RingInv, Placed
  <2>3. QED
    BY <2>1, <2>2, PresentKept, DistinctKept DEF RingInv
<1>3. CASE Next
  BY <1>1, <1>3, PushImplements, DrainImplements DEF Next, TypeInv
<1>4. QED
  BY <1>2, <1>3

\* What ties the indices to the contents holds at every step
\* (telemetry.hpp:42-51, 66-69).
THEOREM RingPlaced == Spec => []Placed
<1>1. RingInv => Placed
  BY DEF RingInv
<1>2. TypeInv /\ RingInv /\ [Next]_vars => RingInv'
  BY RingStep
<1>3. QED
  BY <1>1, <1>2, RingInit, TypeInit, TypeInductive, PTL DEF Spec

\* No event enters the ring twice, none is delivered twice
\* (telemetry.hpp:36, 47-49).
THEOREM EventsDistinct == Spec => []Distinct
<1>1. RingInv => Distinct
  BY DEF RingInv
<1>2. TypeInv /\ RingInv /\ [Next]_vars => RingInv'
  BY RingStep
<1>3. QED
  BY <1>1, <1>2, RingInit, TypeInit, TypeInductive, PTL DEF Spec

\* The ring implements the bounded lossy queue: first in first out, the oldest
\* overwritten, every loss counted (telemetry.hpp:35-74).
THEOREM RingRefinesQueue == Spec => QueueRefined
<1>1. TypeInv /\ RingInv /\ [Next]_vars => RingInv' /\ [Queue!QueueNext]_(Queue!queueVars)
  BY RingStep
<1>2. QED
  BY <1>1, RingInit, TypeInit, TypeInductive, PTL
     DEF Spec, QueueRefined, Queue!QueueSpec

=============================================================================
