------------------------- MODULE CaptureSessionProofs -------------------------
(***************************************************************************)
(* Proofs about CaptureSession, for any number of threads, any ring, any   *)
(* duration and any number of events.                                      *)
(*                                                                         *)
(* The limiter sees one event at a time and keeps three numbers; what a    *)
(* capture is (Recorded) speaks of all the events at once.  LimiterInv     *)
(* ties the two together.                                                  *)
(***************************************************************************)
EXTENDS CaptureSession, SequenceTheorems, TLAPS

\* The i-th of the events is one too many.
Stops(events, i) ==
    i >= MaxEvents \/ events[i].qpc >= events[1].qpc + Duration

\* The rows there are, written or not.
Rows == csv \o batch

\* Every event but the last was taken, and the last one was unless the limiter
\* has said stop.
LimiterInv ==
    /\ limiter.started <=> seen # <<>>
    /\ seen # <<>> => seen[1].motion /\ limiter.start = seen[1].qpc
    /\ limiter.captured = Len(seen)
    /\ \A i \in 1..Len(seen) - 1 : ~Stops(seen, i)
    /\ keep <=> (seen = <<>> \/ ~Stops(seen, Len(seen)))
    /\ Rows = IF keep THEN seen ELSE SubSeq(seen, 1, Len(seen) - 1)

\* Only the writer's last step switches the recording off, and only after it
\* wrote what it had.
OffInv ==
    ~capture_enabled => wpc = "ended" /\ batch = <<>> /\ (~keep \/ seen = <<>>)

CaptureInv == TypeOK /\ Len(ring) <= RingSlots /\ LimiterInv /\ OffInv

-----------------------------------------------------------------------------
(* Sequences.                                                              *)

LEMMA PrefixIs ==
    ASSUME NEW S, NEW s \in Seq(S), NEW n \in 0..Len(s)
    PROVE  /\ SubSeq(s, 1, n) \in Seq(S)
           /\ Len(SubSeq(s, 1, n)) = n
           /\ \A i \in 1..n : SubSeq(s, 1, n)[i] = s[i]
<1>1. n \in Int /\ 1 \in Int /\ n - 1 + 1 = n
  OBVIOUS
<1>2. \A i \in 1..n : s[i] \in S
  BY ElementOfSeq
<1> QED
  BY <1>1, <1>2, SubSeqProperties, SMT

\* What was appended is what a prefix leaves out.
LEMMA AppendPrefix ==
    ASSUME NEW S, NEW s \in Seq(S), NEW e \in S
    PROVE  SubSeq(Append(s, e), 1, Len(Append(s, e)) - 1) = s
<1>1. /\ Append(s, e) \in Seq(S) /\ Len(Append(s, e)) = Len(s) + 1 /\ Len(s) \in Nat
      /\ \A i \in 1..Len(s) : Append(s, e)[i] = s[i]
  BY AppendProperties, LenProperties
<1>2. /\ SubSeq(Append(s, e), 1, Len(s)) \in Seq(S)
      /\ Len(SubSeq(Append(s, e), 1, Len(s))) = Len(s)
      /\ \A i \in 1..Len(s) : SubSeq(Append(s, e), 1, Len(s))[i] = Append(s, e)[i]
  BY <1>1, PrefixIs
<1>3. SubSeq(Append(s, e), 1, Len(s)) = s
  BY <1>1, <1>2, SeqEqual
<1> QED
  BY <1>1, <1>3

\* Rows that are cut anywhere and put together again are the same rows.
LEMMA CutRows ==
    ASSUME NEW S, NEW s \in Seq(S), NEW t \in Seq(S), NEW n \in 0..Len(t)
    PROVE  /\ SubSeq(t, 1, n) \in Seq(S) /\ SubSeq(t, n + 1, Len(t)) \in Seq(S)
           /\ (s \o SubSeq(t, 1, n)) \o SubSeq(t, n + 1, Len(t)) = s \o t
<1>1. Len(t) \in Nat /\ n + 1 \in Int /\ 1 \in 1..Len(t) + 1 /\ n \in 1 - 1..Len(t)
      /\ Len(t) \in n..Len(t)
  BY LenProperties
<1>2. SubSeq(t, 1, n) \in Seq(S)
  BY PrefixIs
<1>3. \A i \in n + 1..Len(t) : t[i] \in S
  BY <1>1, ElementOfSeq
<1>4. SubSeq(t, n + 1, Len(t)) \in Seq(S)
  BY <1>1, <1>3, SubSeqProperties
<1>5. SubSeq(t, 1, n) \o SubSeq(t, n + 1, Len(t)) = SubSeq(t, 1, Len(t))
  BY <1>1, ConcatAdjacentSubSeq
<1>6. SubSeq(t, 1, Len(t)) = t
  BY SubSeqFull
<1>7. ASSUME NEW a \in Seq(S), NEW b \in Seq(S)
      PROVE  (s \o a) \o b = s \o (a \o b)
  BY ConcatAssociative
<1>8. \A a, b \in Seq(S) : (s \o a) \o b = s \o (a \o b)
  BY <1>7
<1>9. SubSeq(t, 1, n) \o SubSeq(t, n + 1, Len(t)) = t
  BY <1>5, <1>6
<1>10. (s \o SubSeq(t, 1, n)) \o SubSeq(t, n + 1, Len(t))
          = s \o (SubSeq(t, 1, n) \o SubSeq(t, n + 1, Len(t)))
  BY <1>2, <1>4, <1>8, Zenon
<1>11. (s \o SubSeq(t, 1, n)) \o SubSeq(t, n + 1, Len(t)) = s \o t
  BY <1>9, <1>10, Zenon
<1> QED
  BY <1>2, <1>4, <1>11, Zenon

LEMMA AppendRows ==
    ASSUME NEW S, NEW s \in Seq(S), NEW t \in Seq(S), NEW e \in S
    PROVE  s \o Append(t, e) = Append(s \o t, e)
<1>1. <<e>> \in Seq(S) /\ s \o t \in Seq(S)
  BY ConcatProperties
<1>2. Append(t, e) = t \o <<e>> /\ Append(s \o t, e) = (s \o t) \o <<e>>
  BY <1>1, AppendIsConcat
<1> QED
  BY <1>1, <1>2, ConcatAssociative

-----------------------------------------------------------------------------
(* What a capture is.                                                      *)

\* With no event too many it is all of them.
LEMMA RecordedWhole ==
    ASSUME NEW events \in Seq(Events), \A i \in 1..Len(events) : ~Stops(events, i)
    PROVE  Recorded(events) = events
  BY DEF Recorded, Stops

\* With the last one too many it is all the others.
LEMMA RecordedStopped ==
    ASSUME NEW events \in Seq(Events), events # <<>>,
           \A i \in 1..Len(events) - 1 : ~Stops(events, i), Stops(events, Len(events))
    PROVE  /\ Recorded(events) = SubSeq(events, 1, Len(events) - 1)
           /\ Recorded(events) # events
<1> DEFINE last == {i \in 1..Len(events) : Stops(events, i)}
<1>1. Len(events) \in Nat \ {0}
  BY EmptySeq
<1>2. last = {Len(events)}
  BY <1>1
<1>3. Min(last) = Len(events)
  BY <1>1, <1>2 DEF Min
<1>4. Recorded(events) = SubSeq(events, 1, Len(events) - 1)
  BY <1>2, <1>3 DEF Recorded, Stops
<1>5. Len(SubSeq(events, 1, Len(events) - 1)) = Len(events) - 1
  <2>1. Len(events) - 1 \in 0..Len(events)
    BY <1>1
  <2> QED
    BY <2>1, PrefixIs
<1> QED
  BY <1>1, <1>4, <1>5

\* The limiter's numbers say what the events do.
LEMMA DecisionIs ==
    ASSUME TypeOK, LimiterInv, keep, NEW event \in Events, limiter.started \/ event.motion
    PROVE  LET after == Limited(limiter, event)
               all == Append(seen, event)
           IN /\ after.started /\ all[1].motion
              /\ after.start = all[1].qpc
              /\ after.captured = Len(all)
              /\ (Decision(after, event) = "stop") = Stops(all, Len(all))
              /\ (Decision(after, event) = "record") = ~Stops(all, Len(all))
<1> DEFINE after == Limited(limiter, event)
           all == Append(seen, event)
<1>1. /\ Len(seen) \in Nat /\ Len(all) = Len(seen) + 1 /\ all[Len(all)] = event
      /\ seen = <<>> => all[1] = event
      /\ seen # <<>> => all[1] = seen[1]
  BY AppendProperties, EmptySeq DEF TypeOK
<1>2. /\ after.started /\ all[1].motion
      /\ after.captured = Len(all) /\ after.start = all[1].qpc
  BY <1>1 DEF TypeOK, LimiterInv, Limited, Limiters
<1>3. Stops(all, Len(all)) = (after.captured >= MaxEvents \/ Expired(after, event))
  <2>1. /\ event.qpc \in Nat /\ after.start \in Nat
        /\ all[Len(all)].qpc = event.qpc /\ all[1].qpc = after.start
    BY <1>1, <1>2 DEF TypeOK, Limiters, Limited, Events
  <2>2. Expired(after, event) = (event.qpc >= after.start + Duration)
    BY <2>1, DurationNat DEF Expired, Minus
  <2> QED
    BY <1>2, <2>1, <2>2 DEF Stops
<1> QED
  BY <1>2, <1>3 DEF Decision

LEMMA LimitedType ==
    ASSUME NEW l \in Limiters, NEW event \in Events
    PROVE  Limited(l, event) \in Limiters
  BY DEF Limited, Limiters, Events

\* The properties' own predicate from the invariant.
LEMMA InvCaptured ==
    ASSUME TypeOK, LimiterInv
    PROVE  /\ Captured
           /\ (Recorded(seen) = seen) = keep
<1>1. seen \in Seq(Events) /\ Len(seen) \in Nat
  BY LenProperties DEF TypeOK
<1>2. CASE keep
  <2>1. \A i \in 1..Len(seen) : i \in 1..Len(seen) - 1 \/ (i = Len(seen) /\ seen # <<>>)
    BY <1>1, EmptySeq
  <2>2. \A i \in 1..Len(seen) : ~Stops(seen, i)
    BY <1>2, <2>1 DEF LimiterInv
  <2> QED
    BY <1>1, <1>2, <2>2, RecordedWhole DEF LimiterInv, Captured, Rows
<1>3. CASE ~keep
  <2>1. seen # <<>> /\ Stops(seen, Len(seen))
    BY <1>3 DEF LimiterInv, TypeOK
  <2> QED
    BY <1>1, <1>3, <2>1, RecordedStopped DEF LimiterInv, Captured, Rows, TypeOK
<1> QED
  BY <1>2, <1>3 DEF TypeOK

-----------------------------------------------------------------------------
(* The steps.                                                              *)

LEMMA InitInv == Init => CaptureInv
<1> SUFFICES ASSUME Init PROVE CaptureInv
  OBVIOUS
<1>1. <<>> \in Seq(Events) /\ Len(<<>>) = 0 /\ <<>> \o <<>> = <<>>
  OBVIOUS
<1>2. TypeOK
  BY <1>1
     DEF Init, TypeOK, GameSteps, WriterSteps, Hooks, Events, NoEvent, Limiters, NewLimiter
<1>3. LimiterInv
  <2>1. 1..Len(seen) - 1 = {} /\ Len(seen) = 0 /\ Rows = <<>>
    BY <1>1 DEF Init, Rows
  <2> QED
    BY <2>1 DEF Init, LimiterInv, NewLimiter
<1> QED
  BY <1>1, <1>2, <1>3, RingSlotsPositive DEF Init, CaptureInv, OffInv

\* The game's threads touch nothing of the writer's.
LEMMA DetourInv ==
    ASSUME CaptureInv, NEW t \in Threads, Detour(t)
    PROVE  CaptureInv'
<1> USE DEF CaptureInv, TypeOK, GameSteps, Hooks
<1>1. UNCHANGED <<capture_enabled, clock, writerVars>>
  BY DEF Detour, EnterHook, CheckEnabled, CheckStarted, PushEvent, DropEvent, Pushed,
         switchVars
<1>2. NoEvent \in Events
  BY DEF NoEvent, Events
<1>3. capture_started' \in BOOLEAN
  BY DEF Detour, EnterHook, CheckEnabled, CheckStarted, PushEvent, DropEvent, Pushed,
         switchVars, Events
<1>4. gpc' \in [Threads -> GameSteps] /\ at' \in [Threads -> Hooks]
  BY DEF Detour, EnterHook, CheckEnabled, CheckStarted, PushEvent, DropEvent, Pushed,
         Goto, Leave
<1>5. ev' \in [Threads -> Events]
  <2>1. CASE EnterHook(t)
    <3>1. \A motion \in BOOLEAN : [motion |-> motion, qpc |-> clock] \in Events
      BY DEF Events
    <3> QED
      BY <2>1, <3>1 DEF EnterHook
  <2>2. CASE CheckEnabled(t)
    BY <2>2, <1>2 DEF CheckEnabled, Leave
  <2>3. CASE CheckStarted(t)
    <3>1. [ev EXCEPT ![t].qpc = clock] \in [Threads -> Events]
      BY DEF Events
    <3> QED
      BY <2>3, <3>1, <1>2 DEF CheckStarted, Leave
  <2>4. CASE PushEvent(t) \/ DropEvent(t)
    <3>1. [ev EXCEPT ![t].motion = FALSE] \in [Threads -> Events]
      BY DEF Events
    <3> QED
      BY <2>4, <3>1, <1>2 DEF PushEvent, DropEvent, Pushed, Leave
  <2> QED
    BY <2>1, <2>2, <2>3, <2>4 DEF Detour
<1>6. ring' \in Seq(Events) /\ Len(ring') <= RingSlots
  <2>1. CASE PushEvent(t)
    <3>1. Len(ring) = RingSlots => ring # <<>>
      BY RingSlotsPositive
    <3>2. Len(ring) = RingSlots => Tail(ring) \in Seq(Events) /\ Len(Tail(ring)) = Len(ring) - 1
      BY <3>1, HeadTailProperties
    <3>3. ev[t] \in Events /\ Len(ring) \in Nat
      BY LenProperties
    <3> DEFINE kept == IF Len(ring) = RingSlots THEN Tail(ring) ELSE ring
    <3>4. kept \in Seq(Events) /\ Len(kept) + 1 <= RingSlots
      BY <3>2, <3>3, RingSlotsPositive
    <3>5. ring' = Append(kept, ev[t])
      BY <2>1 DEF PushEvent, Store
    <3> HIDE DEF kept
    <3> QED
      BY <3>3, <3>4, <3>5, AppendProperties
  <2>2. CASE ~PushEvent(t)
    BY <2>2 DEF Detour, EnterHook, CheckEnabled, CheckStarted, DropEvent
  <2> QED
    BY <2>1, <2>2
<1>7. LimiterInv' /\ OffInv'
  BY <1>1 DEF writerVars, limitVars, fileVars, LimiterInv, OffInv, Rows, Stops
<1> QED
  BY <1>1, <1>3, <1>4, <1>5, <1>6, <1>7 DEF writerVars, limitVars, fileVars

\* An event that leaves the ring goes through the limiter.
LEMMA DrainInv ==
    ASSUME CaptureInv, DrainEvent
    PROVE  CaptureInv'
<1> DEFINE event == Head(ring)
           after == Limited(limiter, event)
<1> USE DEF CaptureInv
<1>1. /\ event \in Events
      /\ ring' \in Seq(Events) /\ Len(ring') <= RingSlots
  BY HeadTailProperties, LenProperties, RingSlotsPositive DEF DrainEvent, TypeOK
<1>2. /\ UNCHANGED <<switchVars, clock, gameVars, wpc, csv, overdue>>
      /\ wpc = "drain" /\ capture_enabled
  BY DEF DrainEvent, OffInv, TypeOK
<1>3. seen' = IF (seen # <<>> \/ event.motion) /\ keep THEN Append(seen, event) ELSE seen
  BY InvCaptured DEF DrainEvent, Witness
<1>4. CASE ~keep
  <2>1. UNCHANGED <<limiter, keep, batch, seen>>
    BY <1>3, <1>4 DEF DrainEvent
  <2> QED
    BY <1>1, <1>2, <2>1
       DEF TypeOK, switchVars, gameVars, LimiterInv, OffInv, Rows, Stops
<1>5. CASE keep /\ ~(limiter.started \/ event.motion)
  <2>1. after = limiter /\ Decision(after, event) = "wait"
    BY <1>5 DEF Limited, Decision
  <2>2. UNCHANGED <<limiter, keep, batch, seen>>
    BY <1>3, <1>5, <2>1 DEF DrainEvent, LimiterInv, TypeOK
  <2> QED
    BY <1>1, <1>2, <2>2
       DEF TypeOK, switchVars, gameVars, LimiterInv, OffInv, Rows, Stops
<1>6. CASE keep /\ (limiter.started \/ event.motion)
  <2> DEFINE all == Append(seen, event)
  <2>1. seen' = all
    BY <1>3, <1>6 DEF LimiterInv
  <2>2. /\ limiter' = after
        /\ keep' = (Decision(after, event) # "stop")
        /\ batch' = IF Decision(after, event) = "record" THEN Append(batch, event) ELSE batch
    BY <1>6 DEF DrainEvent
  <2>3. /\ after.started /\ all[1].motion
        /\ after.start = all[1].qpc /\ after.captured = Len(all)
        /\ (Decision(after, event) = "stop") = Stops(all, Len(all))
        /\ (Decision(after, event) = "record") = ~Stops(all, Len(all))
    BY <1>1, <1>6, DecisionIs
  <2>4. seen \in Seq(Events) /\ csv \in Seq(Events) /\ batch \in Seq(Events)
    BY DEF TypeOK
  <2>5. /\ all \in Seq(Events) /\ all # <<>> /\ Len(all) = Len(seen) + 1 /\ Len(seen) \in Nat
        /\ \A i \in 1..Len(seen) : all[i] = seen[i]
    BY <1>1, <2>4, AppendProperties, LenProperties
  <2>6. \A i \in 1..Len(all) - 1 : ~Stops(all, i)
    <3>1. \A i \in 1..Len(seen) : ~Stops(seen, i)
      <4>1. \A i \in 1..Len(seen) : i \in 1..Len(seen) - 1 \/ (i = Len(seen) /\ seen # <<>>)
        BY <2>4, <2>5, EmptySeq
      <4> QED
        BY <1>6, <4>1 DEF LimiterInv
    <3> HIDE DEF all
    <3> QED
      BY <3>1, <2>5 DEF Stops
  <2>7. TypeOK'
    <3>1. Append(batch, event) \in Seq(Events)
      BY <1>1, <2>4, AppendProperties
    <3>2. limiter' \in Limiters
      BY <1>1, <2>2, LimitedType DEF TypeOK
    <3> HIDE DEF all, after, event
    <3> QED
      BY <1>1, <1>2, <2>1, <2>2, <2>5, <3>1, <3>2 DEF TypeOK, switchVars, gameVars
  <2>8. Rows' = IF keep' THEN seen' ELSE SubSeq(seen', 1, Len(seen') - 1)
    <3>1. Rows = seen
      BY <1>6 DEF LimiterInv
    <3>2. csv \o Append(batch, event) = all
      <4>1. csv \o Append(batch, event) = Append(csv \o batch, event)
        BY <1>1, <2>4, AppendRows
      <4> QED
        BY <3>1, <4>1 DEF Rows
    <3>3. SubSeq(all, 1, Len(all) - 1) = seen
      BY <1>1, <2>4, AppendPrefix
    <3>4. UNCHANGED csv
      BY <1>2
    <3> HIDE DEF all, after, event
    <3> QED
      BY <2>1, <2>2, <2>3, <3>1, <3>2, <3>3, <3>4 DEF Rows
  <2>9. LimiterInv'
    <3> HIDE DEF all, after
    <3>1. Stops(all, Len(all)) \in BOOLEAN
      BY DEF Stops
    <3> QED
      BY <2>1, <2>2, <2>3, <2>5, <2>6, <2>8, <3>1 DEF LimiterInv, Stops
  <2> QED
    BY <1>1, <1>2, <2>7, <2>9 DEF OffInv, switchVars
<1> QED
  BY <1>4, <1>5, <1>6

\* The writer's other steps leave the limiter and the rows.
LEMMA WriterInv ==
    ASSUME CaptureInv, OpenArtifact \/ DrainEnd \/ WriteBatch \/ FailWrite \/ Overdue \/ Tick
    PROVE  CaptureInv'
<1> USE DEF CaptureInv
<1>1. UNCHANGED <<limitVars, ring, gameVars, capture_started>>
  BY DEF OpenArtifact, DrainEnd, WriteBatch, FailWrite, Overdue, Tick, switchVars, writerVars
<1>2. Rows' = Rows /\ csv' \in Seq(Events) /\ batch' \in Seq(Events)
  <2>1. csv \in Seq(Events) /\ batch \in Seq(Events)
    BY DEF TypeOK
  <2>2. CASE WriteBatch
    <3>1. Rows \in Seq(Events) /\ <<>> \in Seq(Events) /\ Rows \o <<>> = Rows
      BY <2>1, ConcatProperties, ConcatEmptySeq, EmptySeq DEF Rows
    <3> QED
      BY <2>2, <3>1 DEF WriteBatch, Rows
  <2>3. CASE FailWrite
    <3>1. PICK rows \in 0..Len(batch) - 1 :
            /\ csv' = csv \o SubSeq(batch, 1, rows)
            /\ batch' = SubSeq(batch, rows + 1, Len(batch))
      BY <2>3 DEF FailWrite
    <3>2. rows \in 0..Len(batch)
      BY <2>1, LenProperties
    <3> QED
      BY <2>1, <3>1, <3>2, CutRows, ConcatProperties DEF Rows
  <2>4. CASE OpenArtifact \/ DrainEnd \/ Overdue \/ Tick
    BY <2>1, <2>4 DEF OpenArtifact, DrainEnd, Overdue, Tick, writerVars, fileVars, Rows
  <2> QED
    BY <2>2, <2>3, <2>4
<1>3. /\ capture_enabled' \in BOOLEAN /\ clock' \in Nat /\ wpc' \in WriterSteps
      /\ overdue' \in BOOLEAN
  <2> USE DEF TypeOK, WriterSteps, switchVars
  <2>1. CASE OpenArtifact \/ DrainEnd \/ Overdue
    BY <2>1 DEF OpenArtifact, DrainEnd, Overdue
  <2>2. CASE WriteBatch \/ FailWrite
    BY <2>2 DEF WriteBatch, FailWrite
  <2>3. CASE Tick
    BY <2>3 DEF Tick, writerVars
  <2> QED
    BY <2>1, <2>2, <2>3
<1>4. OffInv'
  <2>1. CASE WriteBatch
    BY <2>1, <1>1 DEF WriteBatch, OffInv, limitVars, LimiterInv, TypeOK
  <2>2. CASE FailWrite
    BY <2>2 DEF FailWrite, OffInv, switchVars, TypeOK
  <2>3. CASE OpenArtifact \/ DrainEnd \/ Overdue \/ Tick
    BY <2>3 DEF OpenArtifact, DrainEnd, Overdue, Tick, OffInv, switchVars, writerVars,
                limitVars, fileVars, TypeOK
  <2> QED
    BY <2>1, <2>2, <2>3
<1>5. LimiterInv'
  BY <1>1, <1>2 DEF LimiterInv, limitVars, Stops
<1> QED
  BY <1>1, <1>2, <1>3, <1>4, <1>5 DEF TypeOK, limitVars, gameVars

\* The invariant holds throughout (patch_dll.cpp:45-99, capture_limit.cpp:8-26,
\* telemetry_writer.cpp:107-179).
THEOREM CaptureInvariant == Spec => []CaptureInv
<1>1. CaptureInv /\ [Next]_vars => CaptureInv'
  <2> SUFFICES ASSUME CaptureInv, [Next]_vars PROVE CaptureInv'
    OBVIOUS
  <2>1. CASE UNCHANGED vars
    BY <2>1 DEF vars, switchVars, gameVars, writerVars, limitVars, fileVars, CaptureInv,
                TypeOK, LimiterInv, OffInv, Rows, Stops
  <2> QED
    BY <2>1, DetourInv, DrainInv, WriterInv DEF Next
<1> QED
  BY <1>1, InitInv, PTL DEF Spec

\* Every variable keeps its kind, for any number of threads.
THEOREM TypeCorrect == Spec => []TypeOK
  BY CaptureInvariant, PTL DEF CaptureInv

\* What the writer has taken down is exactly the capture of what left the ring,
\* for any limits, any ring and any timing (telemetry_writer.cpp:135-163,
\* capture_limit.cpp:8-26).
THEOREM ExactlyCaptured == Spec => []Captured
<1>1. CaptureInv => Captured
  BY InvCaptured DEF CaptureInv
<1> QED
  BY <1>1, CaptureInvariant, PTL

\* A capture that was switched off has come to its end, or never saw a motion,
\* and all its rows are in the file (telemetry_writer.cpp:158-175).
THEOREM OffWhenComplete ==
    Spec => [](~capture_enabled => csv = Recorded(seen) /\ (Recorded(seen) # seen \/ seen = <<>>))
<1>1. ASSUME CaptureInv, ~capture_enabled
      PROVE  csv = Recorded(seen) /\ (Recorded(seen) # seen \/ seen = <<>>)
  <2>1. csv \o batch = csv
    BY <1>1, ConcatEmptySeq DEF CaptureInv, OffInv, TypeOK
  <2> QED
    BY <1>1, <2>1, InvCaptured DEF CaptureInv, OffInv, Captured, TypeOK
<1> QED
  BY <1>1, CaptureInvariant, PTL

\* A capture's file begins with a motion, has fewer rows than the limit, and none
\* that is the duration or more after the first (capture_limit.cpp:8-26).
WellCut ==
    /\ csv # <<>> => csv[1].motion
    /\ Len(csv) < MaxEvents
    /\ \A i \in 1..Len(csv) : csv[i].qpc < csv[1].qpc + Duration

LEMMA InvWellCut ==
    ASSUME TypeOK, LimiterInv
    PROVE  WellCut
<1>1. /\ seen \in Seq(Events) /\ csv \in Seq(Events) /\ batch \in Seq(Events)
      /\ Len(seen) \in Nat /\ Len(csv) \in Nat /\ Len(batch) \in Nat
  BY LenProperties DEF TypeOK
<1>2. \A i \in 1..Len(csv) : Rows[i] = csv[i] /\ i \in 1..Len(Rows)
  BY <1>1, ConcatProperties DEF Rows
<1>3. \A i \in 1..Len(Rows) : i \in 1..Len(seen) /\ Rows[i] = seen[i] /\ ~Stops(seen, i)
  <2>1. CASE keep
    <3>1. \A i \in 1..Len(seen) : i \in 1..Len(seen) - 1 \/ (i = Len(seen) /\ seen # <<>>)
      BY <1>1, EmptySeq
    <3> QED
      BY <2>1, <3>1 DEF LimiterInv
  <2>2. CASE ~keep
    <3>1. Len(seen) - 1 \in 0..Len(seen)
      BY <1>1, <2>2, EmptySeq DEF LimiterInv
    <3>2. /\ Len(Rows) = Len(seen) - 1
          /\ \A i \in 1..Len(seen) - 1 : Rows[i] = seen[i]
      <4>1. Rows = SubSeq(seen, 1, Len(seen) - 1)
        BY <2>2 DEF LimiterInv
      <4> DEFINE n == Len(seen) - 1
      <4>2. n \in 0..Len(seen)
        BY <3>1
      <4> HIDE DEF n
      <4>3. /\ Len(SubSeq(seen, 1, n)) = n
            /\ \A i \in 1..n : SubSeq(seen, 1, n)[i] = seen[i]
        BY <1>1, <4>2, PrefixIs
      <4> QED
        BY <4>1, <4>3 DEF n
    <3> QED
      BY <1>1, <3>2 DEF LimiterInv
  <2> QED
    BY <2>1, <2>2
<1>4. \A i \in 1..Len(csv) : csv[i] = seen[i] /\ csv[i] \in Events /\ ~Stops(seen, i)
  BY <1>1, <1>2, <1>3, ElementOfSeq
<1>5. csv # <<>> => 1 \in 1..Len(csv) /\ Len(csv) \in 1..Len(csv) /\ seen # <<>>
  BY <1>1, <1>2, <1>3, EmptySeq
<1>6. Len(csv) < MaxEvents
  BY <1>1, <1>4, <1>5, EmptySeq, MaxEventsPositive DEF Stops
<1>7. csv # <<>> => csv[1].motion
  BY <1>4, <1>5 DEF LimiterInv
<1>8. ASSUME NEW i \in 1..Len(csv) PROVE csv[i].qpc < csv[1].qpc + Duration
  <2>1. csv[1] = seen[1] /\ csv[1] \in Events /\ csv[i] \in Events
    BY <1>1, <1>4, <1>8
  <2> QED
    BY <1>4, <1>8, <2>1, DurationNat DEF Stops, Events
<1> QED
  BY <1>6, <1>7, <1>8 DEF WellCut

\* Every file a capture leaves is well cut, for any limits and any timing
\* (capture_limit.cpp:8-26, telemetry_writer.cpp:135-163).
THEOREM FileWellCut == Spec => []WellCut
<1>1. CaptureInv => WellCut
  BY InvWellCut DEF CaptureInv
<1> QED
  BY <1>1, CaptureInvariant, PTL

\* Once the capture is off it stays off, and nobody joins those who still record
\* (patch_dll.cpp:46, 67, 93, telemetry_writer.cpp:172).
THEOREM OffStaysOff == Spec => SwitchedOff
<1>1. TypeOK /\ [Next]_vars
        => [~capture_enabled => ~capture_enabled' /\ Recording' \subseteq Recording]_vars
  <2> SUFFICES ASSUME TypeOK, Next, ~capture_enabled
               PROVE  ~capture_enabled' /\ Recording' \subseteq Recording
    OBVIOUS
  <2>1. ASSUME NEW t \in Threads, Detour(t)
        PROVE  ~capture_enabled' /\ Recording' \subseteq Recording
    <3>1. UNCHANGED capture_enabled
      BY <2>1 DEF Detour, EnterHook, CheckEnabled, CheckStarted, PushEvent, DropEvent, Pushed,
                  switchVars
    <3>2. /\ \A u \in Threads : u # t => gpc'[u] = gpc[u]
          /\ gpc'[t] \in {"started", "push", "push_distributed"}
               => gpc[t] \in {"started", "push", "push_distributed"}
      BY <2>1 DEF Detour, EnterHook, CheckEnabled, CheckStarted, PushEvent, DropEvent, Pushed,
                  Goto, Leave, TypeOK
    <3> QED
      BY <3>1, <3>2 DEF Recording
  <2>2. CASE OpenArtifact \/ DrainEvent \/ DrainEnd \/ WriteBatch \/ FailWrite \/ Overdue \/ Tick
    BY <2>2 DEF OpenArtifact, DrainEvent, DrainEnd, WriteBatch, FailWrite, Overdue, Tick,
                switchVars, gameVars, Recording
  <2> QED
    BY <2>1, <2>2 DEF Next
<1> QED
  BY <1>1, TypeCorrect, PTL DEF Spec, SwitchedOff

=============================================================================
