--------------------------- MODULE CaptureSession ---------------------------
(***************************************************************************)
(* A capture: the game's threads record what they see from inside the      *)
(* detours (patch_dll.cpp, hook_callbacks.cpp), the writer turns it into a *)
(* CSV and ends the capture (telemetry_writer.cpp).                        *)
(*                                                                         *)
(* The hooks are in place at the start and the writer is about to open its *)
(* file; how they came there is PatchStartup's subject, and so is what     *)
(* happens to the hooks when the writer takes too long.  The ring is what  *)
(* TelemetryRing was shown to be: a bounded queue whose push takes the     *)
(* oldest event's place when it is full, and whose push and drain give up  *)
(* when it is busy.  Of a delta it matters whether it is a motion.         *)
(***************************************************************************)
EXTENDS CaptureLimiter, Sequences, FiniteSetsExt

CONSTANTS
    Threads,     \* threads of the game that run hooked functions
    RingSlots,   \* slots of the ring
    LastTick     \* bound: where the clock stops

ASSUME RingSlotsPositive == RingSlots \in Nat \ {0}
ASSUME LastTickWord == LastTick \in 0..Word - 1

VARIABLES
    capture_enabled, capture_started,
    ring,            \* the events in the ring, oldest first
    clock,           \* the performance counter
    gpc, at, ev,     \* each thread: its place, the hook, the event it records
    wpc,             \* the writer's place
    limiter, keep,   \* the writer's limiter and keep_capturing
    batch,           \* rows not in the file yet
    csv,             \* rows in the file
    overdue,         \* ten minutes have passed since the writer's start
    seen             \* history: events drained since the first motion

switchVars == <<capture_enabled, capture_started>>
gameVars == <<gpc, at, ev>>
limitVars == <<limiter, keep, seen>>
fileVars == <<batch, csv>>
writerVars == <<wpc, limitVars, fileVars, overdue>>
vars == <<switchVars, ring, clock, gameVars, writerVars>>

\* The input and the camera hook record alike.
Hooks == {"turn", "input_or_camera"}
GameSteps == {"game", "enabled", "started", "push", "push_distributed"}
WriterSteps == {"open", "drain", "write", "ended"}

TypeOK ==
    /\ capture_enabled \in BOOLEAN
    /\ capture_started \in BOOLEAN
    /\ ring \in Seq(Events)
    /\ clock \in Nat
    /\ gpc \in [Threads -> GameSteps]
    /\ at \in [Threads -> Hooks]
    /\ ev \in [Threads -> Events]
    /\ wpc \in WriterSteps
    /\ limiter \in Limiters
    /\ keep \in BOOLEAN
    /\ batch \in Seq(Events)
    /\ csv \in Seq(Events)
    /\ overdue \in BOOLEAN
    /\ seen \in Seq(Events)

NoEvent == [motion |-> FALSE, qpc |-> 0]

Init ==
    /\ capture_enabled = TRUE
    /\ capture_started = FALSE
    /\ ring = <<>>
    /\ clock = 0
    /\ gpc = [t \in Threads |-> "game"]
    /\ at = [t \in Threads |-> "turn"]
    /\ ev = [t \in Threads |-> NoEvent]
    /\ wpc = "open"
    /\ limiter = NewLimiter
    /\ keep = TRUE
    /\ batch = <<>>
    /\ csv = <<>>
    /\ overdue = FALSE
    /\ seen = <<>>

Tick ==
    /\ clock < LastTick
    /\ clock' = clock + 1
    /\ UNCHANGED <<switchVars, ring, gameVars, writerVars>>

-----------------------------------------------------------------------------
(* The detours, up to the call of the original function.                   *)

Goto(t, step) ==
    /\ gpc' = [gpc EXCEPT ![t] = step]
    /\ UNCHANGED at

\* The locals are gone.
Leave(t) ==
    /\ gpc' = [gpc EXCEPT ![t] = "game"]
    /\ at' = [at EXCEPT ![t] = "turn"]
    /\ ev' = [ev EXCEPT ![t] = NoEvent]

\* The turn hook takes its time before anything else.
EnterHook(t) ==
    /\ gpc[t] = "game"
    /\ gpc' = [gpc EXCEPT ![t] = "enabled"]
    /\ \/ /\ \E motion \in BOOLEAN : ev' = [ev EXCEPT ![t] = [motion |-> motion, qpc |-> clock]]
          /\ UNCHANGED at
       \/ /\ at' = [at EXCEPT ![t] = "input_or_camera"]
          /\ UNCHANGED ev
    /\ UNCHANGED <<switchVars, ring, clock, writerVars>>

\* Mutant: the turn hook does not look at the switch.
CheckEnabledNot(t) ==
    /\ gpc[t] = "enabled"
    /\ IF at[t] = "turn" \/ capture_enabled THEN Goto(t, "started") /\ UNCHANGED ev ELSE Leave(t)
    /\ UNCHANGED <<switchVars, ring, clock, writerVars>>

CheckEnabled(t) ==
    /\ gpc[t] = "enabled"
    /\ IF capture_enabled THEN Goto(t, "started") /\ UNCHANGED ev ELSE Leave(t)
    /\ UNCHANGED <<switchVars, ring, clock, writerVars>>

\* The first motion starts the recording; the other hooks take their time now.
CheckStarted(t) ==
    /\ gpc[t] = "started"
    /\ capture_started' = (capture_started \/ ev[t].motion)
    /\ IF capture_started'
       THEN /\ Goto(t, "push")
            /\ ev' = IF at[t] = "turn" THEN ev ELSE [ev EXCEPT ![t].qpc = clock]
       ELSE Leave(t)
    /\ UNCHANGED <<capture_enabled, ring, clock, writerVars>>

Store(event) ==
    ring' = Append(IF Len(ring) = RingSlots THEN Tail(ring) ELSE ring, event)

\* A turn records what the game asked for, then what it is handed, which is no
\* motion to the limiter.
Pushed(t) ==
    /\ IF gpc[t] = "push" /\ at[t] = "turn"
       THEN Goto(t, "push_distributed") /\ ev' = [ev EXCEPT ![t].motion = FALSE]
       ELSE Leave(t)
    /\ UNCHANGED <<switchVars, clock, writerVars>>

PushEvent(t) ==
    /\ gpc[t] \in {"push", "push_distributed"}
    /\ Store(ev[t])
    /\ Pushed(t)

\* The ring is busy.
DropEvent(t) ==
    /\ gpc[t] \in {"push", "push_distributed"}
    /\ UNCHANGED ring
    /\ Pushed(t)

Detour(t) ==
    \/ EnterHook(t) \/ CheckEnabled(t) \/ CheckStarted(t)
    \/ PushEvent(t) \/ DropEvent(t)

-----------------------------------------------------------------------------
(* run_telemetry_writer.                                                   *)

\* The directory, the file and its first line.
OpenArtifact ==
    /\ wpc = "open"
    /\ wpc' \in {"drain", "ended"}
    /\ UNCHANGED <<switchVars, ring, clock, gameVars, limitVars, fileVars,
                   overdue>>

\* The rows of a capture: from the first motion up to the event that is the
\* last by number or the first by time.
Recorded(events) ==
    LET last == {i \in 1..Len(events) :
                   i >= MaxEvents \/ events[i].qpc >= events[1].qpc + Duration}
    IN IF last = {} THEN events ELSE SubSeq(events, 1, Min(last) - 1)

\* Remembers the events since the first motion up to the one that is too much.
Witness(event) ==
    seen' = IF (seen # <<>> \/ event.motion) /\ Recorded(seen) = seen
            THEN Append(seen, event)
            ELSE seen

DrainEvent ==
    /\ wpc = "drain"
    /\ ring # <<>>
    /\ ring' = Tail(ring)
    /\ Witness(Head(ring))
    /\ IF keep
       THEN LET event == Head(ring)
                after == Limited(limiter, event)
            IN /\ limiter' = after
               /\ keep' = (Decision(after, event) # "stop")
               /\ batch' = IF Decision(after, event) = "record"
                           THEN Append(batch, event) ELSE batch
       ELSE UNCHANGED <<limiter, keep, batch>>
    /\ UNCHANGED <<switchVars, clock, gameVars, wpc, csv, overdue>>

\* Nothing is left, or the ring is busy.
DrainEnd ==
    /\ wpc = "drain"
    /\ wpc' = "write"
    /\ UNCHANGED <<switchVars, ring, clock, gameVars, limitVars, fileVars, overdue>>

\* Mutant: the deadline is forgotten.
WriteBatchPatient ==
    /\ wpc = "write"
    /\ csv' = csv \o batch
    /\ batch' = <<>>
    /\ IF ~keep
       THEN capture_enabled' = FALSE /\ wpc' = "ended"
       ELSE wpc' = "drain" /\ UNCHANGED capture_enabled
    /\ UNCHANGED <<capture_started, ring, clock, gameVars, limitVars, overdue>>

WriteBatch ==
    /\ wpc = "write"
    /\ csv' = csv \o batch
    /\ batch' = <<>>
    /\ IF ~keep \/ (overdue /\ ~limiter.started)
       THEN capture_enabled' = FALSE /\ wpc' = "ended"
       ELSE wpc' = "drain" /\ UNCHANGED capture_enabled
    /\ UNCHANGED <<capture_started, ring, clock, gameVars, limitVars, overdue>>

\* A write that fails has written some of the rows, not all of them.  It ends
\* the writer and leaves the capture switched on.
FailWrite ==
    /\ wpc = "write"
    /\ \E rows \in 0..Len(batch) - 1 :
        /\ csv' = csv \o SubSeq(batch, 1, rows)
        /\ batch' = SubSeq(batch, rows + 1, Len(batch))
    /\ wpc' = "ended"
    /\ UNCHANGED <<switchVars, ring, clock, gameVars, limitVars, overdue>>

\* The ten minutes without a motion are over.
Overdue ==
    /\ wpc \in {"drain", "write"}
    /\ ~overdue
    /\ ~limiter.started
    /\ overdue' = TRUE
    /\ UNCHANGED <<switchVars, ring, clock, gameVars, wpc, limitVars, fileVars>>

-----------------------------------------------------------------------------

Next ==
    \/ \E t \in Threads : Detour(t)
    \/ OpenArtifact \/ DrainEvent \/ DrainEnd \/ WriteBatch \/ FailWrite
    \/ Overdue
    \/ Tick

Spec == Init /\ [][Next]_vars

\* The writer is scheduled and time passes; some thread of the game goes on
\* calling what is hooked.  Nobody is unlucky for ever: some push finds the ring
\* free now and again, so does the drain when there is an event, and no drain
\* goes on for ever because the threads fill the ring as fast.
LiveSpec ==
    /\ Spec
    /\ WF_vars(Overdue)
    /\ SF_vars(DrainEvent)
    /\ WF_vars(DrainEnd)
    /\ WF_vars(WriteBatch \/ FailWrite)
    /\ WF_vars(\E t \in Threads : Detour(t))
    /\ SF_vars(\E t \in Threads : PushEvent(t))

-----------------------------------------------------------------------------
(* Properties.                                                             *)

\* The file and what is about to be written are exactly the capture of what
\* left the ring, in that order, whatever was lost on the way in and however
\* the events fell into batches (telemetry_writer.cpp:135-163,
\* capture_limit.cpp:8-26).
Captured == csv \o batch = Recorded(seen)

Recording == {t \in Threads : gpc[t] \in {"started", "push", "push_distributed"}}

\* Once the capture is switched off it stays off, and only the calls already
\* past their look at the switch may still record: nobody joins them
\* (patch_dll.cpp:46, 67, 93, telemetry_writer.cpp:172).
SwitchedOff == [][~capture_enabled => ~capture_enabled' /\ Recording' \subseteq Recording]_vars

\* With a file to write to every capture comes to its end, by number, by time,
\* or by the deadline when nobody ever turned, and switches the hooks'
\* recording off; only rows that could not be written leave it on
\* (telemetry_writer.cpp:132-178).
CaptureEnds == (wpc = "drain") ~> (wpc = "ended" /\ (capture_enabled => batch # <<>>))

=============================================================================
