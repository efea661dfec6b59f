---------------------------- MODULE WatchdogProofs ----------------------------
(***************************************************************************)
(* Proofs about Watchdog, for any number of games' identifiers, watchdogs  *)
(* and children.                                                           *)
(***************************************************************************)
EXTENDS Watchdog, SequenceTheorems, TLAPS

Idle == {"none", "mutex", "dying"}

\* At most one watchdog that is not about to end is past the mutex.
Alone ==
    \A w, o \in Watchers : w # o => watcher[w].pc \in Idle \/ watcher[o].pc \in Idle

\* What goes with a watchdog's place: only a subscriber has events, and the
\* child it waits for is its own.
Fits(w) ==
    /\ watcher[w].pc \in Idle => ~watcher[w].subscribed /\ watcher[w].child = Nobody
    /\ ~watcher[w].subscribed => watcher[w].events = <<>>
    /\ watcher[w].pc \in {"heartbeat", "exit"} => watcher[w].target \in Pids
    /\ watcher[w].pc \in {"verifying", "repairing"} =>
         /\ watcher[w].child \in Jobs
         /\ job[watcher[w].child].by = w
         /\ job[watcher[w].child].kind =
              IF watcher[w].pc = "verifying" THEN "verify" ELSE "repair"

Fitting == \A w \in Watchers : Fits(w)

\* Watchdogs verify and repair, users install and uninstall.
Kinds ==
    /\ job[User].kind \in {"none", "install", "uninstall"}
    /\ \A j \in Jobs : job[j].kind \in {"none", "verify", "repair"}

OneGame == \A p, q \in Pids : process[p] \in Games /\ process[q] \in Games => p = q

\* A game has the files open, so the package is what it was when it started.
Builds ==
    \A p \in Pids :
        /\ process[p] \in {"loading", "beating"} => patched
        /\ process[p] = "plain" => ~patched

\* No repair is beside an uninstallation that counts on being alone.
Uninstalled ==
    /\ uninstall \in {"alone", "complete"} => ~SomeRepair /\ job[User].kind # "install"
    /\ uninstall = "alone" /\ job[User].step \in {"unregister", "remove"} => ~patched
    /\ uninstall = "alone" => job[User].kind = "uninstall"
    /\ uninstall = "complete" => ~patched /\ ~files /\ ~registered

DueUnpatched == due => ~patched

\* The game that runs is the watchdog's, or the last in its queue.
Follows(w) ==
    \/ watcher[w].pc \in {"heartbeat", "exit"} /\ process[watcher[w].target] \in Games
    \/ /\ watcher[w].events # <<>>
       /\ process[watcher[w].events[Len(watcher[w].events)]] \in Games

Followed ==
    due /\ (\E p \in Pids : process[p] \in Games) => \E w \in Watchers : Follows(w)

\* The child has nothing more to do about what is owed.
ChildDone(w) ==
    \/ /\ watcher[w].pc = "verifying"
       /\ job[watcher[w].child].step = "exited"
       /\ job[watcher[w].child].healthy
    \/ /\ watcher[w].pc = "repairing"
       /\ ~Settling(watcher[w].child)

\* Such a child settled it, or there is a later game to see to.
Answered == \A w \in Watchers : due /\ ChildDone(w) => watcher[w].events # <<>>

WatchInv ==
    /\ TypeOK /\ Alone /\ Fitting /\ Kinds /\ OneGame /\ Builds /\ Uninstalled
    /\ DueUnpatched /\ Followed /\ Answered /\ NothingForgotten

-----------------------------------------------------------------------------
(* What the steps' shorthands leave.                                       *)

WatcherIs(w, state) ==
    /\ watcher' \in [Watchers -> WatcherStates]
    /\ watcher'[w] = state
    /\ \A o \in Watchers : o # w => watcher'[o] = watcher[o]

JobIs(c, state) ==
    /\ job' \in [Commands -> JobStates]
    /\ job'[c] = state
    /\ \A d \in Commands : d # c => job'[d] = job[d]

LEMMA BecomesIs ==
    ASSUME TypeOK, NEW w \in Watchers, NEW state \in WatcherStates, Becomes(w, state)
    PROVE  WatcherIs(w, state)
  BY DEF TypeOK, Becomes, WatcherIs

LEMMA JobBecomes ==
    ASSUME TypeOK, NEW c \in Commands, NEW state \in JobStates,
           job' = [job EXCEPT ![c] = state]
    PROVE  JobIs(c, state)
  BY DEF TypeOK, JobIs

LEMMA StateFields ==
    ASSUME NEW state \in WatcherStates
    PROVE  /\ state.pc \in {"none", "mutex", "dying"} \cup Started
           /\ state.target \in Pids \cup {Nobody}
           /\ state.child \in Jobs \cup {Nobody}
           /\ state.subscribed \in BOOLEAN
           /\ state.events \in Seq(Pids)
  BY DEF WatcherStates

LEMMA AtIs ==
    ASSUME TypeOK, NEW w \in Watchers, NEW step \in Started
    PROVE  /\ At(w, step) \in WatcherStates
           /\ At(w, step).pc = step
           /\ At(w, step).target = watcher[w].target
           /\ At(w, step).child = watcher[w].child
           /\ At(w, step).subscribed = watcher[w].subscribed
           /\ At(w, step).events = watcher[w].events
  BY DEF TypeOK, At, WatcherStates

LEMMA DoneIs ==
    ASSUME TypeOK, NEW w \in Watchers
    PROVE  /\ Done(w) \in WatcherStates
           /\ Done(w).pc = IF watcher[w].subscribed THEN "wait" ELSE "subscribe"
           /\ Done(w).subscribed = watcher[w].subscribed
           /\ Done(w).events = watcher[w].events
  BY DEF TypeOK, Done, WatcherStates, Started

LEMMA BlankIs ==
    ASSUME NEW step \in {"none", "mutex", "dying"}
    PROVE  /\ Blank(step) \in WatcherStates
           /\ Blank(step).pc = step
           /\ Blank(step).subscribed = FALSE
           /\ Blank(step).events = <<>>
           /\ Blank(step).child = Nobody
<1>1. <<>> \in Seq(Pids)
  OBVIOUS
<1> QED
  BY <1>1 DEF Blank, WatcherStates

LEMMA StepIs ==
    ASSUME TypeOK, NEW c \in Commands, NEW step \in JobSteps, Step(c, step)
    PROVE  /\ JobIs(c, [job[c] EXCEPT !.step = step])
           /\ job'[c].kind = job[c].kind
           /\ job'[c].by = job[c].by
           /\ job'[c].step = step
           /\ job'[c].healthy = job[c].healthy
  BY DEF TypeOK, Step, JobIs, JobStates

LEMMA NoJobIs ==
    NoJob \in JobStates /\ NoJob.kind = "none" /\ NoJob.step = "free" /\ NoJob.by = Nobody
  BY DEF NoJob, JobStates, JobSteps

LEMMA ExitIs ==
    ASSUME TypeOK, NEW c \in Commands, NEW healthy \in BOOLEAN, Exit(c, healthy)
    PROVE  \/ job[c].by = Nobody /\ JobIs(c, NoJob)
           \/ /\ job[c].by # Nobody
              /\ JobIs(c, [job[c] EXCEPT !.step = "exited", !.healthy = healthy])
              /\ job'[c].kind = job[c].kind
              /\ job'[c].by = job[c].by
              /\ job'[c].step = "exited"
              /\ job'[c].healthy = healthy
<1>1. CASE job[c].by = Nobody
  BY <1>1, NoJobIs DEF TypeOK, Exit, JobIs
<1>2. CASE job[c].by # Nobody
  <2>1. [job[c] EXCEPT !.step = "exited", !.healthy = healthy] \in JobStates
    BY DEF TypeOK, JobStates, JobSteps
  <2> DEFINE state == [job[c] EXCEPT !.step = "exited", !.healthy = healthy]
  <2>2. job' = [job EXCEPT ![c] = state]
    BY <1>2 DEF Exit
  <2>3. JobIs(c, state)
    BY <2>1, <2>2, JobBecomes
  <2>4. /\ state.kind = job[c].kind /\ state.by = job[c].by
        /\ state.step = "exited" /\ state.healthy = healthy
    BY DEF TypeOK, JobStates
  <2> QED
    BY <1>2, <2>3, <2>4 DEF JobIs
<1> QED
  BY <1>1, <1>2

-----------------------------------------------------------------------------
(* The invariant, seen from one watchdog.                                  *)

\* Only one watchdog can have anything to see to.
LEMMA FollowsAttends ==
    ASSUME NEW w \in Watchers, Follows(w)
    PROVE  Attends(w)
  BY DEF Follows, Attends, Observing

LEMMA IdleHasNothing ==
    ASSUME WatchInv, NEW w \in Watchers, watcher[w].pc \in Idle
    PROVE  ~Attends(w) /\ ~Follows(w) /\ watcher[w].events = <<>> /\ ~watcher[w].subscribed
  BY DEF WatchInv, Fitting, Fits, Idle, Attends, Follows, Observing

LEMMA OthersIdle ==
    ASSUME WatchInv, NEW w \in Watchers, watcher[w].pc \notin Idle, NEW o \in Watchers, o # w
    PROVE  watcher[o].pc \in Idle
  BY DEF WatchInv, Alone

\* A game that runs while a watchdog is past the exit of the last one is in
\* its queue.
LEMMA LaterGame ==
    ASSUME WatchInv, due, Running # {}, NEW w \in Watchers,
           watcher[w].pc \notin Idle \cup {"heartbeat", "exit"}
    PROVE  /\ watcher[w].events # <<>>
           /\ process[watcher[w].events[Len(watcher[w].events)]] \in Games
<1>1. PICK o \in Watchers : Follows(o)
  BY DEF WatchInv, Followed, Running
<1>2. o = w
  BY <1>1, OthersIdle, IdleHasNothing
<1> QED
  BY <1>1, <1>2 DEF Follows


-----------------------------------------------------------------------------
(* Steps of one watchdog.                                                  *)

Sees(state) ==
    \/ state.pc \in {"heartbeat", "exit"} /\ process[state.target] \in Games
    \/ state.events # <<>> /\ process[state.events[Len(state.events)]] \in Games

\* The watchdog's new state is in order.
InOrder(w, state) ==
    /\ state \in WatcherStates
    /\ state.pc \notin {"verifying", "repairing"}
    /\ \/ state.pc \in Idle \/ watcher[w].pc \notin Idle
       \/ \A o \in Watchers \ {w} : watcher[o].pc \in Idle
    /\ state.pc \in Idle => ~state.subscribed /\ state.child = Nobody
    /\ ~state.subscribed => state.events = <<>>
    /\ state.pc \in {"heartbeat", "exit"} => state.target \in Pids

\* The step is the watchdog's own; of the children only its own is touched,
\* which is collected or given up.
Apart(w) ==
    /\ UNCHANGED <<process, patched, files, registered, uninstall>>
    /\ active' \in Watchers \cup {Nobody}
    /\ job' \in [Commands -> JobStates]
    /\ \A c \in Commands :
          \/ job'[c] = job[c]
          \/ /\ c \in Jobs /\ job[c].by = w
             /\ \/ job'[c].kind = "none"
                \/ job'[c].kind = job[c].kind /\ job'[c].step = job[c].step

\* What is owed is seen to.
SeenTo(w, state) ==
    /\ due' \in BOOLEAN
    /\ due' => ~patched
    /\ due' => due \/ state.pc \in Observing
    /\ due' => \/ state.pc \in Observing \/ state.events # <<>>
               \/ \E c \in Commands : Settling(c)'
               \/ (due /\ ~Attends(w) /\ job' = job)
    /\ due' /\ Running # {} => Sees(state) \/ (due /\ ~Follows(w))

LEMMA WatcherMoves ==
    ASSUME WatchInv, NEW w \in Watchers, NEW state, Becomes(w, state),
           InOrder(w, state), Apart(w), SeenTo(w, state)
    PROVE  WatchInv'
<1> USE DEF InOrder, Apart, SeenTo
<1>1. WatcherIs(w, state)
  BY BecomesIs DEF WatchInv
<1>2. TypeOK'
  BY <1>1 DEF WatchInv, TypeOK, WatcherIs
<1>3. Alone'
  BY <1>1 DEF WatchInv, Alone, WatcherIs
<1>4. Fitting'
  <2> SUFFICES ASSUME NEW o \in Watchers PROVE Fits(o)'
    BY DEF Fitting
  <2>1. CASE o = w
    BY <1>1, <2>1 DEF WatcherIs, Fits
  <2>2. CASE o # w
    <3>1. Fits(o) /\ watcher'[o] = watcher[o]
      BY <1>1, <2>2 DEF WatchInv, Fitting, WatcherIs
    <3>2. ASSUME watcher[o].pc \in {"verifying", "repairing"}
          PROVE  job'[watcher[o].child] = job[watcher[o].child]
      BY <2>2, <3>1, <3>2 DEF Fits, Commands
    <3> QED
      BY <3>1, <3>2 DEF Fits
  <2> QED
    BY <2>1, <2>2
<1>5. Kinds' /\ OneGame' /\ Builds' /\ DueUnpatched'
  BY UserElse DEF WatchInv, Kinds, OneGame, Builds, DueUnpatched, Commands
<1>6. Uninstalled'
  BY UserElse DEF WatchInv, Uninstalled, SomeRepair, Commands
<1>7. Followed'
  <2> SUFFICES ASSUME due', Running # {} PROVE \E o \in Watchers : Follows(o)'
    BY DEF Followed, Running
  <2>1. CASE Sees(state)
    BY <1>1, <2>1 DEF Sees, Follows, WatcherIs
  <2>2. CASE due /\ ~Follows(w)
    <3>1. PICK o \in Watchers : Follows(o)
      BY <2>2 DEF WatchInv, Followed, Running
    <3>2. watcher'[o] = watcher[o]
      BY <1>1, <2>2, <3>1 DEF WatcherIs
    <3> QED
      BY <3>1, <3>2 DEF Follows
  <2> QED
    BY <2>1, <2>2
<1>8. Answered'
  <2> SUFFICES ASSUME NEW o \in Watchers, due', ChildDone(o)'
               PROVE  watcher'[o].events # <<>>
    BY DEF Answered
  <2>1. watcher'[o].pc \in {"verifying", "repairing"}
    BY DEF ChildDone
  <2>2. o # w /\ watcher'[o] = watcher[o]
    BY <1>1, <2>1 DEF WatcherIs
  <2>3. job'[watcher[o].child] = job[watcher[o].child]
    BY <2>1, <2>2 DEF WatchInv, Fitting, Fits, Commands
  <2>4. ChildDone(o)
    BY <2>2, <2>3 DEF ChildDone, Settling, Repairing
  <2>5. watcher[w].pc \in Idle
    BY <2>1, <2>2, OthersIdle DEF Idle
  <2>6. due
    BY <2>1, <2>2, <2>5 DEF Idle, Observing
  <2> QED
    BY <2>2, <2>4, <2>6 DEF WatchInv, Answered
<1>9. NothingForgotten'
  <2> SUFFICES ASSUME due', \A c \in Commands : ~Settling(c)'
               PROVE  \E o \in Watchers : Attends(o)'
    BY DEF NothingForgotten
  <2>1. CASE state.pc \in Observing \/ state.events # <<>>
    BY <1>1, <2>1 DEF WatcherIs, Attends
  <2>2. CASE due /\ ~Attends(w) /\ job' = job
    <3>1. \A c \in Commands : ~Settling(c)
      BY <2>2 DEF Settling, Repairing
    <3>2. PICK o \in Watchers : Attends(o)
      BY <2>2, <3>1 DEF WatchInv, NothingForgotten
    <3>3. watcher'[o] = watcher[o]
      BY <1>1, <2>2, <3>2 DEF WatcherIs
    <3> QED
      BY <3>2, <3>3 DEF Attends
  <2> QED
    BY <2>1, <2>2
<1> QED
  BY <1>2, <1>3, <1>4, <1>5, <1>6, <1>7, <1>8, <1>9 DEF WatchInv

LEMMA LogonStep == ASSUME WatchInv, NEW w \in Watchers, Logon(w) PROVE WatchInv'
<1>1. ~Attends(w) /\ ~Follows(w)
  BY IdleHasNothing DEF Logon, StartTask, Idle
<1>2. InOrder(w, Blank("mutex"))
  BY BlankIs DEF InOrder, Idle
<1>3. Apart(w)
  BY DEF Logon, StartTask, Apart, WatchInv, TypeOK
<1>4. SeenTo(w, Blank("mutex"))
  BY <1>1 DEF Logon, SeenTo, WatchInv, TypeOK, DueUnpatched
<1> QED
  BY <1>2, <1>3, <1>4, WatcherMoves DEF Logon, StartTask

\* A watchdog that had nothing to see to ends.
LEMMA EndsInOrder ==
    ASSUME NEW w \in Watchers
    PROVE  InOrder(w, NoWatcher)
  BY BlankIs DEF InOrder, Idle, NoWatcher

LEMMA CheckMutexStep == ASSUME WatchInv, NEW w \in Watchers, CheckMutex(w) PROVE WatchInv'
<1>1. watcher[w].events = <<>> /\ ~Attends(w) /\ ~Follows(w) /\ ~watcher[w].subscribed
  BY IdleHasNothing DEF CheckMutex, Idle
<1>2. Apart(w)
  BY DEF CheckMutex, Ends, Apart, WatchInv, TypeOK
<1>3. SeenTo(w, NoWatcher) /\ SeenTo(w, At(w, "scan"))
  BY <1>1 DEF CheckMutex, SeenTo, WatchInv, TypeOK, DueUnpatched
<1>4. CASE \E o \in Watchers \ {w} : watcher[o].pc \notin {"none", "mutex"}
  BY <1>2, <1>3, <1>4, EndsInOrder, WatcherMoves DEF CheckMutex, Ends
<1>5. CASE \A o \in Watchers \ {w} : watcher[o].pc \in {"none", "mutex"}
  <2>1. InOrder(w, At(w, "scan"))
    BY <1>1, <1>5, AtIs DEF InOrder, Idle, WatchInv, Started
  <2> QED
    BY <1>2, <1>3, <1>5, <2>1, WatcherMoves DEF CheckMutex
<1> QED
  BY <1>4, <1>5

LEMMA ScanStep == ASSUME WatchInv, NEW w \in Watchers, Scan(w) PROVE WatchInv'
<1>1. TypeOK /\ Fits(w) /\ watcher[w].pc = "scan"
  BY DEF WatchInv, Fitting, Scan
<1>2. Apart(w)
  BY DEF Scan, world, Apart, WatchInv, TypeOK
<1>3. ASSUME NEW p \in Running, Becomes(w, [At(w, "heartbeat") EXCEPT !.target = p]),
             due' = (due \/ process[p] = "plain")
      PROVE  WatchInv'
  <2> DEFINE state == [At(w, "heartbeat") EXCEPT !.target = p]
  <2>1. /\ state \in WatcherStates /\ state.pc = "heartbeat" /\ state.target = p
        /\ state.events = watcher[w].events /\ state.subscribed = watcher[w].subscribed
    BY <1>1, AtIs DEF WatcherStates, Running, Started, Observing
  <2>2. Becomes(w, state)
    BY <1>3
  <2> HIDE DEF state
  <2>3. InOrder(w, state)
    BY <1>1, <2>1 DEF InOrder, Fits, Idle, Running
  <2>4. (due' => ~patched) /\ due' \in BOOLEAN
    BY <1>3 DEF WatchInv, TypeOK, DueUnpatched, Builds, Running
  <2>5. Sees(state)
    BY <2>1 DEF Running, Sees
  <2>6. SeenTo(w, state)
    BY <2>1, <2>4, <2>5 DEF SeenTo, Observing
  <2> QED
    BY <1>2, <2>2, <2>3, <2>6, WatcherMoves
<1>4. CASE Becomes(w, At(w, "subscribe")) /\ UNCHANGED due
  <2>1. /\ At(w, "subscribe") \in WatcherStates /\ At(w, "subscribe").pc = "subscribe"
        /\ At(w, "subscribe").events = watcher[w].events
        /\ At(w, "subscribe").subscribed = watcher[w].subscribed
    BY <1>1, AtIs DEF Started
  <2>2. InOrder(w, At(w, "subscribe"))
    BY <1>1, <2>1 DEF InOrder, Fits, Idle
  <2>3. SeenTo(w, At(w, "subscribe"))
    BY <1>1, <1>4, <2>1
    DEF SeenTo, Attends, Follows, Sees, Observing, Scan, world, WatchInv, TypeOK, DueUnpatched
  <2> QED
    BY <1>2, <1>4, <2>2, <2>3, WatcherMoves
<1> QED
  BY <1>3, <1>4 DEF Scan

\* A game that told of itself was started from a patched package.
LEMMA HeartbeatStep == ASSUME WatchInv, NEW w \in Watchers, Heartbeat(w) PROVE WatchInv'
<1>1. TypeOK /\ Fits(w) /\ watcher[w].pc = "heartbeat" /\ watcher[w].target \in Pids
  BY DEF WatchInv, Fitting, Heartbeat, Fits
<1>2. Apart(w)
  BY DEF Heartbeat, world, Apart, WatchInv, TypeOK
<1>3. CASE Target(w) = "beating" /\ Becomes(w, Done(w)) /\ UNCHANGED due
  <2>1. ~due
    BY <1>1, <1>3 DEF Target, WatchInv, Builds, DueUnpatched
  <2>2. InOrder(w, Done(w))
    BY <1>1, DoneIs DEF InOrder, Idle, Fits
  <2>3. SeenTo(w, Done(w))
    BY <1>3, <2>1 DEF SeenTo, WatchInv, TypeOK
  <2> QED
    BY <1>2, <1>3, <2>2, <2>3, WatcherMoves
<1>4. ASSUME NEW step \in {"verify", "exit"}, Becomes(w, At(w, step)),
             due' \in BOOLEAN, due' => due,
             due' /\ step = "verify" => Target(w) \notin Games
      PROVE  WatchInv'
  <2>1. /\ At(w, step) \in WatcherStates /\ At(w, step).pc = step
        /\ At(w, step).target = watcher[w].target
        /\ At(w, step).events = watcher[w].events
        /\ At(w, step).subscribed = watcher[w].subscribed
    BY <1>1, AtIs DEF Started, Observing
  <2>2. InOrder(w, At(w, step))
    BY <1>1, <2>1 DEF InOrder, Fits, Idle
  <2>3. due' /\ Follows(w) => Sees(At(w, step))
    BY <1>1, <1>4, <2>1 DEF Target, Follows, Sees
  <2>4. due' \in BOOLEAN /\ (due' => due) /\ (due' => ~patched)
    BY <1>4 DEF WatchInv, TypeOK, DueUnpatched
  <2>5. At(w, step).pc \in Observing
    BY <2>1 DEF Observing
  <2>6. SeenTo(w, At(w, step))
    BY <2>3, <2>4, <2>5 DEF SeenTo
  <2> QED
    BY <1>2, <1>4, <2>2, <2>6, WatcherMoves
<1>5. CASE NoHandle(w)
  <2>1. due' \in BOOLEAN /\ (due' => due)
    BY <1>5 DEF NoHandle
  <2>2. due' => Target(w) \notin Games
    BY <1>5 DEF NoHandle
  <2> QED
    BY <1>4, <1>5, <2>1, <2>2 DEF NoHandle
<1>6. CASE Becomes(w, At(w, "exit")) /\ UNCHANGED due
  <2>1. due' \in BOOLEAN /\ (due' => due)
    BY <1>1, <1>6 DEF TypeOK
  <2> QED
    BY <1>4, <1>6, <2>1
<1> QED
  BY <1>3, <1>5, <1>6 DEF Heartbeat

LEMMA AwaitExitStep == ASSUME WatchInv, NEW w \in Watchers, AwaitExit(w) PROVE WatchInv'
<1>1. TypeOK /\ Fits(w) /\ watcher[w].pc = "exit"
  BY DEF WatchInv, Fitting, AwaitExit
<1>2. Apart(w) /\ due' = due
  BY DEF AwaitExit, world, Apart, WatchInv, TypeOK
<1>3. /\ At(w, "verify") \in WatcherStates /\ At(w, "verify").pc = "verify"
      /\ At(w, "verify").events = watcher[w].events
      /\ At(w, "verify").subscribed = watcher[w].subscribed
  BY <1>1, AtIs DEF Started, Observing
<1>4. InOrder(w, At(w, "verify"))
  BY <1>1, <1>3 DEF InOrder, Fits, Idle
<1>5. Follows(w) => Sees(At(w, "verify"))
  BY <1>1, <1>3 DEF Follows, Sees, Games, AwaitExit
<1>6. SeenTo(w, At(w, "verify"))
  BY <1>2, <1>3, <1>5 DEF SeenTo, Observing, WatchInv, TypeOK, DueUnpatched
<1> QED
  BY <1>2, <1>4, <1>6, WatcherMoves DEF AwaitExit

\* Nothing more is expected of a watchdog that goes back to its events.
LEMMA DoneInOrder ==
    ASSUME WatchInv, NEW w \in Watchers, watcher[w].pc \notin Idle
    PROVE  InOrder(w, Done(w)) /\ Done(w).events = watcher[w].events
  BY DoneIs DEF InOrder, Idle, WatchInv, Fitting, Fits

LEMMA SubscribeStep == ASSUME WatchInv, NEW w \in Watchers, Subscribe(w) PROVE WatchInv'
<1>1. TypeOK /\ Fits(w) /\ watcher[w].pc = "subscribe"
  BY DEF WatchInv, Fitting, Subscribe
<1>2. Apart(w)
  BY DEF Subscribe, Ends, Apart, WatchInv, TypeOK
<1>3. CASE Ends(w) /\ Forgiven
  <2>1. SeenTo(w, NoWatcher)
    BY <1>3 DEF SeenTo, Forgiven
  <2> QED
    BY <1>2, <1>3, <2>1, EndsInOrder, WatcherMoves DEF Ends
<1>4. CASE /\ Becomes(w, [At(w, "wait") EXCEPT !.subscribed = TRUE])
           /\ UNCHANGED <<active, due>>
  <2> DEFINE state == [At(w, "wait") EXCEPT !.subscribed = TRUE]
  <2>1. /\ state \in WatcherStates /\ state.pc = "wait" /\ state.subscribed = TRUE
        /\ state.events = watcher[w].events
    <3>1. At(w, "wait") \in WatcherStates /\ At(w, "wait").pc = "wait"
            /\ At(w, "wait").events = watcher[w].events
      BY <1>1, AtIs DEF Started
    <3> QED
      BY <3>1 DEF WatcherStates
  <2>2. Becomes(w, state)
    BY <1>4
  <2> HIDE DEF state
  <2>3. InOrder(w, state)
    BY <1>1, <2>1 DEF InOrder, Idle
  <2>4. (Follows(w) => Sees(state)) /\ (Attends(w) => state.events # <<>>)
    BY <1>1, <2>1 DEF Follows, Sees, Attends, Observing
  <2>5. due' = due /\ job' = job
    BY <1>4 DEF Subscribe
  <2>6. SeenTo(w, state)
    BY <2>4, <2>5 DEF SeenTo, WatchInv, TypeOK, DueUnpatched
  <2> QED
    BY <1>2, <2>2, <2>3, <2>6, WatcherMoves
<1> QED
  BY <1>3, <1>4 DEF Subscribe

LEMMA LastOfTail ==
    ASSUME NEW S, NEW s \in Seq(S), s # <<>>, Len(s) # 1
    PROVE  Tail(s) # <<>> /\ Tail(s)[Len(Tail(s))] = s[Len(s)]
<1>1. Len(s) \in Nat \ {0} /\ Len(Tail(s)) = Len(s) - 1
        /\ \A i \in 1..Len(Tail(s)) : Tail(s)[i] = s[i + 1]
  BY EmptySeq, HeadTailProperties
<1>2. Len(Tail(s)) # 0 /\ Len(Tail(s)) \in 1..Len(Tail(s)) /\ Len(Tail(s)) + 1 = Len(s)
  BY <1>1
<1>3. Tail(s) # <<>>
  BY <1>2, EmptySeq
<1> QED
  BY <1>1, <1>2, <1>3

LEMMA NextEventStep == ASSUME WatchInv, NEW w \in Watchers, NextEvent(w) PROVE WatchInv'
<1>1. TypeOK /\ Fits(w) /\ watcher[w].pc = "wait" /\ watcher[w].events # <<>>
        /\ watcher[w].events \in Seq(Pids)
  BY StateFields DEF WatchInv, Fitting, NextEvent, TypeOK
<1>2. Apart(w)
  BY DEF NextEvent, world, Apart, WatchInv, TypeOK
<1> DEFINE events == watcher[w].events
<1>3. Head(events) \in Pids /\ Tail(events) \in Seq(Pids)
  BY <1>1
<1>4. ASSUME NEW state,
             \/ state.pc = "heartbeat" /\ state.target = Head(events)
             \/ Tail(events) # <<>>,
             state.events = Tail(events),
             Follows(w)
      PROVE  Sees(state)
  <2>1. process[events[Len(events)]] \in Games
    BY <1>1, <1>4 DEF Follows
  <2>2. CASE Len(events) = 1
    <3>1. Len(Tail(events)) = 0
      BY <1>1, <2>2, HeadTailProperties
    <3>2. Tail(events) = <<>>
      BY <1>3, <3>1, EmptySeq
    <3> QED
      BY <1>1, <1>4, <2>1, <2>2, <3>2 DEF Sees
  <2>3. CASE Len(events) # 1
    <3>1. Tail(events) # <<>> /\ Tail(events)[Len(Tail(events))] = events[Len(events)]
      BY <1>1, <2>3, LastOfTail
    <3> QED
      BY <1>4, <2>1, <3>1 DEF Sees
  <2> QED
    BY <2>2, <2>3
<1>5. ASSUME Becomes(w, [At(w, "heartbeat") EXCEPT !.target = Head(events), !.events = Tail(@)]),
             UNCHANGED due
      PROVE  WatchInv'
  <2> DEFINE state == [At(w, "heartbeat") EXCEPT !.target = Head(events), !.events = Tail(@)]
  <2>1. /\ state \in WatcherStates /\ state.pc = "heartbeat" /\ state.target = Head(events)
        /\ state.events = Tail(events) /\ state.subscribed = watcher[w].subscribed
    <3>1. /\ At(w, "heartbeat") \in WatcherStates /\ At(w, "heartbeat").pc = "heartbeat"
          /\ At(w, "heartbeat").events = events
          /\ At(w, "heartbeat").subscribed = watcher[w].subscribed
      BY <1>1, AtIs DEF Started, Observing
    <3>2. state = [At(w, "heartbeat") EXCEPT !.target = Head(events), !.events = Tail(events)]
      BY <3>1
    <3> QED
      BY <1>3, <3>1, <3>2 DEF WatcherStates
  <2>2. Becomes(w, state)
    BY <1>5
  <2> HIDE DEF state
  <2>3. InOrder(w, state)
    BY <1>1, <1>3, <2>1 DEF InOrder, Idle, Fits
  <2>4. SeenTo(w, state)
    BY <1>4, <1>5, <2>1 DEF SeenTo, Observing, WatchInv, TypeOK, DueUnpatched
  <2> QED
    BY <1>2, <2>2, <2>3, <2>4, WatcherMoves
<1>6. ASSUME Becomes(w, [watcher[w] EXCEPT !.events = Tail(@)]),
             due' = (due /\ Tail(events) # <<>>)
      PROVE  WatchInv'
  <2> DEFINE state == [watcher[w] EXCEPT !.events = Tail(@)]
  <2>1. /\ state \in WatcherStates /\ state.pc = "wait"
        /\ state.events = Tail(events) /\ state.subscribed = watcher[w].subscribed
    <3>1. watcher[w] \in WatcherStates
      BY <1>1 DEF TypeOK
    <3> QED
      BY <1>1, <1>3, <3>1 DEF WatcherStates
  <2>2. Becomes(w, state)
    BY <1>6
  <2> HIDE DEF state
  <2>3. InOrder(w, state)
    BY <1>1, <1>3, <2>1 DEF InOrder, Idle, Fits
  <2>4. due' \in BOOLEAN /\ (due' => due) /\ (due' => Tail(events) # <<>>)
    BY <1>6
  <2>5. SeenTo(w, state)
    BY <1>4, <2>1, <2>4 DEF SeenTo, Observing, WatchInv, TypeOK, DueUnpatched
  <2> QED
    BY <1>2, <2>2, <2>3, <2>5, WatcherMoves
<1> QED
  BY <1>5, <1>6 DEF NextEvent

LEMMA LoseEventsStep == ASSUME WatchInv, NEW w \in Watchers, LoseEvents(w) PROVE WatchInv'
<1>1. Apart(w)
  BY DEF LoseEvents, Ends, Apart, WatchInv, TypeOK
<1>2. SeenTo(w, NoWatcher)
  BY DEF LoseEvents, SeenTo, Forgiven
<1> QED
  BY <1>1, <1>2, EndsInOrder, WatcherMoves DEF LoseEvents, Ends

LEMMA DieStep == ASSUME WatchInv, NEW w \in Watchers, Die(w) PROVE WatchInv'
<1>1. Apart(w)
  BY DEF Die, world, Apart, WatchInv, TypeOK
<1>2. ~Attends(w) /\ ~Follows(w)
  BY IdleHasNothing DEF Die, Idle
<1>3. SeenTo(w, NoWatcher)
  BY <1>2 DEF Die, world, SeenTo, WatchInv, TypeOK, DueUnpatched
<1> QED
  BY <1>1, <1>3, EndsInOrder, WatcherMoves DEF Die

-----------------------------------------------------------------------------
(* A watchdog and its child.                                               *)

LEMMA Spawns ==
    ASSUME WatchInv, NEW w \in Watchers, watcher[w].pc \in {"verify", "repair"},
           NEW kind, NEW step,
           \/ kind = "verify" /\ step = "verifying" /\ uninstall' = uninstall
           \/ kind = "repair" /\ step = "repairing" /\ uninstall' \in {"none", "shared"},
           Spawn(w, kind, step),
           UNCHANGED <<process, patched, files, registered, active, due>>
    PROVE  WatchInv'
<1> DEFINE Begun(j) == [kind |-> kind, step |-> "inspect", by |-> w, healthy |-> TRUE]
           Waiting(j) == [At(w, step) EXCEPT !.child = j]
<1>1. PICK j \in Jobs : job' = [job EXCEPT ![j] = Begun(j)] /\ Becomes(w, Waiting(j))
  BY DEF Spawn
<1>2. /\ Begun(j) \in JobStates /\ Begun(j).kind = kind /\ Begun(j).step = "inspect"
      /\ Begun(j).by = w
  BY DEF JobStates, JobSteps
<1>3. /\ Waiting(j) \in WatcherStates /\ Waiting(j).pc = step /\ Waiting(j).child = j
      /\ Waiting(j).subscribed = watcher[w].subscribed /\ Waiting(j).events = watcher[w].events
  <2>1. /\ At(w, step) \in WatcherStates /\ At(w, step).pc = step
        /\ At(w, step).subscribed = watcher[w].subscribed
        /\ At(w, step).events = watcher[w].events
    BY AtIs DEF WatchInv, Started, Observing
  <2> QED
    BY <2>1 DEF WatcherStates
<1>4. j \in Commands /\ j # User
  BY UserElse DEF Commands
<1> HIDE DEF Begun, Waiting
<1>5. WatcherIs(w, Waiting(j)) /\ JobIs(j, Begun(j))
  BY <1>1, <1>2, <1>3, <1>4, BecomesIs, JobBecomes DEF WatchInv
<1>6. /\ watcher[w].pc \notin Idle
      /\ \A o \in Watchers : o # w => watcher'[o] = watcher[o] /\ watcher[o].pc \in Idle
  BY <1>5, OthersIdle DEF Idle, WatcherIs
<1>7. TypeOK'
  BY <1>5 DEF WatchInv, TypeOK, WatcherIs, JobIs
<1>8. Alone'
  BY <1>6 DEF Alone
<1>9. Fitting'
  BY <1>2, <1>3, <1>5, <1>6 DEF WatchInv, Fitting, Fits, Idle, WatcherIs, JobIs
<1>10. Kinds' /\ OneGame' /\ Builds' /\ DueUnpatched'
  BY <1>2, <1>4, <1>5 DEF WatchInv, Kinds, OneGame, Builds, DueUnpatched, JobIs, Commands
<1>11. Uninstalled'
  BY <1>2, <1>4, <1>5 DEF WatchInv, Uninstalled, SomeRepair, JobIs, Commands
<1>12. Followed'
  BY <1>3, <1>5, <1>6, IdleHasNothing DEF WatchInv, Followed, Follows, WatcherIs
<1>13. Answered'
  BY <1>2, <1>3, <1>5, <1>6
  DEF Answered, ChildDone, Settling, Repairing, Idle, WatcherIs, JobIs
<1>14. NothingForgotten'
  BY <1>3, <1>5 DEF NothingForgotten, Attends, Observing, WatcherIs
<1> QED
  BY <1>7, <1>8, <1>9, <1>10, <1>11, <1>12, <1>13, <1>14 DEF WatchInv

LEMMA StartVerifyStep == ASSUME WatchInv, NEW w \in Watchers, StartVerify(w) PROVE WatchInv'
<1>1. CASE files /\ Spawn(w, "verify", "verifying") /\ UNCHANGED due
  BY <1>1, Spawns DEF StartVerify
<1>2. CASE Becomes(w, Done(w)) /\ Forgiven /\ UNCHANGED job
  <2>1. InOrder(w, Done(w))
    BY DoneInOrder DEF StartVerify, Idle
  <2>2. Apart(w)
    BY <1>2 DEF StartVerify, Apart, WatchInv, TypeOK
  <2>3. SeenTo(w, Done(w))
    BY <1>2 DEF SeenTo, Forgiven
  <2> QED
    BY <1>2, <2>1, <2>2, <2>3, WatcherMoves
<1> QED
  BY <1>1, <1>2 DEF StartVerify

LEMMA StartRepairStep == ASSUME WatchInv, NEW w \in Watchers, StartRepair(w) PROVE WatchInv'
<1>1. CASE files /\ Spawn(w, "repair", "repairing") /\ UNCHANGED due
             /\ uninstall' = IF uninstall = "alone" THEN "shared" ELSE uninstall
  <2>1. uninstall' \in {"none", "shared"}
    BY <1>1 DEF WatchInv, TypeOK, Uninstalled
  <2> QED
    BY <1>1, <2>1, Spawns DEF StartRepair
<1>2. CASE Becomes(w, Done(w)) /\ Forgiven /\ UNCHANGED <<job, uninstall>>
  <2>1. InOrder(w, Done(w))
    BY DoneInOrder DEF StartRepair, Idle
  <2>2. Apart(w)
    BY <1>2 DEF StartRepair, Apart, WatchInv, TypeOK
  <2>3. SeenTo(w, Done(w))
    BY <1>2 DEF SeenTo, Forgiven
  <2> QED
    BY <1>2, <2>1, <2>2, <2>3, WatcherMoves
<1> QED
  BY <1>1, <1>2 DEF StartRepair

\* A child is collected or left to itself.
LEMMA ChildLeft ==
    ASSUME WatchInv, NEW w \in Watchers, watcher[w].pc \in {"verifying", "repairing"}
    PROVE  LET c == watcher[w].child
           IN  /\ c \in Jobs /\ c \in Commands /\ job[c].by = w
               /\ Collect(w) => JobIs(c, NoJob)
               /\ Abandon(w) => /\ JobIs(c, [job[c] EXCEPT !.by = Nobody])
                                /\ job'[c].kind = job[c].kind
                                /\ job'[c].step = job[c].step
<1> DEFINE c == watcher[w].child
           left == [job[c] EXCEPT !.by = Nobody]
<1>1. c \in Jobs /\ c \in Commands /\ job[c].by = w
  BY DEF WatchInv, Fitting, Fits, Commands
<1>2. left \in JobStates /\ left.kind = job[c].kind /\ left.step = job[c].step
  BY <1>1 DEF WatchInv, TypeOK, JobStates
<1>3. Collect(w) => JobIs(c, NoJob)
  BY <1>1, JobBecomes, NoJobIs DEF Collect, WatchInv
<1>4. ASSUME Abandon(w) PROVE JobIs(c, left)
  <2>1. job' = [job EXCEPT ![c] = left]
    BY <1>4 DEF Abandon
  <2> HIDE DEF left
  <2> QED
    BY <1>1, <1>2, <2>1, JobBecomes DEF WatchInv
<1>5. Abandon(w) => job'[c] = left
  BY <1>4 DEF JobIs
<1> QED
  BY <1>1, <1>2, <1>3, <1>4, <1>5

LEMMA ChildApart ==
    ASSUME WatchInv, NEW w \in Watchers, watcher[w].pc \in {"verifying", "repairing"},
           Collect(w) \/ Abandon(w),
           UNCHANGED <<process, patched, files, registered, active, uninstall>>
    PROVE  Apart(w)
  BY ChildLeft, NoJobIs DEF Apart, JobIs, WatchInv, TypeOK

\* While a child is waited for, the game that runs is in the queue.
LEMMA QueueSees ==
    ASSUME WatchInv, NEW w \in Watchers, watcher[w].pc \in {"verifying", "repairing"},
           NEW state, state.events = watcher[w].events, due, Running # {}
    PROVE  Sees(state)
  BY LaterGame DEF Sees, Idle

LEMMA EndVerifyStep == ASSUME WatchInv, NEW w \in Watchers, EndVerify(w) PROVE WatchInv'
<1>1. watcher[w].pc = "verifying" /\ watcher[w].pc \notin Idle
  BY DEF EndVerify, Idle
<1>2. Apart(w)
  BY <1>1, ChildApart DEF EndVerify
<1>3. InOrder(w, Done(w)) /\ Done(w).events = watcher[w].events
  BY <1>1, DoneInOrder
<1>4. CASE /\ Child(w).step = "exited" /\ Child(w).healthy
           /\ Becomes(w, Done(w)) /\ UNCHANGED due
  <2>1. due => watcher[w].events # <<>>
    BY <1>1, <1>4 DEF WatchInv, Answered, ChildDone, Child
  <2>2. due /\ Running # {} => Sees(Done(w))
    BY <1>1, <1>3, QueueSees
  <2>3. SeenTo(w, Done(w))
    BY <1>3, <1>4, <2>1, <2>2 DEF SeenTo, WatchInv, TypeOK, DueUnpatched
  <2> QED
    BY <1>2, <1>3, <1>4, <2>3, WatcherMoves
<1>5. CASE Becomes(w, [At(w, "repair") EXCEPT !.child = Nobody]) /\ UNCHANGED due
  <2> DEFINE state == [At(w, "repair") EXCEPT !.child = Nobody]
  <2>1. /\ state \in WatcherStates /\ state.pc = "repair"
        /\ state.events = watcher[w].events /\ state.subscribed = watcher[w].subscribed
    <3>1. /\ At(w, "repair") \in WatcherStates /\ At(w, "repair").pc = "repair"
          /\ At(w, "repair").events = watcher[w].events
          /\ At(w, "repair").subscribed = watcher[w].subscribed
      BY AtIs DEF WatchInv, Started, Observing
    <3> QED
      BY <3>1 DEF WatcherStates
  <2>2. Becomes(w, state)
    BY <1>5
  <2> HIDE DEF state
  <2>3. InOrder(w, state)
    BY <1>1, <2>1 DEF InOrder, Idle, WatchInv, Fitting, Fits
  <2>4. due /\ Running # {} => Sees(state)
    BY <1>1, <2>1, QueueSees
  <2>5. SeenTo(w, state)
    BY <1>5, <2>1, <2>4 DEF SeenTo, Observing, WatchInv, TypeOK, DueUnpatched
  <2> QED
    BY <1>2, <2>2, <2>3, <2>5, WatcherMoves
<1>6. CASE Becomes(w, Done(w)) /\ Forgiven
  <2>1. SeenTo(w, Done(w))
    BY <1>6 DEF SeenTo, Forgiven
  <2> QED
    BY <1>2, <1>3, <1>6, <2>1, WatcherMoves
<1> QED
  BY <1>4, <1>5, <1>6 DEF EndVerify

LEMMA EndRepairStep == ASSUME WatchInv, NEW w \in Watchers, EndRepair(w) PROVE WatchInv'
<1>1. /\ watcher[w].pc = "repairing" /\ watcher[w].pc \notin Idle
      /\ due' = due /\ Becomes(w, Done(w))
  BY DEF EndRepair, Idle
<1>2. Apart(w)
  BY <1>1, ChildApart DEF EndRepair
<1>3. InOrder(w, Done(w)) /\ Done(w).events = watcher[w].events
  BY <1>1, DoneInOrder
<1>4. due => watcher[w].events # <<>> \/ \E c \in Commands : Settling(c)'
  <2> DEFINE c == watcher[w].child
  <2>1. CASE Settling(c)
    <3>1. Abandon(w)
      BY <2>1 DEF EndRepair, Settling, Child
    <3>2. c \in Commands /\ job'[c].kind = job[c].kind /\ job'[c].step = job[c].step
      BY <1>1, <3>1, ChildLeft
    <3> QED
      BY <2>1, <3>2 DEF Settling, Repairing
  <2>2. CASE ~Settling(c)
    BY <1>1, <2>2 DEF WatchInv, Answered, ChildDone
  <2> QED
    BY <2>1, <2>2
<1>5. due /\ Running # {} => Sees(Done(w))
  BY <1>1, <1>3, QueueSees
<1>6. SeenTo(w, Done(w))
  BY <1>1, <1>3, <1>4, <1>5 DEF SeenTo, WatchInv, TypeOK, DueUnpatched
<1> QED
  BY <1>1, <1>2, <1>3, <1>6, WatcherMoves

-----------------------------------------------------------------------------
(* Steps of one command.                                                   *)

\* The command goes on or ends; nothing is done to another.
Proceeds(c) ==
    /\ UNCHANGED <<process, active, watcher>>
    /\ job' \in [Commands -> JobStates]
    /\ \A d \in Commands : d # c => job'[d] = job[d]
    /\ \/ job'[c].kind = "none" /\ job[c].by = Nobody
       \/ job'[c].kind = job[c].kind /\ job'[c].by = job[c].by
    /\ job[c].step # "exited"

LEMMA StepProceeds ==
    ASSUME WatchInv, NEW c \in Commands, NEW step \in JobSteps, Step(c, step),
           job[c].step # "exited", UNCHANGED <<process, active, watcher>>
    PROVE  Proceeds(c)
  BY StepIs DEF WatchInv, Proceeds, JobIs

LEMMA ExitProceeds ==
    ASSUME WatchInv, NEW c \in Commands, NEW healthy \in BOOLEAN, Exit(c, healthy),
           job[c].step # "exited", UNCHANGED <<process, active, watcher>>
    PROVE  Proceeds(c)
  BY ExitIs, NoJobIs DEF WatchInv, Proceeds, JobIs

LEMMA NoNewRepair == ASSUME WatchInv, NEW c \in Commands, Proceeds(c), SomeRepair' PROVE SomeRepair
<1>1. PICK j \in Jobs : job'[j].kind = "repair" /\ job'[j].step # "exited"
  BY DEF SomeRepair
<1> QED
  BY <1>1 DEF SomeRepair, Proceeds, Commands

\* No command that ends leaves what is owed to nobody.
Accounts(c) ==
    /\ due' \in BOOLEAN
    /\ due' => due
    /\ due' /\ job[c].kind = "verify" /\ job'[c].kind = "verify" => ~job'[c].healthy
    /\ due' /\ Settling(c) => Settling(c)' \/ Running # {}

LEMMA CommandMoves ==
    ASSUME WatchInv, NEW c \in Commands, Proceeds(c), Accounts(c),
           patched' \in BOOLEAN, files' \in BOOLEAN, registered' \in BOOLEAN,
           uninstall' \in {"none", "alone", "shared", "complete"},
           Builds', DueUnpatched', Uninstalled'
    PROVE  WatchInv'
<1>1. TypeOK'
  BY DEF WatchInv, TypeOK, Proceeds, Accounts
<1>2. Alone' /\ OneGame' /\ Followed'
  BY DEF WatchInv, Alone, OneGame, Followed, Follows, Proceeds, Accounts
<1>3. Kinds'
  BY UserElse DEF WatchInv, Kinds, Proceeds, Commands
<1>4. ASSUME NEW w \in Watchers, watcher[w].pc \in {"verifying", "repairing"}
      PROVE  LET d == watcher[w].child
             IN  /\ d \in Jobs /\ d \in Commands /\ job[d].by = w /\ w # Nobody
                 /\ job'[d].by = job[d].by /\ job'[d].kind = job[d].kind
  BY <1>4, NobodyElse DEF WatchInv, Fitting, Fits, Proceeds, Commands
<1>5. Fitting'
  BY <1>4 DEF WatchInv, Fitting, Fits, Proceeds
<1>6. Answered'
  <2> SUFFICES ASSUME NEW w \in Watchers, due', ChildDone(w)', watcher[w].events = <<>>
               PROVE  FALSE
    BY DEF Answered, Proceeds
  <2> DEFINE d == watcher[w].child
  <2>1. watcher'[w] = watcher[w] /\ watcher[w].pc \in {"verifying", "repairing"} /\ due
    BY DEF ChildDone, Proceeds, Accounts
  <2>2. ~ChildDone(w)
    BY <2>1 DEF WatchInv, Answered
  <2>3. d = c
    BY <1>4, <2>1, <2>2 DEF ChildDone, Proceeds, Settling, Repairing
  <2>4. CASE watcher[w].pc = "verifying"
    <3>1. job[c].kind = "verify" /\ job'[c].kind = "verify"
      BY <1>4, <2>1, <2>3, <2>4 DEF WatchInv, Fitting, Fits
    <3>2. ~job'[c].healthy
      BY <3>1 DEF Accounts
    <3> QED
      BY <2>1, <2>3, <2>4, <3>2 DEF ChildDone
  <2>5. CASE watcher[w].pc = "repairing"
    <3>1. Settling(c)
      BY <2>2, <2>3, <2>5 DEF ChildDone
    <3>2. Running # {}
      BY <2>1, <2>3, <2>5, <3>1 DEF ChildDone, Accounts
    <3> QED
      BY <2>1, <3>2, LaterGame DEF Idle
  <2> QED
    BY <2>1, <2>4, <2>5
<1>7. NothingForgotten'
  <2> SUFFICES ASSUME due', \A d \in Commands : ~Settling(d)'
               PROVE  \E w \in Watchers : Attends(w)
    BY DEF NothingForgotten, Attends, Proceeds
  <2>1. CASE \E d \in Commands : Settling(d)
    <3>1. Settling(c)
      BY <2>1 DEF Settling, Repairing, Proceeds
    <3>2. Running # {} /\ due
      BY <3>1 DEF Accounts
    <3> QED
      BY <3>2, FollowsAttends DEF WatchInv, Followed, Running
  <2>2. CASE \A d \in Commands : ~Settling(d)
    BY <2>2 DEF WatchInv, NothingForgotten, Accounts
  <2> QED
    BY <2>1, <2>2
<1> QED
  BY <1>1, <1>2, <1>3, <1>5, <1>6, <1>7 DEF WatchInv

\* An uninstallation that counts on being alone is.
LEMMA NoRepairBeside ==
    ASSUME WatchInv, NEW c \in Commands, Repairing(c), job[c].step # "exited"
    PROVE  uninstall \in {"none", "shared"} /\ (uninstall' = uninstall => Uninstalled')
  BY DEF WatchInv, TypeOK, Kinds, Uninstalled, SomeRepair, Repairing, Commands

LEMMA VerifyStep == ASSUME WatchInv, NEW c \in Commands, Verify(c) PROVE WatchInv'
<1>1. job[c].kind = "verify" /\ job[c].step # "exited" /\ c # User
  BY DEF Verify, WatchInv, Kinds
<1>2. PICK sound \in BOOLEAN : Exit(c, sound /\ patched /\ Running = {})
  BY DEF Verify
<1> DEFINE healthy == sound /\ patched /\ Running = {}
<1>3. healthy \in BOOLEAN /\ Exit(c, healthy)
  BY <1>2
<1>4. healthy => patched
  OBVIOUS
<1> HIDE DEF healthy
<1>5. Proceeds(c)
  BY <1>1, <1>3, ExitProceeds DEF Verify
<1>6. due /\ job'[c].kind = "verify" => ~job'[c].healthy
  BY <1>3, <1>4, ExitIs, NoJobIs DEF WatchInv, DueUnpatched, JobIs
<1>8. Accounts(c)
  BY <1>1, <1>6 DEF Verify, Accounts, Settling, Repairing, WatchInv, TypeOK
<1>9. Uninstalled'
  BY <1>1, <1>5, NoNewRepair DEF Verify, WatchInv, Uninstalled, Proceeds, Commands
<1>10. Builds' /\ DueUnpatched'
  BY DEF Verify, WatchInv, Builds, DueUnpatched
<1> QED
  BY <1>5, <1>8, <1>9, <1>10, CommandMoves DEF Verify, WatchInv, TypeOK

\* A command that is refused.
LEMMA RefuseAccounts ==
    ASSUME WatchInv, NEW c \in Commands, Repairing(c), Refuse(c)
    PROVE  Accounts(c)
  BY DEF WatchInv, TypeOK, Refuse, Accounts, Settling, Repairing

LEMMA InspectInstallStep == ASSUME WatchInv, NEW c \in Commands, InspectInstall(c) PROVE WatchInv'
<1>1. Repairing(c) /\ job[c].step # "exited" /\ job[c].kind # "verify"
  BY DEF InspectInstall, Repairing
<1>2. Uninstalled'
  BY <1>1, NoRepairBeside DEF InspectInstall
<1>3. CASE Refuse(c)
  <2>1. Proceeds(c) /\ Accounts(c)
    BY <1>1, <1>3, ExitProceeds, RefuseAccounts DEF InspectInstall, Refuse
  <2>2. Builds' /\ DueUnpatched'
    BY <1>3 DEF InspectInstall, WatchInv, Builds, DueUnpatched, Refuse
  <2> QED
    BY <1>2, <2>1, <2>2, CommandMoves DEF InspectInstall, WatchInv, TypeOK
<1>4. CASE Step(c, IF patched THEN "files" ELSE "transaction") /\ UNCHANGED due
  <2> DEFINE step == IF patched THEN "files" ELSE "transaction"
  <2>1. step \in JobSteps /\ Step(c, step)
    BY <1>4 DEF JobSteps
  <2>2. due => step = "transaction"
    BY DEF WatchInv, DueUnpatched
  <2> HIDE DEF step
  <2>3. Proceeds(c) /\ job'[c].kind = job[c].kind /\ job'[c].step = step
    BY <1>1, <2>1, StepProceeds, StepIs DEF InspectInstall, WatchInv
  <2>4. Accounts(c)
    BY <1>1, <1>4, <2>2, <2>3 DEF WatchInv, TypeOK, Accounts, Settling, Repairing
  <2>5. Builds' /\ DueUnpatched'
    BY <1>4 DEF InspectInstall, WatchInv, Builds, DueUnpatched
  <2> QED
    BY <1>2, <2>3, <2>4, <2>5, CommandMoves DEF InspectInstall, WatchInv, TypeOK
<1> QED
  BY <1>3, <1>4 DEF InspectInstall

LEMMA TransactStep == ASSUME WatchInv, NEW c \in Commands, Transact(c) PROVE WatchInv'
<1>1. Repairing(c) /\ job[c].step # "exited"
  BY DEF Transact
<1>2. Uninstalled'
  BY <1>1, NoRepairBeside DEF Transact, WatchInv, Uninstalled
<1>3. CASE Refuse(c) /\ UNCHANGED patched
  <2>1. Proceeds(c) /\ Accounts(c)
    BY <1>1, <1>3, ExitProceeds, RefuseAccounts DEF Transact, Refuse
  <2>2. Builds' /\ DueUnpatched'
    BY <1>3 DEF Transact, WatchInv, Builds, DueUnpatched, Refuse
  <2> QED
    BY <1>2, <1>3, <2>1, <2>2, CommandMoves DEF Transact, WatchInv, TypeOK
<1>4. CASE Running = {} /\ patched' = TRUE /\ Step(c, "files") /\ due' = FALSE
  <2>1. Proceeds(c)
    BY <1>1, <1>4, StepProceeds DEF Transact, JobSteps
  <2>2. Accounts(c)
    BY <1>4 DEF Accounts
  <2>3. Builds' /\ DueUnpatched'
    BY <1>4 DEF Transact, Builds, DueUnpatched, Running, Games
  <2> QED
    BY <1>2, <1>4, <2>1, <2>2, <2>3, CommandMoves DEF Transact, WatchInv, TypeOK
<1> QED
  BY <1>3, <1>4 DEF Transact

\* Past its transaction a command has no debts.
LEMMA StageFilesStep == ASSUME WatchInv, NEW c \in Commands, StageFiles(c) PROVE WatchInv'
<1>1. Repairing(c) /\ job[c].step # "exited"
  BY DEF StageFiles
<1>2. Uninstalled'
  BY <1>1, NoRepairBeside DEF StageFiles
<1>3. Proceeds(c)
  BY <1>1, StepProceeds, ExitProceeds DEF StageFiles, JobSteps
<1>4. Accounts(c)
  BY DEF StageFiles, Accounts, Settling, Repairing, WatchInv, TypeOK
<1>5. Builds' /\ DueUnpatched'
  BY DEF StageFiles, WatchInv, Builds, DueUnpatched
<1> QED
  BY <1>2, <1>3, <1>4, <1>5, CommandMoves DEF StageFiles, WatchInv, TypeOK

LEMMA InspectUninstallStep ==
    ASSUME WatchInv, NEW c \in Commands, InspectUninstall(c)
    PROVE  WatchInv'
<1>1. job[c].kind = "uninstall" /\ job[c].step # "exited" /\ c = User
  BY DEF InspectUninstall, WatchInv, Kinds, Commands
<1>2. Proceeds(c) /\ (job'[c].step = "transaction" \/ uninstall' = "none")
  BY <1>1, ExitProceeds, StepProceeds, StepIs DEF InspectUninstall, GiveUp, JobSteps, WatchInv
<1>3. Accounts(c)
  BY <1>1 DEF InspectUninstall, Accounts, Settling, Repairing, WatchInv, TypeOK
<1>4. uninstall' \in {"none", uninstall}
  BY DEF InspectUninstall, GiveUp
<1>5. CASE uninstall' = "none"
  <2>1. Uninstalled' /\ Builds' /\ DueUnpatched'
    BY <1>5 DEF InspectUninstall, WatchInv, Uninstalled, Builds, DueUnpatched
  <2> QED
    BY <1>2, <1>3, <1>5, <2>1, CommandMoves DEF InspectUninstall, WatchInv, TypeOK
<1>6. CASE Step(c, "transaction") /\ UNCHANGED uninstall
  <2>1. job'[c].kind = "uninstall" /\ job'[c].step = "transaction"
    BY <1>1, <1>6, StepIs DEF WatchInv, JobSteps
  <2>2. Uninstalled'
    BY <1>1, <1>2, <1>6, <2>1, NoNewRepair DEF InspectUninstall, WatchInv, Uninstalled
  <2>3. Builds' /\ DueUnpatched'
    BY DEF InspectUninstall, WatchInv, Builds, DueUnpatched
  <2> QED
    BY <1>2, <1>3, <1>6, <2>2, <2>3, CommandMoves DEF InspectUninstall, WatchInv, TypeOK
<1> QED
  BY <1>5, <1>6 DEF InspectUninstall, GiveUp

LEMMA RestoreStep == ASSUME WatchInv, NEW c \in Commands, Restore(c) PROVE WatchInv'
<1>1. job[c].kind = "uninstall" /\ job[c].step # "exited" /\ c = User
  BY DEF Restore, WatchInv, Kinds, Commands
<1>2. CASE GiveUp(c) /\ UNCHANGED <<patched, due>>
  <2>1. Proceeds(c)
    BY <1>1, <1>2, ExitProceeds DEF Restore, GiveUp
  <2>2. Accounts(c)
    BY <1>1, <1>2 DEF Accounts, Settling, Repairing, WatchInv, TypeOK
  <2>3. Uninstalled' /\ Builds' /\ DueUnpatched'
    BY <1>2 DEF Restore, GiveUp, WatchInv, Uninstalled, Builds, DueUnpatched
  <2> QED
    BY <1>2, <2>1, <2>2, <2>3, CommandMoves DEF Restore, GiveUp, WatchInv, TypeOK
<1>3. CASE /\ Running = {} /\ patched' = FALSE
           /\ Step(c, "unregister") /\ Forgiven /\ UNCHANGED uninstall
  <2>1. Proceeds(c) /\ job'[c].kind = "uninstall"
    BY <1>1, <1>3, StepProceeds, StepIs DEF Restore, JobSteps, WatchInv
  <2>2. Accounts(c)
    BY <1>3 DEF Accounts, Forgiven
  <2>3. Uninstalled'
    BY <1>1, <1>3, <2>1, NoNewRepair DEF Restore, WatchInv, Uninstalled
  <2>4. Builds' /\ DueUnpatched'
    BY <1>3 DEF Restore, Builds, DueUnpatched, Forgiven, Running, Games
  <2> QED
    BY <1>3, <2>1, <2>2, <2>3, <2>4, CommandMoves DEF Restore, WatchInv, TypeOK
<1> QED
  BY <1>2, <1>3 DEF Restore

LEMMA RemoveFilesStep == ASSUME WatchInv, NEW c \in Commands, RemoveFiles(c) PROVE WatchInv'
<1>1. job[c].kind = "uninstall" /\ job[c].step = "remove" /\ job[c].step # "exited" /\ c = User
  BY DEF RemoveFiles, WatchInv, Kinds, Commands
<1>2. Proceeds(c)
  BY <1>1, ExitProceeds DEF RemoveFiles
<1>3. job'[c].kind \in {"none", "uninstall"}
  BY <1>1, <1>2 DEF Proceeds
<1>4. Accounts(c)
  BY <1>1 DEF RemoveFiles, Accounts, Settling, Repairing, WatchInv, TypeOK
<1>5. Uninstalled'
  BY <1>1, <1>2, <1>3, NoNewRepair DEF RemoveFiles, WatchInv, Uninstalled
<1>6. Builds' /\ DueUnpatched'
  BY DEF RemoveFiles, WatchInv, Builds, DueUnpatched
<1> QED
  BY <1>2, <1>4, <1>5, <1>6, CommandMoves DEF RemoveFiles, WatchInv, TypeOK

\* What Stop does when the task knows of a watchdog.
LEMMA StopIs ==
    ASSUME WatchInv, NEW c \in Commands, NEW after \in JobStates,
           after.kind = job[c].kind, after.by = job[c].by, Stop(c, after), active # Nobody
    PROVE  /\ WatcherIs(active, Blank("dying")) /\ active' = Nobody /\ due' = FALSE
           /\ job' \in [Commands -> JobStates]
           /\ job'[User] = IF User = c THEN after ELSE job[User]
           /\ \A d \in Commands :
                 \/ job'[d].kind = "none"
                 \/ job'[d].kind = job[d].kind /\ (d # c => job'[d].step = job[d].step)
           /\ watcher[active].child = Nobody =>
                 \A d \in Commands : job'[d].kind = job[d].kind /\ job'[d].by = job[d].by
<1> DEFINE w == active
           child == watcher[w].child
           left == [job EXCEPT ![c] = after]
<1>1. w \in Watchers /\ child \in Jobs \cup {Nobody} /\ TypeOK
  BY StateFields DEF WatchInv, TypeOK
<1>2. WatcherIs(w, Blank("dying")) /\ active' = Nobody /\ due' = FALSE
  <2>1. Becomes(w, Blank("dying")) /\ active' = Nobody /\ due' = FALSE
    BY DEF Stop, Forgiven
  <2> QED
    BY <1>1, <2>1, BlankIs, BecomesIs
<1>3. /\ left \in [Commands -> JobStates] /\ left[c] = after
      /\ \A d \in Commands : d # c => left[d] = job[d]
  BY <1>1 DEF TypeOK
<1>4. CASE child = Nobody /\ job' = left
  BY <1>2, <1>3, <1>4 DEF Commands
<1>5. ASSUME child \in Jobs, child # Nobody, NEW gone \in JobStates,
             gone.kind = "none" \/ (gone.kind = left[child].kind /\ gone.step = left[child].step),
             job' = [left EXCEPT ![child] = gone]
      PROVE  /\ job' \in [Commands -> JobStates]
             /\ job'[User] = IF User = c THEN after ELSE job[User]
             /\ \A d \in Commands :
                   \/ job'[d].kind = "none"
                   \/ job'[d].kind = job[d].kind /\ (d # c => job'[d].step = job[d].step)
  <2>1. child \in Commands /\ child # User /\ User \in Commands
    BY <1>5, UserElse DEF Commands
  <2> HIDE DEF left, child
  <2>2. job' \in [Commands -> JobStates] /\ job'[child] = gone
          /\ \A d \in Commands : d # child => job'[d] = left[d]
    BY <1>3, <1>5, <2>1
  <2> QED
    BY <1>3, <1>5, <2>1, <2>2
<1>6. CASE child # Nobody
  <2>1. child \in Jobs /\ child \in Commands
    BY <1>1, <1>6 DEF Commands
  <2> DEFINE apart == [left[child] EXCEPT !.by = Nobody]
             gone == IF left[child].step = "exited" THEN NoJob ELSE apart
  <2>2. /\ apart \in JobStates /\ apart.kind = left[child].kind
        /\ apart.step = left[child].step
    BY <1>3, <2>1 DEF JobStates
  <2>3. /\ gone \in JobStates
        /\ gone.kind = "none" \/ (gone.kind = left[child].kind /\ gone.step = left[child].step)
    BY <2>2, NoJobIs
  <2>4. job' = [left EXCEPT ![child] = NoJob] \/ job' = [left EXCEPT ![child] = gone]
    BY <1>6, <1>3, <2>1 DEF Stop
  <2>5. watcher[active].child # Nobody
    BY <1>6
  <2> HIDE DEF gone, left, child, apart
  <2>6. CASE job' = [left EXCEPT ![child] = NoJob]
    BY <1>2, <1>5, <1>6, <2>1, <2>5, <2>6, NoJobIs
  <2>7. CASE job' = [left EXCEPT ![child] = gone]
    BY <1>2, <1>5, <1>6, <2>1, <2>3, <2>5, <2>7
  <2> QED
    BY <2>4, <2>6, <2>7
<1> QED
  BY <1>1, <1>4, <1>6 DEF Stop

\* Nothing is owed any more once the watchdog was stopped.
LEMMA StopMoves ==
    ASSUME WatchInv, NEW c \in Commands, NEW after \in JobStates,
           after.kind = job[c].kind, after.by = job[c].by, Stop(c, after), active # Nobody,
           registered' \in BOOLEAN, UNCHANGED <<process, patched, files, uninstall>>,
           Uninstalled'
    PROVE  WatchInv'
<1> DEFINE w == active
<1>1. /\ WatcherIs(w, Blank("dying")) /\ active' = Nobody /\ due' = FALSE
      /\ job' \in [Commands -> JobStates]
      /\ \A d \in Commands : job'[d].kind = "none" \/ job'[d].kind = job[d].kind
      /\ watcher[w].child = Nobody =>
           \A d \in Commands : job'[d].kind = job[d].kind /\ job'[d].by = job[d].by
  BY StopIs
<1>2. w \in Watchers
  BY DEF WatchInv, TypeOK
<1> HIDE DEF w
<1>3. TypeOK' /\ Alone'
  BY <1>1, <1>2, BlankIs DEF WatchInv, TypeOK, Alone, WatcherIs, Idle
<1>4. Fitting'
  <2> SUFFICES ASSUME NEW o \in Watchers PROVE Fits(o)'
    BY DEF Fitting
  <2>1. CASE o = w
    BY <1>1, <2>1, BlankIs DEF Fits, WatcherIs
  <2>2. CASE o # w
    <3>1. Fits(o) /\ watcher'[o] = watcher[o]
      BY <1>1, <2>2 DEF WatchInv, Fitting, WatcherIs
    <3>2. ASSUME watcher[o].pc \in {"verifying", "repairing"}
          PROVE  LET d == watcher[o].child
                 IN  d \in Commands /\ job'[d].kind = job[d].kind /\ job'[d].by = job[d].by
      <4>1. watcher[w].pc \in Idle
        BY <1>2, <2>2, <3>2, OthersIdle DEF Idle
      <4>2. watcher[w].child = Nobody
        BY <1>2, <4>1 DEF WatchInv, Fitting, Fits
      <4> QED
        BY <1>1, <3>1, <3>2, <4>2 DEF Fits, Commands
    <3> QED
      BY <3>1, <3>2 DEF Fits
  <2> QED
    BY <2>1, <2>2
<1>5. Kinds'
  BY <1>1 DEF WatchInv, Kinds, Commands
<1>6. OneGame' /\ Builds'
  BY DEF WatchInv, OneGame, Builds
<1>7. DueUnpatched' /\ Followed' /\ Answered' /\ NothingForgotten'
  BY <1>1 DEF DueUnpatched, Followed, Answered, NothingForgotten
<1> QED
  BY <1>3, <1>4, <1>5, <1>6, <1>7 DEF WatchInv

LEMMA RegisterStep == ASSUME WatchInv, NEW c \in Commands, Register(c) PROVE WatchInv'
<1>1. Repairing(c) /\ job[c].step = "register" /\ job[c].step # "exited"
  BY DEF Register
<1>2. Uninstalled' /\ registered' \in BOOLEAN
  BY <1>1, NoRepairBeside DEF Register, WatchInv, TypeOK
<1>3. Builds'
  BY DEF Register, WatchInv, Builds
<1> DEFINE after == [job[c] EXCEPT !.step = "run"]
<1>4. /\ after \in JobStates /\ after.kind = job[c].kind /\ after.by = job[c].by
      /\ after.step = "run"
  BY DEF WatchInv, TypeOK, JobStates, JobSteps
<1>5. CASE Stop(c, after) /\ active # Nobody
  BY <1>2, <1>4, <1>5, StopMoves DEF Register
<1>6. CASE Stop(c, after) /\ active = Nobody
  <2>1. job' = [job EXCEPT ![c] = after] /\ UNCHANGED <<active, watcher, due>>
    BY <1>6 DEF Stop
  <2> HIDE DEF after
  <2>2. JobIs(c, after)
    BY <1>4, <2>1, JobBecomes DEF WatchInv
  <2>3. Proceeds(c)
    BY <1>1, <1>4, <2>1, <2>2 DEF Register, Proceeds, JobIs
  <2>4. Accounts(c) /\ DueUnpatched'
    BY <1>1, <2>1
    DEF Register, Accounts, Settling, Repairing, WatchInv, TypeOK, DueUnpatched
  <2> QED
    BY <1>2, <1>3, <2>3, <2>4, CommandMoves DEF Register, WatchInv, TypeOK
<1>7. CASE Exit(c, FALSE) /\ UNCHANGED <<active, watcher, due>>
  <2>1. Proceeds(c)
    BY <1>1, <1>7, ExitProceeds DEF Register
  <2>2. Accounts(c) /\ DueUnpatched'
    BY <1>1, <1>7
    DEF Register, Accounts, Settling, Repairing, WatchInv, TypeOK, DueUnpatched
  <2> QED
    BY <1>2, <1>3, <2>1, <2>2, CommandMoves DEF Register, WatchInv, TypeOK
<1> QED
  BY <1>5, <1>6, <1>7 DEF Register

LEMMA UnregisterStep == ASSUME WatchInv, NEW c \in Commands, Unregister(c) PROVE WatchInv'
<1>1. job[c].kind = "uninstall" /\ job[c].step = "unregister" /\ c = User
  BY DEF Unregister, WatchInv, Kinds, Commands
<1>2. Builds' /\ registered' \in BOOLEAN /\ (~registered => ~registered')
  <2>1. Builds'
    BY DEF Unregister, WatchInv, Builds
  <2>2. registered \in BOOLEAN
    BY DEF WatchInv, TypeOK
  <2>3. registered' = registered \/ registered' = FALSE
    BY DEF Unregister
  <2>4. CASE registered' = registered
    BY <2>1, <2>2, <2>4
  <2>5. CASE registered' = FALSE
    BY <2>1, <2>5
  <2> QED
    BY <2>3, <2>4, <2>5
<1> DEFINE after == [job[c] EXCEPT !.step = "remove"]
<1>3. /\ after \in JobStates /\ after.kind = job[c].kind /\ after.by = job[c].by
      /\ after.step = "remove"
  BY DEF WatchInv, TypeOK, JobStates, JobSteps
<1>4. ASSUME job'[User].kind = "uninstall", SomeRepair' => SomeRepair PROVE Uninstalled'
  BY <1>1, <1>2, <1>4 DEF WatchInv, Uninstalled, Unregister
<1>5. CASE Stop(c, after) /\ active # Nobody
  <2> HIDE DEF after
  <2>1. /\ job'[User] = after
        /\ \A d \in Commands :
              \/ job'[d].kind = "none"
              \/ job'[d].kind = job[d].kind /\ (d # c => job'[d].step = job[d].step)
    BY <1>1, <1>3, <1>5, StopIs
  <2>2. SomeRepair' => SomeRepair
    BY <1>1, <2>1, UserElse DEF SomeRepair, Commands
  <2>3. Uninstalled'
    BY <1>1, <1>3, <1>4, <2>1, <2>2
  <2> QED
    BY <1>2, <1>3, <1>5, <2>3, StopMoves DEF Unregister
<1>6. CASE job' = [job EXCEPT ![c] = after] /\ UNCHANGED <<active, watcher, due>>
  <2> HIDE DEF after
  <2>1. JobIs(c, after)
    BY <1>3, <1>6, JobBecomes DEF WatchInv
  <2>2. Proceeds(c)
    BY <1>1, <1>3, <1>6, <2>1 DEF Unregister, Proceeds, JobIs
  <2>3. Accounts(c) /\ DueUnpatched'
    BY <1>1, <1>6
    DEF Unregister, Accounts, Settling, Repairing, WatchInv, TypeOK, DueUnpatched
  <2>4. Uninstalled'
    BY <1>1, <1>3, <1>4, <2>1, <2>2, NoNewRepair DEF JobIs
  <2> QED
    BY <1>2, <2>2, <2>3, <2>4, CommandMoves DEF Unregister, WatchInv, TypeOK
<1>7. CASE Step(c, "remove") /\ UNCHANGED <<active, watcher, due>>
  <2>1. job' = [job EXCEPT ![c] = after]
    BY <1>7 DEF Step, WatchInv, TypeOK
  <2> QED
    BY <1>6, <1>7, <2>1
<1> QED
  BY <1>5, <1>6, <1>7 DEF Unregister, Stop

LEMMA RunTaskStep == ASSUME WatchInv, NEW c \in Commands, RunTask(c) PROVE WatchInv'
<1>1. /\ Repairing(c) /\ job[c].step = "run" /\ job[c].step # "exited"
      /\ job[c].kind # "verify" /\ ~Settling(c)
  BY DEF RunTask, Repairing, Settling
<1>2. Uninstalled' /\ Builds' /\ DueUnpatched' /\ OneGame'
  BY <1>1, NoRepairBeside DEF RunTask, WatchInv, Builds, DueUnpatched, OneGame
<1>3. CASE UNCHANGED <<active, watcher>>
  <2>1. Proceeds(c)
    BY <1>1, <1>3, ExitProceeds DEF RunTask
  <2>2. Accounts(c)
    BY <1>1 DEF RunTask, Accounts, WatchInv, TypeOK
  <2> QED
    BY <1>2, <2>1, <2>2, CommandMoves DEF RunTask, WatchInv, TypeOK
<1>4. ASSUME NEW w \in Watchers, StartTask(w) PROVE WatchInv'
  <2>1. WatcherIs(w, Blank("mutex")) /\ active' = w
    BY <1>4, BlankIs, BecomesIs DEF StartTask, WatchInv
  <2>2. watcher[w].pc \in Idle /\ ~Attends(w) /\ ~Follows(w)
    BY <1>4, IdleHasNothing DEF StartTask, Idle
  <2>3. /\ job' \in [Commands -> JobStates]
        /\ \A d \in Commands : d # c => job'[d] = job[d]
        /\ \/ job'[c].kind = "none" /\ job[c].by = Nobody
           \/ job'[c].kind = job[c].kind /\ job'[c].by = job[c].by
    BY ExitIs, NoJobIs DEF RunTask, WatchInv, JobIs
  <2>4. ASSUME NEW o \in Watchers, watcher[o].pc \in {"verifying", "repairing"}
        PROVE  LET d == watcher[o].child
               IN  /\ d \in Commands /\ job'[d].by = job[d].by /\ job'[d].kind = job[d].kind
                   /\ watcher[o].pc = "verifying" => d # c
    BY <1>1, <2>3, <2>4, NobodyElse DEF WatchInv, Fitting, Fits, Commands
  <2>5. TypeOK' /\ Kinds'
    BY <2>1, <2>3, UserElse DEF RunTask, WatchInv, TypeOK, Kinds, Commands, WatcherIs
  <2>6. Alone'
    BY <2>1, <2>2, BlankIs DEF WatchInv, Alone, WatcherIs, Idle
  <2>7. Fitting'
    <3> SUFFICES ASSUME NEW o \in Watchers PROVE Fits(o)'
      BY DEF Fitting
    <3>1. CASE o = w
      BY <2>1, <3>1, BlankIs DEF Fits, WatcherIs
    <3>2. CASE o # w
      BY <2>1, <2>4, <3>2 DEF WatchInv, Fitting, Fits, WatcherIs
    <3> QED
      BY <3>1, <3>2
  <2>8. Followed'
    BY <2>1, <2>2 DEF RunTask, WatchInv, Followed, Follows, WatcherIs
  <2>9. Answered'
    <3> SUFFICES ASSUME NEW o \in Watchers, due', ChildDone(o)'
                 PROVE  watcher'[o].events # <<>>
      BY DEF Answered
    <3>1. o # w /\ watcher'[o] = watcher[o] /\ watcher[o].pc \in {"verifying", "repairing"}
      BY <2>1, BlankIs DEF ChildDone, WatcherIs
    <3>2. ChildDone(o)
      BY <1>1, <2>3, <2>4, <3>1 DEF ChildDone, Settling, Repairing
    <3> QED
      BY <3>1, <3>2 DEF RunTask, WatchInv, Answered
  <2>10. NothingForgotten'
    <3> SUFFICES ASSUME due, \A d \in Commands : ~Settling(d)'
                 PROVE  \E o \in Watchers : Attends(o)'
      BY DEF RunTask, NothingForgotten
    <3>1. \A d \in Commands : ~Settling(d)
      BY <1>1, <2>3 DEF Settling, Repairing
    <3>2. PICK o \in Watchers : Attends(o)
      BY <3>1 DEF WatchInv, NothingForgotten
    <3>3. watcher'[o] = watcher[o]
      BY <2>1, <2>2, <3>2 DEF WatcherIs
    <3> QED
      BY <3>2, <3>3 DEF Attends
  <2> QED
    BY <1>2, <2>5, <2>6, <2>7, <2>8, <2>9, <2>10 DEF WatchInv
<1> QED
  BY <1>3, <1>4 DEF RunTask

LEMMA TypeCommandStep ==
    ASSUME WatchInv, NEW kind \in {"install", "uninstall"}, TypeCommand(kind)
    PROVE  WatchInv'
<1> DEFINE begun == [NoJob EXCEPT !.kind = kind, !.step = "inspect"]
<1>1. begun \in JobStates /\ begun.kind = kind /\ begun.step = "inspect"
  BY DEF NoJob, JobStates, JobSteps
<1>2. User \in Commands /\ job' = [job EXCEPT ![User] = begun]
  BY DEF TypeCommand, Commands
<1> HIDE DEF begun
<1>3. JobIs(User, begun)
  BY <1>1, <1>2, JobBecomes DEF WatchInv
<1>4. \A j \in Jobs : job'[j] = job[j]
  BY <1>3, UserElse DEF JobIs, Commands
<1>5. TypeOK'
  BY <1>3 DEF TypeCommand, WatchInv, TypeOK, JobIs
<1>6. Alone' /\ OneGame' /\ Builds' /\ DueUnpatched' /\ Followed'
  BY DEF TypeCommand, WatchInv, Alone, OneGame, Builds, DueUnpatched, Followed, Follows
<1>7. Fitting'
  <2> SUFFICES ASSUME NEW w \in Watchers PROVE Fits(w)'
    BY DEF Fitting
  <2>1. Fits(w) /\ watcher' = watcher
    BY DEF TypeCommand, WatchInv, Fitting
  <2> QED
    BY <1>4, <2>1 DEF Fits
<1>8. Kinds'
  BY <1>1, <1>3, <1>4 DEF WatchInv, Kinds, JobIs
<1>9. Uninstalled'
  BY <1>1, <1>3, <1>4 DEF TypeCommand, WatchInv, Uninstalled, SomeRepair, JobIs
<1>10. Answered'
  BY <1>4 DEF TypeCommand, WatchInv, Answered, ChildDone, Settling, Repairing, Fitting, Fits
<1>11. NothingForgotten'
  BY <1>3 DEF TypeCommand, WatchInv, NothingForgotten, Attends, Settling, Repairing, JobIs
<1> QED
  BY <1>5, <1>6, <1>7, <1>8, <1>9, <1>10, <1>11 DEF WatchInv

-----------------------------------------------------------------------------
(* Steps of the game and of the Store.                                     *)

LEMMA LaunchStep == ASSUME WatchInv, NEW p \in Pids, Launch(p) PROVE WatchInv'
<1>1. ASSUME NEW w \in Watchers, Hears(w)
      PROVE  /\ watcher[w].pc \notin Idle
             /\ watcher'[w] \in WatcherStates
             /\ watcher'[w].pc = watcher[w].pc /\ watcher'[w].target = watcher[w].target
             /\ watcher'[w].child = watcher[w].child
             /\ watcher'[w].subscribed /\ watcher'[w].events # <<>>
             /\ watcher'[w].events[Len(watcher'[w].events)] = p
  <2> DEFINE events == Append(watcher[w].events, p)
  <2>1. watcher[w] \in WatcherStates /\ watcher[w].events \in Seq(Pids) /\ watcher[w].subscribed
    BY <1>1, StateFields DEF WatchInv, TypeOK, Hears
  <2>2. events \in Seq(Pids) /\ events # <<>> /\ events[Len(events)] = p
    BY <2>1, AppendProperties
  <2>3. watcher'[w] = [watcher[w] EXCEPT !.events = events]
    BY <1>1 DEF Launch
  <2>4. watcher[w].pc \notin Idle
    BY <2>1 DEF WatchInv, Fitting, Fits
  <2> HIDE DEF events
  <2>5. /\ watcher'[w] \in WatcherStates /\ watcher'[w].events = events
        /\ watcher'[w].pc = watcher[w].pc /\ watcher'[w].target = watcher[w].target
        /\ watcher'[w].child = watcher[w].child
        /\ watcher'[w].subscribed = watcher[w].subscribed
    BY <2>1, <2>2, <2>3 DEF WatcherStates
  <2>6. watcher'[w].subscribed
    BY <2>1, <2>5, Zenon
  <2> QED
    BY <2>2, <2>4, <2>5, <2>6
<1>2. \A w \in Watchers : ~Hears(w) => watcher'[w] = watcher[w]
  BY DEF Launch
<1>3. /\ process' \in [Pids -> {"none", "other"} \cup Games]
      /\ process'[p] = IF patched THEN "loading" ELSE "plain"
      /\ \A q \in Pids : q # p => process'[q] = process[q] /\ process[q] \notin Games
  BY DEF Launch, WatchInv, TypeOK, Games, Running
<1>4. /\ due' => ~patched /\ \E w \in Watchers : Hears(w)
      /\ due' \in BOOLEAN
  BY DEF Launch, WatchInv, TypeOK, DueUnpatched
<1>5. TypeOK'
  <2>1. watcher' \in [Watchers -> WatcherStates]
    BY <1>1, <1>2 DEF Launch, WatchInv, TypeOK
  <2> QED
    BY <1>3, <1>4, <2>1 DEF Launch, WatchInv, TypeOK
<1>6. Alone'
  BY <1>1, <1>2 DEF WatchInv, Alone
<1>7. Fitting'
  <2> SUFFICES ASSUME NEW w \in Watchers PROVE Fits(w)'
    BY DEF Fitting
  <2>1. Fits(w) /\ job' = job
    BY DEF Launch, WatchInv, Fitting
  <2>2. CASE Hears(w)
    BY <1>1, <2>1, <2>2 DEF Fits
  <2>3. CASE ~Hears(w)
    BY <1>2, <2>1, <2>3 DEF Fits
  <2> QED
    BY <2>1, <2>2, <2>3
<1>8. Kinds' /\ Uninstalled' /\ DueUnpatched'
  BY <1>4 DEF Launch, WatchInv, Kinds, Uninstalled, SomeRepair, DueUnpatched
<1>9. OneGame' /\ Builds'
  BY <1>3 DEF Launch, WatchInv, OneGame, Builds, Games
<1>10. ASSUME due'
       PROVE  /\ \E w \in Watchers : Hears(w) /\ Follows(w)' /\ Attends(w)'
              /\ \A o \in Watchers : ChildDone(o)' => watcher'[o].events # <<>>
  <2>1. PICK w \in Watchers : Hears(w)
    BY <1>4, <1>10
  <2>2. Follows(w)' /\ Attends(w)'
    BY <1>1, <1>3, <2>1 DEF Follows, Attends, Games
  <2>3. ASSUME NEW o \in Watchers, ChildDone(o)' PROVE watcher'[o].events # <<>>
    <3>1. watcher[o].pc \in {"verifying", "repairing"}
      BY <1>1, <1>2, <2>3 DEF ChildDone
    <3>2. o = w
      BY <1>1, <2>1, <3>1, OthersIdle DEF Idle
    <3> QED
      BY <1>1, <2>1, <3>2
  <2> QED
    BY <2>1, <2>2, <2>3
<1>11. Followed' /\ Answered' /\ NothingForgotten'
  BY <1>10 DEF Followed, Answered, NothingForgotten
<1> QED
  BY <1>5, <1>6, <1>7, <1>8, <1>9, <1>11 DEF WatchInv

\* No game appears but by being started.
LEMMA ProcessMoves ==
    ASSUME WatchInv, NEW p \in Pids, NEW state \in {"none", "other", "beating"},
           process' = [process EXCEPT ![p] = state],
           state = "beating" => process[p] = "loading",
           UNCHANGED <<patched, files, registered, active, watcher, job, due, uninstall>>
    PROVE  WatchInv'
<1>1. /\ process' \in [Pids -> {"none", "other"} \cup Games]
      /\ \A q \in Pids : process'[q] \in Games => process[q] \in Games
      /\ \A q \in Pids : process'[q] = "loading" => process[q] = "loading"
      /\ \A q \in Pids : process'[q] = "beating" => process[q] \in {"loading", "beating"}
      /\ \A q \in Pids : process'[q] = "plain" => process[q] = "plain"
  BY DEF WatchInv, TypeOK, Games
<1>2. TypeOK'
  BY <1>1 DEF WatchInv, TypeOK
<1>3. Alone' /\ Kinds' /\ DueUnpatched'
  BY DEF WatchInv, Alone, Kinds, DueUnpatched
<1>4. Fitting' /\ Uninstalled'
  BY DEF WatchInv, Fitting, Fits, Uninstalled, SomeRepair
<1>5. OneGame' /\ Builds'
  BY <1>1 DEF WatchInv, OneGame, Builds
<1>6. Answered' /\ NothingForgotten'
  BY DEF WatchInv, Answered, NothingForgotten, ChildDone, Attends, Settling, Repairing
<1>7. Followed'
  <2> SUFFICES ASSUME due, NEW q \in Pids, process'[q] \in Games
               PROVE  \E w \in Watchers : Follows(w)'
    BY DEF Followed
  <2>1. PICK w \in Watchers : Follows(w)
    BY <1>1 DEF WatchInv, Followed
  <2>2. \A r \in Pids : process[r] \in Games => r = q
    BY <1>1 DEF WatchInv, OneGame
  <2>3. CASE watcher[w].pc \in {"heartbeat", "exit"} /\ process[watcher[w].target] \in Games
    <3>1. watcher[w].target = q
      BY <2>2, <2>3 DEF WatchInv, Fitting, Fits
    <3> QED
      BY <2>3, <3>1 DEF Follows
  <2>4. CASE /\ watcher[w].events # <<>>
             /\ process[watcher[w].events[Len(watcher[w].events)]] \in Games
    <3>1. watcher[w].events \in Seq(Pids)
      BY StateFields DEF WatchInv, TypeOK
    <3>2. watcher[w].events[Len(watcher[w].events)] \in Pids
      BY <2>4, <3>1, EmptySeq
    <3> QED
      BY <2>2, <2>4, <3>2 DEF Follows
  <2> QED
    BY <2>1, <2>3, <2>4 DEF Follows
<1> QED
  BY <1>2, <1>3, <1>4, <1>5, <1>6, <1>7 DEF WatchInv

LEMMA UpdateStep == ASSUME WatchInv, Update PROVE WatchInv'
<1>1. TypeOK' /\ Alone' /\ Kinds'
  BY DEF Update, WatchInv, TypeOK, Alone, Kinds
<1>2. Fitting' /\ OneGame' /\ DueUnpatched'
  BY DEF Update, WatchInv, Fitting, Fits, OneGame, DueUnpatched
<1>3. Builds' /\ Followed'
  BY DEF Update, WatchInv, Builds, Followed, Follows, Running, Games
<1>4. Uninstalled'
  BY DEF Update, WatchInv, Uninstalled, SomeRepair
<1>5. Answered' /\ NothingForgotten'
  BY DEF Update, WatchInv, Answered, NothingForgotten, ChildDone, Attends, Settling, Repairing
<1> QED
  BY <1>1, <1>2, <1>3, <1>4, <1>5 DEF WatchInv

-----------------------------------------------------------------------------

LEMMA InitInv == Init => WatchInv
<1> SUFFICES ASSUME Init PROVE WatchInv
  OBVIOUS
<1>1. \A w \in Watchers : /\ watcher[w] = NoWatcher /\ watcher[w] \in WatcherStates
                          /\ watcher[w].pc = "none" /\ watcher[w].events = <<>>
                          /\ watcher[w].subscribed = FALSE /\ watcher[w].child = Nobody
  BY BlankIs DEF Init, NoWatcher
<1>2. \A c \in Commands : job[c] = NoJob /\ job[c] \in JobStates
  BY NoJobIs DEF Init
<1>3. TypeOK
  BY <1>1, <1>2 DEF Init, TypeOK
<1>4. Alone /\ Fitting
  BY <1>1 DEF Alone, Fitting, Fits, Idle
<1>5. Kinds
  BY <1>2, NoJobIs DEF Kinds, Commands
<1>6. OneGame /\ Builds /\ Uninstalled
  BY DEF Init, OneGame, Builds, Uninstalled, Games
<1>7. DueUnpatched /\ Followed /\ Answered /\ NothingForgotten
  BY DEF Init, DueUnpatched, Followed, Answered, NothingForgotten
<1> QED
  BY <1>3, <1>4, <1>5, <1>6, <1>7 DEF WatchInv

LEMMA Inductive == WatchInv /\ [Next]_vars => WatchInv'
<1> SUFFICES ASSUME WatchInv, [Next]_vars PROVE WatchInv'
  OBVIOUS
<1>1. ASSUME NEW p \in Pids, Launch(p) \/ Beat(p) \/ Quit(p) \/ Reuse(p) PROVE WatchInv'
  BY <1>1, LaunchStep, ProcessMoves DEF Beat, Quit, Reuse
<1>2. CASE Update
  BY <1>2, UpdateStep
<1>3. ASSUME NEW w \in Watchers, Logon(w) \/ LoseEvents(w) PROVE WatchInv'
  BY <1>3, LogonStep, LoseEventsStep
<1>4. ASSUME NEW w \in Watchers, WatcherStep(w) PROVE WatchInv'
  BY <1>4, CheckMutexStep, ScanStep, HeartbeatStep, AwaitExitStep, StartVerifyStep,
     EndVerifyStep, StartRepairStep, EndRepairStep, SubscribeStep, NextEventStep, DieStep
  DEF WatcherStep
<1>5. ASSUME NEW c \in Commands, CommandStep(c) PROVE WatchInv'
  BY <1>5, VerifyStep, InspectInstallStep, TransactStep, StageFilesStep, RegisterStep,
     RunTaskStep, InspectUninstallStep, RestoreStep, UnregisterStep, RemoveFilesStep
  DEF CommandStep
<1>6. ASSUME NEW kind \in {"install", "uninstall"}, TypeCommand(kind) PROVE WatchInv'
  BY <1>6, TypeCommandStep
<1>7. CASE UNCHANGED vars
  BY <1>7
  DEF vars, WatchInv, TypeOK, Alone, Fitting, Fits, Kinds, OneGame, Builds, Uninstalled,
      SomeRepair, DueUnpatched, Followed, Follows, Answered, ChildDone, NothingForgotten,
      Attends, Settling, Repairing
<1> QED
  BY <1>1, <1>2, <1>3, <1>4, <1>5, <1>6, <1>7 DEF Next, Launched

\* In every state of every behaviour the parts of the invariant hold: at most
\* one watchdog is past the mutex, the child a watchdog waits for is its own,
\* and the game that runs while a repair is owed is followed (watchdog_app.cpp:
\* 122-184).
THEOREM WatchInvariant == Spec => []WatchInv
  BY InitInv, Inductive, PTL DEF Spec

\* Watchdogs, their children and the commands keep to their states.
THEOREM TypeCorrect == Spec => []TypeOK
<1>1. WatchInv => TypeOK
  BY DEF WatchInv
<1> QED
  BY <1>1, WatchInvariant, PTL

\* A game that was announced while the package was unpatched is followed up,
\* whatever updates, other games and commands come in between
\* (watchdog_app.cpp:83-110, 168-184).
THEOREM Remembered == Spec => []NothingForgotten
<1>1. WatchInv => NothingForgotten
  BY DEF WatchInv
<1> QED
  BY <1>1, WatchInvariant, PTL

\* An uninstallation that had no repair beside it and completed is not undone
\* (shipping_installer.cpp:303-323, watchdog_app.cpp:44, 61).
THEOREM UninstallationSticks == Spec => []UninstallSticks
<1>1. WatchInv => UninstallSticks
  BY DEF WatchInv, Uninstalled, UninstallSticks
<1> QED
  BY <1>1, WatchInvariant, PTL

=============================================================================
