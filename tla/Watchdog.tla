------------------------------ MODULE Watchdog ------------------------------
(***************************************************************************)
(* The watchdog (watchdog_app.cpp), the task that starts it                *)
(* (watchdog_task.cpp), the verifications and repairs it starts, the       *)
(* user's own commands (shipping_installer.cpp) and the game, whose proxy  *)
(* tells by an event that it was loaded (runtime_proxy.cpp).               *)
(*                                                                         *)
(* A transaction is one step: what it does to the files, and that two of   *)
(* them must not overlap, is DirectTransaction's and Deployment's subject. *)
(* It fails while the game runs, which has the files open.                 *)
(***************************************************************************)
EXTENDS Naturals, Sequences

CONSTANTS
    Pids,         \* process identifiers the game may be given
    Watchers,     \* processes of MCFIXWatchdog.exe
    Jobs,         \* child processes of the watchdogs
    User,         \* the process of a command the user typed
    Nobody,       \* no process
    MaxEvents     \* bound: process-start events waiting

ASSUME NobodyElse == Nobody \notin Pids \cup Watchers \cup Jobs
ASSUME UserElse == User \notin Jobs

VARIABLES
    process,      \* what has each identifier
    patched,      \* the package holds the proxy and the patch
    files,        \* the durable Patcher.exe and its payloads are there
    registered,   \* the scheduled task
    active,       \* the watchdog the Task Scheduler knows to run
    watcher,      \* each watchdog
    job,          \* each command
    due,          \* history: a repair is owed
    uninstall     \* history: what came of the user's uninstallation

vars == <<process, patched, files, registered, active, watcher, job, due, uninstall>>
world == <<process, patched, files, registered, active, job, uninstall>>

Games == {"plain", "loading", "beating"}
Commands == Jobs \cup {User}
Observing == {"heartbeat", "exit", "verify", "verifying", "repair", "repairing"}
Started == {"scan", "subscribe", "wait"} \cup Observing

Blank(step) ==
    [pc |-> step, target |-> Nobody, child |-> Nobody, subscribed |-> FALSE, events |-> <<>>]
NoWatcher == Blank("none")
NoJob == [kind |-> "none", step |-> "free", by |-> Nobody, healthy |-> TRUE]

WatcherStates ==
    [pc : {"none", "mutex", "dying"} \cup Started, target : Pids \cup {Nobody},
     child : Jobs \cup {Nobody}, subscribed : BOOLEAN, events : Seq(Pids)]
JobSteps ==
    {"free", "inspect", "transaction", "files", "register", "run", "unregister", "remove",
     "exited"}
JobStates ==
    [kind : {"none", "verify", "repair", "install", "uninstall"}, step : JobSteps,
     by : Watchers \cup {Nobody}, healthy : BOOLEAN]

TypeOK ==
    /\ process \in [Pids -> {"none", "other"} \cup Games]
    /\ patched \in BOOLEAN
    /\ files \in BOOLEAN
    /\ registered \in BOOLEAN
    /\ active \in Watchers \cup {Nobody}
    /\ watcher \in [Watchers -> WatcherStates]
    /\ job \in [Commands -> JobStates]
    /\ due \in BOOLEAN
    /\ uninstall \in {"none", "alone", "shared", "complete"}

\* An installation a user has made.
Init ==
    /\ process = [p \in Pids |-> "none"]
    /\ patched = TRUE
    /\ files = TRUE
    /\ registered = TRUE
    /\ active = Nobody
    /\ watcher = [w \in Watchers |-> NoWatcher]
    /\ job = [c \in Commands |-> NoJob]
    /\ due = FALSE
    /\ uninstall = "none"

-----------------------------------------------------------------------------
(* The game and its processes.                                             *)

\* GameLaunchHelper.exe and a snapshot that fails count as a running game too:
\* either is a refusal, which every command can meet at any time.
Running == {p \in Pids : process[p] \in Games}

\* A watchdog that waits for a process has a handle on it.
Held(p) == \E w \in Watchers : watcher[w].pc = "exit" /\ watcher[w].target = p

Hears(w) == watcher[w].subscribed /\ watcher[w].pc # "dying"

\* Mutant: the event is taken for the name of the process, not its identifier.
LaunchNaming(p) ==
    /\ process[p] = "none" /\ ~Held(p)
    /\ Running = {}
    /\ \A w \in Watchers : Len(watcher[w].events) < MaxEvents
    /\ process' = [process EXCEPT ![p] = IF patched THEN "loading" ELSE "plain"]
    /\ watcher' = [w \in Watchers |->
                     IF Hears(w) THEN [watcher[w] EXCEPT !.events = Append(@, process'[p])]
                                 ELSE watcher[w]]
    /\ due' = ((due \/ ~patched) /\ \E w \in Watchers : Hears(w))
    /\ UNCHANGED <<patched, files, registered, active, job, uninstall>>

\* One game at a time.  A game that starts before the subscription is nobody's,
\* however much else a watchdog has in hand.
Launch(p) ==
    /\ process[p] = "none" /\ ~Held(p)
    /\ Running = {}
    /\ \A w \in Watchers : Len(watcher[w].events) < MaxEvents
    /\ process' = [process EXCEPT ![p] = IF patched THEN "loading" ELSE "plain"]
    /\ watcher' = [w \in Watchers |->
                     IF Hears(w) THEN [watcher[w] EXCEPT !.events = Append(@, p)]
                                 ELSE watcher[w]]
    /\ due' = ((due \/ ~patched) /\ \E w \in Watchers : Hears(w))
    /\ UNCHANGED <<patched, files, registered, active, job, uninstall>>

\* load_camera_patch: the event first, then the patch.
Beat(p) ==
    /\ process[p] = "loading"
    /\ process' = [process EXCEPT ![p] = "beating"]
    /\ UNCHANGED <<patched, files, registered, active, watcher, job, due, uninstall>>

Quit(p) ==
    /\ process[p] # "none"
    /\ process' = [process EXCEPT ![p] = "none"]
    /\ UNCHANGED <<patched, files, registered, active, watcher, job, due, uninstall>>

\* Another program gets the identifier of a game that ended.
Reuse(p) ==
    /\ process[p] = "none" /\ ~Held(p)
    /\ process' = [process EXCEPT ![p] = "other"]
    /\ UNCHANGED <<patched, files, registered, active, watcher, job, due, uninstall>>

\* The Store replaces the package.
Update ==
    /\ patched
    /\ Running = {}
    /\ patched' = FALSE
    /\ UNCHANGED <<process, files, registered, active, watcher, job, due, uninstall>>

-----------------------------------------------------------------------------
(* wWinMain of the watchdog.                                               *)

Becomes(w, state) == watcher' = [watcher EXCEPT ![w] = state]
At(w, step) == [watcher[w] EXCEPT !.pc = step]
Done(w) == [watcher[w] EXCEPT !.pc = IF watcher[w].subscribed THEN "wait" ELSE "subscribe",
                              !.target = Nobody, !.child = Nobody]

\* A failure nobody makes up for: what was owed is no longer expected.
Forgiven == due' = FALSE

\* One process is as good as another.
FreeWatcher(w) == w = CHOOSE o \in Watchers : watcher[o].pc = "none"
FreeJob(j) == j = CHOOSE i \in Jobs : job[i].step = "free"

\* The task starts a watchdog, at logon or on demand, unless it knows of one.
StartTask(w) ==
    /\ registered /\ files
    /\ active = Nobody
    /\ watcher[w].pc = "none" /\ FreeWatcher(w)
    /\ active' = w
    /\ Becomes(w, Blank("mutex"))

Logon(w) ==
    /\ StartTask(w)
    /\ UNCHANGED <<process, patched, files, registered, job, due, uninstall>>

Ends(w) ==
    /\ Becomes(w, NoWatcher)
    /\ active' = IF active = w THEN Nobody ELSE active

\* The mutex exists while any watchdog that got past here has it open.
CheckMutex(w) ==
    /\ watcher[w].pc = "mutex"
    /\ IF \E o \in Watchers \ {w} : watcher[o].pc \notin {"none", "mutex"}
       THEN Ends(w)
       ELSE Becomes(w, At(w, "scan")) /\ UNCHANGED active
    /\ UNCHANGED <<process, patched, files, registered, job, due, uninstall>>

\* running_minecraft_pid: the game's, or none when there is none or the
\* snapshot fails.
Scan(w) ==
    /\ watcher[w].pc = "scan"
    /\ \/ \E p \in Running :
            /\ Becomes(w, [At(w, "heartbeat") EXCEPT !.target = p])
            /\ due' = (due \/ process[p] = "plain")
       \/ Becomes(w, At(w, "subscribe")) /\ UNCHANGED due
    /\ UNCHANGED world

Target(w) == process[watcher[w].target]

\* The system refuses a handle on the process, or it is gone.  A game that
\* cannot be opened, another user's say, is not waited for: the repair comes
\* while it runs, and is refused.
NoHandle(w) ==
    /\ Becomes(w, At(w, "verify"))
    /\ due' = (due /\ Target(w) \notin Games)

\* Mutant: fifteen seconds without the event pass for health.
HeartbeatPatient(w) ==
    /\ watcher[w].pc = "heartbeat"
    /\ \/ Becomes(w, Done(w)) /\ UNCHANGED due
       \/ NoHandle(w)
    /\ UNCHANGED world

\* Mutant: the event is awaited without end, and without a look at the process.
HeartbeatForever(w) ==
    /\ watcher[w].pc = "heartbeat"
    /\ Target(w) = "beating"
    /\ Becomes(w, Done(w))
    /\ UNCHANGED <<world, due>>

\* wait_for_heartbeat: the event, or the end of the process, or the end of
\* patience, which a game of another session comes to with its event; then a
\* handle on whatever has the identifier now.
Heartbeat(w) ==
    /\ watcher[w].pc = "heartbeat"
    /\ \/ Target(w) = "beating" /\ Becomes(w, Done(w)) /\ UNCHANGED due
       \/ Target(w) # "none" /\ Becomes(w, At(w, "exit")) /\ UNCHANGED due
       \/ NoHandle(w)
    /\ UNCHANGED world

AwaitExit(w) ==
    /\ watcher[w].pc = "exit"
    /\ process[watcher[w].target] = "none"
    /\ Becomes(w, At(w, "verify"))
    /\ UNCHANGED <<world, due>>

\* CreateProcessW of the sibling Patcher.exe.
Spawn(w, kind, step) ==
    \E j \in Jobs :
        /\ job[j].step = "free" /\ FreeJob(j)
        /\ job' = [job EXCEPT ![j] = [kind |-> kind, step |-> "inspect", by |-> w,
                                      healthy |-> TRUE]]
        /\ Becomes(w, [At(w, step) EXCEPT !.child = j])

\* install_is_healthy: without Patcher.exe, without a process, or without an
\* answer in time the installation is taken to be healthy.
StartVerify(w) ==
    /\ watcher[w].pc = "verify"
    /\ \/ files /\ Spawn(w, "verify", "verifying") /\ UNCHANGED due
       \/ Becomes(w, Done(w)) /\ Forgiven /\ UNCHANGED job
    /\ UNCHANGED <<process, patched, files, registered, active, uninstall>>

Child(w) == job[watcher[w].child]
Collect(w) == job' = [job EXCEPT ![watcher[w].child] = NoJob]
Abandon(w) == job' = [job EXCEPT ![watcher[w].child].by = Nobody]

EndVerify(w) ==
    /\ watcher[w].pc = "verifying"
    /\ \/ /\ Child(w).step = "exited"
          /\ Collect(w)
          /\ Becomes(w, IF Child(w).healthy THEN Done(w)
                        ELSE [At(w, "repair") EXCEPT !.child = Nobody])
          /\ UNCHANGED due
       \/ /\ Child(w).step # "exited"
          /\ Abandon(w)
          /\ Becomes(w, Done(w))
          /\ Forgiven
    /\ UNCHANGED <<process, patched, files, registered, active, uninstall>>

\* run_silent_repair.
StartRepair(w) ==
    /\ watcher[w].pc = "repair"
    /\ \/ /\ files
          /\ Spawn(w, "repair", "repairing")
          /\ uninstall' = IF uninstall = "alone" THEN "shared" ELSE uninstall
          /\ UNCHANGED due
       \/ /\ Becomes(w, Done(w))
          /\ Forgiven
          /\ UNCHANGED <<job, uninstall>>
    /\ UNCHANGED <<process, patched, files, registered, active>>

\* After sixty seconds the repair goes on alone.
EndRepair(w) ==
    /\ watcher[w].pc = "repairing"
    /\ IF Child(w).step = "exited" THEN Collect(w) ELSE Abandon(w)
    /\ Becomes(w, Done(w))
    /\ UNCHANGED <<process, patched, files, registered, active, due, uninstall>>

Subscribe(w) ==
    /\ watcher[w].pc = "subscribe"
    /\ \/ /\ Becomes(w, [At(w, "wait") EXCEPT !.subscribed = TRUE])
          /\ UNCHANGED <<active, due>>
       \/ Ends(w) /\ Forgiven
    /\ UNCHANGED <<process, patched, files, registered, job, uninstall>>

\* An event without a readable identifier is passed over.
NextEvent(w) ==
    /\ watcher[w].pc = "wait"
    /\ watcher[w].events # <<>>
    /\ \/ /\ Becomes(w, [At(w, "heartbeat") EXCEPT !.target = Head(watcher[w].events),
                                                   !.events = Tail(@)])
          /\ UNCHANGED due
       \/ /\ Becomes(w, [watcher[w] EXCEPT !.events = Tail(@)])
          /\ due' = (due /\ Tail(watcher[w].events) # <<>>)
    /\ UNCHANGED world

\* The subscription breaks.
LoseEvents(w) ==
    /\ watcher[w].pc = "wait"
    /\ Ends(w)
    /\ Forgiven
    /\ UNCHANGED <<process, patched, files, registered, job, uninstall>>

\* A watchdog that was stopped holds its mutex until it is gone.
Die(w) ==
    /\ watcher[w].pc = "dying"
    /\ Becomes(w, NoWatcher)
    /\ UNCHANGED <<world, due>>

WatcherStep(w) ==
    \/ CheckMutex(w) \/ Scan(w) \/ Heartbeat(w) \/ AwaitExit(w) \/ StartVerify(w)
    \/ EndVerify(w) \/ StartRepair(w) \/ EndRepair(w) \/ Subscribe(w) \/ NextEvent(w)
    \/ Die(w)

-----------------------------------------------------------------------------
(* The commands.                                                           *)

Step(c, step) == job' = [job EXCEPT ![c].step = step]
Exit(c, healthy) ==
    job' = [job EXCEPT ![c] = IF @.by = Nobody THEN NoJob
                              ELSE [@ EXCEPT !.step = "exited", !.healthy = healthy]]

Repairing(c) == job[c].kind \in {"repair", "install"}
SomeRepair == \E j \in Jobs : job[j].kind = "repair" /\ job[j].step # "exited"

\* The user types one command at a time.
TypeCommand(kind) ==
    /\ job[User].step = "free"
    /\ job' = [job EXCEPT ![User] = [NoJob EXCEPT !.kind = kind, !.step = "inspect"]]
    /\ uninstall' = IF kind = "install" THEN "none" ELSE IF SomeRepair THEN "shared" ELSE "alone"
    /\ UNCHANGED <<process, patched, files, registered, active, watcher, due>>

\* shipping_status with verify_only: anything but a healthy layout, a running
\* game and any error included, is not healthy.
Verify(c) ==
    /\ job[c].kind = "verify"
    /\ job[c].step = "inspect"
    /\ \E sound \in BOOLEAN : Exit(c, sound /\ patched /\ Running = {})
    /\ UNCHANGED <<process, patched, files, registered, active, watcher, due, uninstall>>

\* A command refused because the game runs leaves the repair to that game.
Refuse(c) ==
    /\ Exit(c, FALSE)
    /\ due' = (due /\ Running # {})

\* shipping_install as far as the transaction.  Any failure ends it.
InspectInstall(c) ==
    /\ Repairing(c)
    /\ job[c].step = "inspect"
    /\ \/ Refuse(c)
       \/ /\ Running = {}
          /\ job[c].kind = "install" \/ files
          /\ Step(c, IF patched THEN "files" ELSE "transaction")
          /\ UNCHANGED due
    /\ UNCHANGED <<process, patched, files, registered, active, watcher, uninstall>>

Transact(c) ==
    /\ Repairing(c)
    /\ job[c].step = "transaction"
    /\ \/ Refuse(c) /\ UNCHANGED patched
       \/ /\ Running = {}
          /\ patched' = TRUE
          /\ Step(c, "files")
          /\ due' = FALSE
    /\ UNCHANGED <<process, files, registered, active, watcher, uninstall>>

StageFiles(c) ==
    /\ Repairing(c)
    /\ job[c].step = "files"
    /\ \/ files' = TRUE /\ Step(c, "register")
       \/ Exit(c, FALSE) /\ UNCHANGED files
    /\ UNCHANGED <<process, patched, registered, active, watcher, due, uninstall>>

\* Stop ends the watchdog the task knows of; what it had not seen to is lost.
\* Whether its child ends with it is not the program's to say.
Stop(c, after) ==
    IF active = Nobody
    THEN /\ job' = [job EXCEPT ![c] = after]
         /\ UNCHANGED <<active, watcher, due>>
    ELSE LET child == watcher[active].child
             left == [job EXCEPT ![c] = after]
         IN /\ Becomes(active, Blank("dying"))
            /\ active' = Nobody
            /\ Forgiven
            /\ IF child = Nobody
               THEN job' = left
               ELSE \/ job' = [left EXCEPT ![child] = NoJob]
                    \/ job' = [left EXCEPT ![child] =
                                 IF @.step = "exited" THEN NoJob ELSE [@ EXCEPT !.by = Nobody]]

\* register_and_start_watchdog_task, up to its wait for the old watchdog.
Register(c) ==
    /\ Repairing(c)
    /\ job[c].step = "register"
    /\ \/ registered' = TRUE /\ Stop(c, [job[c] EXCEPT !.step = "run"])
       \/ /\ Exit(c, FALSE)
          /\ registered' \in {registered, TRUE}
          /\ UNCHANGED <<active, watcher, due>>
    /\ UNCHANGED <<process, patched, files, uninstall>>

\* The old watchdog may still be there when the new one is started.
RunTask(c) ==
    /\ Repairing(c)
    /\ job[c].step = "run"
    /\ Exit(c, TRUE)
    /\ \/ \E w \in Watchers : StartTask(w)
       \/ UNCHANGED <<active, watcher>>
    /\ UNCHANGED <<process, patched, files, registered, due, uninstall>>

\* shipping_uninstall.
GiveUp(c) ==
    /\ Exit(c, FALSE)
    /\ uninstall' = "none"

InspectUninstall(c) ==
    /\ job[c].kind = "uninstall"
    /\ job[c].step = "inspect"
    /\ \/ GiveUp(c)
       \/ Running = {} /\ Step(c, "transaction") /\ UNCHANGED uninstall
    /\ UNCHANGED <<process, patched, files, registered, active, watcher, due>>

\* Mutant: a transaction that failed does not end the command.
RestoreAnyway(c) ==
    /\ job[c].kind = "uninstall"
    /\ job[c].step = "transaction"
    /\ \/ UNCHANGED patched
       \/ Running = {} /\ patched' = FALSE
    /\ Step(c, "unregister")
    /\ Forgiven
    /\ UNCHANGED <<process, files, registered, active, watcher, uninstall>>

Restore(c) ==
    /\ job[c].kind = "uninstall"
    /\ job[c].step = "transaction"
    /\ \/ GiveUp(c) /\ UNCHANGED <<patched, due>>
       \/ /\ Running = {}
          /\ patched' = FALSE
          /\ Step(c, "unregister")
          /\ Forgiven
          /\ UNCHANGED uninstall
    /\ UNCHANGED <<process, files, registered, active, watcher>>

\* remove_watchdog_task and the removal of the files do what they can.
Unregister(c) ==
    /\ job[c].kind = "uninstall"
    /\ job[c].step = "unregister"
    /\ registered' \in {registered, FALSE}
    /\ \/ Stop(c, [job[c] EXCEPT !.step = "remove"])
       \/ Step(c, "remove") /\ UNCHANGED <<active, watcher, due>>
    /\ UNCHANGED <<process, patched, files, uninstall>>

RemoveFiles(c) ==
    /\ job[c].kind = "uninstall"
    /\ job[c].step = "remove"
    /\ files' \in {files, FALSE}
    /\ uninstall' = IF uninstall = "alone" /\ ~files' /\ ~registered THEN "complete" ELSE "none"
    /\ Exit(c, TRUE)
    /\ UNCHANGED <<process, patched, registered, active, watcher, due>>

CommandStep(c) ==
    \/ Verify(c)
    \/ InspectInstall(c) \/ Transact(c) \/ StageFiles(c) \/ Register(c) \/ RunTask(c)
    \/ InspectUninstall(c) \/ Restore(c) \/ Unregister(c) \/ RemoveFiles(c)

-----------------------------------------------------------------------------

Launched == \E p \in Pids : Launch(p)

Next ==
    \/ Launched
    \/ \E p \in Pids : Beat(p) \/ Quit(p) \/ Reuse(p)
    \/ Update
    \/ \E w \in Watchers : Logon(w) \/ WatcherStep(w) \/ LoseEvents(w)
    \/ \E c \in Commands : CommandStep(c)
    \/ \E kind \in {"install", "uninstall"} : TypeCommand(kind)

Spec == Init /\ [][Next]_vars

\* Processes are scheduled, and every program ends some day.
LiveSpec ==
    /\ Spec
    /\ \A p \in Pids : WF_vars(Quit(p))
    /\ \A w \in Watchers : WF_vars(WatcherStep(w))
    /\ \A c \in Commands : WF_vars(CommandStep(c))

-----------------------------------------------------------------------------
(* Properties.                                                             *)

Attends(w) == watcher[w].pc \in Observing \/ watcher[w].events # <<>>

Settling(c) == Repairing(c) /\ job[c].step \in {"inspect", "transaction"}

\* A game that was announced while the package was unpatched is followed up:
\* until the repair is made, a watchdog has the game in its queue or under
\* observation, or a repair is before its transaction.  What ends the promise
\* without a repair is in the actions, at Forgiven and due': a call of the
\* system that fails, or a command that takes the watchdog's place.  Among them
\* are the game that cannot be opened and the event that cannot be read
\* (watchdog_app.cpp:83-110, 168-184).
NothingForgotten ==
    due => (\E w \in Watchers : Attends(w)) \/ (\E c \in Commands : Settling(c))

\* An uninstallation that ran to its end with no repair beside it, and removed
\* what it was to remove, is not undone, whatever watchdogs and verifications
\* it left behind (shipping_installer.cpp:303-323, watchdog_app.cpp:44, 61).
UninstallSticks == uninstall = "complete" => ~patched /\ ~files /\ ~registered

\* When games are no longer started, what is owed is repaired, or one of the
\* calls on which the program gives it up has failed: a watchdog never waits
\* for ever, not for a child that stops it nor for the mutex of one that
\* is gone (watchdog_app.cpp:50-57, 101-110, watchdog_task.cpp:196-222).
DueIsSettled == <>[][~Launched]_vars => (due ~> ~due)

=============================================================================
