------------------------------ MODULE Stations ------------------------------
(***************************************************************************)
(* The terminal stations of the missions (terminal.py): one private tmux   *)
(* server per mission, found through its socket and configuration files,   *)
(* and the processes that start, reclaim, stop, attach to and leave it:    *)
(* the controller, the closing of a finished mission's station, stop and   *)
(* stop --force, and an operator's terminal.                               *)
(*                                                                         *)
(* A socket file is known by its identity (device, inode, change time), a  *)
(* number that is never reused; it stays when its server is gone.  Every   *)
(* call of tmux and every unlink is a step.  A call of the backend is a    *)
(* run through the program counters of BackendPCs, after which the caller  *)
(* goes on at ret.                                                         *)
(***************************************************************************)
EXTENDS Integers, FiniteSets

CONSTANTS
    Home,         \* the mission whose station is started and stopped
    Other,        \* a mission to switch to
    Terminals,    \* terminals of the operator
    Mixes,        \* which activities are combined
    MaxServers,   \* bound on socket identities
    MaxFaults,    \* bound on crashes, failing calls and dead servers
    MaxMoves,     \* bound on attaches, detaches and switches
    MaxSeconds,   \* bound on the clock of a watched pane
    IdleSeconds   \* _PROVIDER_PROMPT_IDLE_SECONDS

Missions == {Home, Other}
Servers == 1 .. MaxServers
\* The operator's own tool that has no lock: an attach, a switch or stop --force.
Actors == {"controller", "closer", "user", "force"}

ASSUME StationAssumption ==
    /\ Home # Other
    /\ {MaxServers, MaxFaults, MaxMoves, MaxSeconds, IdleSeconds} \subseteq Nat
    /\ MaxServers >= 2 /\ Terminals # {}     \* both stations may be up, and the operator has a terminal

VARIABLES
    mix,      \* the activities of this behaviour
    sock,     \* identity of every mission's socket file, 0 when there is none
    conf,     \* missions whose tmux configuration file exists
    made,     \* socket identities used so far
    of,       \* the mission a server was started for
    live,     \* servers that accept connections
    dying,    \* servers that were told to exit
    marked,   \* servers that carry the station marker
    pane,     \* servers whose provider pane runs a provider
    tty,      \* the server every terminal is attached to, 0 for its shell
    lock,     \* holder of the controller lock of Home
    mstat,    \* status of Home
    hooks,    \* closers that a detach started and that have not run yet
    at,       \* program counter of every actor
    ret,      \* where a backend call returns to
    tgt,      \* the server an actor acts on: opened, or killed
    had,      \* the files _remove_dead_server_artifacts found
    moves,    \* moves of the terminals so far
    faults,   \* faults so far
    watch,    \* the provider pane as read_native_provider_wait sees it
    home      \* the home screen and the picker, see HomeScreen

files == <<sock, conf, made, of>>
tmux == <<live, dying, marked, pane, tty>>
calls == <<at, ret, tgt, had>>
screens == <<watch, home>>
vars == <<mix, files, tmux, lock, mstat, hooks, calls, moves, faults, screens>>

BackendPCs == {"probe", "relisten", "unlink", "unlinkconf", "sprobe", "kill", "confirm"}
OwnPCs == {"idle", "opened", "check", "write", "spawn", "up", "provider?", "clients?", "done", "raise",
           "attach", "failed", "ended", "detached", "back", "source"}
Files == [sock : BOOLEAN, conf : BOOLEAN]
NoFiles == [sock |-> FALSE, conf |-> FALSE]
NoWatch == [now |-> 0, active |-> 0, screen |-> "work", changed |-> 0,
            seen |-> [epoch |-> -1, screen |-> "work", since |-> 0], waiting |-> FALSE, busy |-> 0 - IdleSeconds]

Absent(m) == sock[m] \notin live
Owned(m) == sock[m] \in live \cap marked
\* The mission an actor works on: the operator's terminal may go to the other one.
MissionOf(a) == IF a = "user" /\ mix = "switch" THEN Other ELSE Home

TypeOK ==
    /\ mix \in Mixes
    /\ sock \in [Missions -> 0 .. MaxServers] /\ conf \subseteq Missions
    /\ made \in 0 .. MaxServers /\ of \in [Servers -> Missions]
    /\ live \subseteq Servers /\ dying \subseteq live /\ marked \subseteq Servers /\ pane \subseteq live
    /\ tty \in [Terminals -> {0} \cup live]
    /\ lock \in Actors \cup {"free"} /\ mstat \in {"running", "done", "stopping", "stopped"}
    /\ hooks \in 0 .. MaxMoves
    /\ at \in [Actors -> BackendPCs \cup OwnPCs] /\ ret \in [Actors -> OwnPCs]
    /\ tgt \in [Actors -> 0 .. MaxServers] /\ had \in [Actors -> Files]
    /\ moves \in 0 .. MaxMoves /\ faults \in 0 .. MaxFaults

Init ==
    /\ mix \in Mixes
    /\ LET up == IF mix = "switch" THEN Missions ELSE IF mix = "watch" THEN {Home} ELSE {} IN
       /\ sock = [m \in Missions |-> IF m \notin up THEN 0 ELSE IF m = Home THEN 1 ELSE 2]
       /\ conf = up
       /\ made = Cardinality(up)
       /\ live = 1 .. Cardinality(up) /\ marked = live
       /\ of = [s \in Servers |-> IF mix = "switch" /\ s = 2 THEN Other ELSE Home]
       /\ tty = [t \in Terminals |-> IF mix = "switch" THEN 1 ELSE 0]
       /\ mstat = IF mix = "switch" THEN "done" ELSE "running"
    /\ dying = {} /\ pane = {}
    /\ lock = "free" /\ hooks = 0
    /\ at = [a \in Actors |-> "idle"] /\ ret = [a \in Actors |-> "idle"]
    /\ tgt = [a \in Actors |-> 0] /\ had = [a \in Actors |-> NoFiles]
    /\ moves = 0 /\ faults = 0 /\ watch = NoWatch

Go(a, pc) == at' = [at EXCEPT ![a] = pc]
\* A backend call from pc on, which continues at back.
Call(a, pc, back) == Go(a, pc) /\ ret' = [ret EXCEPT ![a] = back]
Fault == faults < MaxFaults /\ faults' = faults + 1

-----------------------------------------------------------------------------
(* Finding a station, and removing what a dead one left. *)

\* open_existing: a station that answers, an error, or a dead one to reclaim.
Probe(a) ==
    /\ at[a] = "probe"
    /\ \/ Owned(MissionOf(a)) /\ Go(a, "opened") /\ tgt' = [tgt EXCEPT ![a] = sock[MissionOf(a)]]
       \/ ~Owned(MissionOf(a)) /\ ~Absent(MissionOf(a)) /\ Go(a, "raise") /\ UNCHANGED tgt
       \/ Absent(MissionOf(a)) /\ Go(a, "relisten") /\ UNCHANGED tgt
    /\ UNCHANGED <<mix, files, tmux, lock, mstat, hooks, ret, had, moves, faults, screens>>

\* A query of a live server that times out leaves its state unknown, and nothing is removed.
Unanswered(a) ==
    /\ at[a] \in {"probe", "sprobe"} /\ ~Absent(MissionOf(a))
    /\ Fault /\ Go(a, "raise")
    /\ UNCHANGED <<mix, files, tmux, lock, mstat, hooks, ret, tgt, had, moves, screens>>

\* What _remove_dead_server_artifacts finds before it unlinks.
Found(m) == [sock |-> sock[m] # 0, conf |-> m \in conf]

\* Mutant: the path is not asked again before its files are removed.
RelistenNot(a) ==
    /\ at[a] = "relisten"
    /\ Go(a, "unlink") /\ had' = [had EXCEPT ![a] = Found(MissionOf(a))]
    /\ UNCHANGED <<mix, files, tmux, lock, mstat, hooks, ret, tgt, moves, faults, screens>>

\* reclaim_dead_station asks the path once more; a server that bound it meanwhile is left alone.
Relisten(a) ==
    /\ at[a] = "relisten"
    /\ IF Absent(MissionOf(a))
       THEN Go(a, "unlink") /\ had' = [had EXCEPT ![a] = Found(MissionOf(a))]
       ELSE Go(a, ret[a]) /\ UNCHANGED had
    /\ UNCHANGED <<mix, files, tmux, lock, mstat, hooks, ret, tgt, moves, faults, screens>>

Unlink(a) ==
    /\ at[a] = "unlink" /\ Go(a, "unlinkconf")
    /\ sock' = IF had[a].sock THEN [sock EXCEPT ![MissionOf(a)] = 0] ELSE sock
    /\ UNCHANGED <<mix, conf, made, of, tmux, lock, mstat, hooks, ret, tgt, had, moves, faults, screens>>

UnlinkConf(a) ==
    /\ at[a] = "unlinkconf" /\ Go(a, ret[a])
    /\ conf' = IF had[a].conf THEN conf \ {MissionOf(a)} ELSE conf
    /\ had' = [had EXCEPT ![a] = NoFiles]
    /\ UNCHANGED <<mix, sock, made, of, tmux, lock, mstat, hooks, ret, tgt, moves, faults, screens>>

-----------------------------------------------------------------------------
(* Stopping a station. *)

StopProbe(a) ==
    /\ at[a] = "sprobe"
    /\ \/ Owned(MissionOf(a)) /\ Go(a, "kill") /\ UNCHANGED had
       \/ ~Owned(MissionOf(a)) /\ ~Absent(MissionOf(a)) /\ Go(a, "raise") /\ UNCHANGED had
       \/ Absent(MissionOf(a)) /\ Go(a, "unlink") /\ had' = [had EXCEPT ![a] = Found(MissionOf(a))]
    /\ UNCHANGED <<mix, files, tmux, lock, mstat, hooks, ret, tgt, moves, faults, screens>>

\* kill-server reaches whichever server listens on the path now.
KillServer(a) ==
    /\ at[a] = "kill" /\ Go(a, "confirm")
    /\ tgt' = [tgt EXCEPT ![a] = sock[MissionOf(a)]]
    /\ dying' = dying \cup ({sock[MissionOf(a)]} \cap live)
    /\ UNCHANGED <<mix, files, live, marked, pane, tty, lock, mstat, hooks, ret, had, moves, faults, screens>>

\* Mutant: the files are removed without waiting until the server is gone.
ConfirmNot(a) ==
    /\ at[a] = "confirm"
    /\ Go(a, "unlink") /\ had' = [had EXCEPT ![a] = Found(MissionOf(a))]
    /\ UNCHANGED <<mix, files, tmux, lock, mstat, hooks, ret, tgt, moves, faults, screens>>

\* Polling until the path refuses connections; after two seconds stop fails and keeps the files.
Confirm(a) ==
    /\ at[a] = "confirm"
    /\ \/ Absent(MissionOf(a)) /\ Go(a, "unlink") /\ had' = [had EXCEPT ![a] = Found(MissionOf(a))]
          /\ UNCHANGED faults
       \/ ~Absent(MissionOf(a)) /\ Fault /\ Go(a, "raise") /\ UNCHANGED had
    /\ UNCHANGED <<mix, files, tmux, lock, mstat, hooks, ret, tgt, moves, screens>>

\* The server exits: its terminals return to their shells and its provider is gone.
Gone(s) ==
    /\ live' = live \ {s} /\ dying' = dying \ {s} /\ pane' = pane \ {s}
    /\ tty' = [t \in Terminals |-> IF tty[t] = s THEN 0 ELSE tty[t]]

ServerExits ==
    /\ \E s \in dying : Gone(s)
    /\ UNCHANGED <<mix, files, marked, lock, mstat, hooks, calls, moves, faults, screens>>

ServerDies ==
    /\ Fault /\ \E s \in live \ dying : Gone(s)
    /\ UNCHANGED <<mix, files, marked, lock, mstat, hooks, calls, moves, screens>>

-----------------------------------------------------------------------------
(* The controller of Home, which holds the mission lock for its whole life. *)

Controllers == mix \in {"life", "leave"}

\* run_controller: the lock, then the station an earlier controller left is opened and stopped.
Boot ==
    /\ Controllers /\ at["controller"] = "idle" /\ lock = "free" /\ mstat = "running"
    /\ lock' = "controller"
    /\ IF sock[Home] # 0 THEN Call("controller", "probe", "ended") ELSE Call("controller", "ended", "idle")
    /\ UNCHANGED <<mix, files, tmux, mstat, hooks, tgt, had, moves, faults, screens>>

\* The prior station: stopped, and a new one started.  A dead one was reclaimed by the open.
PriorOpened ==
    /\ at["controller"] = "opened" /\ Call("controller", "sprobe", "ended")
    /\ UNCHANGED <<mix, files, tmux, lock, mstat, hooks, tgt, had, moves, faults, screens>>

\* Recovery done: a mission that is to run gets a station, any other ends here.
StartStation ==
    /\ at["controller"] = "ended"
    /\ IF mstat = "running" THEN Call("controller", "relisten", "check") ELSE Call("controller", "done", "idle")
    /\ UNCHANGED <<mix, files, tmux, lock, mstat, hooks, tgt, had, moves, faults, screens>>

\* start: an existing socket or configuration file is an error, never taken over.
CheckPaths ==
    /\ at["controller"] = "check"
    /\ Go("controller", IF sock[Home] = 0 /\ Home \notin conf THEN "write" ELSE "raise")
    /\ UNCHANGED <<mix, files, tmux, lock, mstat, hooks, ret, tgt, had, moves, faults, screens>>

WriteConfig ==
    /\ at["controller"] = "write" /\ Go("controller", "spawn") /\ conf' = conf \cup {Home}
    /\ UNCHANGED <<mix, sock, made, of, tmux, lock, mstat, hooks, ret, tgt, had, moves, faults, screens>>

\* A fresh socket for m; tmux replaces a file that no server listens on.
Bind(m) == made < MaxServers /\ made' = made + 1 /\ sock' = [sock EXCEPT ![m] = made + 1]
           /\ of' = [of EXCEPT ![made + 1] = m]

\* new-session: the server reads the configuration, which carries the marker, if it is still there.
Spawn ==
    /\ at["controller"] = "spawn" /\ Absent(Home)
    /\ Bind(Home) /\ live' = live \cup {made + 1}
    /\ marked' = IF Home \in conf THEN marked \cup {made + 1} ELSE marked
    /\ \/ Go("controller", "up") /\ UNCHANGED <<ret, faults>>
       \/ Fault /\ Call("controller", "sprobe", "raise")     \* the bindings fail: start stops what it started
    /\ UNCHANGED <<mix, conf, dying, pane, tty, lock, mstat, hooks, tgt, had, moves, screens>>

\* The scheduler runs a provider in the pane of the station.
Launch ==
    /\ at["controller"] = "up" /\ mstat = "running" /\ Owned(Home) /\ sock[Home] \notin pane
    /\ pane' = pane \cup {sock[Home]}
    /\ UNCHANGED <<mix, files, live, dying, marked, tty, lock, mstat, hooks, calls, moves, faults, screens>>

ProviderExits ==
    /\ pane # {} /\ \E s \in pane : pane' = pane \ {s}
    /\ UNCHANGED <<mix, files, live, dying, marked, tty, lock, mstat, hooks, calls, moves, faults, screens>>

\* The mission completes, fails or is stopped: the native provider may still run when it fails or stops.
MissionEnds ==
    /\ at["controller"] = "up" /\ mstat = "running" /\ mstat' \in {"done", "stopping"}
    /\ UNCHANGED <<mix, files, tmux, lock, hooks, calls, moves, faults, screens>>

\* run_controller (finally): a stopped mission's station is stopped, a finished one's closed when unused.
Finally ==
    /\ at["controller"] = "up" /\ mstat # "running"
    /\ IF mstat = "done" THEN Go("controller", "provider?") /\ UNCHANGED ret ELSE Call("controller", "sprobe", "done")
    /\ UNCHANGED <<mix, files, tmux, lock, mstat, hooks, tgt, had, moves, faults, screens>>

Free(a) == lock' = IF lock = a THEN "free" ELSE lock
Rest(a) == Call(a, "idle", "idle") /\ tgt' = [tgt EXCEPT ![a] = 0] /\ had' = [had EXCEPT ![a] = NoFiles]

ControllerEnds ==
    /\ at["controller"] = "done" /\ Rest("controller") /\ Free("controller")
    /\ mstat' = IF mstat = "stopping" THEN "stopped" ELSE mstat
    /\ UNCHANGED <<mix, files, tmux, hooks, moves, faults, screens>>

\* An error of the backend ends the controller, stop and close alike; the files stay for a retry.
Raised(a) ==
    /\ at[a] = "raise" /\ Rest(a) /\ Free(a)
    /\ UNCHANGED <<mix, files, tmux, mstat, hooks, moves, faults, screens>>

\* The kernel frees the lock of a controller that is killed; its station goes on.
ControllerCrashes ==
    /\ at["controller"] # "idle" /\ Fault /\ Rest("controller") /\ Free("controller")
    /\ UNCHANGED <<mix, files, tmux, mstat, hooks, moves, screens>>

-----------------------------------------------------------------------------
(* Closing the station of a finished mission, by its controller or from     *)
(* outside it, and the operator's stop of a finished mission.               *)

\* gc_finished_station: nothing while a controller is active, the mission goes on, or there is no socket.
CloseBegins ==
    /\ at["closer"] = "idle" /\ hooks > 0 /\ hooks' = hooks - 1
    /\ IF lock = "free" /\ mstat = "done" /\ sock[Home] # 0
       THEN lock' = "closer" /\ Call("closer", "probe", "done")
       ELSE UNCHANGED <<lock, at, ret>>
    /\ UNCHANGED <<mix, files, tmux, mstat, tgt, had, moves, faults, screens>>

\* A finished mission is started again by the operator (a task is added or retried).
Reopen ==
    /\ mstat = "done" /\ moves < MaxMoves /\ moves' = moves + 1 /\ mstat' = "running"
    /\ UNCHANGED <<mix, files, tmux, lock, hooks, calls, faults, screens>>

\* close_finished_station keeps a station whose provider runs.
Opened ==
    /\ at["closer"] = "opened"
    /\ Go("closer", IF ret["closer"] = "ended" THEN "sprobe" ELSE "provider?")
    /\ UNCHANGED <<mix, files, tmux, lock, mstat, hooks, ret, tgt, had, moves, faults, screens>>

\* Mutant: a running provider does not keep the station.
AskProviderNot(a) ==
    /\ at[a] = "provider?" /\ Go(a, IF mstat # "done" THEN "done" ELSE "clients?")
    /\ UNCHANGED <<mix, files, tmux, lock, mstat, hooks, ret, tgt, had, moves, faults, screens>>

AskProvider(a) ==
    /\ at[a] = "provider?"
    /\ Go(a, IF mstat # "done" \/ sock[Home] \in pane THEN "done" ELSE "clients?")
    /\ UNCHANGED <<mix, files, tmux, lock, mstat, hooks, ret, tgt, had, moves, faults, screens>>

\* ... or that a terminal is attached to; a station that cannot be asked raises.
AskClients(a) ==
    /\ at[a] = "clients?"
    /\ IF ~Owned(Home) THEN Go(a, "raise") /\ UNCHANGED ret
       ELSE IF \E t \in Terminals : tty[t] = sock[Home] THEN Go(a, "done") /\ UNCHANGED ret
       ELSE Call(a, "sprobe", "done")
    /\ UNCHANGED <<mix, files, tmux, lock, mstat, hooks, tgt, had, moves, faults, screens>>

CloseEnds ==
    /\ at["closer"] \in {"done", "ended"} /\ Rest("closer") /\ Free("closer")
    /\ UNCHANGED <<mix, files, tmux, mstat, hooks, moves, faults, screens>>

\* _stop_terminal_mission_station: waits for the lock, then stops whatever runs.
StopFinished ==
    /\ Controllers /\ at["closer"] = "idle" /\ lock = "free" /\ mstat \in {"done", "stopped"} /\ sock[Home] # 0
    /\ lock' = "closer" /\ Call("closer", "probe", "ended")
    /\ UNCHANGED <<mix, files, tmux, mstat, hooks, tgt, had, moves, faults, screens>>

-----------------------------------------------------------------------------
(* stop --force and the operator's terminal, neither of which has the lock. *)

ForceStop ==
    /\ mix = "life" /\ at["force"] = "idle" /\ mstat = "running" /\ at["controller"] # "idle"
    /\ mstat' = "stopping"
    /\ IF sock[Home] # 0 THEN Call("force", "probe", "ended") ELSE Call("force", "ended", "idle")
    /\ UNCHANGED <<mix, files, tmux, lock, hooks, tgt, had, moves, faults, screens>>

ForceOpened ==
    /\ at["force"] = "opened" /\ Call("force", "sprobe", "ended")
    /\ UNCHANGED <<mix, files, tmux, lock, mstat, hooks, tgt, had, moves, faults, screens>>

\* _force_stop_mission terminates the controller and records STOPPED under the lock it left.
ForceEnds ==
    /\ at["force"] = "ended" /\ mstat' = IF mstat = "stopping" THEN "stopped" ELSE mstat
    /\ lock \in {"free", "controller"} /\ lock' = "free"
    /\ at' = [at EXCEPT !["force"] = "idle", !["controller"] = "idle"]
    /\ ret' = [ret EXCEPT !["force"] = "idle", !["controller"] = "idle"]
    /\ tgt' = [tgt EXCEPT !["force"] = 0, !["controller"] = 0]
    /\ had' = [had EXCEPT !["force"] = NoFiles, !["controller"] = NoFiles]
    /\ UNCHANGED <<mix, files, tmux, hooks, moves, faults, screens>>

Move == moves < MaxMoves /\ moves' = moves + 1
\* The terminal at which the operator's own tool runs.
Seat == CHOOSE t \in Terminals : TRUE

\* llm-bridge attach, Enter on a live mission of the home screen, or the picker outside a station.
Attach ==
    /\ mix \in {"life", "leave"} /\ at["user"] = "idle" /\ tty[Seat] = 0 /\ sock[Home] # 0
    /\ Move /\ Call("user", "probe", "idle")
    /\ UNCHANGED <<mix, files, tmux, lock, mstat, hooks, tgt, had, faults, screens>>

AttachOpened ==
    /\ at["user"] = "opened" /\ mix # "switch"
    /\ Go("user", IF Owned(Home) THEN "attach" ELSE "raise")
    /\ UNCHANGED <<mix, files, tmux, lock, mstat, hooks, ret, tgt, had, moves, faults, screens>>

\* attach-session starts a server when nothing listens: it exits at once and leaves a dead socket.
AttachSession(m, then, else) ==
    IF Absent(m)
    THEN /\ Bind(m) /\ Go("user", else) /\ UNCHANGED tty
    ELSE /\ tty' = [tty EXCEPT ![Seat] = sock[m]] /\ Go("user", then) /\ UNCHANGED <<sock, made, of>>

AttachRuns ==
    /\ at["user"] = "attach" /\ mix # "switch"
    /\ AttachSession(Home, "idle", "failed")
    /\ UNCHANGED <<mix, conf, live, dying, marked, pane, lock, mstat, hooks, ret, tgt, had, moves, faults, screens>>

\* _reclaim_after_failed_attach: only under the mission lock, and not at all when it is busy.
ReclaimAttach ==
    /\ at["user"] = "failed"
    /\ IF lock = "free" THEN lock' = "user" /\ Call("user", "relisten", "done")
                        ELSE UNCHANGED lock /\ Call("user", "done", "idle")
    /\ UNCHANGED <<mix, files, tmux, mstat, hooks, tgt, had, moves, faults, screens>>

AttachEnds ==
    /\ at["user"] = "done" /\ Rest("user") /\ Free("user")
    /\ UNCHANGED <<mix, files, tmux, mstat, hooks, moves, faults, screens>>

\* Ctrl-] d: the terminal returns to its shell and the station's hook starts a closer.
Detach ==
    /\ Controllers /\ Move /\ \E t \in Terminals : tty[t] # 0 /\ tty' = [tty EXCEPT ![t] = 0]
               /\ hooks' = IF of[tty[t]] = Home /\ hooks < MaxMoves THEN hooks + 1 ELSE hooks
    /\ at["user"] = "idle"
    /\ UNCHANGED <<mix, files, live, dying, marked, pane, lock, mstat, calls, faults, screens>>

-----------------------------------------------------------------------------
(* Moving a terminal from one station to another. *)

\* The picker or a console of Home: the destination is opened first.
Switch ==
    /\ mix = "switch" /\ at["user"] = "idle" /\ tty[Seat] # 0 /\ of[tty[Seat]] = Home /\ sock[Other] # 0
    /\ Move /\ Call("user", "probe", "idle")
    /\ UNCHANGED <<mix, files, tmux, lock, mstat, hooks, tgt, had, faults, screens>>

\* switch_client_to: both stations verified, the client detached with the command that moves it.
SwitchOpened ==
    /\ at["user"] = "opened" /\ mix = "switch"
    /\ IF Owned(Home) /\ Owned(Other) /\ tty[Seat] = sock[Home]
       THEN Go("user", "detached") /\ tty' = [tty EXCEPT ![Seat] = 0]
            /\ hooks' = IF hooks < MaxMoves THEN hooks + 1 ELSE hooks
       ELSE Go("user", "raise") /\ UNCHANGED <<tty, hooks>>
    /\ tgt' = [tgt EXCEPT !["user"] = 0]
    /\ UNCHANGED <<mix, files, live, dying, marked, pane, lock, mstat, ret, had, moves, faults, screens>>

\* Mutant: a destination that is gone leaves the terminal where it is.
HasDestinationOnly ==
    /\ at["user"] = "detached" /\ Go("user", IF Absent(Other) THEN "idle" ELSE "attach")
    /\ UNCHANGED <<mix, files, tmux, lock, mstat, hooks, ret, tgt, had, moves, faults, screens>>

\* has-session never starts a server; without the destination the source is tried.
HasDestination ==
    /\ at["user"] = "detached" /\ Go("user", IF Absent(Other) THEN "back" ELSE "attach")
    /\ UNCHANGED <<mix, files, tmux, lock, mstat, hooks, ret, tgt, had, moves, faults, screens>>

AttachDestination ==
    /\ at["user"] = "attach" /\ mix = "switch"
    /\ AttachSession(Other, "idle", "back")
    /\ tgt' = [tgt EXCEPT !["user"] = IF Absent(Other) THEN 0 ELSE sock[Other]]
    /\ UNCHANGED <<mix, conf, live, dying, marked, pane, lock, mstat, hooks, ret, had, moves, faults, screens>>

HasSource ==
    /\ at["user"] = "back" /\ Go("user", IF Absent(Home) THEN "idle" ELSE "source")
    /\ UNCHANGED <<mix, files, tmux, lock, mstat, hooks, ret, tgt, had, moves, faults, screens>>

AttachSource ==
    /\ at["user"] = "source"
    /\ AttachSession(Home, "idle", "idle")
    /\ UNCHANGED <<mix, conf, live, dying, marked, pane, lock, mstat, hooks, ret, tgt, had, moves, faults, screens>>

-----------------------------------------------------------------------------
(* Watching the provider pane for a prompt that waits for the operator.     *)

Watched == mix = "watch" /\ live # {}

\* tmux keeps the second of the last output of the window, which the Bridge pane shares.
Output ==
    /\ Watched /\ \E x \in {"prompt", "question", "work"} :
        watch' = [watch EXCEPT !.active = watch.now, !.screen = x, !.waiting = FALSE,
                               !.changed = IF x = watch.screen THEN watch.changed ELSE watch.now]
    /\ UNCHANGED <<mix, files, tmux, lock, mstat, hooks, calls, moves, faults, home>>

BridgeOutput ==
    /\ Watched /\ watch' = [watch EXCEPT !.active = watch.now, !.waiting = FALSE]
    /\ UNCHANGED <<mix, files, tmux, lock, mstat, hooks, calls, moves, faults, home>>

Second ==
    /\ Watched /\ watch.now < MaxSeconds /\ watch' = [watch EXCEPT !.now = @ + 1, !.waiting = FALSE]
    /\ UNCHANGED <<mix, files, tmux, lock, mstat, hooks, calls, moves, faults, home>>

\* Mutant: the screen of a moved epoch counts as unchanged.
SampleKeeps(w) ==
    LET screen == IF w.active # w.seen.epoch THEN w.screen ELSE w.seen.screen IN
    [epoch |-> w.active, screen |-> screen, since |-> IF w.seen.epoch = -1 THEN w.now ELSE w.seen.since]

\* pane_activity_screen and the cache: captured only when the epoch moved; since when it is unchanged.
Sample(w) ==
    LET screen == IF w.active # w.seen.epoch THEN w.screen ELSE w.seen.screen IN
    [epoch |-> w.active, screen |-> screen,
     since |-> IF w.seen.epoch = -1 \/ screen # w.seen.screen THEN w.now ELSE w.seen.since]

\* read_native_provider_wait: a prompt that stayed for IdleSeconds, or a question with its options,
\* which needs no timer; a pane that cannot be read is forgotten.
ReadWait ==
    /\ mix = "watch"
    /\ watch' = IF Owned(Home)
                THEN LET s == Sample(watch) IN
                     [watch EXCEPT !.seen = s, !.busy = IF s.screen # "prompt" THEN watch.now ELSE @,
                                    !.waiting = \/ s.screen = "question"
                                                \/ s.screen = "prompt" /\ watch.now - s.since >= IdleSeconds]
                ELSE [watch EXCEPT !.seen = NoWatch.seen, !.waiting = FALSE]
    /\ UNCHANGED <<mix, files, tmux, lock, mstat, hooks, calls, moves, faults, home>>

-----------------------------------------------------------------------------
(* What the stations promise. *)

\* The socket of a live server is never unlinked by a process that holds the mission lock, whatever
\* the others do (reclaim_dead_station and stop under the lock, _reclaim_after_failed_attach).
LockKeepsLiveSockets ==
    [][\A a \in Actors : (lock = a /\ at[a] = "unlink" /\ at'[a] # "unlink") => (sock'[Home] = 0 => Absent(Home))]_vars

\* A finished mission's station is closed only when no provider runs in it: the lock keeps a
\* controller that is started again from launching one (close_finished_station).
CloseSparesProvider ==
    (at["closer"] \in {"clients?", "sprobe", "kill"} /\ ret["closer"] # "ended") => sock[Home] \notin pane

\* The files a stop removes are never those of the server it told to exit while that still runs:
\* teardown is proven first, or another process had unlinked the socket already (stop).
StopIsProven ==
    \A a \in Actors : (at[a] \in {"unlink", "unlinkconf"} /\ tgt[a] \in dying) => sock[MissionOf(a)] # tgt[a]

\* A terminal that is moved ends at its shell only if its source is gone or it had arrived (switch_client_to).
SwitchKeepsTerminal ==
    (mix = "switch" /\ at["user"] = "idle" /\ tty[Seat] = 0) => 1 \notin live \/ tgt["user"] = 2

\* No process costs another one its server: not the one that stops or closes a station, not a switch.
NobodyIsCutOff == StopIsProven /\ CloseSparesProvider /\ SwitchKeepsTerminal

\* A wait is reported only while the prompt or question it saw is on the screen, but for output in
\* the very second of the last capture, which tmux's activity clock cannot tell apart; without a
\* question, only when no read of the last IdleSeconds found anything else (read_native_provider_wait).
WaitIsSeen ==
    watch.waiting =>
        /\ watch.screen = watch.seen.screen \/ watch.changed = watch.seen.epoch
        /\ watch.seen.screen = "question" \/ watch.now - watch.busy >= IdleSeconds

=============================================================================
