----------------------------- MODULE HomeProofs -----------------------------
(* Proofs about what an operator has in front of them, for every instance.     *)
(*  1. Stations, for every number of missions, terminals and tmux servers:     *)
(*     nobody is cut off, and the lock keeps the sockets of live servers.      *)
(*  2. The watched pane and the home screen, for every list of missions: a     *)
(*     wait that is reported is one, and a reload is harmless.                 *)
(*  3. NativeSessions, for every number of sessions, files and processes: a    *)
(*     session that is saved or confirmed is the mission's own.                *)
EXTENDS HomeScreen, NativeSessions, FiniteSetTheorems, TLAPS

-----------------------------------------------------------------------------
(* 1. Stations *)

-----------------------------------------------------------------------------
(* The inductive invariant *)

PCs == BackendPCs \cup OwnPCs

ServerTypes ==
  /\ made \in Nat /\ made <= MaxServers /\ (mix = "switch" => made >= 2)
  /\ sock \in [Missions -> 0 .. made] /\ of \in [Servers -> Missions]
  /\ live \subseteq 1 .. made /\ dying \subseteq live /\ pane \subseteq live
  /\ tty \in [Terminals -> 0 .. made] /\ tgt \in [Actors -> 0 .. made]

ControlTypes ==
  /\ at \in [Actors -> PCs] /\ ret \in [Actors -> OwnPCs]
  /\ had \in [Actors -> Files] /\ lock \in Actors \cup {"free"}

\* A controller and a closer that are at work hold the lock.
LockIsHeld ==
  /\ at["controller"] # "idle" => lock = "controller"
  /\ at["closer"] # "idle" => lock = "closer"

\* Who holds the lock unlinks the socket of a server that is gone.
UnlinksDead == \A a \in Actors : at[a] = "unlink" /\ lock = a /\ MissionOf(a) = Home => Absent(Home)

\* The socket an actor unlinks is not that of the server it stopped, as long as it runs.
UnlinksOther == \A a \in Actors : at[a] \in {"unlink", "unlinkconf"} /\ tgt[a] \in live => sock[MissionOf(a)] # tgt[a]

\* The closer has seen that no provider runs in the station it is about to stop.
ClosesIdle ==
  /\ ret["closer"] \in {"idle", "done", "ended"}
  /\ at["closer"] = "clients?" => sock[Home] \notin pane
  /\ at["closer"] \in {"sprobe", "kill"} /\ ret["closer"] # "ended" => sock[Home] \notin pane

\* In a switch, the servers 1 and 2 are those of the source and the destination.
SwitchServers ==
  /\ live \subseteq {1, 2} /\ of[1] = Home /\ of[2] = Other
  /\ 1 \in live => sock[Home] = 1
  /\ sock[Home] # 2 /\ sock[Other] # 1

\* In a switch, only the closer and the operator's terminal act, and the operator never takes the lock.
SwitchControl ==
  /\ at["controller"] = "idle" /\ at["force"] = "idle" /\ lock \in {"free", "closer"}
  /\ ret["user"] = "idle"

\* In a switch, where the terminal is while the operator's tool goes on.
SwitchSeat ==
  \/ /\ at["user"] = "idle" /\ tty[Seat] \in {0, 1, 2}
     /\ tty[Seat] = 0 => 1 \notin live \/ tgt["user"] = 2
     /\ tty[Seat] = 2 => tgt["user"] = 2
  \/ /\ at["user"] \in {"probe", "opened", "raise", "relisten", "unlink", "unlinkconf"}
     /\ tty[Seat] \in {0, 1}
     /\ tty[Seat] = 0 => 1 \notin live
  \/ /\ at["user"] \in {"detached", "attach", "back", "source"}
     /\ tty[Seat] = 0

SwitchInv == mix = "switch" => SwitchServers /\ SwitchControl /\ SwitchSeat

StationInv == ServerTypes /\ ControlTypes /\ LockIsHeld /\ UnlinksDead /\ UnlinksOther /\ ClosesIdle /\ SwitchInv

\* Every step of the system, or none.
Moved == Next \/ UNCHANGED vars

\* What the stations and their processes are, without the watched pane and the home screen.
core == <<mix, sock, made, of, live, dying, pane, tty, lock, at, ret, tgt, had>>

\* The home screen, a watched pane and the mission's status leave the stations alone.
LEMMA QuietIs ==
  ASSUME \/ MissionEnds \/ Reopen \/ Output \/ BridgeOutput \/ Second \/ ReadWait
         \/ Commit \/ PollTakes \/ PollStarts \/ Load \/ Publish
         \/ Up \/ Down \/ FilterKey \/ Return \/ Leave \/ StartSelected
         \/ OpenForm \/ CloseForm \/ Type \/ Compose \/ CreateFails \/ Create
         \/ PickerOpens \/ PickerAsks \/ PickerKeeps \/ PickerCloses \/ PickerEnds
         \/ UNCHANGED vars
  PROVE  UNCHANGED core
BY DEF core, MissionEnds, Reopen, Output, BridgeOutput, Second, ReadWait, Commit, PollTakes, PollStarts, Load, Publish,
       Up, Down, FilterKey, Return, Leave, StartSelected, OpenForm, CloseForm, Type, Compose, CreateFails, Create,
       PickerOpens, PickerAsks, PickerKeeps, PickerCloses, PickerEnds, vars, files, tmux, calls, screens, others, rest

\* The constants of the stations.
LEMMA StationIds ==
  /\ Home \in Missions /\ Other \in Missions /\ Home # Other /\ MaxServers \in Nat /\ MaxServers >= 2
  /\ Seat \in Terminals
  /\ \A a \in Actors : MissionOf(a) \in Missions
  /\ "controller" \in Actors /\ "closer" \in Actors /\ "user" \in Actors /\ "force" \in Actors
  /\ NoFiles \in Files /\ \A m \in Missions : Found(m) \in Files
<1>1. Seat \in Terminals
  BY StationAssumption DEF Seat
<1> QED BY <1>1, StationAssumption DEF Missions, Actors, MissionOf, NoFiles, Files, Found


\* The program counters, by name.
LEMMA PcsAre ==
  /\ {"probe", "relisten", "unlink", "unlinkconf", "sprobe", "kill", "confirm", "idle", "opened", "check", "write",
      "spawn", "up", "provider?", "clients?", "done", "raise", "attach", "failed", "ended", "detached", "back",
      "source"} \subseteq PCs
  /\ {"idle", "check", "done", "raise", "ended"} \subseteq OwnPCs /\ OwnPCs \subseteq PCs
BY DEF PCs, BackendPCs, OwnPCs

\* Every step keeps the types of what the actors are doing.
LEMMA ControlStep ==
  ASSUME ControlTypes, Moved PROVE ControlTypes'
<1>0. /\ at \in [Actors -> PCs] /\ ret \in [Actors -> OwnPCs]
      /\ had \in [Actors -> Files] /\ lock \in Actors \cup {"free"}
  BY DEF ControlTypes
<1> HIDE DEF PCs, OwnPCs
<1>1. ASSUME NEW a \in Actors,
             Probe(a) \/ Unanswered(a) \/ Relisten(a) \/ StopProbe(a) \/ KillServer(a) \/ Confirm(a)
      PROVE ControlTypes'
  <2>1. at' \in [Actors -> PCs]
    BY <1>0, <1>1, PcsAre DEF Probe, Unanswered, Relisten, StopProbe, KillServer, Confirm, Go
  <2>2. ret' = ret /\ lock' = lock /\ had' \in [Actors -> Files]
    BY <1>0, <1>1, StationIds DEF Probe, Unanswered, Relisten, StopProbe, KillServer, Confirm
  <2> QED BY <1>0, <2>1, <2>2 DEF ControlTypes
<1>2. ASSUME NEW a \in Actors, Unlink(a) \/ UnlinkConf(a) \/ Raised(a) \/ AskProvider(a) \/ AskClients(a)
      PROVE ControlTypes'
  <2>1. at' \in [Actors -> PCs] /\ ret' \in [Actors -> OwnPCs]
    BY <1>0, <1>2, PcsAre DEF Unlink, UnlinkConf, Raised, AskProvider, AskClients, Rest, Go, Call
  <2>2. lock' \in {lock, "free"} /\ had' \in [Actors -> Files]
    BY <1>0, <1>2, StationIds DEF Unlink, UnlinkConf, Raised, AskProvider, AskClients, Rest, Free
  <2> QED BY <1>0, <2>1, <2>2 DEF ControlTypes
<1>3. CASE Boot \/ PriorOpened \/ StartStation \/ CheckPaths \/ WriteConfig \/ Spawn \/ Finally \/ ControllerEnds
             \/ ControllerCrashes
  <2>1. at' \in [Actors -> PCs] /\ ret' \in [Actors -> OwnPCs]
    BY <1>0, <1>3, PcsAre DEF Boot, PriorOpened, StartStation, CheckPaths, WriteConfig, Spawn, Finally, ControllerEnds,
                              ControllerCrashes, Rest, Go, Call
  <2>2. lock' \in {lock, "free", "controller"} /\ had' \in [Actors -> Files]
    BY <1>0, <1>3, StationIds DEF Boot, PriorOpened, StartStation, CheckPaths, WriteConfig, Spawn, Finally,
                                  ControllerEnds, ControllerCrashes, Rest, Free
  <2> QED BY <1>0, <2>1, <2>2, StationIds DEF ControlTypes
<1>4. CASE CloseBegins \/ Opened \/ CloseEnds \/ StopFinished \/ ForceStop \/ ForceOpened \/ ForceEnds
  <2>1. at' \in [Actors -> PCs] /\ ret' \in [Actors -> OwnPCs]
    BY <1>0, <1>4, PcsAre DEF CloseBegins, Opened, CloseEnds, StopFinished, ForceStop, ForceOpened, ForceEnds, Rest, Go, Call
  <2>2. lock' \in {lock, "free", "closer"} /\ had' \in [Actors -> Files]
    BY <1>0, <1>4, StationIds DEF CloseBegins, Opened, CloseEnds, StopFinished, ForceStop, ForceOpened, ForceEnds, Rest, Free
  <2> QED BY <1>0, <2>1, <2>2, StationIds DEF ControlTypes
<1>5. CASE Attach \/ AttachOpened \/ AttachRuns \/ ReclaimAttach \/ AttachEnds \/ Switch
  <2>1. at' \in [Actors -> PCs] /\ ret' \in [Actors -> OwnPCs]
    BY <1>0, <1>5, PcsAre DEF Attach, AttachOpened, AttachRuns, ReclaimAttach, AttachEnds, Switch, AttachSession, Rest, Go, Call
  <2>2. lock' \in {lock, "free", "user"} /\ had' \in [Actors -> Files]
    BY <1>0, <1>5, StationIds DEF Attach, AttachOpened, AttachRuns, ReclaimAttach, AttachEnds, Switch, Rest, Free
  <2> QED BY <1>0, <2>1, <2>2, StationIds DEF ControlTypes
<1>6. CASE SwitchOpened \/ HasDestination \/ AttachDestination \/ HasSource \/ AttachSource
  <2>1. at' \in [Actors -> PCs]
    BY <1>0, <1>6, PcsAre DEF SwitchOpened, HasDestination, AttachDestination, HasSource, AttachSource, AttachSession, Go
  <2>2. ret' = ret /\ lock' = lock /\ had' = had
    BY <1>6 DEF SwitchOpened, HasDestination, AttachDestination, HasSource, AttachSource
  <2> QED BY <1>0, <2>1, <2>2 DEF ControlTypes
<1>7. ASSUME UNCHANGED <<lock, at, ret, had>> PROVE ControlTypes'
  BY <1>0, <1>7 DEF ControlTypes
<1>8. CASE ServerExits \/ ServerDies \/ Launch \/ ProviderExits \/ Detach
  BY <1>7, <1>8 DEF ServerExits, ServerDies, Launch, ProviderExits, Detach, calls
<1> QED BY <1>1, <1>2, <1>3, <1>4, <1>5, <1>6, <1>7, <1>8, QuietIs DEF Moved, Next, core

\* What a step does to the servers, their sockets and the terminals.
Unlinks(a) ==
  /\ at[a] = "unlink" /\ at'[a] = "unlinkconf" /\ sock' = [sock EXCEPT ![MissionOf(a)] = 0]
  /\ UNCHANGED <<made, of, live, dying, pane, tty>>
Kills(m) == dying' = dying \cup ({sock[m]} \cap live) /\ UNCHANGED <<sock, made, of, live, pane, tty>>
Ends(s) == Gone(s) /\ UNCHANGED <<sock, made, of>>
Rebinds(m) == Absent(m) /\ Bind(m) /\ UNCHANGED <<live, dying, pane, tty>>
Starts == at["controller"] = "spawn" /\ Bind(Home) /\ live' = live \cup {made + 1} /\ UNCHANGED <<dying, pane, tty>>
Launches ==
  /\ at["controller"] = "up" /\ at' = at /\ sock[Home] \in live /\ pane' = pane \cup {sock[Home]}
  /\ UNCHANGED <<sock, made, of, live, dying, tty>>
Finishes == pane' \subseteq pane /\ UNCHANGED <<sock, made, of, live, dying, tty>>
Moves(t, s) == tty' = [tty EXCEPT ![t] = s] /\ UNCHANGED <<sock, made, of, live, dying, pane>>
ServerStep ==
  \/ \E a \in Actors : Unlinks(a)
  \/ \E m \in Missions : Kills(m) \/ Rebinds(m)
  \/ \E s \in live : Ends(s)
  \/ Starts \/ Launches \/ Finishes
  \/ \E t \in Terminals, s \in {0} \cup live : Moves(t, s)

\* Every step is one of these, and the activities stay what they were.
LEMMA ServerSteps ==
  ASSUME ServerTypes, ControlTypes, Moved PROVE ServerStep /\ mix' = mix
<1>0. at \in [Actors -> PCs] /\ dying \subseteq live
  BY DEF ControlTypes, ServerTypes
<1>1. ASSUME NEW a \in Actors,
             Probe(a) \/ Unanswered(a) \/ Relisten(a) \/ UnlinkConf(a) \/ StopProbe(a) \/ Confirm(a) \/ Raised(a)
               \/ AskProvider(a) \/ AskClients(a)
      PROVE ServerStep /\ mix' = mix
  <2>1. UNCHANGED <<mix, sock, made, of, live, dying, pane, tty>>
    BY <1>1 DEF Probe, Unanswered, Relisten, UnlinkConf, StopProbe, Confirm, Raised, AskProvider, AskClients, files, tmux
  <2> QED BY <2>1 DEF ServerStep, Finishes
<1>2. ASSUME NEW a \in Actors, Unlink(a)
      PROVE ServerStep /\ mix' = mix
  <2>1. at[a] = "unlink" /\ at'[a] = "unlinkconf" /\ sock' \in {sock, [sock EXCEPT ![MissionOf(a)] = 0]}
    BY <1>0, <1>2 DEF Unlink, Go
  <2>2. UNCHANGED <<mix, made, of, live, dying, pane, tty>>
    BY <1>2 DEF Unlink, tmux
  <2> QED BY <2>1, <2>2 DEF ServerStep, Unlinks, Finishes
<1>3. ASSUME NEW a \in Actors, KillServer(a)
      PROVE ServerStep /\ mix' = mix
  <2>1. MissionOf(a) \in Missions
    BY StationIds
  <2> QED BY <1>3, <2>1 DEF KillServer, files, ServerStep, Kills
<1>4. CASE ServerExits \/ ServerDies
  BY <1>0, <1>4 DEF ServerExits, ServerDies, files, ServerStep, Ends
<1>5. CASE Boot \/ PriorOpened \/ StartStation \/ CheckPaths \/ WriteConfig \/ Finally \/ ControllerEnds \/ ControllerCrashes
             \/ CloseBegins \/ Opened \/ CloseEnds \/ StopFinished \/ ForceStop \/ ForceOpened \/ ForceEnds
             \/ Attach \/ AttachOpened \/ ReclaimAttach \/ AttachEnds \/ Switch \/ HasDestination \/ HasSource
  <2>1. UNCHANGED <<mix, sock, made, of, live, dying, pane, tty>>
    BY <1>5 DEF Boot, PriorOpened, StartStation, CheckPaths, WriteConfig, Finally, ControllerEnds, ControllerCrashes,
                CloseBegins, Opened, CloseEnds, StopFinished, ForceStop, ForceOpened, ForceEnds, Attach, AttachOpened,
                ReclaimAttach, AttachEnds, Switch, HasDestination, HasSource, files, tmux
  <2> QED BY <2>1 DEF ServerStep, Finishes
<1>6. CASE Spawn
  BY <1>6 DEF Spawn, ServerStep, Starts
<1>7. CASE Launch \/ ProviderExits
  BY <1>7 DEF Launch, ProviderExits, Owned, files, calls, ServerStep, Launches, Finishes
<1>8. CASE Detach
  BY <1>8 DEF Detach, files, ServerStep, Moves
<1>9. CASE SwitchOpened
  <2>1. tty' = tty \/ tty' = [tty EXCEPT ![Seat] = 0]
    BY <1>9 DEF SwitchOpened
  <2>2. UNCHANGED <<mix, sock, made, of, live, dying, pane>>
    BY <1>9 DEF SwitchOpened, files
  <2> QED BY <2>1, <2>2, StationIds DEF ServerStep, Moves, Finishes
<1>10. CASE AttachRuns \/ AttachDestination \/ AttachSource
  <2>1. PICK m \in Missions :
          \/ Absent(m) /\ Bind(m) /\ tty' = tty
          \/ ~Absent(m) /\ tty' = [tty EXCEPT ![Seat] = sock[m]] /\ UNCHANGED <<sock, made, of>>
    BY <1>10, StationIds DEF AttachRuns, AttachDestination, AttachSource, AttachSession
  <2>2. UNCHANGED <<mix, live, dying, pane>>
    BY <1>10 DEF AttachRuns, AttachDestination, AttachSource
  <2> QED BY <2>1, <2>2, StationIds DEF ServerStep, Absent, Rebinds, Moves
<1>11. ASSUME UNCHANGED core PROVE ServerStep /\ mix' = mix
  BY <1>11 DEF core, ServerStep, Finishes
<1> QED BY <1>1, <1>2, <1>3, <1>4, <1>5, <1>6, <1>7, <1>8, <1>9, <1>10, <1>11, QuietIs DEF Moved, Next

\* Every step keeps the types of the servers.
LEMMA ServerTypesStep ==
  ASSUME ServerTypes, ControlTypes, Moved PROVE ServerTypes'
<1>0. /\ made \in Nat /\ made <= MaxServers /\ (mix = "switch" => made >= 2) /\ MaxServers \in Nat
      /\ sock \in [Missions -> 0 .. made] /\ of \in [Servers -> Missions]
      /\ live \subseteq 1 .. made /\ dying \subseteq live /\ pane \subseteq live
      /\ tty \in [Terminals -> 0 .. made] /\ tgt \in [Actors -> 0 .. made]
  BY StationIds DEF ServerTypes
<1>1. ServerStep /\ mix' = mix
  BY ServerSteps
<1> DEFINE Typed ==
      /\ made' \in Nat /\ made <= made' /\ made' <= MaxServers
      /\ sock' \in [Missions -> 0 .. made'] /\ of' \in [Servers -> Missions]
      /\ live' \subseteq 1 .. made' /\ dying' \subseteq live' /\ pane' \subseteq live' /\ tty' \in [Terminals -> 0 .. made']
<1>2. Typed
  <2>1. ASSUME NEW a \in Actors, Unlinks(a) PROVE Typed
    <3>1. sock' = [sock EXCEPT ![MissionOf(a)] = 0] /\ MissionOf(a) \in Missions /\ 0 \in 0 .. made
      BY <1>0, <2>1, StationIds DEF Unlinks
    <3>2. sock' \in [Missions -> 0 .. made]
      BY <1>0, <3>1
    <3> QED BY <1>0, <2>1, <3>2 DEF Unlinks
  <2>2. ASSUME NEW m \in Missions, Kills(m) PROVE Typed
    <3>1. dying' \subseteq live
      BY <1>0, <2>2 DEF Kills
    <3> QED BY <1>0, <2>2, <3>1 DEF Kills
  <2>3. ASSUME NEW m \in Missions, Bind(m) PROVE made' = made + 1 /\ made' \in Nat /\ made' <= MaxServers
          /\ sock' \in [Missions -> 0 .. made'] /\ of' \in [Servers -> Missions] /\ 1 .. made \subseteq 1 .. made'
    <3>1. made' = made + 1 /\ made' \in Servers /\ sock' = [sock EXCEPT ![m] = made'] /\ of' = [of EXCEPT ![made'] = m]
      BY <1>0, <2>3 DEF Bind, Servers
    <3> QED BY <1>0, <3>1 DEF Servers
  <2>4. ASSUME NEW m \in Missions, Rebinds(m) PROVE Typed
    BY <1>0, <2>3, <2>4 DEF Rebinds
  <2>5. ASSUME NEW s \in live, Ends(s) PROVE Typed
    BY <1>0, <2>5 DEF Ends, Gone
  <2>6. CASE Starts
    <3>1. Bind(Home) /\ live' = live \cup {made + 1} /\ dying' = dying /\ pane' = pane /\ tty' = tty
      BY <2>6 DEF Starts
    <3>2. made' = made + 1 /\ made' \in 1 .. made' /\ 1 .. made \subseteq 1 .. made' /\ 0 .. made \subseteq 0 .. made'
      BY <1>0, <2>3, <3>1, StationIds
    <3>3. live' \subseteq 1 .. made' /\ dying' \subseteq live' /\ pane' \subseteq live' /\ tty' \in [Terminals -> 0 .. made']
      BY <1>0, <3>1, <3>2
    <3> QED BY <1>0, <2>3, <3>1, <3>2, <3>3, StationIds
  <2>7. CASE Launches \/ Finishes
    <3>1. UNCHANGED <<sock, made, of, live, dying, tty>> /\ pane' \subseteq live
      BY <1>0, <2>7 DEF Launches, Finishes
    <3> QED BY <1>0, <3>1
  <2>8. ASSUME NEW t \in Terminals, NEW s \in {0} \cup live, Moves(t, s) PROVE Typed
    <3>1. s \in 0 .. made
      BY <1>0
    <3>2. tty' = [tty EXCEPT ![t] = s] /\ UNCHANGED <<sock, made, of, live, dying, pane>>
      BY <2>8 DEF Moves
    <3>3. tty' \in [Terminals -> 0 .. made]
      BY <1>0, <3>1, <3>2
    <3> QED BY <1>0, <3>2, <3>3
  <2> QED BY <1>1, <2>1, <2>2, <2>4, <2>5, <2>6, <2>7, <2>8 DEF ServerStep
<1>3. tgt' \in [Actors -> 0 .. made']
  <2>1. \A m \in Missions, a \in Actors : [tgt EXCEPT ![a] = sock[m]] \in [Actors -> 0 .. made]
                                            /\ [tgt EXCEPT ![a] = 0] \in [Actors -> 0 .. made]
    BY <1>0
  <2>2. tgt' \in [Actors -> 0 .. made]
    <3>1. ASSUME NEW a \in Actors, Probe(a) \/ Unanswered(a) \/ Relisten(a) \/ Unlink(a) \/ UnlinkConf(a) \/ StopProbe(a)
                 \/ KillServer(a) \/ Confirm(a) \/ Raised(a) \/ AskProvider(a) \/ AskClients(a)
          PROVE tgt' \in [Actors -> 0 .. made]
      BY <1>0, <2>1, <3>1, StationIds DEF Probe, Unanswered, Relisten, Unlink, UnlinkConf, StopProbe, KillServer, Confirm,
                          Raised, AskProvider, AskClients, Rest
    <3>2. CASE ServerExits \/ ServerDies \/ Boot \/ PriorOpened \/ StartStation \/ CheckPaths \/ WriteConfig \/ Spawn
                 \/ Launch \/ ProviderExits \/ Finally \/ ControllerEnds \/ ControllerCrashes \/ CloseBegins \/ Opened
                 \/ CloseEnds \/ StopFinished \/ ForceStop \/ ForceOpened
      BY <1>0, <2>1, <3>2, StationIds DEF ServerExits, ServerDies, Boot, PriorOpened, StartStation, CheckPaths,
             WriteConfig, Spawn, Launch, ProviderExits, Finally, ControllerEnds, ControllerCrashes, CloseBegins, Opened,
             CloseEnds, StopFinished, ForceStop, ForceOpened, Rest, calls
    <3>3. CASE ForceEnds
      <4>1. tgt' = [[tgt EXCEPT !["force"] = 0] EXCEPT !["controller"] = 0]
        BY <3>3 DEF ForceEnds
      <4>2. 0 \in 0 .. made
        BY <1>0
      <4>3. [tgt EXCEPT !["force"] = 0] \in [Actors -> 0 .. made]
        BY <1>0, <4>2
      <4> QED BY <4>1, <4>2, <4>3
    <3>4. CASE Attach \/ AttachOpened \/ AttachRuns \/ ReclaimAttach \/ AttachEnds \/ Detach \/ Switch \/ SwitchOpened
                 \/ HasDestination \/ AttachDestination \/ HasSource \/ AttachSource
      BY <1>0, <2>1, <3>4, StationIds DEF Attach, AttachOpened, AttachRuns, ReclaimAttach, AttachEnds, Detach, Switch,
             SwitchOpened, HasDestination, AttachDestination, HasSource, AttachSource, Rest, calls
    <3>5. ASSUME UNCHANGED core PROVE tgt' \in [Actors -> 0 .. made]
      BY <1>0, <3>5 DEF core
    <3> QED BY <3>1, <3>2, <3>3, <3>4, <3>5, QuietIs DEF Moved, Next
  <2>3. 0 .. made \subseteq 0 .. made'
    BY <1>0, <1>2
  <2> QED BY <2>2, <2>3
<1> QED BY <1>0, <1>1, <1>2, <1>3 DEF ServerTypes

-----------------------------------------------------------------------------
(* The lock, and what is unlinked *)

\* Every step leaves the lock with a controller and a closer that are at work.
LEMMA LockStep ==
  ASSUME ControlTypes, LockIsHeld, Moved PROVE LockIsHeld'
<1>0. /\ at \in [Actors -> PCs]
      /\ at["controller"] # "idle" => lock = "controller"
      /\ at["closer"] # "idle" => lock = "closer"
  BY DEF ControlTypes, LockIsHeld
<1>1. ASSUME NEW a \in Actors,
             Probe(a) \/ Unanswered(a) \/ Relisten(a) \/ Unlink(a) \/ UnlinkConf(a) \/ StopProbe(a)
                 \/ KillServer(a) \/ Confirm(a) \/ AskProvider(a) \/ AskClients(a)
      PROVE LockIsHeld'
  <2>1. at[a] # "idle" /\ lock' = lock
    BY <1>1 DEF Probe, Unanswered, Relisten, Unlink, UnlinkConf, StopProbe, KillServer, Confirm, AskProvider, AskClients
  <2>2. \A b \in Actors : b # a => at'[b] = at[b]
    BY <1>0, <1>1 DEF Probe, Unanswered, Relisten, Unlink, UnlinkConf, StopProbe, KillServer, Confirm, AskProvider,
                      AskClients, Go, Call
  <2> QED BY <1>0, <2>1, <2>2, StationIds DEF LockIsHeld
<1>2. ASSUME NEW a \in Actors, Rest(a), Free(a) PROVE LockIsHeld'
  <2>1. at'[a] = "idle" /\ (\A b \in Actors : b # a => at'[b] = at[b]) /\ lock' = IF lock = a THEN "free" ELSE lock
    BY <1>0, <1>2 DEF Rest, Free, Call, Go
  <2> QED BY <1>0, <2>1, StationIds DEF LockIsHeld
<1>3. ASSUME NEW a \in Actors, Raised(a) PROVE LockIsHeld'
  BY <1>2, <1>3 DEF Raised
<1>4. CASE ControllerEnds \/ ControllerCrashes \/ CloseEnds \/ AttachEnds
  BY <1>2, <1>4, StationIds DEF ControllerEnds, ControllerCrashes, CloseEnds, AttachEnds
<1>5. CASE Boot \/ PriorOpened \/ StartStation \/ CheckPaths \/ WriteConfig \/ Spawn \/ Finally
  <2>1. at["controller"] = "idle" => lock = "free" /\ lock' = "controller"
    BY <1>5 DEF Boot, PriorOpened, StartStation, CheckPaths, WriteConfig, Spawn, Finally
  <2>2. lock' \in {lock, "controller"} /\ at'["closer"] = at["closer"]
    BY <1>0, <1>5, StationIds DEF Boot, PriorOpened, StartStation, CheckPaths, WriteConfig, Spawn, Finally, Go, Call
  <2> QED BY <1>0, <2>1, <2>2 DEF LockIsHeld
<1>6. CASE CloseBegins \/ Opened \/ StopFinished
  <2>1. (at["closer"] = "idle" /\ at'["closer"] # "idle") => lock = "free" /\ lock' = "closer"
    BY <1>6 DEF CloseBegins, Opened, StopFinished
  <2>2. lock' = lock \/ (lock = "free" /\ lock' = "closer")
    BY <1>6 DEF CloseBegins, Opened, StopFinished
  <2>3. at'["controller"] = at["controller"]
    BY <1>0, <1>6, StationIds DEF CloseBegins, Opened, StopFinished, Go, Call
  <2> QED BY <1>0, <2>1, <2>2, <2>3 DEF LockIsHeld
<1>7. CASE ForceStop \/ ForceOpened
  BY <1>0, <1>7, StationIds DEF ForceStop, ForceOpened, Call, Go, LockIsHeld
<1>8. CASE ForceEnds
  <2>1. at' = [[at EXCEPT !["force"] = "idle"] EXCEPT !["controller"] = "idle"] /\ lock \in {"free", "controller"}
    BY <1>8 DEF ForceEnds
  <2>2. at'["controller"] = "idle" /\ at'["closer"] = at["closer"]
    BY <1>0, <2>1, StationIds
  <2> QED BY <1>0, <2>1, <2>2 DEF LockIsHeld
<1>9. CASE Attach \/ AttachOpened \/ AttachRuns \/ ReclaimAttach \/ Switch \/ SwitchOpened
                 \/ HasDestination \/ AttachDestination \/ HasSource \/ AttachSource
  <2>1. at'["controller"] = at["controller"] /\ at'["closer"] = at["closer"]
    BY <1>0, <1>9, StationIds DEF Attach, AttachOpened, AttachRuns, ReclaimAttach, Switch, SwitchOpened, HasDestination,
                                  AttachDestination, HasSource, AttachSource, AttachSession, Go, Call
  <2>2. lock' = lock \/ lock = "free"
    BY <1>9 DEF Attach, AttachOpened, AttachRuns, ReclaimAttach, Switch, SwitchOpened, HasDestination,
                AttachDestination, HasSource, AttachSource
  <2> QED BY <1>0, <2>1, <2>2 DEF LockIsHeld
<1>10. ASSUME at' = at, lock' = lock PROVE LockIsHeld'
  BY <1>10 DEF LockIsHeld
<1>11. CASE ServerExits \/ ServerDies \/ Launch \/ ProviderExits \/ Detach
  BY <1>10, <1>11 DEF ServerExits, ServerDies, Launch, ProviderExits, Detach, calls
<1> QED BY <1>1, <1>3, <1>4, <1>5, <1>6, <1>7, <1>8, <1>9, <1>10, <1>11, QuietIs DEF Moved, Next, core

\* A process unlinks what it had decided to, or found that nothing listens.
LEMMA UnlinkIs ==
  ASSUME ControlTypes, ServerTypes, Moved, NEW b \in Actors, at'[b] \in {"unlink", "unlinkconf"}
  PROVE  \/ /\ at[b] \in {"unlink", "unlinkconf"} /\ tgt'[b] = tgt[b]
            /\ at'[b] = "unlink" => at[b] = "unlink" /\ (lock' = b => lock = b)
         \/ at'[b] = "unlink" /\ Absent(MissionOf(b)) /\ UNCHANGED <<sock, live, tgt>>
<1> DEFINE Goal == \/ /\ at[b] \in {"unlink", "unlinkconf"} /\ tgt'[b] = tgt[b]
                      /\ at'[b] = "unlink" => at[b] = "unlink" /\ (lock' = b => lock = b)
                   \/ at'[b] = "unlink" /\ Absent(MissionOf(b)) /\ UNCHANGED <<sock, live, tgt>>
<1>0. at \in [Actors -> PCs] /\ tgt \in [Actors -> 0 .. made]
  BY DEF ControlTypes, ServerTypes
<1>20. ret \in [Actors -> OwnPCs]
  BY DEF ControlTypes
<1>1. ASSUME at'[b] = at[b], tgt'[b] = tgt[b], lock' = b => lock = b PROVE Goal
  BY <1>1
<1>2. ASSUME NEW a \in Actors,
             Probe(a) \/ Unanswered(a) \/ Relisten(a) \/ Unlink(a) \/ UnlinkConf(a) \/ StopProbe(a)
                 \/ KillServer(a) \/ Confirm(a) \/ Raised(a) \/ AskProvider(a) \/ AskClients(a)
      PROVE Goal
  <2>1. CASE a # b
    <3>1. at'[b] = at[b] /\ tgt'[b] = tgt[b] /\ lock' \in {lock, "free"}
      BY <1>0, <1>2, <2>1 DEF Probe, Unanswered, Relisten, Unlink, UnlinkConf, StopProbe, KillServer, Confirm, Raised,
                              AskProvider, AskClients, Go, Call, Rest, Free
    <3> QED BY <1>1, <3>1 DEF Actors
  <2>2. CASE a = b
    <3>1. CASE Relisten(a) \/ StopProbe(a) \/ Confirm(a)
      <4>1. at'[b] = "unlink" => Absent(MissionOf(b))
        BY <1>0, <1>20, <2>2, <3>1 DEF Relisten, StopProbe, Confirm, Go, OwnPCs
      <4>2. UNCHANGED <<sock, live, tgt>>
        BY <3>1 DEF Relisten, StopProbe, Confirm, files, tmux
      <4>3. at'[b] # "unlinkconf"
        BY <1>0, <1>20, <2>2, <3>1 DEF Relisten, StopProbe, Confirm, Go, OwnPCs
      <4> QED BY <4>1, <4>2, <4>3
    <3>2. CASE Unlink(a)
      BY <1>0, <2>2, <3>2 DEF Unlink, Go
    <3>3. CASE Probe(a) \/ Unanswered(a) \/ UnlinkConf(a) \/ KillServer(a) \/ Raised(a) \/ AskProvider(a) \/ AskClients(a)
      <4>1. at'[b] \notin {"unlink", "unlinkconf"}
        BY <1>0, <1>20, <2>2, <3>3 DEF Probe, Unanswered, UnlinkConf, KillServer, Raised, AskProvider, AskClients, Go, Call, Rest, OwnPCs
      <4> QED BY <4>1
    <3> QED BY <1>2, <3>1, <3>2, <3>3
  <2> QED BY <2>1, <2>2
<1>3. ASSUME NEW a \in Actors, at'[a] \notin {"unlink", "unlinkconf"},
             \A c \in Actors : c # a => at'[c] = at[c] /\ tgt'[c] = tgt[c], lock' \in {lock, "free", a}
      PROVE Goal
  <2>1. b # a
    BY <1>3
  <2> QED BY <1>1, <1>3, <2>1 DEF Actors
<1>4. CASE Boot \/ PriorOpened \/ StartStation \/ CheckPaths \/ WriteConfig \/ Spawn \/ Finally \/ ControllerEnds
             \/ ControllerCrashes
  <2>1. at'["controller"] \notin {"unlink", "unlinkconf"}
    BY <1>0, <1>4, StationIds DEF Boot, PriorOpened, StartStation, CheckPaths, WriteConfig, Spawn, Finally, ControllerEnds,
                              ControllerCrashes, Rest, Go, Call
  <2>2. \A c \in Actors : c # "controller" => at'[c] = at[c] /\ tgt'[c] = tgt[c]
    BY <1>0, <1>4 DEF Boot, PriorOpened, StartStation, CheckPaths, WriteConfig, Spawn, Finally, ControllerEnds,
                      ControllerCrashes, Rest, Go, Call
  <2>3. lock' \in {lock, "free", "controller"}
    BY <1>4 DEF Boot, PriorOpened, StartStation, CheckPaths, WriteConfig, Spawn, Finally, ControllerEnds, ControllerCrashes, Free
  <2> QED BY <1>3, <2>1, <2>2, <2>3, StationIds
<1>5. CASE CloseBegins \/ Opened \/ CloseEnds \/ StopFinished
  <2>1. CASE at' = at /\ tgt' = tgt /\ lock' = lock
    BY <1>1, <2>1
  <2>2. CASE at' # at \/ lock' # lock
    <3>1. at'["closer"] \notin {"unlink", "unlinkconf"}
      BY <1>0, <1>5, <2>2, StationIds DEF CloseBegins, Opened, CloseEnds, StopFinished, Rest, Go, Call
    <3>2. \A c \in Actors : c # "closer" => at'[c] = at[c] /\ tgt'[c] = tgt[c]
      BY <1>0, <1>5 DEF CloseBegins, Opened, CloseEnds, StopFinished, Rest, Go, Call
    <3>3. lock' \in {lock, "free", "closer"}
      BY <1>5 DEF CloseBegins, Opened, CloseEnds, StopFinished, Free
    <3> QED BY <1>3, <3>1, <3>2, <3>3, StationIds
  <2>3. tgt' = tgt \/ at' # at
    BY <1>0, <1>5, StationIds DEF CloseBegins, Opened, CloseEnds, StopFinished, Rest, Go, Call
  <2> QED BY <2>1, <2>2, <2>3
<1>6. CASE ForceStop \/ ForceOpened
  <2>1. at'["force"] \notin {"unlink", "unlinkconf"} /\ lock' = lock
    BY <1>0, <1>6, StationIds DEF ForceStop, ForceOpened, Go, Call
  <2>2. \A c \in Actors : c # "force" => at'[c] = at[c] /\ tgt'[c] = tgt[c]
    BY <1>0, <1>6 DEF ForceStop, ForceOpened, Go, Call
  <2> QED BY <1>3, <2>1, <2>2, StationIds
<1>7. CASE ForceEnds
  <2>1. /\ at' = [[at EXCEPT !["force"] = "idle"] EXCEPT !["controller"] = "idle"]
        /\ tgt' = [[tgt EXCEPT !["force"] = 0] EXCEPT !["controller"] = 0] /\ lock' = "free"
    BY <1>7 DEF ForceEnds
  <2>2. b \notin {"force", "controller"} => at'[b] = at[b] /\ tgt'[b] = tgt[b]
    BY <1>0, <2>1
  <2>3. b \in {"force", "controller"} => at'[b] = "idle"
    BY <1>0, <2>1
  <2> QED BY <1>1, <2>1, <2>2, <2>3 DEF Actors
<1>8. CASE Attach \/ AttachOpened \/ AttachRuns \/ ReclaimAttach \/ AttachEnds \/ Switch
  <2>1. at'["user"] \notin {"unlink", "unlinkconf"}
    BY <1>0, <1>8, StationIds DEF Attach, AttachOpened, AttachRuns, ReclaimAttach, AttachEnds, Switch, AttachSession, Rest, Go, Call
  <2>2. \A c \in Actors : c # "user" => at'[c] = at[c] /\ tgt'[c] = tgt[c]
    BY <1>0, <1>8 DEF Attach, AttachOpened, AttachRuns, ReclaimAttach, AttachEnds, Switch, AttachSession, Rest, Go, Call
  <2>3. lock' \in {lock, "free", "user"}
    BY <1>8 DEF Attach, AttachOpened, AttachRuns, ReclaimAttach, AttachEnds, Switch, Free
  <2> QED BY <1>3, <2>1, <2>2, <2>3, StationIds
<1>9. CASE SwitchOpened \/ HasDestination \/ AttachDestination \/ HasSource \/ AttachSource
  <2>1. at'["user"] \notin {"unlink", "unlinkconf"} /\ lock' = lock
    BY <1>0, <1>9, StationIds DEF SwitchOpened, HasDestination, AttachDestination, HasSource, AttachSource, AttachSession, Go
  <2>2. \A c \in Actors : c # "user" => at'[c] = at[c] /\ tgt'[c] = tgt[c]
    BY <1>0, <1>9 DEF SwitchOpened, HasDestination, AttachDestination, HasSource, AttachSource, AttachSession, Go
  <2> QED BY <1>3, <2>1, <2>2, StationIds
<1>10. ASSUME UNCHANGED <<at, tgt, lock>> PROVE Goal
  BY <1>1, <1>10
<1>11. CASE ServerExits \/ ServerDies \/ Launch \/ ProviderExits \/ Detach
  BY <1>10, <1>11 DEF ServerExits, ServerDies, Launch, ProviderExits, Detach, calls
<1> QED BY <1>2, <1>4, <1>5, <1>6, <1>7, <1>8, <1>9, <1>10, <1>11, QuietIs DEF Moved, Next, core

\* What a step does to the sockets: a mission keeps its own, loses it, or gets one never used.
LEMMA ServersAre ==
  ASSUME ServerTypes, ServerStep, mix' = mix
  PROVE  /\ \A m \in Missions : sock'[m] \in {sock[m], 0, made + 1}
         /\ live' \subseteq live \cup {made + 1} /\ 0 \notin live /\ made + 1 \notin live
         /\ \/ live' \subseteq live /\ ~Starts
            \/ Starts
         /\ \A a \in Actors : MissionOf(a)' = MissionOf(a)
         /\ dying' \subseteq dying \cup live
         /\ 0 \notin pane /\ made + 1 \notin pane /\ (pane' \subseteq pane \/ Launches)
<1>0. /\ made \in Nat /\ sock \in [Missions -> 0 .. made] /\ of \in [Servers -> Missions] /\ live \subseteq 1 .. made
      /\ dying \subseteq live /\ pane \subseteq live
  BY DEF ServerTypes
<1>1. 0 \notin live /\ made + 1 \notin live /\ 0 \notin pane /\ made + 1 \notin pane
  BY <1>0
<1>2. \A a \in Actors : MissionOf(a)' = MissionOf(a)
  BY DEF MissionOf
<1> DEFINE Goal == /\ \A m \in Missions : sock'[m] \in {sock[m], 0, made + 1}
                   /\ live' \subseteq live \cup {made + 1}
                   /\ live' \subseteq live \/ Starts
                   /\ dying' \subseteq dying \cup live
                   /\ pane' \subseteq pane \/ Launches
<1>3. ASSUME NEW a \in Actors, Unlinks(a) PROVE Goal
  BY <1>0, <1>3, StationIds DEF Unlinks
<1>4. ASSUME NEW m \in Missions, Kills(m) \/ Rebinds(m) PROVE Goal
  BY <1>0, <1>4 DEF Kills, Rebinds, Bind
<1>5. ASSUME NEW s \in live, Ends(s) PROVE Goal
  BY <1>0, <1>5 DEF Ends, Gone
<1>6. ASSUME Starts PROVE Goal
  <2>1. sock' = [sock EXCEPT ![Home] = made + 1] /\ live' = live \cup {made + 1} /\ dying' = dying /\ pane' = pane
    BY <1>6 DEF Starts, Bind
  <2> QED BY <1>0, <1>6, <2>1
<1>7. ASSUME Launches \/ Finishes PROVE Goal
  <2>1. UNCHANGED <<sock, live, dying>> /\ (pane' \subseteq pane \/ Launches)
    BY <1>7 DEF Launches, Finishes
  <2> QED BY <2>1
<1>8. ASSUME NEW t \in Terminals, NEW s \in {0} \cup live, Moves(t, s) PROVE Goal
  BY <1>0, <1>8 DEF Moves
<1>9. Goal
  BY <1>3, <1>4, <1>5, <1>6, <1>7, <1>8 DEF ServerStep
<1> QED BY <1>1, <1>2, <1>9

\* A process that holds the lock unlinks the socket of Home only when its server is gone.
LEMMA UnlinksDeadStep ==
  ASSUME ServerTypes, ControlTypes, LockIsHeld, UnlinksDead, Moved PROVE UnlinksDead'
<1>1. ServerStep /\ mix' = mix
  BY ServerSteps
<1>2. /\ sock'[Home] \in {sock[Home], 0, made + 1} /\ 0 \notin live /\ made + 1 \notin live
      /\ live' \subseteq live \/ Starts
      /\ \A a \in Actors : MissionOf(a)' = MissionOf(a)
  BY <1>1, ServersAre, StationIds
<1>3. 0 \notin live'
  BY ServerTypesStep DEF ServerTypes
<1> SUFFICES ASSUME NEW b \in Actors, at'[b] = "unlink", lock' = b, MissionOf(b) = Home PROVE Absent(Home)'
  BY <1>2 DEF UnlinksDead
<1>4. \/ at[b] = "unlink" /\ lock = b
      \/ Absent(Home) /\ UNCHANGED <<sock, live>>
  BY UnlinkIs
<1>5. CASE Absent(Home) /\ UNCHANGED <<sock, live>>
  BY <1>5 DEF Absent
<1>6. CASE at[b] = "unlink" /\ lock = b
  <2>1. sock[Home] \notin live
    BY <1>6 DEF UnlinksDead, Absent
  <2>2. ~Starts
    BY <1>6, StationIds DEF Starts, LockIsHeld
  <2> QED BY <1>2, <2>1, <2>2 DEF Absent
<1> QED BY <1>4, <1>5, <1>6

\* What a process unlinks is not the socket of the server it told to exit, while that runs.
LEMMA UnlinksOtherStep ==
  ASSUME ServerTypes, ControlTypes, UnlinksOther, Moved PROVE UnlinksOther'
<1>1. ServerStep /\ mix' = mix
  BY ServerSteps
<1>2. /\ \A m \in Missions : sock'[m] \in {sock[m], 0, made + 1}
      /\ live' \subseteq live \cup {made + 1} /\ 0 \notin live
      /\ \A a \in Actors : MissionOf(a)' = MissionOf(a)
  BY <1>1, ServersAre
<1> SUFFICES ASSUME NEW b \in Actors, at'[b] \in {"unlink", "unlinkconf"}, tgt'[b] \in live'
             PROVE sock'[MissionOf(b)] # tgt'[b]
  BY <1>2 DEF UnlinksOther
<1>3. \/ at[b] \in {"unlink", "unlinkconf"} /\ tgt'[b] = tgt[b]
      \/ Absent(MissionOf(b)) /\ UNCHANGED <<sock, live, tgt>>
  BY UnlinkIs
<1>4. CASE Absent(MissionOf(b)) /\ UNCHANGED <<sock, live, tgt>>
  BY <1>4 DEF Absent
<1>5. CASE at[b] \in {"unlink", "unlinkconf"} /\ tgt'[b] = tgt[b]
  <2>1. made \in Nat /\ tgt[b] \in 0 .. made
    BY DEF ServerTypes
  <2>2. tgt[b] \in live /\ tgt[b] # made + 1
    BY <1>2, <1>5, <2>1
  <2>3. sock[MissionOf(b)] # tgt[b] /\ MissionOf(b) \in Missions
    BY <1>5, <2>2, StationIds DEF UnlinksOther
  <2> QED BY <1>2, <1>5, <2>2, <2>3
<1> QED BY <1>3, <1>4, <1>5

\* How the closer comes to the questions and the stop at the end of its way.
LEMMA CloserIs ==
  ASSUME ControlTypes, ClosesIdle, Moved
  PROVE  /\ ret'["closer"] \in {"idle", "done", "ended"}
         /\ at'["closer"] \in {"clients?", "sprobe", "kill"} =>
              \/ at'["closer"] = at["closer"] /\ ret'["closer"] = ret["closer"]
              \/ at["closer"] = "sprobe" /\ at'["closer"] = "kill" /\ ret'["closer"] = ret["closer"]
              \/ at'["closer"] = "clients?" /\ sock[Home] \notin pane /\ UNCHANGED <<sock, pane>>
              \/ at["closer"] = "clients?" /\ at'["closer"] # "clients?" /\ UNCHANGED <<sock, pane>>
              \/ ret'["closer"] = "ended" /\ at'["closer"] # "clients?"
<1> DEFINE Goal ==
      /\ ret'["closer"] \in {"idle", "done", "ended"}
      /\ at'["closer"] \in {"clients?", "sprobe", "kill"} =>
           \/ at'["closer"] = at["closer"] /\ ret'["closer"] = ret["closer"]
           \/ at["closer"] = "sprobe" /\ at'["closer"] = "kill" /\ ret'["closer"] = ret["closer"]
           \/ at'["closer"] = "clients?" /\ sock[Home] \notin pane /\ UNCHANGED <<sock, pane>>
           \/ at["closer"] = "clients?" /\ at'["closer"] # "clients?" /\ UNCHANGED <<sock, pane>>
           \/ ret'["closer"] = "ended" /\ at'["closer"] # "clients?"
<1>0. at \in [Actors -> PCs] /\ ret \in [Actors -> OwnPCs] /\ ret["closer"] \in {"idle", "done", "ended"}
  BY DEF ControlTypes, ClosesIdle
<1>1. ASSUME at'["closer"] = at["closer"], ret'["closer"] = ret["closer"] PROVE Goal
  BY <1>0, <1>1
<1>2. ASSUME NEW a \in Actors,
             Probe(a) \/ Unanswered(a) \/ Relisten(a) \/ Unlink(a) \/ UnlinkConf(a)
                 \/ KillServer(a) \/ Confirm(a) \/ Raised(a)
      PROVE Goal
  <2>1. CASE a # "closer"
    <3>1. at'["closer"] = at["closer"] /\ ret'["closer"] = ret["closer"]
      BY <1>0, <1>2, <2>1, StationIds
         DEF Probe, Unanswered, Relisten, Unlink, UnlinkConf, KillServer, Confirm, Raised, Go, Call, Rest
    <3> QED BY <1>1, <3>1
  <2>2. CASE a = "closer"
    <3>1. at'["closer"] \notin {"clients?", "sprobe", "kill"}
      BY <1>0, <1>2, <2>2, StationIds
         DEF Probe, Unanswered, Relisten, Unlink, UnlinkConf, KillServer, Confirm, Raised, Go, Call, Rest
    <3>2. ret'["closer"] \in {ret["closer"], "idle"}
      BY <1>0, <1>2, <2>2, StationIds
         DEF Probe, Unanswered, Relisten, Unlink, UnlinkConf, KillServer, Confirm, Raised, Call, Rest
    <3> QED BY <1>0, <3>1, <3>2
  <2> QED BY <2>1, <2>2
<1>3. ASSUME NEW a \in Actors, StopProbe(a) \/ AskProvider(a) \/ AskClients(a)
      PROVE Goal
  <2>1. CASE a # "closer"
    <3>1. at'["closer"] = at["closer"] /\ ret'["closer"] = ret["closer"]
      BY <1>0, <1>3, <2>1, StationIds DEF StopProbe, AskProvider, AskClients, Go, Call
    <3> QED BY <1>1, <3>1
  <2>2. CASE a = "closer"
    <3>1. UNCHANGED <<sock, pane>>
      BY <1>3 DEF StopProbe, AskProvider, AskClients, files, tmux
    <3>2. CASE StopProbe(a)
      <4>1. at["closer"] = "sprobe" /\ at'["closer"] \in {"kill", "raise", "unlink"} /\ ret' = ret
        BY <1>0, <2>2, <3>2, StationIds DEF StopProbe, Go
      <4> QED BY <1>0, <4>1
    <3>3. CASE AskProvider(a)
      <4>1. at'["closer"] \in {"done", "clients?"} /\ (at'["closer"] = "clients?" => sock[Home] \notin pane) /\ ret' = ret
        BY <1>0, <2>2, <3>3, StationIds DEF AskProvider, Go
      <4> QED BY <1>0, <3>1, <4>1
    <3>4. CASE AskClients(a)
      <4>1. at["closer"] = "clients?" /\ at'["closer"] \in {"raise", "done", "sprobe"} /\ ret'["closer"] \in {ret["closer"], "done"}
        BY <1>0, <2>2, <3>4, StationIds DEF AskClients, Go, Call
      <4> QED BY <1>0, <3>1, <4>1
    <3> QED BY <1>3, <3>2, <3>3, <3>4
  <2> QED BY <2>1, <2>2
<1>4. CASE Boot \/ PriorOpened \/ StartStation \/ CheckPaths \/ WriteConfig \/ Spawn \/ Finally \/ ControllerEnds
             \/ ControllerCrashes \/ ForceStop \/ ForceOpened
  <2>1. at'["closer"] = at["closer"] /\ ret'["closer"] = ret["closer"]
    BY <1>0, <1>4, StationIds DEF Boot, PriorOpened, StartStation, CheckPaths, WriteConfig, Spawn, Finally, ControllerEnds,
                              ControllerCrashes, ForceStop, ForceOpened, Rest, Go, Call
  <2> QED BY <1>1, <2>1
<1>5. CASE CloseBegins \/ CloseEnds \/ StopFinished
  <2>1. CASE at' = at /\ ret' = ret
    BY <1>1, <2>1
  <2>2. CASE ~(at' = at /\ ret' = ret)
    <3>1. at'["closer"] \in {"probe", "idle"} /\ ret'["closer"] \in {"idle", "done", "ended"}
      BY <1>0, <1>5, <2>2, StationIds DEF CloseBegins, CloseEnds, StopFinished, Rest, Call, Go
    <3> QED BY <3>1
  <2> QED BY <2>1, <2>2
<1>6. CASE Opened
  <2>1. at'["closer"] = (IF ret["closer"] = "ended" THEN "sprobe" ELSE "provider?") /\ ret' = ret
    BY <1>0, <1>6, StationIds DEF Opened, Go
  <2> QED BY <1>0, <2>1
<1>7. CASE ForceEnds
  <2>1. /\ at' = [[at EXCEPT !["force"] = "idle"] EXCEPT !["controller"] = "idle"]
        /\ ret' = [[ret EXCEPT !["force"] = "idle"] EXCEPT !["controller"] = "idle"]
    BY <1>7 DEF ForceEnds
  <2>2. at'["closer"] = at["closer"] /\ ret'["closer"] = ret["closer"]
    BY <1>0, <2>1, StationIds
  <2> QED BY <1>1, <2>2
<1>8. CASE Attach \/ AttachOpened \/ AttachRuns \/ ReclaimAttach \/ AttachEnds \/ Switch
             \/ SwitchOpened \/ HasDestination \/ AttachDestination \/ HasSource \/ AttachSource
  <2>1. at'["closer"] = at["closer"] /\ ret'["closer"] = ret["closer"]
    BY <1>0, <1>8, StationIds DEF Attach, AttachOpened, AttachRuns, ReclaimAttach, AttachEnds, Switch, SwitchOpened,
         HasDestination, AttachDestination, HasSource, AttachSource, AttachSession, Rest, Go, Call
  <2> QED BY <1>1, <2>1
<1>9. ASSUME UNCHANGED <<at, ret>> PROVE Goal
  BY <1>1, <1>9
<1>10. CASE ServerExits \/ ServerDies \/ Launch \/ ProviderExits \/ Detach
  BY <1>9, <1>10 DEF ServerExits, ServerDies, Launch, ProviderExits, Detach, calls
<1> QED BY <1>2, <1>3, <1>4, <1>5, <1>6, <1>7, <1>8, <1>9, <1>10, QuietIs DEF Moved, Next, core

\* No step brings a provider into the station that the closer found without one.
LEMMA ClosesIdleStep ==
  ASSUME ServerTypes, ControlTypes, LockIsHeld, ClosesIdle, Moved PROVE ClosesIdle'
<1>1. ServerStep /\ mix' = mix
  BY ServerSteps
<1>2. /\ sock'[Home] \in {sock[Home], 0, made + 1} /\ 0 \notin pane /\ made + 1 \notin pane
      /\ pane' \subseteq pane \/ Launches
  BY <1>1, ServersAre, StationIds
<1>3. /\ at["closer"] = "clients?" => sock[Home] \notin pane
      /\ at["closer"] \in {"sprobe", "kill"} /\ ret["closer"] # "ended" => sock[Home] \notin pane
  BY DEF ClosesIdle
<1>4. Launches => at'["closer"] = "idle"
  BY DEF Launches, LockIsHeld
<1>5. sock[Home] \notin pane /\ at'["closer"] # "idle" => sock'[Home] \notin pane'
  BY <1>2, <1>4
<1> QED BY <1>3, <1>5, CloserIs DEF ClosesIdle

-----------------------------------------------------------------------------
(* A switch *)

\* The steps that a switch can take.
SwitchStep ==
  \/ \E a \in {"closer", "user"} :
        Probe(a) \/ Unanswered(a) \/ Relisten(a) \/ Unlink(a) \/ UnlinkConf(a) \/ Raised(a)
  \/ StopProbe("closer") \/ KillServer("closer") \/ Confirm("closer") \/ AskProvider("closer") \/ AskClients("closer")
  \/ ServerExits \/ ServerDies \/ ProviderExits \/ CloseBegins \/ Opened \/ CloseEnds
  \/ Switch \/ SwitchOpened \/ HasDestination \/ AttachDestination \/ HasSource \/ AttachSource
  \/ UNCHANGED core

\* While the screen of a switch is open, nobody else starts, stops or attaches.
LEMMA SwitchIs ==
  ASSUME ControlTypes, SwitchControl, SwitchSeat, mix = "switch", Moved
  PROVE  SwitchStep
<1>0. /\ at["controller"] = "idle" /\ at["force"] = "idle"
      /\ at["user"] \in {"idle", "probe", "opened", "raise", "relisten", "unlink", "unlinkconf",
                        "detached", "attach", "back", "source"}
  BY DEF SwitchControl, SwitchSeat
<1>1. ASSUME NEW a \in Actors, Probe(a) \/ Unanswered(a) \/ Relisten(a) \/ Unlink(a) \/ UnlinkConf(a) \/ Raised(a)
      PROVE SwitchStep
  <2>1. at[a] # "idle"
    BY <1>1 DEF Probe, Unanswered, Relisten, Unlink, UnlinkConf, Raised
  <2>2. a \in {"closer", "user"}
    BY <1>0, <2>1 DEF Actors
  <2> QED BY <1>1, <2>2 DEF SwitchStep
<1>2. ASSUME NEW a \in Actors, StopProbe(a) \/ KillServer(a) \/ Confirm(a) \/ AskProvider(a) \/ AskClients(a)
      PROVE SwitchStep
  <2>1. at[a] \in {"sprobe", "kill", "confirm", "provider?", "clients?"}
    BY <1>2 DEF StopProbe, KillServer, Confirm, AskProvider, AskClients
  <2>2. a = "closer"
    BY <1>0, <2>1 DEF Actors
  <2> QED BY <1>2, <2>2 DEF SwitchStep
<1>3. ~(Boot \/ PriorOpened \/ StartStation \/ CheckPaths \/ WriteConfig \/ Spawn \/ Launch \/ Finally \/ ControllerEnds
         \/ ControllerCrashes \/ StopFinished)
  BY <1>0 DEF Boot, PriorOpened, StartStation, CheckPaths, WriteConfig, Spawn, Launch, Finally, ControllerEnds,
              ControllerCrashes, StopFinished, Controllers
<1>4. ~(ForceStop \/ ForceOpened \/ ForceEnds \/ Attach \/ AttachOpened \/ AttachRuns \/ ReclaimAttach \/ AttachEnds
         \/ Detach)
  BY <1>0 DEF ForceStop, ForceOpened, ForceEnds, Attach, AttachOpened, AttachRuns, ReclaimAttach, AttachEnds, Detach, Controllers
<1>5. UNCHANGED core => SwitchStep
  BY DEF SwitchStep
<1>6. ASSUME Next PROVE SwitchStep \/ UNCHANGED core
  <2>1. \/ \E a \in Actors : Probe(a) \/ Unanswered(a) \/ Relisten(a) \/ Unlink(a) \/ UnlinkConf(a) \/ Raised(a)
        \/ \E a \in Actors : StopProbe(a) \/ KillServer(a) \/ Confirm(a) \/ AskProvider(a) \/ AskClients(a)
        \/ ServerExits \/ ServerDies \/ ProviderExits \/ CloseBegins \/ Opened \/ CloseEnds
        \/ Switch \/ SwitchOpened \/ HasDestination \/ AttachDestination \/ HasSource \/ AttachSource
        \/ UNCHANGED core
    BY <1>3, <1>4, <1>6, QuietIs DEF Next
  <2> QED BY <1>1, <1>2, <2>1 DEF SwitchStep
<1> QED BY <1>5, <1>6, QuietIs DEF Moved

\* A switch keeps the servers: only the closer unlinks the socket of the source, and then its server is gone.
LEMMA SwitchServersStep ==
  ASSUME ServerTypes, ControlTypes, UnlinksDead, LockIsHeld, SwitchServers, SwitchControl, mix = "switch", Moved
  PROVE  SwitchServers'
<1>1. ServerStep /\ mix' = mix
  BY ServerSteps
<1>2. /\ made \in Nat /\ made >= 2 /\ of \in [Servers -> Missions] /\ sock \in [Missions -> 0 .. made]
      /\ live \subseteq {1, 2} /\ of[1] = Home /\ of[2] = Other
      /\ 1 \in live => sock[Home] = 1
      /\ sock[Home] # 2 /\ sock[Other] # 1
  BY DEF ServerTypes, SwitchServers
<1>3. ~Starts /\ 1 \in Servers /\ 2 \in Servers
  BY StationIds DEF Starts, SwitchControl, Servers
<1>4. live' \subseteq live
  BY <1>1, <1>3, ServersAre
<1>5. sock'[Home] # 2 /\ sock'[Other] # 1
  <2>1. sock'[Home] \in {sock[Home], 0, made + 1} /\ sock'[Other] \in {sock[Other], 0, made + 1}
    BY <1>1, ServersAre, StationIds
  <2> QED BY <1>2, <2>1
<1>6. of'[1] = Home /\ of'[2] = Other /\ (1 \in live' => sock'[Home] = 1)
  <2>1. ASSUME NEW a \in Actors, Unlinks(a)
        PROVE  of' = of /\ (1 \in live => sock'[Home] = sock[Home])
    <3>1. at[a] = "unlink" /\ sock' = [sock EXCEPT ![MissionOf(a)] = 0] /\ of' = of
      BY <2>1 DEF Unlinks
    <3>2. CASE a = "closer"
      <4>1. lock = a
        BY <3>1, <3>2 DEF LockIsHeld
      <4>2. MissionOf(a) = Home
        BY <3>2 DEF MissionOf
      <4>3. sock[Home] \notin live
        BY <3>1, <4>1, <4>2 DEF UnlinksDead, Absent
      <4> QED BY <1>2, <3>1, <4>3
    <3>3. CASE a = "user"
      <4>1. MissionOf(a) = Other
        BY <3>3 DEF MissionOf
      <4> QED BY <1>2, <3>1, <4>1, StationIds
    <3>4. a \in {"closer", "user"}
      BY <3>1 DEF SwitchControl, Actors
    <3> QED BY <3>2, <3>3, <3>4
  <2>2. ASSUME NEW m \in Missions, Rebinds(m)
        PROVE  of'[1] = of[1] /\ of'[2] = of[2] /\ (1 \in live => sock'[Home] = sock[Home])
    <3>1. sock[m] \notin live /\ sock' = [sock EXCEPT ![m] = made + 1] /\ of' = [of EXCEPT ![made + 1] = m]
      BY <2>2 DEF Rebinds, Absent, Bind
    <3> QED BY <1>2, <1>3, <3>1, StationIds
  <2>3. ASSUME UNCHANGED <<of, sock>>
        PROVE  of'[1] = Home /\ of'[2] = Other /\ (1 \in live => sock'[Home] = sock[Home])
    BY <1>2, <2>3
  <2>4. ASSUME (\E m \in Missions : Kills(m)) \/ (\E s \in live : Ends(s)) \/ Launches \/ Finishes
                 \/ \E t \in Terminals, s \in {0} \cup live : Moves(t, s)
        PROVE  UNCHANGED <<of, sock>>
    BY <2>4 DEF Kills, Ends, Launches, Finishes, Moves
  <2> QED BY <1>1, <1>2, <1>3, <1>4, <2>1, <2>2, <2>3, <2>4 DEF ServerStep
<1> QED BY <1>2, <1>4, <1>5, <1>6 DEF SwitchServers

\* A switch keeps the controller away and the lock with the closer, if with anyone.
LEMMA SwitchControlStep ==
  ASSUME ControlTypes, SwitchControl, SwitchSeat, mix = "switch", Moved
  PROVE  SwitchControl'
<1>0. /\ at \in [Actors -> PCs] /\ ret \in [Actors -> OwnPCs]
      /\ at["controller"] = "idle" /\ at["force"] = "idle" /\ lock \in {"free", "closer"} /\ ret["user"] = "idle"
  BY DEF ControlTypes, SwitchControl
<1>1. SwitchStep
  BY SwitchIs
<1> DEFINE Goal == /\ at'["controller"] = at["controller"] /\ at'["force"] = at["force"]
                   /\ lock' \in {lock, "free", "closer"} /\ ret'["user"] \in {ret["user"], "idle"}
<1>2. ASSUME NEW a \in {"closer", "user"},
             Probe(a) \/ Unanswered(a) \/ Relisten(a) \/ Unlink(a) \/ UnlinkConf(a) \/ Raised(a)
      PROVE Goal
  BY <1>0, <1>2, StationIds DEF Probe, Unanswered, Relisten, Unlink, UnlinkConf, Raised, Rest, Free, Go, Call
<1>3. ASSUME \/ StopProbe("closer") \/ KillServer("closer") \/ Confirm("closer") \/ AskProvider("closer") \/ AskClients("closer")
             \/ CloseBegins \/ Opened \/ CloseEnds
      PROVE Goal
  BY <1>0, <1>3, StationIds DEF StopProbe, KillServer, Confirm, AskProvider, AskClients, CloseBegins, Opened, CloseEnds,
                                Rest, Free, Go, Call
<1>4. ASSUME Switch \/ SwitchOpened \/ HasDestination \/ AttachDestination \/ HasSource \/ AttachSource
      PROVE Goal
  BY <1>0, <1>4, StationIds DEF Switch, SwitchOpened, HasDestination, AttachDestination, HasSource, AttachSource,
                                AttachSession, Go, Call
<1>5. ASSUME ServerExits \/ ServerDies \/ ProviderExits \/ UNCHANGED core PROVE Goal
  BY <1>5 DEF ServerExits, ServerDies, ProviderExits, calls, core
<1>6. Goal
  BY <1>1, <1>2, <1>3, <1>4, <1>5 DEF SwitchStep
<1> QED BY <1>0, <1>6 DEF SwitchControl

\* A switch moves the terminal to where the operator's tool says, and leaves it at its shell
\* only when the source is gone or the destination had been reached.
LEMMA SwitchSeatStep ==
  ASSUME ServerTypes, ControlTypes, SwitchServers, SwitchControl, SwitchSeat, mix = "switch", Moved
  PROVE  SwitchSeat'
<1>0. /\ at \in [Actors -> PCs] /\ tgt \in [Actors -> 0 .. made] /\ tty \in [Terminals -> 0 .. made]
      /\ dying \subseteq live
  BY DEF ControlTypes, ServerTypes
<1>1. /\ live \subseteq {1, 2} /\ of[1] = Home /\ of[2] = Other
      /\ 1 \in live => sock[Home] = 1
      /\ sock[Home] # 2 /\ sock[Other] # 1 /\ ret["user"] = "idle"
  BY DEF SwitchServers, SwitchControl
<1>2. SwitchStep
  BY SwitchIs
<1>3. ASSUME at'["user"] = at["user"], tgt'["user"] = tgt["user"], UNCHANGED <<live, tty>>
      PROVE  SwitchSeat'
  BY <1>3 DEF SwitchSeat
<1>4. ASSUME Probe("closer") \/ Unanswered("closer") \/ Relisten("closer") \/ Unlink("closer") \/ UnlinkConf("closer")
               \/ Raised("closer") \/ StopProbe("closer") \/ KillServer("closer") \/ Confirm("closer")
               \/ AskProvider("closer") \/ AskClients("closer") \/ CloseBegins \/ Opened \/ CloseEnds
      PROVE  SwitchSeat'
  <2>1. at'["user"] = at["user"] /\ tgt'["user"] = tgt["user"]
    BY <1>0, <1>4, StationIds DEF Probe, Unanswered, Relisten, Unlink, UnlinkConf, Raised, StopProbe, KillServer, Confirm,
                                  AskProvider, AskClients, CloseBegins, Opened, CloseEnds, Rest, Go, Call
  <2>2. UNCHANGED <<live, tty>>
    BY <1>4 DEF Probe, Unanswered, Relisten, Unlink, UnlinkConf, Raised, StopProbe, KillServer, Confirm,
                AskProvider, AskClients, CloseBegins, Opened, CloseEnds, tmux
  <2> QED BY <1>3, <2>1, <2>2
<1>5. ASSUME Probe("user") \/ Unanswered("user") \/ Relisten("user") \/ Unlink("user") \/ UnlinkConf("user") \/ Raised("user")
      PROVE  SwitchSeat'
  <2>0. at["user"] \in {"probe", "sprobe", "relisten", "unlink", "unlinkconf", "raise"}
    BY <1>5 DEF Probe, Unanswered, Relisten, Unlink, UnlinkConf, Raised
  <2>1. at'["user"] \in {"opened", "raise", "relisten", "unlink", "unlinkconf", "idle"}
    BY <1>0, <1>1, <1>5, StationIds DEF Probe, Unanswered, Relisten, Unlink, UnlinkConf, Raised, Rest, Go, Call
  <2>2. UNCHANGED <<live, tty>>
    BY <1>5 DEF Probe, Unanswered, Relisten, Unlink, UnlinkConf, Raised, tmux
  <2> QED BY <2>0, <2>1, <2>2 DEF SwitchSeat
<1>6. ASSUME ServerExits \/ ServerDies PROVE SwitchSeat'
  <2>1. PICK s \in live : live' = live \ {s} /\ tty' = [t \in Terminals |-> IF tty[t] = s THEN 0 ELSE tty[t]]
    BY <1>0, <1>6 DEF ServerExits, ServerDies, Gone
  <2>2. tty'[Seat] = IF tty[Seat] = s THEN 0 ELSE tty[Seat]
    BY <2>1, StationIds
  <2>3. UNCHANGED <<at, tgt>>
    BY <1>6 DEF ServerExits, ServerDies, calls
  <2>4. s \in {1, 2}
    BY <1>1, <2>1
  <2>5. CASE tty[Seat] = s
    <3>1. tty'[Seat] = 0 /\ s \notin live'
      BY <2>1, <2>2, <2>5
    <3> QED BY <2>3, <2>4, <2>5, <3>1 DEF SwitchSeat
  <2>6. CASE tty[Seat] # s
    <3>1. tty'[Seat] = tty[Seat] /\ live' \subseteq live
      BY <2>1, <2>2, <2>6
    <3> QED BY <2>3, <3>1 DEF SwitchSeat
  <2> QED BY <2>5, <2>6
<1>7. ASSUME Switch PROVE SwitchSeat'
  <2>1. at["user"] = "idle" /\ at'["user"] = "probe" /\ tty[Seat] # 0 /\ of[tty[Seat]] = Home /\ UNCHANGED <<live, tty>>
    BY <1>0, <1>7, StationIds DEF Switch, Call, Go, tmux
  <2>2. tty[Seat] = 1
    BY <1>1, <2>1, StationIds DEF SwitchSeat
  <2> QED BY <2>1, <2>2 DEF SwitchSeat
<1>8. ASSUME SwitchOpened PROVE SwitchSeat'
  <2>1. at["user"] = "opened" /\ live' = live
    BY <1>8 DEF SwitchOpened
  <2>2. \/ at'["user"] = "detached" /\ tty'[Seat] = 0
        \/ at'["user"] = "raise" /\ tty' = tty
    BY <1>0, <1>8, StationIds DEF SwitchOpened, Go
  <2> QED BY <2>1, <2>2 DEF SwitchSeat
<1>9. ASSUME HasDestination PROVE SwitchSeat'
  <2>1. at["user"] = "detached" /\ at'["user"] \in {"back", "attach"} /\ UNCHANGED <<live, tty>>
    BY <1>0, <1>9, StationIds DEF HasDestination, Go, tmux
  <2> QED BY <2>1 DEF SwitchSeat
<1>10. ASSUME AttachDestination PROVE SwitchSeat'
  <2>1. at["user"] = "attach" /\ live' = live
    BY <1>10 DEF AttachDestination
  <2>2. tty[Seat] = 0
    BY <2>1 DEF SwitchSeat
  <2>3. \/ at'["user"] = "back" /\ tty' = tty
        \/ /\ at'["user"] = "idle" /\ sock[Other] \in live
           /\ tty'[Seat] = sock[Other] /\ tgt'["user"] = sock[Other]
    BY <1>0, <1>10, StationIds DEF AttachDestination, AttachSession, Absent, Go
  <2>4. sock[Other] \in live => sock[Other] = 2
    BY <1>1
  <2> QED BY <2>1, <2>2, <2>3, <2>4 DEF SwitchSeat
<1>11. ASSUME HasSource PROVE SwitchSeat'
  <2>1. at["user"] = "back" /\ UNCHANGED <<live, tty>>
    BY <1>11 DEF HasSource, tmux
  <2>2. tty[Seat] = 0
    BY <2>1 DEF SwitchSeat
  <2>3. at'["user"] = "source" \/ (at'["user"] = "idle" /\ sock[Home] \notin live)
    BY <1>0, <1>11, StationIds DEF HasSource, Absent, Go
  <2>4. sock[Home] \notin live => 1 \notin live
    BY <1>1
  <2> QED BY <2>1, <2>2, <2>3, <2>4 DEF SwitchSeat
<1>12. ASSUME AttachSource PROVE SwitchSeat'
  <2>1. at["user"] = "source" /\ live' = live
    BY <1>12 DEF AttachSource
  <2>2. tty[Seat] = 0
    BY <2>1 DEF SwitchSeat
  <2>3. at'["user"] = "idle" /\ \/ tty' = tty /\ sock[Home] \notin live
                                \/ tty'[Seat] = sock[Home] /\ sock[Home] \in live
    BY <1>0, <1>12, StationIds DEF AttachSource, AttachSession, Absent, Go
  <2>4. (sock[Home] \notin live => 1 \notin live) /\ (sock[Home] \in live => sock[Home] = 1)
    BY <1>1
  <2> QED BY <2>1, <2>2, <2>3, <2>4 DEF SwitchSeat
<1>13. ASSUME ProviderExits \/ UNCHANGED core PROVE SwitchSeat'
  BY <1>3, <1>13 DEF ProviderExits, calls, core
<1> QED BY <1>2, <1>4, <1>5, <1>6, <1>7, <1>8, <1>9, <1>10, <1>11, <1>12, <1>13 DEF SwitchStep

-----------------------------------------------------------------------------
(* The stations, as a whole *)

\* Every step keeps the invariant of the stations.
LEMMA StationInvStep ==
  ASSUME StationInv, Moved PROVE StationInv'
<1>1. ServerTypes /\ ControlTypes /\ LockIsHeld /\ UnlinksDead /\ UnlinksOther /\ ClosesIdle /\ SwitchInv
  BY DEF StationInv
<1>2. ServerTypes' /\ ControlTypes' /\ LockIsHeld'
  BY <1>1, ServerTypesStep, ControlStep, LockStep
<1>3. UnlinksDead' /\ UnlinksOther' /\ ClosesIdle'
  BY <1>1, UnlinksDeadStep, UnlinksOtherStep, ClosesIdleStep
<1>4. mix' = mix
  BY <1>1, ServerSteps
<1>5. SwitchInv'
  <2>1. ASSUME mix = "switch" PROVE SwitchServers' /\ SwitchControl' /\ SwitchSeat'
    <3>1. SwitchServers /\ SwitchControl /\ SwitchSeat
      BY <1>1, <2>1 DEF SwitchInv
    <3> QED BY <1>1, <2>1, <3>1, SwitchServersStep, SwitchControlStep, SwitchSeatStep
  <2> QED BY <1>4, <2>1 DEF SwitchInv
<1> QED BY <1>2, <1>3, <1>5 DEF StationInv

\* The stations begin so: none, one, or both of them up.
LEMMA StationInvInit ==
  ASSUME Init PROVE StationInv
<1> DEFINE up == IF mix = "switch" THEN Missions ELSE IF mix = "watch" THEN {Home} ELSE {}
<1>1. /\ sock = [m \in Missions |-> IF m \notin up THEN 0 ELSE IF m = Home THEN 1 ELSE 2]
      /\ made = Cardinality(up) /\ live = 1 .. Cardinality(up)
      /\ of = [s \in Servers |-> IF mix = "switch" /\ s = 2 THEN Other ELSE Home]
      /\ tty = [t \in Terminals |-> IF mix = "switch" THEN 1 ELSE 0]
      /\ dying = {} /\ pane = {} /\ lock = "free"
      /\ at = [a \in Actors |-> "idle"] /\ ret = [a \in Actors |-> "idle"]
      /\ tgt = [a \in Actors |-> 0] /\ had = [a \in Actors |-> NoFiles]
  BY DEF Init
<1>2. Cardinality({}) = 0 /\ Cardinality({Home}) = 1 /\ Cardinality(Missions) = 2
  <2>1. Cardinality({Home, Other}) = 2
    <3>1. {Home, Other} = {Home} \cup {Other} /\ Other \notin {Home}
      BY StationIds
    <3>2. IsFiniteSet({Home}) /\ Cardinality({Home}) = 1
      BY FS_Singleton
    <3>3. Cardinality({Home} \cup {Other}) = Cardinality({Home}) + 1
      BY <3>1, <3>2, FS_AddElement
    <3> QED BY <3>1, <3>2, <3>3
  <2> QED BY <2>1, FS_EmptySet, FS_Singleton DEF Missions
<1>3. /\ mix = "switch" => up = Missions /\ made = 2
      /\ mix = "watch" => up = {Home} /\ made = 1
      /\ mix \notin {"switch", "watch"} => up = {} /\ made = 0
  BY <1>1, <1>2
<1>4. made \in {0, 1, 2} /\ live = 1 .. made
  BY <1>1, <1>3
<1>5. \A m \in Missions : sock[m] \in 0 .. made
  <2>1. ASSUME NEW m \in Missions PROVE sock[m] \in 0 .. made
    <3>1. sock[m] = IF m \notin up THEN 0 ELSE IF m = Home THEN 1 ELSE 2
      BY <1>1
    <3>2. m = Home \/ m = Other
      BY DEF Missions
    <3> HIDE DEF up
    <3> QED BY <1>3, <3>1, <3>2, StationIds
  <2> QED BY <2>1
<1> HIDE DEF up
<1>6. ServerTypes
  <2>1. sock \in [Missions -> 0 .. made]
    BY <1>1, <1>5
  <2>2. of \in [Servers -> Missions]
    BY <1>1, StationIds
  <2>3. made \in Nat /\ made <= MaxServers /\ (mix = "switch" => made >= 2)
    BY <1>3, <1>4, StationIds
  <2>4. tty \in [Terminals -> 0 .. made] /\ tgt \in [Actors -> 0 .. made]
    BY <1>1, <1>3, <1>4
  <2> QED BY <1>1, <1>4, <2>1, <2>2, <2>3, <2>4 DEF ServerTypes
<1>7. ControlTypes
  BY <1>1, PcsAre, StationIds DEF ControlTypes
<1>8. LockIsHeld /\ UnlinksDead /\ UnlinksOther /\ ClosesIdle
  BY <1>1, StationIds DEF LockIsHeld, UnlinksDead, UnlinksOther, ClosesIdle
<1>9. SwitchInv
  <2>1. ASSUME mix = "switch" PROVE SwitchServers /\ SwitchControl /\ SwitchSeat
    <3>1. made = 2 /\ live = 1 .. 2 /\ up = Missions
      BY <1>3, <1>4, <2>1
    <3>2. sock[Home] = 1 /\ sock[Other] = 2
      BY <1>1, <3>1, StationIds
    <3>3. 1 \in Servers /\ 2 \in Servers
      BY StationIds DEF Servers
    <3>4. of[1] = Home /\ of[2] = Other
      BY <1>1, <2>1, <3>3
    <3>5. SwitchServers
      BY <3>1, <3>2, <3>4 DEF SwitchServers
    <3>6. SwitchControl /\ SwitchSeat
      BY <1>1, <2>1, StationIds DEF SwitchControl, SwitchSeat
    <3> QED BY <3>5, <3>6
  <2> QED BY <2>1 DEF SwitchInv
<1> QED BY <1>6, <1>7, <1>8, <1>9 DEF StationInv

\* The inductive invariant of the stations holds, for any number of terminals, faults and moves.
THEOREM StationInvHolds == Spec => []StationInv
<1>1. Init => StationInv
  BY StationInvInit
<1>2. StationInv /\ [Next]_vars => StationInv'
  BY StationInvStep DEF Moved
<1> QED BY <1>1, <1>2, PTL DEF Spec

\* No process costs another one its server: files are removed only when the server that was told to
\* exit is gone, a station is closed only without a provider, and a switch leaves no terminal at its
\* shell while its station runs (stop, close_finished_station, switch_client_to).
THEOREM NobodyIsCutOffHolds == Spec => []NobodyIsCutOff
<1>1. StationInv => NobodyIsCutOff
  <2> SUFFICES ASSUME StationInv PROVE NobodyIsCutOff
    OBVIOUS
  <2>1. StopIsProven
    BY DEF StationInv, UnlinksOther, ServerTypes, StopIsProven
  <2>2. CloseSparesProvider
    BY DEF StationInv, ClosesIdle, CloseSparesProvider
  <2>3. SwitchKeepsTerminal
    BY DEF StationInv, SwitchInv, SwitchSeat, SwitchKeepsTerminal
  <2> QED BY <2>1, <2>2, <2>3 DEF NobodyIsCutOff
<1> QED BY <1>1, StationInvHolds, PTL

\* Who holds the mission lock never unlinks the socket of a live server (reclaim_dead_station, stop,
\* _reclaim_after_failed_attach).
THEOREM LockKeepsLiveSocketsHolds == Spec => LockKeepsLiveSockets
<1> DEFINE Keeps(a) == (lock = a /\ at[a] = "unlink" /\ at'[a] # "unlink") => (sock'[Home] = 0 => Absent(Home))
<1>1. ASSUME StationInv, Next, NEW a \in Actors PROVE Keeps(a)
  <2> SUFFICES ASSUME lock = a, at[a] = "unlink", at'[a] # "unlink", sock'[Home] = 0 PROVE Absent(Home)
    OBVIOUS
  <2>1. CASE MissionOf(a) = Home
    BY <1>1, <2>1 DEF StationInv, UnlinksDead
  <2>2. CASE MissionOf(a) # Home
    <3>1. a = "user" /\ mix = "switch"
      BY <2>2 DEF MissionOf
    <3>2. lock \in {"free", "closer"}
      BY <1>1, <3>1 DEF StationInv, SwitchInv, SwitchControl
    <3> QED BY <3>1, <3>2
  <2> QED BY <2>1, <2>2
<1>2. StationInv /\ [Next]_vars => [\A a \in Actors : Keeps(a)]_vars
  BY <1>1
<1> QED BY <1>2, StationInvHolds, PTL DEF Spec, LockKeepsLiveSockets

-----------------------------------------------------------------------------
(* 2. The watched pane and the home screen *)

-----------------------------------------------------------------------------
(* The watched pane *)

WatchScreens == {"prompt", "question", "work"}

WatchTypes ==
  watch \in [now : Nat, active : Nat, screen : WatchScreens, changed : Nat,
            seen : [epoch : Int, screen : WatchScreens, since : Nat], waiting : BOOLEAN, busy : Int]

\* What the cache holds is the screen of its epoch, and no read since then found anything else.
WatchInv ==
  /\ WatchTypes
  /\ watch.seen.epoch <= watch.active /\ watch.active <= watch.now /\ watch.busy <= watch.now
  /\ watch.seen.epoch = watch.active => watch.screen = watch.seen.screen \/ watch.changed = watch.active
  /\ watch.seen.epoch # -1 /\ watch.seen.screen = "prompt" => watch.busy <= watch.seen.since
  /\ WaitIsSeen

\* Only the pane, the home screen and the picker change what they show.
LEMMA ElsewhereIs ==
  ASSUME Next \/ UNCHANGED vars
  PROVE  \/ Output \/ BridgeOutput \/ Second \/ ReadWait
         \/ Commit \/ PollTakes \/ PollStarts \/ Load \/ Publish
         \/ Up \/ Down \/ FilterKey \/ Return \/ Leave \/ StartSelected
         \/ OpenForm \/ CloseForm \/ Type \/ Compose \/ CreateFails \/ Create
         \/ PickerOpens \/ PickerAsks \/ PickerKeeps \/ PickerCloses \/ PickerEnds
         \/ UNCHANGED <<watch, home>>
<1>1. ASSUME NEW a \in Actors,
             \/ Probe(a) \/ Unanswered(a) \/ Relisten(a) \/ Unlink(a) \/ UnlinkConf(a)
             \/ StopProbe(a) \/ KillServer(a) \/ Confirm(a) \/ Raised(a) \/ AskProvider(a) \/ AskClients(a)
      PROVE  UNCHANGED <<watch, home>>
  BY <1>1 DEF Probe, Unanswered, Relisten, Unlink, UnlinkConf, StopProbe, KillServer, Confirm, Raised, AskProvider,
              AskClients, screens
<1>2. CASE \/ ServerExits \/ ServerDies
           \/ Boot \/ PriorOpened \/ StartStation \/ CheckPaths \/ WriteConfig \/ Spawn \/ Launch \/ ProviderExits
           \/ MissionEnds \/ Finally \/ ControllerEnds \/ ControllerCrashes
  BY <1>2 DEF ServerExits, ServerDies, Boot, PriorOpened, StartStation, CheckPaths, WriteConfig, Spawn, Launch,
              ProviderExits, MissionEnds, Finally, ControllerEnds, ControllerCrashes, screens
<1>3. CASE \/ CloseBegins \/ Reopen \/ Opened \/ CloseEnds \/ StopFinished
           \/ ForceStop \/ ForceOpened \/ ForceEnds
           \/ Attach \/ AttachOpened \/ AttachRuns \/ ReclaimAttach \/ AttachEnds \/ Detach
           \/ Switch \/ SwitchOpened \/ HasDestination \/ AttachDestination \/ HasSource \/ AttachSource
  BY <1>3 DEF CloseBegins, Reopen, Opened, CloseEnds, StopFinished, ForceStop, ForceOpened, ForceEnds, Attach,
              AttachOpened, AttachRuns, ReclaimAttach, AttachEnds, Detach, Switch, SwitchOpened, HasDestination,
              AttachDestination, HasSource, AttachSource, screens
<1>4. UNCHANGED vars => UNCHANGED <<watch, home>>
  BY DEF vars, screens
<1> QED BY <1>1, <1>2, <1>3, <1>4 DEF Next

\* Every step keeps the watched pane's invariant.
LEMMA WatchInvStep ==
  ASSUME WatchInv, Next \/ UNCHANGED vars PROVE WatchInv'
<1>0. /\ WatchTypes /\ WaitIsSeen /\ IdleSeconds \in Nat
      /\ watch.seen.epoch <= watch.active /\ watch.active <= watch.now /\ watch.busy <= watch.now
      /\ watch.seen.epoch = watch.active => watch.screen = watch.seen.screen \/ watch.changed = watch.active
      /\ watch.seen.epoch # -1 /\ watch.seen.screen = "prompt" => watch.busy <= watch.seen.since
  BY StationAssumption DEF WatchInv
<1>1. CASE Output
  <2>1. PICK x \in {"prompt", "question", "work"} :
          watch' = [watch EXCEPT !.active = watch.now, !.screen = x, !.waiting = FALSE,
                                 !.changed = IF x = watch.screen THEN watch.changed ELSE watch.now]
    BY <1>1 DEF Output
  <2>2. /\ watch'.now = watch.now /\ watch'.active = watch.now /\ watch'.screen = x
        /\ watch'.changed = (IF x = watch.screen THEN watch.changed ELSE watch.now)
        /\ watch'.seen = watch.seen /\ watch'.waiting = FALSE /\ watch'.busy = watch.busy
    BY <1>0, <2>1 DEF WatchTypes
  <2>3. WatchTypes'
    BY <1>0, <2>1 DEF WatchTypes, WatchScreens
  <2> QED BY <1>0, <2>2, <2>3 DEF WatchTypes, WatchInv, WaitIsSeen
<1>2. CASE BridgeOutput \/ Second
  <2>1. PICK t \in Nat, e \in Nat :
          /\ watch' = [watch EXCEPT !.now = t, !.active = e, !.waiting = FALSE]
          /\ t >= watch.now /\ e \in {watch.active, t} /\ (t # watch.now => e = watch.active)
    <3>1. watch.now \in Nat /\ watch.active \in Nat /\ watch.now + 1 \in Nat /\ watch.now + 1 >= watch.now
            /\ watch.now >= watch.now
      BY <1>0 DEF WatchTypes
    <3>2. CASE BridgeOutput
      <4>1. watch' = [watch EXCEPT !.now = watch.now, !.active = watch.now, !.waiting = FALSE]
        BY <1>0, <3>2 DEF BridgeOutput, WatchTypes
      <4> QED BY <3>1, <4>1
    <3>3. CASE Second
      <4>1. watch' = [watch EXCEPT !.now = watch.now + 1, !.active = watch.active, !.waiting = FALSE]
        BY <1>0, <3>3 DEF Second, WatchTypes
      <4> QED BY <3>1, <4>1
    <3> QED BY <1>2, <3>2, <3>3
  <2>2. /\ watch'.now = t /\ watch'.active = e /\ watch'.screen = watch.screen /\ watch'.changed = watch.changed
        /\ watch'.seen = watch.seen /\ watch'.waiting = FALSE /\ watch'.busy = watch.busy
    BY <1>0, <2>1 DEF WatchTypes
  <2>3. WatchTypes'
    BY <1>0, <2>1 DEF WatchTypes
  <2> QED BY <1>0, <2>1, <2>2, <2>3 DEF WatchTypes, WatchInv, WaitIsSeen
<1>3. CASE ReadWait
  <2>1. CASE watch' = [watch EXCEPT !.seen = NoWatch.seen, !.waiting = FALSE]
    <3>1. NoWatch.seen \in [epoch : Int, screen : WatchScreens, since : Nat] /\ NoWatch.seen.epoch = -1
      BY DEF NoWatch, WatchScreens
    <3>2. /\ watch'.now = watch.now /\ watch'.active = watch.active /\ watch'.screen = watch.screen
          /\ watch'.changed = watch.changed /\ watch'.waiting = FALSE /\ watch'.busy = watch.busy
          /\ watch'.seen = NoWatch.seen
      BY <1>0, <2>1 DEF WatchTypes
    <3>3. WatchTypes'
      BY <1>0, <2>1, <3>1 DEF WatchTypes
    <3> QED BY <1>0, <3>1, <3>2, <3>3 DEF WatchTypes, WatchInv, WaitIsSeen
  <2>2. CASE watch' # [watch EXCEPT !.seen = NoWatch.seen, !.waiting = FALSE]
    <3> DEFINE s == Sample(watch)
    <3>1. watch' = [watch EXCEPT !.seen = s, !.busy = IF s.screen # "prompt" THEN watch.now ELSE @,
                                 !.waiting = \/ s.screen = "question"
                                             \/ s.screen = "prompt" /\ watch.now - s.since >= IdleSeconds]
      BY <1>3, <2>2 DEF ReadWait
    <3>2. /\ s \in [epoch : Int, screen : WatchScreens, since : Nat]
          /\ s.epoch = watch.active
          /\ s.screen = IF watch.active # watch.seen.epoch THEN watch.screen ELSE watch.seen.screen
          /\ s.since = IF watch.seen.epoch = -1 \/ s.screen # watch.seen.screen THEN watch.now ELSE watch.seen.since
      BY <1>0 DEF Sample, WatchTypes
    <3> HIDE DEF s
    <3>3. /\ watch'.now = watch.now /\ watch'.active = watch.active /\ watch'.screen = watch.screen
          /\ watch'.changed = watch.changed /\ watch'.seen = s
          /\ watch'.busy = IF s.screen # "prompt" THEN watch.now ELSE watch.busy
          /\ watch'.waiting <=> (s.screen = "question" \/ (s.screen = "prompt" /\ watch.now - s.since >= IdleSeconds))
      BY <1>0, <3>1 DEF WatchTypes
    <3>4. WatchTypes'
      <4>1. PICK b \in Int, w \in BOOLEAN : watch' = [watch EXCEPT !.seen = s, !.busy = b, !.waiting = w]
        <5> DEFINE b == IF s.screen # "prompt" THEN watch.now ELSE watch.busy
                   w == s.screen = "question" \/ (s.screen = "prompt" /\ watch.now - s.since >= IdleSeconds)
        <5>1. watch' = [watch EXCEPT !.seen = s, !.busy = b, !.waiting = w]
          BY <1>0, <3>1 DEF WatchTypes
        <5>2. b \in Int
          BY <1>0 DEF WatchTypes
        <5>3. w \in BOOLEAN
          OBVIOUS
        <5> HIDE DEF b, w
        <5> QED BY <5>1, <5>2, <5>3
      <4> QED BY <1>0, <3>2, <4>1 DEF WatchTypes
    <3>5. s.screen = "prompt" => watch.busy <= s.since
      BY <1>0, <3>2 DEF WatchTypes
    <3>6. watch.screen = s.screen \/ watch.changed = s.epoch
      BY <1>0, <3>2 DEF WatchTypes
    <3>7. WaitIsSeen'
      BY <1>0, <3>2, <3>3, <3>5, <3>6 DEF WatchTypes, WaitIsSeen
    <3> QED BY <1>0, <3>2, <3>3, <3>4, <3>5, <3>6, <3>7 DEF WatchTypes, WatchInv
  <2> QED BY <2>1, <2>2
<1>4. CASE watch' = watch
  BY <1>0, <1>4 DEF WatchInv, WatchTypes, WaitIsSeen
<1>5. CASE \/ Commit \/ PollTakes \/ PollStarts \/ Load \/ Publish
           \/ Up \/ Down \/ FilterKey \/ Return \/ Leave \/ StartSelected
           \/ OpenForm \/ CloseForm \/ Type \/ Compose \/ CreateFails \/ Create
           \/ PickerOpens \/ PickerAsks \/ PickerKeeps \/ PickerCloses \/ PickerEnds
  BY <1>4, <1>5 DEF Commit, PollTakes, PollStarts, Load, Publish, Up, Down, FilterKey, Return, Leave, StartSelected,
       OpenForm, CloseForm, Type, Compose, CreateFails, Create, PickerOpens, PickerAsks, PickerKeeps, PickerCloses,
       PickerEnds, others, rest
<1> QED BY <1>1, <1>2, <1>3, <1>4, <1>5, ElsewhereIs

\* A wait is reported only while what it saw is on the screen, and no read of the last IdleSeconds
\* found anything else (read_native_provider_wait).
THEOREM WaitIsSeenHolds == Spec => []WaitIsSeen
<1>1. Init => WatchInv
  <2> SUFFICES ASSUME Init PROVE WatchInv
    OBVIOUS
  <2>1. watch = NoWatch /\ IdleSeconds \in Nat
    BY StationAssumption DEF Init
  <2>2. 0 - IdleSeconds \in Int /\ 0 - IdleSeconds <= 0
    BY <2>1
  <2>3. WatchTypes
    BY <2>1, <2>2 DEF WatchTypes, WatchScreens, NoWatch
  <2>4. /\ watch.now = 0 /\ watch.active = 0 /\ watch.seen.epoch = -1 /\ watch.busy = 0 - IdleSeconds /\ watch.waiting = FALSE
        /\ watch.seen.screen = "work"
    BY <2>1 DEF NoWatch
  <2> QED BY <2>2, <2>3, <2>4 DEF WatchInv, WaitIsSeen
<1>2. WatchInv /\ [Next]_vars => WatchInv'
  BY WatchInvStep
<1>3. WatchInv => WaitIsSeen
  BY DEF WatchInv
<1> QED BY <1>1, <1>2, <1>3, PTL DEF Spec

-----------------------------------------------------------------------------
(* The home screen *)

\* The fields of a read, of the reload and of the screen, the database and the form.
ReadTypes(r) == r \in [gen : Int, ver : Nat, list : {r.list}, ok : {r.ok}, phase : {r.phase}]

ReloadTypes(rl) ==
  /\ rl \in [forced : {rl.forced}, seen : {rl.seen}, rebase : {rl.rebase}, gen : Nat, read : {rl.read}]
  /\ ReadTypes(rl.read)

HomeTypes(h) ==
  /\ h \in [db : {h.db}, rl : {h.rl}, shown : {h.shown}, ver : Nat, sel : {h.sel}, filter : {h.filter},
            form : {h.form}, drafts : {h.drafts}, created : {h.created}, missed : {h.missed}, up : {h.up},
            keys : {h.keys}, pick : {h.pick}]
  /\ h.db \in [ver : Nat, list : {h.db.list}]
  /\ h.form \in [open : {h.form.open}, text : {h.form.text}, draft : {h.form.draft}]
  /\ ReloadTypes(h.rl)

\* What a read that is not invalidated found is no older than what is shown, and one that waits is not.
Fresh(rl, ver, db) ==
  /\ rl.read.gen <= rl.gen /\ ver <= db
  /\ rl.read.phase = "ready" => rl.read.gen = rl.gen
  /\ (rl.read.phase \in {"loaded", "ready"} /\ rl.read.gen = rl.gen /\ rl.read.ok)
       => ver <= rl.read.ver /\ rl.read.ver <= db

HomeInv == HomeTypes(home) /\ Fresh(home.rl, home.ver, home.db.ver)

\* A reload keeps the mission that is selected, while it is shown.
LEMMA ReloadIs ==
  ASSUME NEW h, HomeTypes(h), NEW list, NEW ver \in Nat
  PROVE  /\ HomeTypes(Reload(h, list, ver))
         /\ Reload(h, list, ver).ver = ver /\ Reload(h, list, ver).shown = list
         /\ Reload(h, list, ver).filter = h.filter /\ Reload(h, list, ver).db = h.db
         /\ Reload(h, list, ver).rl = h.rl /\ Reload(h, list, ver).form = h.form
         /\ Reload(h, list, ver).drafts = h.drafts /\ Reload(h, list, ver).created = h.created
         /\ SelectedId(h) \in ToSet(ViewOf(list, h.filter)) => SelectedId(Reload(h, list, ver)) = SelectedId(h)
<1> DEFINE row == RowOf(ViewOf(list, h.filter), SelectedId(h), h.sel)
           h2 == [h EXCEPT !.shown = list, !.ver = ver, !.sel = row]
<1>1. Reload(h, list, ver) = h2
  BY DEF Reload
<1> HIDE DEF row
<1>2. /\ h2.ver = ver /\ h2.shown = list /\ h2.sel = row /\ h2.filter = h.filter /\ h2.db = h.db /\ h2.rl = h.rl
      /\ h2.form = h.form /\ h2.drafts = h.drafts /\ h2.created = h.created
  BY DEF HomeTypes
<1>3. HomeTypes(h2)
  <2>1. h2 \in [db : {h.db}, rl : {h.rl}, shown : {list}, ver : Nat, sel : {row}, filter : {h.filter},
                form : {h.form}, drafts : {h.drafts}, created : {h.created}, missed : {h.missed}, up : {h.up},
                keys : {h.keys}, pick : {h.pick}]
    BY DEF HomeTypes
  <2> HIDE DEF h2
  <2> QED BY <1>2, <2>1 DEF HomeTypes
<1> HIDE DEF h2
<1>4. ASSUME SelectedId(h) \in ToSet(ViewOf(list, h.filter)) PROVE SelectedId(h2) = SelectedId(h)
  <2> DEFINE v == ViewOf(list, h.filter)
  <2>1. \E i \in DOMAIN v : v[i] = SelectedId(h)
    BY <1>4 DEF ToSet
  <2> HIDE DEF v
  <2>2. RowOf(v, SelectedId(h), h.sel) = CHOOSE i \in DOMAIN v : v[i] = SelectedId(h)
    BY <2>1 DEF RowOf
  <2>3. row \in DOMAIN v /\ v[row] = SelectedId(h)
    BY <2>1, <2>2 DEF row, v
  <2>4. ViewOf(h2.shown, h2.filter) = v
    BY <1>2 DEF v
  <2> QED BY <1>2, <2>3, <2>4 DEF SelectedId
<1> QED BY <1>1, <1>2, <1>3, <1>4

\* An invalidated reload drops the read that waits, and the one in flight when it ends.
LEMMA InvalidateIs ==
  ASSUME NEW h, HomeTypes(h), h.ver <= h.db.ver, h.rl.read.gen <= h.rl.gen
  PROVE  /\ HomeTypes(Invalidate(h)) /\ Fresh(Invalidate(h).rl, h.ver, h.db.ver)
         /\ Invalidate(h).ver = h.ver /\ Invalidate(h).shown = h.shown /\ Invalidate(h).sel = h.sel
         /\ Invalidate(h).filter = h.filter /\ Invalidate(h).db = h.db /\ Invalidate(h).form = h.form
         /\ Invalidate(h).drafts = h.drafts /\ Invalidate(h).created = h.created
<1> DEFINE read2 == IF h.rl.read.phase = "ready" THEN NoRead ELSE h.rl.read
           rl2 == [h.rl EXCEPT !.gen = h.rl.gen + 1, !.forced = TRUE, !.read = read2]
           h2 == [h EXCEPT !.rl = rl2]
<1>0. h.ver <= h.db.ver /\ h.rl.read.gen <= h.rl.gen /\ h.rl.gen \in Nat /\ h.rl.read.gen \in Int /\ h.rl.gen + 1 \in Nat
  BY DEF Fresh, HomeTypes, ReloadTypes, ReadTypes
<1>1. Invalidate(h) = h2
  BY DEF Invalidate
<1>3. ReadTypes(NoRead) /\ ReadTypes(h.rl.read) /\ NoRead.gen = -1 /\ NoRead.phase = "none"
  BY DEF NoRead, HomeTypes, ReloadTypes, ReadTypes
<1>2. ReadTypes(read2) /\ (\/ read2.gen = -1 /\ read2.phase = "none"
                           \/ read2 = h.rl.read /\ h.rl.read.phase # "ready")
  BY <1>3
<1> HIDE DEF read2
<1>4. ReloadTypes(rl2) /\ Fresh(rl2, h.ver, h.db.ver)
  <2>1. rl2 \in [forced : {TRUE}, seen : {h.rl.seen}, rebase : {h.rl.rebase}, gen : Nat, read : {read2}]
    BY <1>0 DEF HomeTypes, ReloadTypes
  <2>2. rl2.gen = h.rl.gen + 1 /\ rl2.read = read2
    BY <1>0 DEF HomeTypes, ReloadTypes
  <2> HIDE DEF rl2
  <2>3. ReloadTypes(rl2)
    BY <1>2, <2>1 DEF ReloadTypes
  <2> QED BY <1>0, <1>2, <2>2, <2>3 DEF Fresh
<1> HIDE DEF rl2
<1>5. /\ h2.ver = h.ver /\ h2.shown = h.shown /\ h2.sel = h.sel /\ h2.filter = h.filter /\ h2.db = h.db /\ h2.rl = rl2
      /\ h2.form = h.form /\ h2.drafts = h.drafts /\ h2.created = h.created
  BY DEF HomeTypes
<1>6. HomeTypes(h2)
  <2>1. h2 \in [db : {h.db}, rl : {rl2}, shown : {h.shown}, ver : Nat, sel : {h.sel}, filter : {h.filter},
                form : {h.form}, drafts : {h.drafts}, created : {h.created}, missed : {h.missed}, up : {h.up},
                keys : {h.keys}, pick : {h.pick}]
    BY DEF HomeTypes
  <2> HIDE DEF h2
  <2> QED BY <1>4, <1>5, <2>1 DEF HomeTypes
<1> QED BY <1>1, <1>4, <1>5, <1>6

\* Selecting another row, or typing, leaves the rest of the screen.
LEMMA RowIs ==
  ASSUME NEW h, HomeTypes(h), NEW row
  PROVE  LET h2 == [h EXCEPT !.sel = row] IN
         /\ HomeTypes(h2) /\ h2.sel = row /\ h2.ver = h.ver /\ h2.shown = h.shown /\ h2.filter = h.filter /\ h2.db = h.db
         /\ h2.rl = h.rl /\ h2.form = h.form /\ h2.drafts = h.drafts /\ h2.created = h.created
<1> DEFINE h2 == [h EXCEPT !.sel = row]
<1>1. /\ h2.sel = row /\ h2.ver = h.ver /\ h2.shown = h.shown /\ h2.filter = h.filter /\ h2.db = h.db
      /\ h2.rl = h.rl /\ h2.form = h.form /\ h2.drafts = h.drafts /\ h2.created = h.created
  BY DEF HomeTypes
<1>2. h2 \in [db : {h.db}, rl : {h.rl}, shown : {h.shown}, ver : Nat, sel : {row}, filter : {h.filter},
              form : {h.form}, drafts : {h.drafts}, created : {h.created}, missed : {h.missed}, up : {h.up},
              keys : {h.keys}, pick : {h.pick}]
  BY DEF HomeTypes
<1> HIDE DEF h2
<1>3. HomeTypes(h2)
  BY <1>1, <1>2 DEF HomeTypes
<1> QED BY <1>1, <1>3 DEF h2

\* Counting a key leaves the rest of the screen.
LEMMA KeyIs ==
  ASSUME NEW h, HomeTypes(h), NEW k
  PROVE  LET h2 == [h EXCEPT !.keys = k] IN
         /\ HomeTypes(h2) /\ h2.sel = h.sel /\ h2.ver = h.ver /\ h2.shown = h.shown /\ h2.filter = h.filter /\ h2.db = h.db
         /\ h2.rl = h.rl /\ h2.form = h.form /\ h2.drafts = h.drafts /\ h2.created = h.created
<1> DEFINE h2 == [h EXCEPT !.keys = k]
<1>1. /\ h2.sel = h.sel /\ h2.ver = h.ver /\ h2.shown = h.shown /\ h2.filter = h.filter /\ h2.db = h.db
      /\ h2.rl = h.rl /\ h2.form = h.form /\ h2.drafts = h.drafts /\ h2.created = h.created
  BY DEF HomeTypes
<1>2. h2 \in [db : {h.db}, rl : {h.rl}, shown : {h.shown}, ver : Nat, sel : {h.sel}, filter : {h.filter},
              form : {h.form}, drafts : {h.drafts}, created : {h.created}, missed : {h.missed}, up : {h.up},
              keys : {k}, pick : {h.pick}]
  BY DEF HomeTypes
<1> HIDE DEF h2
<1>3. HomeTypes(h2)
  BY <1>1, <1>2 DEF HomeTypes
<1> QED BY <1>1, <1>3 DEF h2

\* A synchronous load shows the database as it is, and keeps the mission that is selected.
LEMMA LoadNowIs ==
  ASSUME NEW h, HomeTypes(h), h.rl.read.gen <= h.rl.gen, NEW id
  PROVE  LET h2 == LoadNow(h, id) IN
         /\ HomeTypes(h2) /\ h2.ver = h.db.ver /\ h2.db = h.db /\ Fresh(h2.rl, h2.ver, h2.db.ver)
         /\ h2.form = h.form /\ h2.drafts = h.drafts /\ h2.created = h.created
         /\ (id = SelectedId(h) /\ SelectedId(h) \in ToSet(ViewOf(h2.shown, h2.filter))) => SelectedId(h2) = SelectedId(h)
<1> DEFINE now == Reload(h, h.db.list, h.db.ver)
           row == RowOf(ViewOf(now.shown, now.filter), id, now.sel)
           at2 == IF id = None THEN now ELSE [now EXCEPT !.sel = row]
           h2 == LoadNow(h, id)
<1>1. h2 = Invalidate(at2)
  BY DEF LoadNow
<1>2. h.db.ver \in Nat
  BY DEF HomeTypes
<1>3. /\ HomeTypes(now) /\ now.ver = h.db.ver /\ now.shown = h.db.list /\ now.filter = h.filter /\ now.db = h.db
      /\ now.rl = h.rl /\ now.form = h.form /\ now.drafts = h.drafts /\ now.created = h.created
      /\ SelectedId(h) \in ToSet(ViewOf(h.db.list, h.filter)) => SelectedId(now) = SelectedId(h)
  BY <1>2, ReloadIs
<1> HIDE DEF now
<1>4. /\ HomeTypes(at2) /\ at2.ver = h.db.ver /\ at2.shown = h.db.list /\ at2.filter = h.filter /\ at2.db = h.db
      /\ at2.rl = h.rl /\ at2.form = h.form /\ at2.drafts = h.drafts /\ at2.created = h.created
      /\ at2 = now \/ (id # None /\ at2.sel = row)
  <2>1. CASE id = None
    BY <1>3, <2>1
  <2>2. CASE id # None
    <3> HIDE DEF row
    <3>1. at2 = [now EXCEPT !.sel = row]
      BY <2>2
    <3> QED BY <1>3, <2>2, <3>1, RowIs
  <2> QED BY <2>1, <2>2
<1> HIDE DEF at2
<1>5. /\ HomeTypes(h2) /\ Fresh(h2.rl, at2.ver, at2.db.ver) /\ h2.ver = at2.ver /\ h2.shown = at2.shown
      /\ h2.sel = at2.sel /\ h2.filter = at2.filter /\ h2.db = at2.db /\ h2.form = at2.form
      /\ h2.drafts = at2.drafts /\ h2.created = at2.created
  BY <1>1, <1>2, <1>4, InvalidateIs
<1> HIDE DEF h2
<1>6. ASSUME id = SelectedId(h), SelectedId(h) \in ToSet(ViewOf(h2.shown, h2.filter)) PROVE SelectedId(h2) = SelectedId(h)
  <2> DEFINE v == ViewOf(h.db.list, h.filter)
  <2>1. SelectedId(h2) = (IF at2.sel \in DOMAIN v THEN v[at2.sel] ELSE None)
    BY <1>4, <1>5 DEF SelectedId
  <2>2. id \in ToSet(v)
    BY <1>4, <1>5, <1>6
  <2>3. CASE at2 = now
    <3>1. SelectedId(now) = (IF now.sel \in DOMAIN v THEN v[now.sel] ELSE None)
      BY <1>3 DEF SelectedId
    <3> QED BY <1>3, <1>6, <2>1, <2>2, <2>3, <3>1
  <2>4. CASE at2.sel = row
    <3>1. \E i \in DOMAIN v : v[i] = id
      BY <2>2 DEF ToSet
    <3>2. row = CHOOSE i \in DOMAIN v : v[i] = id
      BY <1>3, <3>1 DEF RowOf
    <3>3. row \in DOMAIN v /\ v[row] = id
      BY <3>1, <3>2
    <3> QED BY <1>6, <2>1, <2>4, <3>3
  <2> QED BY <1>4, <2>3, <2>4
<1> QED BY <1>4, <1>5, <1>6 DEF h2

\* A reload is harmless, as an action.
Harmless ==
  /\ home'.ver >= home.ver
  /\ (home'.ver # home.ver /\ home'.form.open = home.form.open /\ SelectedId(home) \in ToSet(ViewOf(home'.shown, home'.filter)))
       => SelectedId(home') = SelectedId(home)
  /\ home.drafts \subseteq home'.drafts \cup home'.created

\* A step that leaves the reload and the list alone.
LEMMA EditIs ==
  ASSUME HomeInv, HomeTypes(home'), home'.ver = home.ver, home'.rl = home.rl, home'.db.ver >= home.db.ver,
         home.drafts \subseteq home'.drafts
  PROVE  HomeInv' /\ Harmless
<1>0. /\ home.ver \in Nat /\ home.db.ver \in Nat /\ home'.db.ver \in Nat /\ Fresh(home.rl, home.ver, home.db.ver)
      /\ home.rl.read.ver \in Nat
  BY DEF HomeInv, HomeTypes, ReloadTypes, ReadTypes
<1>1. Fresh(home.rl, home.ver, home'.db.ver)
  BY <1>0 DEF Fresh
<1> QED BY <1>0, <1>1 DEF HomeInv, Harmless

\* A step that only changes the reload.
LEMMA PollIs ==
  ASSUME HomeInv, NEW rl, ReloadTypes(rl), Fresh(rl, home.ver, home.db.ver), HomeTypes(home'), home'.rl = rl,
         home'.ver = home.ver, home'.db = home.db, home'.drafts = home.drafts
  PROVE  HomeInv' /\ Harmless
<1>0. home.ver \in Nat
  BY DEF HomeInv, HomeTypes
<1> QED BY <1>0 DEF HomeInv, Harmless

\* Every step of the home screen keeps a current reload, and is harmless.
LEMMA HomeStep ==
  ASSUME HomeInv, Next \/ UNCHANGED vars PROVE HomeInv' /\ Harmless
<1>0. /\ HomeTypes(home) /\ Fresh(home.rl, home.ver, home.db.ver) /\ home.ver \in Nat /\ home.db.ver \in Nat
      /\ home.ver <= home.db.ver /\ home.rl.gen \in Nat /\ home.rl.read.gen \in Int /\ home.rl.read.gen <= home.rl.gen
      /\ ReloadTypes(home.rl) /\ ReadTypes(home.rl.read) /\ home.rl.read.ver \in Nat
  BY DEF HomeInv, HomeTypes, Fresh, ReloadTypes, ReadTypes
<1>1. ASSUME home' = home PROVE HomeInv' /\ Harmless
  BY <1>0, <1>1, EditIs
<1>2. CASE Commit
  <2>1. PICK list, b : home' = [home EXCEPT !.db = [ver |-> home.db.ver + 1, list |-> list], !.missed = b]
    BY <1>2 DEF Commit
  <2> DEFINE db == [ver |-> home.db.ver + 1, list |-> list]
  <2>2. db \in [ver : Nat, list : {list}] /\ db.ver >= home.db.ver
    BY <1>0
  <2> HIDE DEF db
  <2>3. /\ home' \in [db : {db}, rl : {home.rl}, shown : {home.shown}, ver : Nat, sel : {home.sel}, filter : {home.filter},
                      form : {home.form}, drafts : {home.drafts}, created : {home.created}, missed : {b}, up : {home.up},
                      keys : {home.keys}, pick : {home.pick}]
        /\ home'.ver = home.ver
    BY <1>0, <2>1 DEF HomeTypes, db
  <2>4. HomeTypes(home')
    BY <1>0, <2>2, <2>3 DEF HomeTypes
  <2> QED BY <2>2, <2>3, <2>4, EditIs
<1>3. CASE Up \/ Down \/ FilterKey
  <2>1. PICK s, f, k : home' = [home EXCEPT !.sel = s, !.filter = f, !.keys = k]
    <3>1. CASE Up
      <4>1. home' = [home EXCEPT !.sel = home.sel - 1, !.filter = home.filter, !.keys = home.keys + 1]
        BY <1>0, <3>1 DEF Up, HomeTypes
      <4> QED BY <4>1
    <3>2. CASE Down
      <4>1. home' = [home EXCEPT !.sel = home.sel + 1, !.filter = home.filter, !.keys = home.keys + 1]
        BY <1>0, <3>2 DEF Down, HomeTypes
      <4> QED BY <4>1
    <3>3. CASE FilterKey
      <4> DEFINE s1 == RowOf(home.shown, SelectedId(home), home.sel)
                 s2 == IF ViewOf(home.shown, TRUE) = << >> THEN 0 ELSE 1
      <4>1. \/ home' = [home EXCEPT !.filter = FALSE, !.sel = s1, !.keys = home.keys + 1]
            \/ home' = [home EXCEPT !.filter = TRUE, !.keys = home.keys + 1, !.sel = s2]
        BY <3>3 DEF FilterKey
      <4> HIDE DEF s1, s2
      <4>2. \/ home' = [home EXCEPT !.sel = s1, !.filter = FALSE, !.keys = home.keys + 1]
            \/ home' = [home EXCEPT !.sel = s2, !.filter = TRUE, !.keys = home.keys + 1]
        BY <1>0, <4>1 DEF HomeTypes
      <4> QED BY <4>2
    <3> QED BY <1>3, <3>1, <3>2, <3>3
  <2>2. /\ home' \in [db : {home.db}, rl : {home.rl}, shown : {home.shown}, ver : Nat, sel : {s}, filter : {f},
                      form : {home.form}, drafts : {home.drafts}, created : {home.created}, missed : {home.missed},
                      up : {home.up}, keys : {k}, pick : {home.pick}]
        /\ home'.ver = home.ver
    BY <1>0, <2>1 DEF HomeTypes
  <2>3. HomeTypes(home')
    BY <1>0, <2>2 DEF HomeTypes
  <2> QED BY <1>0, <2>2, <2>3, EditIs
<1>4. CASE OpenForm \/ CloseForm \/ Type
  <2>1. PICK form, k : home' = [home EXCEPT !.form = form, !.keys = k]
                       /\ form \in [open : {form.open}, text : {form.text}, draft : {form.draft}]
    <3>1. PICK o, t, k : home' = [home EXCEPT !.form = [open |-> o, text |-> t, draft |-> home.form.draft], !.keys = k]
      <4>1. CASE OpenForm \/ CloseForm
        <5>1. PICK o : home' = [home EXCEPT !.form.open = o, !.keys = home.keys + 1]
          BY <4>1 DEF OpenForm, CloseForm
        <5>2. [home.form EXCEPT !.open = o] = [open |-> o, text |-> home.form.text, draft |-> home.form.draft]
          BY <1>0 DEF HomeTypes
        <5>3. home' = [home EXCEPT !.form = [home.form EXCEPT !.open = o], !.keys = home.keys + 1]
          BY <1>0, <5>1 DEF HomeTypes
        <5> QED BY <5>2, <5>3
      <4>2. CASE Type
        <5>1. PICK t : home' = [home EXCEPT !.form.text = t, !.keys = home.keys + 1]
          BY <4>2 DEF Type
        <5>2. [home.form EXCEPT !.text = t] = [open |-> home.form.open, text |-> t, draft |-> home.form.draft]
          BY <1>0 DEF HomeTypes
        <5>3. home' = [home EXCEPT !.form = [home.form EXCEPT !.text = t], !.keys = home.keys + 1]
          BY <1>0, <5>1 DEF HomeTypes
        <5> QED BY <5>2, <5>3
      <4> QED BY <1>4, <4>1, <4>2
    <3> DEFINE form == [open |-> o, text |-> t, draft |-> home.form.draft]
    <3>2. form \in [open : {form.open}, text : {form.text}, draft : {form.draft}]
      OBVIOUS
    <3> QED BY <3>1, <3>2
  <2>2. /\ home' \in [db : {home.db}, rl : {home.rl}, shown : {home.shown}, ver : Nat, sel : {home.sel}, filter : {home.filter},
                      form : {form}, drafts : {home.drafts}, created : {home.created}, missed : {home.missed},
                      up : {home.up}, keys : {k}, pick : {home.pick}]
        /\ home'.ver = home.ver
    BY <1>0, <2>1 DEF HomeTypes
  <2>3. HomeTypes(home')
    BY <1>0, <2>1, <2>2 DEF HomeTypes
  <2> QED BY <1>0, <2>2, <2>3, EditIs
<1>5. CASE PickerOpens \/ PickerAsks \/ PickerKeeps \/ PickerCloses \/ PickerEnds
  <2>1. PICK p, k : home' = [home EXCEPT !.keys = k, !.pick = p]
    <3>1. CASE PickerOpens
      BY <3>1 DEF PickerOpens
    <3>2. CASE PickerAsks \/ PickerKeeps
      <4>1. PICK c : home' = [home EXCEPT !.pick.confirm = c]
        BY <3>2 DEF PickerAsks, PickerKeeps
      <4>2. home' = [home EXCEPT !.keys = home.keys, !.pick = [home.pick EXCEPT !.confirm = c]]
        BY <1>0, <4>1 DEF HomeTypes
      <4> QED BY <4>2
    <3>3. CASE PickerCloses
      <4>1. home' = [[home EXCEPT !.pick.confirm = FALSE] EXCEPT !.pick.station = FALSE]
        BY <3>3 DEF PickerCloses
      <4> DEFINE p == [home.pick EXCEPT !.confirm = FALSE]
                 p2 == [p EXCEPT !.station = FALSE]
      <4>2. [home EXCEPT !.pick.confirm = FALSE] = [home EXCEPT !.pick = p]
        BY <1>0 DEF HomeTypes
      <4> HIDE DEF p
      <4>3. home' = [home EXCEPT !.pick = p2]
        BY <1>0, <4>1, <4>2 DEF HomeTypes
      <4> HIDE DEF p2
      <4>4. home' = [home EXCEPT !.keys = home.keys, !.pick = p2]
        BY <1>0, <4>3 DEF HomeTypes
      <4> QED BY <4>4
    <3>4. CASE PickerEnds
      <4>1. home' = [home EXCEPT !.keys = home.keys, !.pick = HomeStart.pick]
        BY <1>0, <3>4 DEF PickerEnds, HomeTypes
      <4> QED BY <4>1
    <3> QED BY <1>5, <3>1, <3>2, <3>3, <3>4
  <2>2. /\ home' \in [db : {home.db}, rl : {home.rl}, shown : {home.shown}, ver : Nat, sel : {home.sel}, filter : {home.filter},
                      form : {home.form}, drafts : {home.drafts}, created : {home.created}, missed : {home.missed},
                      up : {home.up}, keys : {k}, pick : {p}]
        /\ home'.ver = home.ver
    BY <1>0, <2>1 DEF HomeTypes
  <2>3. HomeTypes(home')
    BY <1>0, <2>2 DEF HomeTypes
  <2> QED BY <1>0, <2>2, <2>3, EditIs
<1>6. CASE Leave
  <2> DEFINE rl2 == [home.rl EXCEPT !.read = NoRead]
  <2>1. ReadTypes(NoRead) /\ NoRead.gen = -1 /\ NoRead.phase = "none"
    BY DEF ReadTypes, NoRead
  <2>2. /\ rl2 \in [forced : {home.rl.forced}, seen : {home.rl.seen}, rebase : {home.rl.rebase}, gen : Nat, read : {NoRead}]
        /\ rl2.gen = home.rl.gen /\ rl2.read = NoRead
    BY <1>0 DEF ReloadTypes
  <2>3. [home EXCEPT !.rl.read = NoRead] = [home EXCEPT !.rl = rl2]
    BY <1>0 DEF HomeTypes
  <2>4. home' = [home EXCEPT !.up = FALSE, !.rl = rl2, !.keys = home.keys + 1]
    BY <1>0, <1>6, <2>3 DEF Leave, HomeTypes
  <2> HIDE DEF rl2
  <2>5. ReloadTypes(rl2) /\ Fresh(rl2, home.ver, home.db.ver)
    BY <1>0, <2>1, <2>2 DEF ReloadTypes, Fresh
  <2>6. /\ home' \in [db : {home.db}, rl : {rl2}, shown : {home.shown}, ver : Nat, sel : {home.sel}, filter : {home.filter},
                      form : {home.form}, drafts : {home.drafts}, created : {home.created}, missed : {home.missed},
                      up : {FALSE}, keys : {home.keys + 1}, pick : {home.pick}]
        /\ home'.ver = home.ver
    BY <1>0, <2>4 DEF HomeTypes
  <2>7. HomeTypes(home')
    BY <1>0, <2>5, <2>6 DEF HomeTypes
  <2> QED BY <1>0, <2>5, <2>6, <2>7, PollIs
<1>7. CASE Return
  <2>1. home' = [Invalidate(home) EXCEPT !.keys = Invalidate(home).keys + 1]
    BY <1>7 DEF Return
  <2>2. /\ HomeTypes(Invalidate(home)) /\ Fresh(Invalidate(home).rl, home.ver, home.db.ver)
        /\ Invalidate(home).ver = home.ver /\ Invalidate(home).db = home.db /\ Invalidate(home).drafts = home.drafts
    BY <1>0, InvalidateIs
  <2>3. /\ HomeTypes(home') /\ home'.ver = home.ver /\ home'.db = home.db /\ home'.rl = Invalidate(home).rl
        /\ home'.drafts = home.drafts
    BY <2>1, <2>2, KeyIs
  <2> QED BY <1>0, <2>2, <2>3 DEF HomeInv, Harmless
<1>8. CASE StartSelected
  <2> DEFINE h2 == LoadNow(home, SelectedId(home))
  <2>1. home' = [h2 EXCEPT !.keys = h2.keys + 1]
    BY <1>8 DEF StartSelected
  <2>2. /\ HomeTypes(h2) /\ h2.ver = home.db.ver /\ h2.db = home.db /\ Fresh(h2.rl, h2.ver, h2.db.ver)
        /\ h2.drafts = home.drafts
        /\ SelectedId(home) \in ToSet(ViewOf(h2.shown, h2.filter)) => SelectedId(h2) = SelectedId(home)
    BY <1>0, LoadNowIs
  <2> HIDE DEF h2
  <2>3. /\ HomeTypes(home') /\ home'.sel = h2.sel /\ home'.ver = h2.ver /\ home'.shown = h2.shown
        /\ home'.filter = h2.filter /\ home'.db = h2.db /\ home'.rl = h2.rl /\ home'.drafts = h2.drafts
    BY <2>1, <2>2, KeyIs
  <2>4. SelectedId(home') = SelectedId(h2)
    BY <2>3 DEF SelectedId
  <2> QED BY <1>0, <2>2, <2>3, <2>4 DEF HomeInv, Harmless
<1>9. CASE PollTakes
  <2> DEFINE r == home.rl.read
             seen == IF ~r.ok THEN -1 ELSE IF home.rl.rebase THEN home.db.ver ELSE home.rl.seen
             rl2 == [home.rl EXCEPT !.seen = seen, !.rebase = FALSE, !.read = NoRead]
             h2 == [home EXCEPT !.rl = rl2]
  <2>1. r.phase = "ready" /\ home' = IF r.ok THEN Reload(h2, r.list, r.ver) ELSE h2
    BY <1>9 DEF PollTakes
  <2> HIDE DEF seen
  <2>2. ReadTypes(NoRead) /\ NoRead.gen = -1 /\ NoRead.phase = "none"
    BY DEF ReadTypes, NoRead
  <2>3. /\ rl2 \in [forced : {home.rl.forced}, seen : {seen}, rebase : {FALSE}, gen : Nat, read : {NoRead}]
        /\ rl2.gen = home.rl.gen /\ rl2.read = NoRead
    BY <1>0 DEF ReloadTypes
  <2> HIDE DEF rl2
  <2>4. ReloadTypes(rl2) /\ \A v, d \in Nat : v <= d => Fresh(rl2, v, d)
    BY <1>0, <2>2, <2>3 DEF ReloadTypes, Fresh
  <2>5. /\ h2 \in [db : {home.db}, rl : {rl2}, shown : {home.shown}, ver : Nat, sel : {home.sel}, filter : {home.filter},
                   form : {home.form}, drafts : {home.drafts}, created : {home.created}, missed : {home.missed},
                   up : {home.up}, keys : {home.keys}, pick : {home.pick}]
        /\ h2.ver = home.ver
    BY <1>0 DEF HomeTypes
  <2> HIDE DEF h2
  <2>6. HomeTypes(h2) /\ SelectedId(h2) = SelectedId(home)
    BY <1>0, <2>4, <2>5 DEF HomeTypes, SelectedId
  <2>7. CASE ~r.ok
    <3>1. home' = h2
      BY <2>1, <2>7
    <3> QED BY <1>0, <2>4, <2>5, <2>6, <3>1, PollIs
  <2>8. CASE r.ok
    <3>1. home.ver <= r.ver /\ r.ver <= home.db.ver /\ r.ver \in Nat
      BY <1>0, <2>1, <2>8 DEF Fresh
    <3> HIDE DEF r
    <3>2. /\ HomeTypes(home') /\ home'.ver = r.ver /\ home'.shown = r.list /\ home'.filter = h2.filter /\ home'.db = h2.db
          /\ home'.rl = rl2 /\ home'.drafts = h2.drafts
          /\ SelectedId(h2) \in ToSet(ViewOf(r.list, h2.filter)) => SelectedId(home') = SelectedId(h2)
      BY <2>1, <2>5, <2>6, <2>8, <3>1, ReloadIs
    <3> QED BY <1>0, <2>4, <2>5, <2>6, <3>1, <3>2 DEF HomeInv, Harmless
  <2> QED BY <2>7, <2>8
<1>10. CASE PollStarts \/ Load \/ Publish
  <2>1. PICK rl2, b : /\ ReloadTypes(rl2) /\ Fresh(rl2, home.ver, home.db.ver)
                      /\ home' = [home EXCEPT !.rl = rl2, !.missed = b]
    <3>1. CASE PollStarts
      <4>1. PICK reading : home' = [home EXCEPT !.rl = [home.rl EXCEPT !.forced = FALSE, !.seen = reading, !.rebase = reading = -1,
                                        !.read = [NoRead EXCEPT !.gen = home.rl.gen, !.phase = "started"]], !.missed = FALSE]
        BY <3>1 DEF PollStarts
      <4> DEFINE r2 == [NoRead EXCEPT !.gen = home.rl.gen, !.phase = "started"]
                 c == reading = -1
                 rl2 == [home.rl EXCEPT !.forced = FALSE, !.seen = reading, !.rebase = c, !.read = r2]
      <4>6. ReadTypes(NoRead)
        BY DEF ReadTypes, NoRead
      <4>2. /\ r2 \in [gen : Int, ver : Nat, list : {NoRead.list}, ok : {NoRead.ok}, phase : {"started"}]
            /\ r2.gen = home.rl.gen /\ r2.phase = "started"
        <5>1. home.rl.gen \in Int
          BY <1>0
        <5> QED BY <4>6, <5>1 DEF ReadTypes
      <4> HIDE DEF r2, c
      <4>3. /\ rl2 \in [forced : {FALSE}, seen : {reading}, rebase : {c}, gen : Nat, read : {r2}]
            /\ rl2.gen = home.rl.gen /\ rl2.read = r2
        BY <1>0 DEF ReloadTypes
      <4>4. home' = [home EXCEPT !.rl = rl2, !.missed = FALSE]
        BY <4>1 DEF r2, c
      <4> HIDE DEF rl2
      <4>5. ReloadTypes(rl2) /\ Fresh(rl2, home.ver, home.db.ver)
        BY <1>0, <4>2, <4>3 DEF ReloadTypes, ReadTypes, Fresh
      <4> QED BY <4>4, <4>5
    <3>2. CASE Load \/ Publish
      <4>1. PICK r2 : /\ home' = [home EXCEPT !.rl.read = r2] /\ ReadTypes(r2)
                      /\ \/ r2.gen = -1 /\ r2.phase = "none"
                         \/ /\ r2.gen = home.rl.read.gen /\ r2.phase = "loaded" /\ r2.ok = home.rl.read.ok
                            /\ r2.ver = home.db.ver
                         \/ r2.gen = home.rl.read.gen /\ r2.phase = "loaded" /\ r2.ok = FALSE
                         \/ /\ r2.gen = home.rl.read.gen /\ r2.gen = home.rl.gen /\ r2.phase = "ready"
                            /\ home.rl.read.phase = "loaded" /\ r2.ok = home.rl.read.ok /\ r2.ver = home.rl.read.ver
        <5>1. CASE Load
          <6> DEFINE ra == [home.rl.read EXCEPT !.ver = home.db.ver, !.list = home.db.list, !.phase = "loaded"]
                     rb == [home.rl.read EXCEPT !.ok = FALSE, !.phase = "loaded"]
          <6>1. home' = [home EXCEPT !.rl.read = ra] \/ home' = [home EXCEPT !.rl.read = rb]
            BY <5>1 DEF Load
          <6>2. /\ ra \in [gen : Int, ver : Nat, list : {home.db.list}, ok : {home.rl.read.ok}, phase : {"loaded"}]
                /\ ra.gen = home.rl.read.gen /\ ra.ver = home.db.ver
            BY <1>0 DEF ReadTypes
          <6>3. /\ rb \in [gen : Int, ver : Nat, list : {home.rl.read.list}, ok : {FALSE}, phase : {"loaded"}]
                /\ rb.gen = home.rl.read.gen
            BY <1>0 DEF ReadTypes
          <6> HIDE DEF ra, rb
          <6>4. ReadTypes(ra) /\ ReadTypes(rb)
            BY <6>2, <6>3 DEF ReadTypes
          <6> QED BY <6>1, <6>2, <6>3, <6>4
        <5>2. CASE Publish
          <6> DEFINE ra == [home.rl.read EXCEPT !.phase = "ready"]
          <6>1. /\ home.rl.read.phase = "loaded"
                /\ home' = [home EXCEPT !.rl.read = IF home.rl.read.gen = home.rl.gen THEN ra ELSE NoRead]
            BY <5>2 DEF Publish
          <6>2. /\ ra \in [gen : Int, ver : Nat, list : {home.rl.read.list}, ok : {home.rl.read.ok}, phase : {"ready"}]
                /\ ra.gen = home.rl.read.gen /\ ra.ver = home.rl.read.ver
            BY <1>0 DEF ReadTypes
          <6> HIDE DEF ra
          <6>3. ReadTypes(ra) /\ ReadTypes(NoRead) /\ NoRead.gen = -1 /\ NoRead.phase = "none"
            BY <6>2 DEF ReadTypes, NoRead
          <6>4. CASE home.rl.read.gen = home.rl.gen
            BY <6>1, <6>2, <6>3, <6>4
          <6>5. CASE home.rl.read.gen # home.rl.gen
            BY <6>1, <6>3, <6>5
          <6> QED BY <6>4, <6>5
        <5> QED BY <3>2, <5>1, <5>2
      <4> DEFINE rl2 == [home.rl EXCEPT !.read = r2]
      <4>2. /\ rl2 \in [forced : {home.rl.forced}, seen : {home.rl.seen}, rebase : {home.rl.rebase}, gen : Nat, read : {r2}]
            /\ rl2.gen = home.rl.gen /\ rl2.read = r2
        BY <1>0 DEF ReloadTypes
      <4>3. home' = [home EXCEPT !.rl = rl2, !.missed = home.missed]
        BY <1>0, <4>1 DEF HomeTypes
      <4> HIDE DEF rl2
      <4>4. ReloadTypes(rl2)
        BY <4>1, <4>2 DEF ReloadTypes
      <4>5. Fresh(rl2, home.ver, home.db.ver)
        BY <1>0, <4>1, <4>2 DEF Fresh
      <4> QED BY <4>3, <4>4, <4>5
    <3> QED BY <1>10, <3>1, <3>2
  <2>2. /\ home' \in [db : {home.db}, rl : {rl2}, shown : {home.shown}, ver : Nat, sel : {home.sel}, filter : {home.filter},
                      form : {home.form}, drafts : {home.drafts}, created : {home.created}, missed : {b},
                      up : {home.up}, keys : {home.keys}, pick : {home.pick}]
        /\ home'.ver = home.ver
    BY <1>0, <2>1 DEF HomeTypes
  <2>3. HomeTypes(home')
    BY <1>0, <2>1, <2>2 DEF HomeTypes
  <2> QED BY <1>0, <2>1, <2>2, <2>3, PollIs
<1>11. CASE CreateFails
  <2> DEFINE form2 == [home.form EXCEPT !.draft = home.form.text]
             drafts2 == home.drafts \cup {home.form.text}
             h2 == [home EXCEPT !.form = form2, !.drafts = drafts2]
  <2>1. home' = Invalidate(IF home.form.draft = NoText
                           THEN [home EXCEPT !.form.draft = home.form.text, !.drafts = drafts2] ELSE home)
    BY <1>11 DEF CreateFails
  <2>2. home' = Invalidate(h2) \/ home' = Invalidate(home)
    <3>1. [home EXCEPT !.form.draft = home.form.text, !.drafts = drafts2] = h2
      BY <1>0 DEF HomeTypes
    <3> QED BY <2>1, <3>1
  <2>3. form2 \in [open : {home.form.open}, text : {home.form.text}, draft : {home.form.text}]
    BY <1>0 DEF HomeTypes
  <2> HIDE DEF form2
  <2>4. /\ h2 \in [db : {home.db}, rl : {home.rl}, shown : {home.shown}, ver : Nat, sel : {home.sel}, filter : {home.filter},
                   form : {form2}, drafts : {drafts2}, created : {home.created}, missed : {home.missed},
                   up : {home.up}, keys : {home.keys}, pick : {home.pick}]
        /\ h2.ver = home.ver
    BY <1>0 DEF HomeTypes
  <2> HIDE DEF h2
  <2>5. HomeTypes(h2) /\ home.drafts \subseteq h2.drafts /\ h2.db = home.db /\ h2.rl = home.rl
    BY <1>0, <2>3, <2>4 DEF HomeTypes
  <2>6. PICK h \in {h2, home} : home' = Invalidate(h)
    BY <2>2
  <2>7. HomeTypes(h) /\ h.ver = home.ver /\ h.db = home.db /\ h.rl = home.rl /\ home.drafts \subseteq h.drafts
    BY <1>0, <2>4, <2>5, <2>6
  <2>8. /\ HomeTypes(home') /\ Fresh(home'.rl, h.ver, h.db.ver) /\ home'.ver = h.ver /\ home'.db = h.db
        /\ home'.drafts = h.drafts
    BY <1>0, <2>6, <2>7, InvalidateIs
  <2> QED BY <1>0, <2>7, <2>8 DEF HomeInv, Harmless
<1>12. CASE Compose
  <2> DEFINE h == Invalidate(home)
  <2>1. /\ HomeTypes(h) /\ Fresh(h.rl, home.ver, home.db.ver) /\ h.ver = home.ver /\ h.db = home.db
        /\ h.form = home.form /\ h.drafts = home.drafts
    BY <1>0, InvalidateIs
  <2>2. PICK form, drafts, k : /\ home' = [h EXCEPT !.form = form, !.drafts = drafts, !.keys = k]
                               /\ form \in [open : {form.open}, text : {form.text}, draft : {form.draft}]
                               /\ h.drafts \subseteq drafts
    <3>1. PICK t : \/ home' = [h EXCEPT !.form.text = t, !.keys = h.keys + 1]
                   \/ home' = [h EXCEPT !.form.draft = t, !.drafts = h.drafts \cup {t}, !.keys = h.keys + 1]
      BY <1>12 DEF Compose
    <3> HIDE DEF h
    <3> DEFINE fa == [h.form EXCEPT !.text = t]
               fb == [h.form EXCEPT !.draft = t]
    <3>2. CASE home' = [h EXCEPT !.form.text = t, !.keys = h.keys + 1]
      <4>1. fa \in [open : {fa.open}, text : {fa.text}, draft : {fa.draft}]
        BY <2>1 DEF HomeTypes
      <4>2. home' = [h EXCEPT !.form = fa, !.drafts = h.drafts, !.keys = h.keys + 1]
        BY <2>1, <3>2 DEF HomeTypes
      <4> HIDE DEF fa
      <4> QED BY <4>1, <4>2
    <3>3. CASE home' = [h EXCEPT !.form.draft = t, !.drafts = h.drafts \cup {t}, !.keys = h.keys + 1]
      <4>1. fb \in [open : {fb.open}, text : {fb.text}, draft : {fb.draft}]
        BY <2>1 DEF HomeTypes
      <4> DEFINE d == h.drafts \cup {t}
      <4>2. home' = [h EXCEPT !.form = fb, !.drafts = d, !.keys = h.keys + 1] /\ h.drafts \subseteq d
        BY <2>1, <3>3 DEF HomeTypes
      <4> HIDE DEF fb, d
      <4> QED BY <4>1, <4>2
    <3> QED BY <3>1, <3>2, <3>3
  <2> HIDE DEF h
  <2>3. /\ home' \in [db : {h.db}, rl : {h.rl}, shown : {h.shown}, ver : Nat, sel : {h.sel}, filter : {h.filter},
                      form : {form}, drafts : {drafts}, created : {h.created}, missed : {h.missed},
                      up : {h.up}, keys : {k}, pick : {h.pick}]
        /\ home'.ver = h.ver
    BY <2>1, <2>2 DEF HomeTypes
  <2>4. HomeTypes(home')
    BY <2>1, <2>2, <2>3 DEF HomeTypes
  <2>5. home'.ver = home.ver /\ home'.db = home.db /\ home'.rl = h.rl /\ home.drafts \subseteq home'.drafts
    BY <2>1, <2>2, <2>3
  <2> QED BY <1>0, <2>1, <2>4, <2>5 DEF HomeInv, Harmless
<1>13. CASE Create
  <2>1. PICK id : LET h == [home EXCEPT !.db = [ver |-> home.db.ver + 1, list |-> <<id>> \o home.db.list],
                              !.created = home.created \cup {home.form.text}, !.drafts = DraftsAfter(home),
                              !.form = [open |-> FALSE, text |-> NoText, draft |-> NoText], !.filter = FALSE] IN
                  home' = LoadNow(h, id)
    BY <1>13 DEF Create
  <2>2. home.form.open = TRUE \/ home.form.open # FALSE
    BY <1>13 DEF Create, Held
  <2> DEFINE list == <<id>> \o home.db.list
             db == [ver |-> home.db.ver + 1, list |-> list]
             form == [open |-> FALSE, text |-> NoText, draft |-> NoText]
             created == home.created \cup {home.form.text}
             drafts == DraftsAfter(home)
             h == [home EXCEPT !.db = db, !.created = created, !.drafts = drafts, !.form = form, !.filter = FALSE]
  <2>3. home' = LoadNow(h, id)
    BY <2>1
  <2> HIDE DEF list
  <2>4. /\ db \in [ver : Nat, list : {db.list}] /\ db.ver = home.db.ver + 1
        /\ form \in [open : {form.open}, text : {form.text}, draft : {form.draft}] /\ form.open = FALSE
    BY <1>0
  <2>5. home.drafts \subseteq drafts \cup created
    BY DEF DraftsAfter
  <2> HIDE DEF db, form, created, drafts
  <2>6. /\ h \in [db : {db}, rl : {home.rl}, shown : {home.shown}, ver : Nat, sel : {home.sel}, filter : {FALSE},
                  form : {form}, drafts : {drafts}, created : {created}, missed : {home.missed},
                  up : {home.up}, keys : {home.keys}, pick : {home.pick}]
        /\ h.ver = home.ver
    BY <1>0 DEF HomeTypes
  <2> HIDE DEF h
  <2>7. HomeTypes(h) /\ h.db = db /\ h.rl = home.rl /\ h.form = form /\ h.drafts = drafts /\ h.created = created
    BY <1>0, <2>4, <2>6 DEF HomeTypes
  <2>8. /\ HomeTypes(home') /\ home'.ver = db.ver /\ home'.db = db /\ Fresh(home'.rl, home'.ver, home'.db.ver)
        /\ home'.form = form /\ home'.drafts = drafts /\ home'.created = created
    BY <1>0, <2>3, <2>7, LoadNowIs
  <2>9. home'.form.open # home.form.open
    BY <2>2, <2>4, <2>8
  <2> QED BY <1>0, <2>4, <2>5, <2>8, <2>9 DEF HomeInv, Harmless
<1>14. CASE Output \/ BridgeOutput \/ Second \/ ReadWait \/ UNCHANGED <<watch, home>>
  BY <1>1, <1>14 DEF Output, BridgeOutput, Second, ReadWait
<1> QED BY <1>2, <1>3, <1>4, <1>5, <1>6, <1>7, <1>8, <1>9, <1>10, <1>11, <1>12, <1>13, <1>14, ElsewhereIs

\* A reload never goes back to an older list, keeps the selected mission and every recovery draft
\* (BackgroundReload.invalidate, Launcher.reload, _run_launcher).
THEOREM ReloadIsHarmlessHolds == Spec => ReloadIsHarmless
<1>1. HomeInit => HomeInv
  <2> SUFFICES ASSUME HomeInit PROVE HomeInv
    OBVIOUS
  <2>1. home = HomeStart
    BY DEF HomeInit
  <2> DEFINE rl == [forced |-> TRUE, seen |-> -1, rebase |-> FALSE, gen |-> 0, read |-> NoRead]
  <2>2. ReadTypes(NoRead) /\ NoRead.gen = -1 /\ NoRead.phase = "none"
    BY DEF ReadTypes, NoRead
  <2>3. ReloadTypes(rl) /\ Fresh(rl, 0, 0)
    BY <2>2 DEF ReloadTypes, Fresh
  <2>4. HomeStart.rl = rl /\ HomeStart.ver = 0 /\ HomeStart.db.ver = 0
    BY DEF HomeStart
  <2> HIDE DEF rl
  <2>5. HomeTypes(HomeStart)
    BY <2>3, <2>4 DEF HomeTypes, HomeStart
  <2> QED BY <2>1, <2>3, <2>4, <2>5 DEF HomeInv
<1>2. HomeInv /\ [Next]_vars => HomeInv' /\ [Harmless]_vars
  BY HomeStep
<1> QED BY <1>1, <1>2, PTL DEF Spec, ReloadIsHarmless, Harmless

-----------------------------------------------------------------------------
(* 3. Native sessions *)

-----------------------------------------------------------------------------
(* The inductive invariant *)

Providers == {"none", "mission", "user"}
Cwds == Folders \cup {NoOp.cwd}
File == [by : Providers, agent : Agents, cwd : Cwds, n : Nat]

SavedType == saved \in [Agents -> Sessions \cup {NoSession}]
OpRecords ==
  [n : Nat, agent : Agents, cwd : Cwds,
   phase : {"none", "prepared", "launching", "running", "ended", "lost"},
   state : RestorationStates, sess : Sessions \cup {NoSession}, tok : Nat,
   arg : Sessions \cup {NoSession}, tries : Nat]
OpType == op \in OpRecords
MemType ==
  mem \in [expected : Sessions \cup {NoSession}, candidate : Sessions \cup {NoSession},
           armed : BOOLEAN, owned : BOOLEAN, found : BOOLEAN]
Stores == [made : Nat, toks : Nat, fresh : SUBSET Sessions, file : [Sessions -> File]]
StoreType == store \in Stores
ProcsType == procs \in [Pids -> [tok : Nat, owner : Providers, open : SUBSET Sessions]]
WalkType ==
  walk \in [pc : {"idle", "stat", "enter", "read", "check", "conclude", "capture"}, pid : Pids,
            kids : SUBSET Pids, seen : [Pids -> Nat], got : SUBSET Sessions, found : SUBSET Sessions]
ProofType == proof \in [opened : SUBSET Sessions, others : SUBSET Sessions, reused : BOOLEAN]
SessionTypes == SavedType /\ OpType /\ MemType /\ StoreType /\ ProcsType /\ WalkType /\ ProofType

\* A file of a process of the mission; of the user only when a PID changed hands
\* where the code cannot see it.
Mine(f) == f.by = "mission" \/ (f.by = "user" /\ proof.reused)

\* A file that fits the operation: it was made in it, or is the one to resume.
FitsOp(f, s) == f.agent = op.agent /\ f.cwd = op.cwd /\ (f.n = op.n \/ s = mem.expected)
Ours(s) == Mine(store.file[s]) /\ FitsOp(store.file[s], s)

\* Somebody worked in the session since the operation began.
Worked(s) == s \in proof.opened \cup proof.others \/ proof.reused

\* Numbers that are not given out yet have no file.
FileInv == \A s \in Sessions : s > store.made => store.file[s].by = "none"

SavedInv == \A a \in Agents : saved[a] # NoSession => store.file[saved[a]].agent = a /\ Mine(store.file[saved[a]])

\* The controller's notes are about this operation: what it is to resume is the
\* saved session, and what it planned has no file but one made in this operation.
NotesInv ==
  /\ op.phase \in {"none", "ended", "lost"} => mem = NoNotes
  /\ mem.expected # NoSession => mem.expected = saved[op.agent] /\ Ours(mem.expected)
  /\ mem.candidate # NoSession =>
        /\ mem.candidate <= store.made
        /\ store.file[mem.candidate].by # "none" => Ours(mem.candidate) /\ store.file[mem.candidate].n = op.n
  /\ op.arg # NoSession =>
        /\ op.arg <= store.made
        /\ store.file[op.arg].by # "none" /\ op.phase \notin {"ended", "lost"} => Ours(op.arg)

\* Once the controller has armed the launch, a fresh file has been worked in.
FreshInv == mem.armed => \A s \in store.fresh : Worked(s) \/ store.file[s].by = "user"

\* A start token belongs to one process.  What a process of the mission holds
\* open was opened in this operation, and so was what a user's process holds.
ProcInv ==
  /\ op.tok <= store.toks
  /\ procs[1].tok = op.tok /\ op.tok # 0 => Mission(1)
  /\ \A p \in Pids : /\ procs[p].tok <= store.toks
                     /\ procs[p].owner = "none" => procs[p].tok = 0
                     /\ Mission(p) => procs[p].open \subseteq proof.opened
  /\ op.phase \notin {"ended", "lost"} =>
        \A p \in Pids : \A s \in procs[p].open : /\ store.file[s].by # "none"
                                                 /\ Mission(p) => Mine(store.file[s])
                                                 /\ FitsOp(store.file[s], s)

\* While a process that was found carries its token it is the mission's, so what
\* was read of it counts; once it does not, it never will again.
WalkInv ==
  /\ walk.pc # "idle" => op.phase = "running"
  /\ walk.pc = "capture" => mem.armed /\ Target # NoSession
  /\ \A p \in Pids : walk.seen[p] <= store.toks
  /\ walk.pc \notin {"idle", "capture"} =>
        /\ \A p \in Pids : Alive(p, walk.seen[p]) => Mission(p) \/ proof.reused
        /\ walk.pc = "check" /\ Alive(walk.pid, walk.seen[walk.pid]) =>
              \A s \in walk.got : Ours(s) /\ Worked(s)
        /\ \A s \in walk.found : Ours(s) /\ Worked(s)

OutcomeInv ==
  op.state \in Confirmed =>
     /\ op.sess # NoSession /\ Worked(op.sess)
     /\ store.file[op.sess].by # "none" /\ store.file[op.sess].cwd = op.cwd
     /\ op.state = "NATIVE_CREATED" => store.file[op.sess].n = op.n

SessionInv == /\ SessionTypes /\ FileInv /\ SavedInv /\ NotesInv
              /\ FreshInv /\ ProcInv /\ WalkInv /\ OutcomeInv

\* What is assumed of the constants, in the form the proofs use.
LEMMA SessionIds ==
  /\ MaxSessions \in Nat /\ Sessions \subseteq Nat /\ NoSession \notin Sessions
  /\ \A s \in Nat : s < MaxSessions => s + 1 \in Sessions
BY SessionAssumption DEF Sessions, NoSession

-----------------------------------------------------------------------------
(* It is inductive *)

\* An operation that has begun.
LEMMA NoOpIs ==
  /\ NoOp \in OpRecords
  /\ NoOp.n = 0 /\ NoOp.state = "" /\ NoOp.sess = NoSession /\ NoOp.tok = 0 /\ NoOp.arg = NoSession
<1>1. NoOp.cwd \in Cwds
  BY DEF Cwds
<1> QED BY <1>1 DEF NoOp, OpRecords, Agents, RestorationStates, NoSession, Confirmed

\* Preparing a launch starts an operation without session and touches no record.
LEMMA BeforeLaunchIs ==
  ASSUME OpType, NEW a \in Agents, NEW c \in Folders, BeforeLaunch(a, c)
  PROVE  /\ op' \in OpRecords
         /\ op'.phase = "prepared" /\ op'.state = "" /\ op'.tok = 0 /\ op'.arg = NoSession
         /\ op.phase \in {"none", "ended", "lost"} /\ procs = [p \in Pids |-> NoProcess]
         /\ UNCHANGED <<saved, mem, store, procs, walk>>
         /\ proof' = [proof EXCEPT !.opened = {}, !.others = {}]
<1>1. op' = [NoOp EXCEPT !.n = op.n + 1, !.agent = a, !.cwd = c, !.phase = "prepared"]
  BY DEF BeforeLaunch
<1>2. op.n + 1 \in Nat /\ c \in Cwds
  BY DEF OpType, OpRecords, Cwds
<1> QED BY <1>1, <1>2, NoOpIs DEF OpRecords, BeforeLaunch

-----------------------------------------------------------------------------
(* What the processes do *)

World == \/ \E p \in Pids : AgentObeys(p) \/ AgentCreates(p) \/ AgentWrites(p) \/ AgentExits(p) \/ UserStarts(p)
         \/ AgentForks \/ \E s \in Sessions : UserContinues(s)

\* A file that appears is of this operation, and the mission's only if a process
\* of the mission has opened it.
Appears(s) ==
  /\ store.file[s].by = "none" /\ op.phase = "running" /\ s <= store'.made
  /\ store'.file[s].agent = op.agent /\ store'.file[s].cwd = op.cwd /\ store'.file[s].n = op.n
  /\ \/ store'.file[s].by = "mission" /\ s \in proof'.opened
     \/ store'.file[s].by = "user" /\ s > store.made

\* A process goes on and may open a session, ends, or begins under a new token.
Evolves(p) ==
  \/ procs'[p] = procs[p]
  \/ procs'[p] = NoProcess
  \/ /\ procs'[p].tok = procs[p].tok /\ procs[p].owner = "mission" /\ procs'[p].owner = "mission"
     /\ op.phase = "running" /\ procs'[p].open \subseteq proof'.opened
     /\ \A s \in procs'[p].open : s \in procs[p].open \/ (s = op.arg /\ store.file[s].by # "none")
                                     \/ (Appears(s) /\ store'.file[s].by = "mission")
  \/ /\ procs[p].tok = 0 /\ procs'[p].tok = store.toks + 1 /\ procs'[p].tok = store'.toks
     /\ \/ procs'[p].owner = "mission" /\ procs'[p].open = {}
        \/ procs'[p].owner = "user" /\ \A s \in procs'[p].open : Appears(s)

WorldStep ==
  /\ UNCHANGED <<saved, op, mem, walk>> /\ StoreType' /\ ProcsType' /\ ProofType'
  /\ store.made <= store'.made /\ store.toks <= store'.toks
  /\ proof.opened \subseteq proof'.opened /\ proof.others \subseteq proof'.others /\ proof'.reused = proof.reused
  /\ \A s \in Sessions : store'.file[s] = store.file[s] \/ Appears(s)
  /\ \A s \in store'.fresh : s \in store.fresh \/ s \in proof'.opened \cup proof'.others \/ store'.file[s].by = "user"
  /\ \A p \in Pids : Evolves(p)

\* What a step of the world around the operation (its process, its files) may change.
LEMMA WorldIs ==
  ASSUME SessionTypes, FileInv, NotesInv, ProcInv, World
  PROVE  WorldStep
<1> USE SessionIds DEF SessionTypes, ProcsType, ProofType
<1>1. ASSUME NEW p \in Pids, AgentObeys(p) PROVE WorldStep
  <2>1. /\ op.arg \in Sessions /\ op.arg <= store.made /\ procs[p].owner = "mission" /\ op.phase = "running"
        /\ procs' = [procs EXCEPT ![p].open = {op.arg}] /\ proof' = [proof EXCEPT !.opened = @ \cup {op.arg}]
        /\ store' = IF store.file[op.arg].by = "none" THEN NewFile(store, op.arg, "mission", op.agent, op.cwd) ELSE store
        /\ UNCHANGED <<saved, op, mem, walk>>
    BY <1>1 DEF AgentObeys, Mission, OpType, OpRecords, NotesInv
  <2>2. ProcsType' /\ ProofType'
    BY <2>1
  <2>3. /\ store' \in Stores /\ store'.made = store.made /\ store'.toks = store.toks
        /\ store'.fresh \subseteq store.fresh \cup {op.arg}
        /\ \A s \in Sessions : store'.file[s] = store.file[s] \/ (s = op.arg /\ Appears(s))
        /\ store.file[op.arg].by # "none" \/ (Appears(op.arg) /\ store'.file[op.arg].by = "mission")
    <3>1. CASE store.file[op.arg].by = "none"
      <4>1. store' = NewFile(store, op.arg, "mission", op.agent, op.cwd) /\ store \in Stores /\ "mission" \in Providers
        BY <2>1, <3>1 DEF StoreType, Providers
      <4>2. op.arg \in proof'.opened /\ OpType
        BY <2>1
      <4>3. /\ store' \in Stores /\ store'.made = store.made /\ store'.toks = store.toks
            /\ store'.fresh = store.fresh \cup {op.arg}
            /\ store'.file[op.arg].by = "mission" /\ store'.file[op.arg].agent = op.agent
            /\ store'.file[op.arg].cwd = op.cwd /\ store'.file[op.arg].n = op.n
            /\ \A x \in Sessions : x # op.arg => store'.file[x] = store.file[x]
        <5> DEFINE f == [by |-> "mission", agent |-> op.agent, cwd |-> op.cwd, n |-> op.n]
        <5>1. op.arg \in Sessions /\ f \in File
          BY <2>1, <4>1, <4>2 DEF OpType, OpRecords, File
        <5>2. store' = [store EXCEPT !.file[op.arg] = f, !.fresh = store.fresh \cup {op.arg}]
          BY <4>1 DEF NewFile
        <5>3. f.by = "mission" /\ f.agent = op.agent /\ f.cwd = op.cwd /\ f.n = op.n
          OBVIOUS
        <5> HIDE DEF f, SessionTypes
        <5>4. store.fresh \cup {op.arg} \in SUBSET Sessions /\ store.file \in [Sessions -> File]
          BY <4>1, <5>1 DEF Stores
        <5>5. [store.file EXCEPT ![op.arg] = f] \in [Sessions -> File]
          BY <5>1, <5>4
        <5>6. /\ store' \in Stores /\ store'.made = store.made /\ store'.toks = store.toks
              /\ store'.fresh = store.fresh \cup {op.arg} /\ store'.file = [store.file EXCEPT ![op.arg] = f]
          BY <4>1, <5>2, <5>4, <5>5 DEF Stores
        <5> QED BY <5>1, <5>3, <5>4, <5>6
      <4> QED BY <2>1, <3>1, <4>2, <4>3 DEF Appears
    <3>2. CASE store.file[op.arg].by # "none"
      BY <2>1, <3>2 DEF StoreType
    <3> QED BY <3>1, <3>2
  <2>6. \A q \in Pids : Evolves(q)
    <3>1. store.file[op.arg].by # "none" \/ (Appears(op.arg) /\ store'.file[op.arg].by = "mission")
      BY <2>3
    <3>2. proof'.opened = proof.opened \cup {op.arg}
      BY <2>1
    <3>3. procs'[p].tok = procs[p].tok /\ procs'[p].owner = procs[p].owner /\ procs'[p].open = {op.arg}
      BY <2>1
    <3>4. Evolves(p)
      BY <2>1, <3>1, <3>2, <3>3 DEF Evolves
    <3>5. \A q \in Pids \ {p} : procs'[q] = procs[q]
      BY <2>1
    <3> QED BY <3>4, <3>5 DEF Evolves
  <2>7. proof'.opened = proof.opened \cup {op.arg} /\ proof'.others = proof.others /\ proof'.reused = proof.reused
    BY <2>1
  <2> QED BY <2>1, <2>2, <2>3, <2>6, <2>7 DEF WorldStep, StoreType, Stores
<1>2. ASSUME NEW p \in Pids, AgentCreates(p) PROVE WorldStep
  <2> DEFINE s == store.made + 1
             f == [by |-> "mission", agent |-> op.agent, cwd |-> op.cwd, n |-> op.n]
  <2>1. /\ store.made < MaxSessions /\ procs[p].owner = "mission" /\ op.phase = "running"
        /\ procs' = [procs EXCEPT ![p].open = @ \cup {s}] /\ proof' = [proof EXCEPT !.opened = @ \cup {s}]
        /\ store' = [[store EXCEPT !.made = s] EXCEPT !.file[s] = f, !.fresh = @ \cup {s}]
        /\ UNCHANGED <<saved, op, mem, walk>>
    BY <1>2 DEF AgentCreates, Mission, NewFile, NewId, CanName
  <2>2. s \in Sessions /\ s \in Nat /\ s > store.made /\ f \in File /\ store \in Stores
    BY <2>1 DEF StoreType, Stores, File, OpType, OpRecords, Providers
  <2>3. f.by = "mission" /\ f.agent = op.agent /\ f.cwd = op.cwd /\ f.n = op.n
    OBVIOUS
  <2> HIDE DEF s, f
  <2>4. store.fresh \cup {s} \in SUBSET Sessions /\ store.file \in [Sessions -> File]
    BY <2>2 DEF Stores
  <2>5. [store.file EXCEPT ![s] = f] \in [Sessions -> File]
    BY <2>2, <2>4
  <2>6. /\ store' \in Stores /\ store'.made = s /\ store'.toks = store.toks
        /\ store'.fresh = store.fresh \cup {s} /\ store'.file = [store.file EXCEPT ![s] = f]
    BY <2>1, <2>2, <2>4, <2>5 DEF Stores
  <2>7. proof'.opened = proof.opened \cup {s} /\ proof'.others = proof.others /\ proof'.reused = proof.reused /\ ProofType'
    BY <2>1, <2>2
  <2>8. Appears(s) /\ store'.file[s].by = "mission"
    BY <2>1, <2>2, <2>3, <2>4, <2>6, <2>7 DEF Appears, FileInv, Stores
  <2>9. \A x \in Sessions : store'.file[x] = store.file[x] \/ Appears(x)
    BY <2>4, <2>6, <2>8
  <2>10. ProcsType'
    BY <2>1, <2>2
  <2>11. \A q \in Pids : Evolves(q)
    <3>1. procs'[p].tok = procs[p].tok /\ procs'[p].owner = procs[p].owner /\ procs'[p].open = procs[p].open \cup {s}
      BY <2>1
    <3>2. procs[p].open \subseteq proof.opened
      BY <2>1 DEF ProcInv, Mission
    <3>3. Evolves(p)
      BY <2>1, <2>7, <2>8, <3>1, <3>2 DEF Evolves
    <3>4. \A q \in Pids \ {p} : procs'[q] = procs[q]
      BY <2>1
    <3> QED BY <3>3, <3>4 DEF Evolves
  <2> QED BY <2>1, <2>2, <2>6, <2>7, <2>9, <2>10, <2>11 DEF WorldStep, StoreType, Stores
<1>3. ASSUME NEW p \in Pids, AgentWrites(p) PROVE WorldStep
  <2>1. /\ procs[p].owner = "mission" /\ store' = [store EXCEPT !.fresh = @ \cup procs[p].open]
        /\ UNCHANGED <<saved, op, mem, procs, walk, proof>>
    BY <1>3 DEF AgentWrites, Mission
  <2>2. /\ store' \in Stores /\ store'.made = store.made /\ store'.toks = store.toks
        /\ store'.fresh = store.fresh \cup procs[p].open /\ store'.file = store.file
    BY <2>1 DEF StoreType, Stores
  <2>3. procs[p].open \subseteq proof.opened
    BY <2>1 DEF ProcInv, Mission
  <2>4. \A q \in Pids : Evolves(q)
    BY <2>1 DEF Evolves
  <2>5. ProcsType' /\ ProofType'
    BY <2>1
  <2> QED BY <2>1, <2>2, <2>3, <2>4, <2>5 DEF WorldStep, StoreType, Stores
<1>4. ASSUME NEW p \in Pids, AgentExits(p) PROVE WorldStep
  <2>1. /\ \A q \in Pids : procs'[q] = NoProcess \/ procs'[q] = procs[q]
        /\ procs' = [q \in Pids |-> procs'[q]]
        /\ UNCHANGED <<saved, op, mem, store, walk, proof>>
    BY <1>4 DEF AgentExits
  <2>2. NoProcess \in [tok : Nat, owner : Providers, open : SUBSET Sessions]
    BY DEF NoProcess, Providers
  <2>3. ProcsType' /\ StoreType' /\ ProofType'
    BY <2>1, <2>2 DEF StoreType
  <2>4. \A q \in Pids : Evolves(q)
    BY <2>1 DEF Evolves
  <2>5. store.made \in Nat /\ store.toks \in Nat
    BY DEF StoreType, Stores
  <2> QED BY <2>1, <2>3, <2>4, <2>5 DEF WorldStep
<1>5. ASSUME NEW p \in Pids, UserStarts(p) PROVE WorldStep
  <2> DEFINE s == store.made + 1
             k == store.toks + 1
             f == [by |-> "user", agent |-> op.agent, cwd |-> op.cwd, n |-> op.n]
             q == [tok |-> k, owner |-> "user", open |-> {s}]
  <2>1. /\ store.made < MaxSessions /\ procs[p].tok = 0 /\ op.phase = "running"
        /\ procs' = [procs EXCEPT ![p] = q]
        /\ store' = [[store EXCEPT !.toks = k, !.made = s] EXCEPT !.file[s] = f, !.fresh = @ \cup {s}]
        /\ UNCHANGED <<saved, op, mem, walk, proof>>
    BY <1>5 DEF UserStarts, NewFile, NewId, CanName
  <2>2. s \in Sessions /\ s \in Nat /\ s > store.made /\ f \in File /\ store \in Stores
    BY <2>1 DEF StoreType, Stores, File, OpType, OpRecords, Providers
  <2>3. f.by = "user" /\ f.agent = op.agent /\ f.cwd = op.cwd /\ f.n = op.n
    OBVIOUS
  <2>4. /\ q \in [tok : Nat, owner : Providers, open : SUBSET Sessions]
        /\ q.tok = k /\ q.owner = "user" /\ q.open = {s} /\ k \in Nat /\ k = store.toks + 1
    BY <2>2 DEF Stores, Providers
  <2> HIDE DEF s, k, f, q
  <2>5. store.fresh \cup {s} \in SUBSET Sessions /\ store.file \in [Sessions -> File] /\ store.toks \in Nat
    BY <2>2 DEF Stores
  <2>6. [store.file EXCEPT ![s] = f] \in [Sessions -> File]
    BY <2>2, <2>5
  <2>7. /\ store' \in Stores /\ store'.made = s /\ store'.toks = k
        /\ store'.fresh = store.fresh \cup {s} /\ store'.file = [store.file EXCEPT ![s] = f]
    BY <2>1, <2>2, <2>4, <2>5, <2>6 DEF Stores
  <2>8. Appears(s)
    BY <2>1, <2>2, <2>3, <2>5, <2>7 DEF Appears, FileInv, Stores
  <2>9. \A x \in Sessions : store'.file[x] = store.file[x] \/ Appears(x)
    BY <2>5, <2>7, <2>8
  <2>10. ProcsType' /\ ProofType'
    BY <2>1, <2>4
  <2>11. \A y \in Pids : Evolves(y)
    <3>1. procs'[p] = q /\ \A y \in Pids \ {p} : procs'[y] = procs[y]
      BY <2>1
    <3>2. \A x \in procs'[p].open : Appears(x)
      BY <2>4, <2>8, <3>1
    <3>3. procs'[p].tok = store.toks + 1 /\ procs'[p].tok = store'.toks /\ procs'[p].owner = "user"
      BY <2>4, <2>7, <3>1
    <3>4. Evolves(p)
      BY <2>1, <3>2, <3>3 DEF Evolves
    <3> QED BY <3>1, <3>4 DEF Evolves
  <2>12. \A x \in store'.fresh : x \in store.fresh \/ store'.file[x].by = "user"
    BY <2>2, <2>3, <2>5, <2>7
  <2>13. store.made <= store'.made /\ store.toks <= store'.toks
    BY <2>2, <2>4, <2>5, <2>7 DEF Stores
  <2> QED BY <2>1, <2>7, <2>9, <2>10, <2>11, <2>12, <2>13 DEF WorldStep, StoreType
<1>6. ASSUME AgentForks PROVE WorldStep
  <2> DEFINE q == [tok |-> store.toks + 1, owner |-> "mission", open |-> {}]
  <2>1. /\ procs[2].tok = 0 /\ procs' = [procs EXCEPT ![2] = q] /\ store' = [store EXCEPT !.toks = @ + 1]
        /\ UNCHANGED <<saved, op, mem, walk, proof>>
    BY <1>6 DEF AgentForks
  <2>2. store.toks \in Nat /\ store.made \in Nat
    BY DEF StoreType, Stores
  <2>3. /\ q \in [tok : Nat, owner : Providers, open : SUBSET Sessions]
        /\ q.tok = store.toks + 1 /\ q.owner = "mission" /\ q.open = {}
    BY <2>2 DEF Providers
  <2> HIDE DEF q
  <2>4. /\ store' \in Stores /\ store'.made = store.made /\ store'.toks = store.toks + 1
        /\ store'.fresh = store.fresh /\ store'.file = store.file
    BY <2>1, <2>2 DEF StoreType, Stores
  <2>5. ProcsType' /\ ProofType'
    BY <2>1, <2>3
  <2>6. \A y \in Pids : Evolves(y)
    <3>1. procs'[2] = q /\ \A y \in Pids \ {2} : procs'[y] = procs[y]
      BY <2>1 DEF Pids
    <3> QED BY <2>1, <2>2, <2>3, <2>4, <3>1 DEF Evolves, Pids
  <2> QED BY <2>1, <2>2, <2>4, <2>5, <2>6 DEF WorldStep, StoreType
<1>7. ASSUME NEW s \in Sessions, UserContinues(s) PROVE WorldStep
  <2>1. /\ store' = [store EXCEPT !.fresh = @ \cup {s}] /\ proof' = [proof EXCEPT !.others = @ \cup {s}]
        /\ UNCHANGED <<saved, op, mem, procs, walk>>
    BY <1>7 DEF UserContinues
  <2>2. /\ store' \in Stores /\ store'.made = store.made /\ store'.toks = store.toks
        /\ store'.fresh = store.fresh \cup {s} /\ store'.file = store.file
    BY <2>1 DEF StoreType, Stores
  <2>3. proof'.opened = proof.opened /\ proof'.others = proof.others \cup {s} /\ proof'.reused = proof.reused
    BY <2>1
  <2>4. \A q \in Pids : Evolves(q)
    BY <2>1 DEF Evolves
  <2>5. ProcsType' /\ ProofType'
    BY <2>1
  <2> QED BY <2>1, <2>2, <2>3, <2>4, <2>5 DEF WorldStep, StoreType, Stores
<1> QED BY <1>1, <1>2, <1>3, <1>4, <1>5, <1>6, <1>7 DEF World

\* The world around the operation keeps the invariant.
LEMMA WorldKeeps ==
  ASSUME SessionInv, WorldStep
  PROVE  SessionInv'
<1> USE SessionIds
<1>1. SessionTypes'
  BY DEF SessionInv, WorldStep, SessionTypes, SavedType, OpType, MemType, WalkType
<1>2. /\ saved' = saved /\ op' = op /\ mem' = mem /\ walk' = walk /\ proof'.reused = proof.reused
      /\ store.made \in Nat /\ store'.made \in Nat /\ store.toks \in Nat /\ store'.toks \in Nat
      /\ store.made <= store'.made /\ store.toks <= store'.toks
  BY <1>1 DEF SessionInv, WorldStep, SessionTypes, StoreType, Stores
<1>3. /\ \A s \in Sessions : store'.file[s] = store.file[s] \/ Appears(s)
      /\ \A s \in Sessions : store.file[s].by # "none" => store'.file[s] = store.file[s]
  BY DEF WorldStep, Appears
<1>4. \A s \in Sessions : Worked(s) => Worked(s)'
  BY <1>2 DEF Worked, WorldStep
<1>5. \A s \in Sessions : Ours(s) => Ours(s)'
  BY <1>2, <1>3 DEF Ours, Mine, FitsOp
<1>6. FileInv'
  <2> SUFFICES ASSUME NEW s \in Sessions, s > store'.made PROVE store'.file[s].by = "none"
    BY DEF FileInv
  <2>1. s \in Nat
    OBVIOUS
  <2>2. s > store.made /\ ~(s <= store'.made)
    BY <1>2, <2>1
  <2>3. ~Appears(s)
    BY <2>2 DEF Appears
  <2> QED BY <1>3, <2>2, <2>3 DEF FileInv, SessionInv
<1>7. SavedInv'
  <2> SUFFICES ASSUME NEW a \in Agents, saved[a] # NoSession
               PROVE  store'.file[saved[a]].agent = a /\ Mine(store.file[saved[a]])'
    BY <1>2 DEF SavedInv
  <2>1. saved[a] \in Sessions /\ store.file[saved[a]].agent = a /\ Mine(store.file[saved[a]])
    BY DEF SessionInv, SavedInv, SessionTypes, SavedType
  <2>2. store'.file[saved[a]] = store.file[saved[a]]
    BY <1>3, <2>1 DEF Mine
  <2> QED BY <1>2, <2>1, <2>2 DEF Mine
<1>8. NotesInv'
  <2>1. mem.expected # NoSession => mem.expected = saved[op.agent] /\ Ours(mem.expected)'
    BY <1>2, <1>5 DEF SessionInv, NotesInv, SessionTypes, MemType
  <2>2. ASSUME NEW s \in Sessions, s <= store.made, store'.file[s].by # "none",
               store.file[s].by # "none" => Ours(s) /\ store.file[s].n = op.n
        PROVE  Ours(s)' /\ store'.file[s].n = op.n
    <3>1. CASE store'.file[s] = store.file[s]
      BY <1>5, <2>2, <3>1
    <3>2. CASE Appears(s)
      BY <1>2, <2>2, <3>2 DEF Appears, Ours, Mine, FitsOp
    <3> QED BY <1>3, <3>1, <3>2
  <2>3. mem.candidate # NoSession =>
          /\ mem.candidate <= store'.made
          /\ store'.file[mem.candidate].by # "none" => Ours(mem.candidate)' /\ store'.file[mem.candidate].n = op.n
    <3> SUFFICES ASSUME mem.candidate # NoSession PROVE
          /\ mem.candidate <= store'.made
          /\ store'.file[mem.candidate].by # "none" => Ours(mem.candidate)' /\ store'.file[mem.candidate].n = op.n
      OBVIOUS
    <3>1. /\ mem.candidate \in Sessions /\ mem.candidate <= store.made
          /\ store.file[mem.candidate].by # "none" => Ours(mem.candidate) /\ store.file[mem.candidate].n = op.n
      BY DEF SessionInv, NotesInv, SessionTypes, MemType
    <3>2. mem.candidate \in Nat
      BY <3>1
    <3>3. mem.candidate <= store'.made
      BY <1>2, <3>1, <3>2
    <3>4. ASSUME store'.file[mem.candidate].by # "none" PROVE Ours(mem.candidate)' /\ store'.file[mem.candidate].n = op.n
      BY <1>2, <2>2, <3>1, <3>4
    <3> QED BY <3>3, <3>4
  <2>4. op.arg # NoSession =>
          /\ op.arg <= store'.made
          /\ store'.file[op.arg].by # "none" /\ op.phase \notin {"ended", "lost"} => Ours(op.arg)'
    <3> SUFFICES ASSUME op.arg # NoSession PROVE
          /\ op.arg <= store'.made
          /\ store'.file[op.arg].by # "none" /\ op.phase \notin {"ended", "lost"} => Ours(op.arg)'
      OBVIOUS
    <3>1. /\ op.arg \in Sessions /\ op.arg <= store.made
          /\ store.file[op.arg].by # "none" /\ op.phase \notin {"ended", "lost"} => Ours(op.arg)
      BY DEF SessionInv, NotesInv, SessionTypes, OpType, OpRecords
    <3>2. op.arg \in Nat
      BY <3>1
    <3>3. op.arg <= store'.made
      BY <1>2, <3>1, <3>2
    <3>4. ASSUME store'.file[op.arg].by # "none", op.phase \notin {"ended", "lost"} PROVE Ours(op.arg)'
      <4>1. CASE store'.file[op.arg] = store.file[op.arg]
        BY <1>2, <1>5, <3>1, <3>4, <4>1
      <4>2. CASE Appears(op.arg)
        <5>1. ~(op.arg > store.made)
          BY <1>2, <3>1, <3>2
        <5> QED BY <1>2, <5>1, <3>1, <4>2 DEF Appears, Ours, Mine, FitsOp
      <4> QED BY <1>3, <3>1, <4>1, <4>2
    <3> QED BY <3>3, <3>4
  <2>5. op.phase \in {"none", "ended", "lost"} => mem = NoNotes
    BY DEF SessionInv, NotesInv
  <2> QED BY <1>2, <2>1, <2>3, <2>4, <2>5 DEF NotesInv
<1>9. FreshInv'
  <2> SUFFICES ASSUME mem.armed, NEW s \in store'.fresh PROVE Worked(s)' \/ store'.file[s].by = "user"
    BY <1>2 DEF FreshInv
  <2>1. s \in Sessions
    BY <1>1 DEF SessionTypes, StoreType, Stores
  <2>2. CASE s \in store.fresh
    BY <1>3, <1>4, <2>1, <2>2 DEF SessionInv, FreshInv
  <2>3. CASE s \in proof'.opened \cup proof'.others
    BY <2>3 DEF Worked
  <2> QED BY <2>2, <2>3 DEF WorldStep
<1>10. ASSUME NEW p \in Pids
       PROVE  /\ procs[p].tok \in Nat /\ procs[p].tok <= store.toks /\ procs'[p].open \subseteq Sessions
              /\ \/ procs'[p] = procs[p]
                 \/ procs'[p].tok = 0 /\ procs'[p].owner = "none" /\ procs'[p].open = {}
                 \/ /\ procs'[p].tok = procs[p].tok /\ procs[p].owner = "mission" /\ procs'[p].owner = "mission"
                    /\ op.phase = "running" /\ procs'[p].open \subseteq proof'.opened
                    /\ \A s \in procs'[p].open :
                         \/ s \in procs[p].open
                         \/ s = op.arg /\ store.file[s].by # "none"
                         \/ Appears(s) /\ store'.file[s].by = "mission"
                 \/ /\ procs'[p].tok = store.toks + 1 /\ procs'[p].tok = store'.toks
                    /\ procs'[p].owner # "none" /\ (procs'[p].owner = "mission" => procs'[p].open = {})
                    /\ \A s \in procs'[p].open : Appears(s)
  <2>1. Evolves(p) /\ procs[p].tok \in Nat /\ procs[p].tok <= store.toks /\ procs'[p].open \subseteq Sessions
    BY <1>1 DEF SessionInv, WorldStep, ProcInv, SessionTypes, ProcsType
  <2> QED BY <2>1 DEF Evolves, NoProcess
<1>11. ProcInv'
  <2>1. op.tok \in Nat /\ op.tok <= store.toks /\ op'.tok <= store'.toks
    BY <1>2 DEF SessionInv, ProcInv, SessionTypes, OpType, OpRecords
  <2>2. procs'[1].tok = op'.tok /\ op'.tok # 0 => Mission(1)'
    <3>1. 1 \in Pids /\ (procs[1].tok = op.tok /\ op.tok # 0 => procs[1].owner = "mission")
      BY DEF SessionInv, ProcInv, Mission, Pids
    <3> QED BY <1>2, <1>10, <2>1, <3>1 DEF Mission
  <2>3. ASSUME NEW p \in Pids
        PROVE  procs'[p].tok <= store'.toks /\ (procs'[p].owner = "none" => procs'[p].tok = 0)
    <3>1. procs[p].owner = "none" => procs[p].tok = 0
      BY DEF SessionInv, ProcInv
    <3> QED BY <1>2, <1>10, <3>1
  <2>4. ASSUME NEW p \in Pids, Mission(p)' PROVE procs'[p].open \subseteq proof'.opened
    <3>1. procs[p].owner = "mission" => procs[p].open \subseteq proof'.opened
      BY DEF SessionInv, ProcInv, Mission, WorldStep
    <3> QED BY <1>10, <2>4, <3>1 DEF Mission
  <2>5. ASSUME op'.phase \notin {"ended", "lost"}, NEW p \in Pids, NEW s \in procs'[p].open
        PROVE  /\ store'.file[s].by # "none" /\ (Mission(p)' => Mine(store.file[s])')
               /\ FitsOp(store.file[s], s)'
    <3>1. s \in Sessions
      BY <1>10
    <3>2. CASE /\ s \in procs[p].open /\ (procs'[p].owner = "mission" => procs[p].owner = "mission")
      <4>1. /\ store.file[s].by # "none" /\ (procs[p].owner = "mission" => Mine(store.file[s]))
            /\ FitsOp(store.file[s], s)
        BY <1>2, <2>5, <3>2 DEF SessionInv, ProcInv, Mission
      <4> QED BY <1>2, <1>3, <3>1, <3>2, <4>1 DEF Mission, Mine, FitsOp
    <3>3. CASE s = op.arg /\ store.file[s].by # "none"
      <4>1. Ours(s)
        BY <1>2, <2>5, <3>1, <3>3, SessionIds DEF SessionInv, NotesInv
      <4> QED BY <1>2, <1>3, <3>1, <3>3, <4>1 DEF Ours, Mine, FitsOp
    <3>4. CASE Appears(s) /\ (store'.file[s].by = "mission" \/ procs'[p].owner # "mission")
      BY <1>2, <3>4 DEF Appears, Mission, Mine, FitsOp
    <3> QED BY <1>10, <2>5, <3>2, <3>3, <3>4
  <2> QED BY <1>2, <2>1, <2>2, <2>3, <2>4, <2>5 DEF ProcInv
<1>13. WalkInv'
  <2>1. ASSUME NEW p \in Pids
        PROVE  /\ walk.seen[p] \in Nat /\ walk.seen[p] <= store.toks /\ walk.seen[p] <= store'.toks
               /\ procs'[p].tok = walk.seen[p] /\ walk.seen[p] # 0 =>
                    procs[p].tok = walk.seen[p] /\ (procs[p].owner = "mission" => procs'[p].owner = "mission")
    <3>1. walk.seen[p] \in Nat /\ walk.seen[p] <= store.toks
      BY DEF SessionInv, WalkInv, SessionTypes, WalkType
    <3> QED BY <1>2, <1>10, <3>1
  <2>2. ASSUME NEW p \in Pids, Alive(p, walk.seen[p])' PROVE Alive(p, walk.seen[p]) /\ (Mission(p) => Mission(p)')
    BY <1>2, <2>1, <2>2 DEF Alive, Mission
  <2>3. walk.pid \in Pids /\ walk.got \subseteq Sessions /\ walk.found \subseteq Sessions
    BY DEF SessionInv, SessionTypes, WalkType
  <2>4. walk.pc # "idle" => op.phase = "running"
    BY DEF SessionInv, WalkInv
  <2>5. walk.pc = "capture" => mem.armed /\ Target' # NoSession
    BY <1>2 DEF SessionInv, WalkInv, Target
  <2>6. ASSUME walk.pc \notin {"idle", "capture"}
        PROVE  /\ \A p \in Pids : Alive(p, walk.seen[p])' => Mission(p)' \/ proof.reused
               /\ walk.pc = "check" /\ Alive(walk.pid, walk.seen[walk.pid])' =>
                    \A s \in walk.got : Ours(s)' /\ Worked(s)'
               /\ \A s \in walk.found : Ours(s)' /\ Worked(s)'
    <3>1. /\ \A p \in Pids : Alive(p, walk.seen[p]) => Mission(p) \/ proof.reused
          /\ walk.pc = "check" /\ Alive(walk.pid, walk.seen[walk.pid]) => \A s \in walk.got : Ours(s) /\ Worked(s)
          /\ \A s \in walk.found : Ours(s) /\ Worked(s)
      BY <2>6 DEF SessionInv, WalkInv
    <3>2. \A p \in Pids : Alive(p, walk.seen[p])' => Mission(p)' \/ proof.reused
      BY <1>2, <2>2, <3>1
    <3>3. ASSUME walk.pc = "check", Alive(walk.pid, walk.seen[walk.pid])', NEW s \in walk.got
          PROVE  Ours(s)' /\ Worked(s)'
      BY <1>2, <1>4, <1>5, <2>2, <2>3, <3>1, <3>3
    <3>4. \A s \in walk.found : Ours(s)' /\ Worked(s)'
      BY <1>4, <1>5, <2>3, <3>1
    <3> QED BY <3>2, <3>3, <3>4
  <2> QED BY <1>2, <2>1, <2>4, <2>5, <2>6 DEF WalkInv
<1>12. OutcomeInv'
  <2> SUFFICES ASSUME op.state \in Confirmed
               PROVE  /\ op.sess # NoSession /\ Worked(op.sess)'
                      /\ store'.file[op.sess].by # "none" /\ store'.file[op.sess].cwd = op.cwd
                      /\ op.state = "NATIVE_CREATED" => store'.file[op.sess].n = op.n
    BY <1>2 DEF OutcomeInv
  <2>1. /\ op.sess \in Sessions /\ Worked(op.sess)
        /\ store.file[op.sess].by # "none" /\ store.file[op.sess].cwd = op.cwd
        /\ op.state = "NATIVE_CREATED" => store.file[op.sess].n = op.n
    BY DEF SessionInv, OutcomeInv, SessionTypes, OpType, OpRecords
  <2> QED BY <1>2, <1>3, <1>4, <2>1
<1> QED BY <1>1, <1>6, <1>7, <1>8, <1>9, <1>11, <1>12, <1>13 DEF SessionInv

-----------------------------------------------------------------------------
(* What the controller plans and launches *)

\* What stays when an operation begins or a launch is planned.
LEMMA FilesStay ==
  ASSUME SessionInv, UNCHANGED <<saved, procs, walk>>, store'.file = store.file, store.made <= store'.made,
         store'.made \in Nat, proof'.reused = proof.reused
  PROVE  /\ FileInv' /\ SavedInv'
         /\ \A s \in Sessions : Mine(store.file[s]) => Mine(store.file[s])' /\ store'.file[s].by # "none"
<1>1. FileInv'
  <2> SUFFICES ASSUME NEW s \in Sessions, s > store'.made PROVE store'.file[s].by = "none"
    BY DEF FileInv
  <2>1. s \in Nat /\ store.made \in Nat
    BY SessionIds DEF SessionInv, SessionTypes, StoreType, Stores
  <2> QED BY <2>1 DEF SessionInv, FileInv
<1>2. SavedInv' 
  BY DEF SessionInv, SavedInv, Mine
<1>3. \A s \in Sessions : Mine(store.file[s]) => Mine(store.file[s])' /\ store'.file[s].by # "none"
  BY DEF Mine
<1> QED BY <1>1, <1>2, <1>3

\* The steps before a launch keep the invariant.
LEMMA BeforeLaunchKeeps ==
  ASSUME SessionInv, NEW a \in Agents, NEW c \in Folders, BeforeLaunch(a, c)
  PROVE  SessionInv'
<1>1. /\ op' \in OpRecords
      /\ op'.phase = "prepared" /\ op'.state = "" /\ op'.tok = 0 /\ op'.arg = NoSession
      /\ op.phase \in {"none", "ended", "lost"} /\ procs = [p \in Pids |-> NoProcess]
      /\ saved' = saved /\ mem' = mem /\ store' = store /\ procs' = procs /\ walk' = walk
      /\ proof' = [proof EXCEPT !.opened = {}, !.others = {}]
  BY BeforeLaunchIs DEF SessionInv, SessionTypes
<1>2. proof'.reused = proof.reused /\ ProofType'
  BY <1>1 DEF SessionInv, SessionTypes, ProofType
<1>3. mem = NoNotes /\ walk.pc = "idle"
  BY <1>1 DEF SessionInv, NotesInv, WalkInv
<1>4. mem.expected = NoSession /\ mem.candidate = NoSession /\ mem.armed = FALSE
  BY <1>3 DEF NoNotes
<1>5. \A p \in Pids : procs[p].tok = 0 /\ procs[p].owner = "none" /\ procs[p].open = {}
  BY <1>1 DEF NoProcess
<1>6. SessionTypes'
  BY <1>1, <1>2 DEF SessionInv, SessionTypes, SavedType, OpType, MemType, StoreType, ProcsType, WalkType
<1>7. FileInv' /\ SavedInv'
  <2>1. store.made \in Nat /\ store.made <= store.made
    BY DEF SessionInv, SessionTypes, StoreType, Stores
  <2> QED BY <1>1, <1>2, <2>1, FilesStay
<1>8. NotesInv' /\ FreshInv'
  BY <1>1, <1>4 DEF NotesInv, FreshInv
<1>9. ProcInv'
  BY <1>1, <1>5 DEF SessionInv, ProcInv, Mission, SessionTypes, StoreType, Stores, Pids
<1>10. WalkInv'
  BY <1>1, <1>3 DEF SessionInv, WalkInv
<1>11. OutcomeInv'
  BY <1>1 DEF OutcomeInv, Confirmed
<1> QED BY <1>6, <1>7, <1>8, <1>9, <1>10, <1>11 DEF SessionInv

\* What a launch plans: to resume the saved session, a new one, or nothing.
PlanStep ==
  /\ op.phase = "prepared" /\ op'.phase = "launching"
  /\ saved' = saved /\ procs' = procs /\ walk' = walk /\ proof' = proof
  /\ op'.n = op.n /\ op'.agent = op.agent /\ op'.cwd = op.cwd /\ op'.tok = op.tok
  /\ op'.state = "RESTORING" \/ (op'.state = op.state /\ op'.sess = op.sess)
  /\ store'.file = store.file /\ store'.toks = store.toks
  /\ store'.fresh = {} \/ (store'.fresh = store.fresh /\ mem'.armed = mem.armed)
  /\ \/ /\ Fits(saved[op.agent]) /\ op'.arg = saved[op.agent] /\ store'.made = store.made
        /\ mem'.expected = saved[op.agent] /\ mem'.candidate = mem.candidate
     \/ /\ store.made + 1 \in Sessions /\ op'.arg = store.made + 1 /\ store'.made = store.made + 1
        /\ mem'.expected = mem.expected /\ mem'.candidate = store.made + 1
     \/ /\ op'.arg = NoSession /\ store'.made = store.made
        /\ mem'.expected = mem.expected /\ mem'.candidate = mem.candidate

\* What planning a launch writes: the session it resumes or the one it reserves.
LEMMA TransformIs ==
  ASSUME SessionTypes, NEW owned \in BOOLEAN, NEW resumes \in BOOLEAN, NEW plans \in BOOLEAN,
         Transform(owned, resumes, plans)
  PROVE  PlanStep /\ OpType' /\ MemType' /\ StoreType'
<1> DEFINE noted == IF owned THEN [mem EXCEPT !.owned = TRUE, !.armed = TRUE] ELSE mem
           armed == [store EXCEPT !.fresh = {}]
<1>1. /\ noted \in [expected : Sessions \cup {NoSession}, candidate : Sessions \cup {NoSession},
                    armed : BOOLEAN, owned : BOOLEAN, found : BOOLEAN]
      /\ noted.expected = mem.expected /\ noted.candidate = mem.candidate
      /\ ~owned => noted = mem
  BY DEF SessionTypes, MemType
<1>2. /\ armed \in Stores /\ armed.made = store.made /\ armed.toks = store.toks /\ armed.fresh = {}
      /\ armed.file = store.file /\ store \in Stores /\ store.made \in Nat
  BY DEF SessionTypes, StoreType, Stores
<1>3. op.tries + 1 \in Nat /\ saved[op.agent] \in Sessions \cup {NoSession} /\ op \in OpRecords
  BY DEF SessionTypes, OpType, OpRecords, SavedType
<1>4. /\ op.phase = "prepared" /\ UNCHANGED <<saved, procs, walk, proof>>
      /\ \/ /\ ResumeArgv(resumes)
            /\ mem' = [noted EXCEPT !.expected = saved[op.agent], !.armed = TRUE]
            /\ store' = armed
            /\ op' = [op EXCEPT !.phase = "launching", !.state = "RESTORING", !.sess = saved[op.agent],
                                !.arg = saved[op.agent], !.tries = op.tries + 1]
         \/ /\ CanName(store)
            /\ mem' = [noted EXCEPT !.candidate = store.made + 1, !.armed = TRUE]
            /\ store' = [armed EXCEPT !.made = store.made + 1]
            /\ op' = [op EXCEPT !.phase = "launching", !.arg = store.made + 1, !.tries = op.tries + 1]
         \/ /\ mem' = noted /\ store' = IF owned THEN armed ELSE store
            /\ op' = [op EXCEPT !.phase = "launching", !.arg = NoSession, !.tries = op.tries + 1]
  BY <1>2 DEF Transform, NewId
<1> HIDE DEF noted, armed
<1>5. CASE /\ ResumeArgv(resumes)
           /\ mem' = [noted EXCEPT !.expected = saved[op.agent], !.armed = TRUE]
           /\ store' = armed
           /\ op' = [op EXCEPT !.phase = "launching", !.state = "RESTORING", !.sess = saved[op.agent],
                               !.arg = saved[op.agent], !.tries = op.tries + 1]
  <2>1. op' \in OpRecords /\ op'.phase = "launching" /\ op'.state = "RESTORING" /\ op'.arg = saved[op.agent]
        /\ op'.n = op.n /\ op'.agent = op.agent /\ op'.cwd = op.cwd /\ op'.tok = op.tok
    BY <1>3, <1>5 DEF OpRecords, RestorationStates
  <2>2. MemType' /\ mem'.expected = saved[op.agent] /\ mem'.candidate = mem.candidate
    BY <1>1, <1>3, <1>5 DEF MemType
  <2>3. Fits(saved[op.agent])
    BY <1>5 DEF ResumeArgv
  <2> QED BY <1>2, <1>4, <1>5, <2>1, <2>2, <2>3 DEF PlanStep, OpType, StoreType
<1>6. CASE /\ CanName(store)
           /\ mem' = [noted EXCEPT !.candidate = store.made + 1, !.armed = TRUE]
           /\ store' = [armed EXCEPT !.made = store.made + 1]
           /\ op' = [op EXCEPT !.phase = "launching", !.arg = store.made + 1, !.tries = op.tries + 1]
  <2>1. store.made + 1 \in Sessions /\ store.made + 1 \in Nat
    BY <1>2, <1>6, SessionIds DEF CanName
  <2>2. op' \in OpRecords /\ op'.phase = "launching" /\ op'.state = op.state /\ op'.sess = op.sess
        /\ op'.arg = store.made + 1
        /\ op'.n = op.n /\ op'.agent = op.agent /\ op'.cwd = op.cwd /\ op'.tok = op.tok
    BY <1>3, <1>6, <2>1 DEF OpRecords
  <2>3. MemType' /\ mem'.expected = mem.expected /\ mem'.candidate = store.made + 1
    BY <1>1, <1>6, <2>1 DEF MemType
  <2>4. /\ store' \in Stores /\ store'.made = store.made + 1 /\ store'.toks = store.toks /\ store'.fresh = {}
        /\ store'.file = store.file
    BY <1>2, <1>6, <2>1 DEF Stores
  <2> QED BY <1>4, <2>1, <2>2, <2>3, <2>4 DEF PlanStep, OpType, StoreType
<1>7. CASE /\ mem' = noted /\ store' = IF owned THEN armed ELSE store
           /\ op' = [op EXCEPT !.phase = "launching", !.arg = NoSession, !.tries = op.tries + 1]
  <2>1. op' \in OpRecords /\ op'.phase = "launching" /\ op'.state = op.state /\ op'.sess = op.sess
        /\ op'.arg = NoSession
        /\ op'.n = op.n /\ op'.agent = op.agent /\ op'.cwd = op.cwd /\ op'.tok = op.tok
    BY <1>3, <1>7 DEF OpRecords
  <2>2. MemType' /\ mem'.expected = mem.expected /\ mem'.candidate = mem.candidate /\ (~owned => mem' = mem)
    BY <1>1, <1>7 DEF MemType
  <2> QED BY <1>2, <1>4, <1>7, <2>1, <2>2 DEF PlanStep, OpType, StoreType
<1> QED BY <1>4, <1>5, <1>6, <1>7

\* Planning a launch keeps the invariant.
LEMMA PlanKeeps ==
  ASSUME SessionInv, PlanStep, OpType', MemType', StoreType'
  PROVE  SessionInv'
<1> USE SessionIds
<1>1. SessionTypes'
  BY DEF PlanStep, SessionInv, SessionTypes, SavedType, ProcsType, WalkType, ProofType
<1>2. /\ saved' = saved /\ procs' = procs /\ walk' = walk /\ proof' = proof
      /\ op.phase = "prepared" /\ op'.phase = "launching"
      /\ op'.n = op.n /\ op'.agent = op.agent /\ op'.cwd = op.cwd /\ op'.tok = op.tok
      /\ store'.file = store.file /\ store'.toks = store.toks
  BY DEF PlanStep
<1>3. store.made \in Nat /\ store'.made \in Nat /\ store.made <= store'.made /\ proof'.reused = proof.reused
  BY DEF PlanStep, SessionInv, SessionTypes, StoreType, Stores
<1>4. /\ FileInv' /\ SavedInv'
      /\ \A s \in Sessions : Mine(store.file[s]) => Mine(store.file[s])' /\ store'.file[s].by # "none"
  BY <1>2, <1>3, FilesStay
<1>5. walk.pc = "idle"
  BY <1>2 DEF SessionInv, WalkInv
<1>6. op.agent \in Agents /\ saved[op.agent] \in Sessions \cup {NoSession}
  BY DEF SessionInv, SessionTypes, SavedType, OpType, OpRecords
\* What is to be resumed stays what it was, once there is such a session.
<1>7. /\ mem.expected # NoSession => mem'.expected = mem.expected
      /\ mem'.expected \in {mem.expected, saved[op.agent]}
      /\ mem'.expected # NoSession => mem'.expected = saved[op.agent] /\ Ours(mem.expected)'
      /\ mem'.expected \in Sessions \cup {NoSession} /\ mem.expected \in Sessions \cup {NoSession}
  <2>1. mem'.expected \in Sessions \cup {NoSession} /\ mem.expected \in Sessions \cup {NoSession}
    BY DEF SessionInv, SessionTypes, MemType
  <2>2. mem.expected # NoSession => mem.expected = saved[op.agent] /\ Ours(mem.expected)
    BY DEF SessionInv, NotesInv
  <2>3. CASE mem'.expected = mem.expected
    BY <1>2, <1>4, <2>1, <2>2, <2>3 DEF Ours, FitsOp
  <2>4. CASE Fits(saved[op.agent]) /\ mem'.expected = saved[op.agent]
    <3>1. Mine(store.file[saved[op.agent]]) /\ saved[op.agent] \in Sessions
      BY <1>6, <2>4 DEF Fits, SessionInv, SavedInv
    <3> QED BY <1>2, <1>4, <2>1, <2>2, <2>4, <3>1 DEF Fits, Ours, FitsOp
  <2> QED BY <2>3, <2>4 DEF PlanStep
<1>8. \A s \in Sessions : FitsOp(store.file[s], s) => FitsOp(store.file[s], s)'
  BY <1>2, <1>7 DEF FitsOp
<1>9. \A s \in Sessions : Ours(s) => Ours(s)'
  BY <1>4, <1>8 DEF Ours
<1>10. \A s \in Sessions : s = store.made + 1 => store'.file[s].by = "none"
  BY <1>2, <1>3 DEF SessionInv, FileInv
<1>11. NotesInv'
  <2>1. mem'.candidate # NoSession =>
          /\ mem'.candidate <= store'.made
          /\ store'.file[mem'.candidate].by # "none" => Ours(mem.candidate)' /\ store'.file[mem'.candidate].n = op'.n
    <3>1. CASE mem'.candidate = mem.candidate
      <4> SUFFICES ASSUME mem.candidate # NoSession PROVE
            /\ mem.candidate <= store'.made
            /\ store'.file[mem.candidate].by # "none" =>
                 Ours(mem.candidate)' /\ store'.file[mem.candidate].n = op'.n
        BY <3>1
      <4>1. /\ mem.candidate \in Sessions /\ mem.candidate <= store.made
            /\ store.file[mem.candidate].by # "none" => Ours(mem.candidate) /\ store.file[mem.candidate].n = op.n
        BY DEF SessionInv, NotesInv, SessionTypes, MemType
      <4>2. mem.candidate \in Nat
        BY <4>1
      <4>3. mem.candidate <= store'.made
        BY <1>3, <4>1, <4>2
      <4> QED BY <1>2, <1>9, <3>1, <4>1, <4>3
    <3>2. CASE /\ store.made + 1 \in Sessions /\ store'.made = store.made + 1 /\ mem'.candidate = store.made + 1
      BY <1>3, <1>10, <3>2
    <3> QED BY <3>1, <3>2 DEF PlanStep
  <2>2. op'.arg # NoSession =>
          /\ op'.arg <= store'.made
          /\ store'.file[op'.arg].by # "none" => Ours(op.arg)'
    <3>1. CASE Fits(saved[op.agent]) /\ op'.arg = saved[op.agent] /\ mem'.expected = saved[op.agent]
      <4>1. /\ op'.arg \in Sessions /\ Mine(store.file[op'.arg])
        BY <1>6, <3>1 DEF Fits, SessionInv, SavedInv
      <4>2. op'.arg \in Nat /\ ~(op'.arg > store.made)
        BY <4>1 DEF Mine, SessionInv, FileInv
      <4> QED BY <1>3, <1>7, <3>1, <4>1, <4>2
    <3>2. CASE /\ store.made + 1 \in Sessions /\ store'.made = store.made + 1 /\ op'.arg = store.made + 1
      BY <1>3, <1>10, <3>2
    <3> QED BY <3>1, <3>2 DEF PlanStep
  <2> QED BY <1>2, <1>7, <2>1, <2>2 DEF NotesInv
<1>12. FreshInv'
  <2>1. CASE store'.fresh = {}
    BY <2>1 DEF FreshInv
  <2>2. CASE store'.fresh = store.fresh /\ mem'.armed = mem.armed
    BY <1>2, <2>2 DEF SessionInv, FreshInv, Worked
  <2> QED BY <2>1, <2>2 DEF PlanStep
<1>13. ProcInv'
  <2>1. ASSUME NEW p \in Pids, NEW s \in procs[p].open
        PROVE  /\ store'.file[s].by # "none" /\ (Mission(p)' => Mine(store.file[s])')
               /\ FitsOp(store.file[s], s)'
    <3>1. s \in Sessions
      BY DEF SessionInv, SessionTypes, ProcsType
    <3>2. /\ store.file[s].by # "none" /\ (Mission(p) => Mine(store.file[s]))
          /\ FitsOp(store.file[s], s)
      BY <1>2 DEF SessionInv, ProcInv
    <3> QED BY <1>2, <1>4, <1>8, <3>1, <3>2 DEF Mission
  <2> QED BY <1>2, <2>1 DEF SessionInv, ProcInv, Mission
<1>14. WalkInv'
  BY <1>2, <1>5 DEF SessionInv, WalkInv
<1>15. OutcomeInv'
  <2>1. op'.state \in Confirmed => op'.state = op.state /\ op'.sess = op.sess
    BY DEF PlanStep, Confirmed
  <2> QED BY <1>2, <2>1 DEF SessionInv, OutcomeInv, Worked
<1> QED BY <1>1, <1>4, <1>11, <1>12, <1>13, <1>14, <1>15 DEF SessionInv

\* A walk that has not begun, or the wait for a file, looks at nothing.
LEMMA NoWalkIs ==
  /\ NoWalk \in [pc : {"idle", "stat", "enter", "read", "check", "conclude", "capture"}, pid : Pids,
                 kids : SUBSET Pids, seen : [Pids -> Nat], got : SUBSET Sessions, found : SUBSET Sessions]
  /\ NoWalk.pc = "idle" /\ \A p \in Pids : NoWalk.seen[p] = 0
<1>1. [p \in Pids |-> 0] \in [Pids -> Nat] /\ 1 \in Pids
  BY DEF Pids
<1> QED BY <1>1 DEF NoWalk

\* A launch keeps the invariant.
LEMMA LaunchKeeps ==
  ASSUME SessionInv, NEW short \in BOOLEAN, LaunchProvider(short)
  PROVE  SessionInv'
<1> DEFINE k == store.toks + 1
           q == [tok |-> k, owner |-> "mission", open |-> {}]
<1> USE SessionIds
<1>1. /\ op.phase = "launching" /\ store' = [store EXCEPT !.toks = k]
      /\ procs' = IF short THEN procs ELSE [procs EXCEPT ![1] = q]
      /\ op' = [op EXCEPT !.phase = "running", !.tok = IF short THEN op.tok ELSE k]
      /\ walk' = IF ~short /\ ~mem.owned /\ mem.armed /\ Target # NoSession THEN [NoWalk EXCEPT !.pc = "capture"] ELSE NoWalk
      /\ saved' = saved /\ mem' = mem /\ proof' = proof
  BY DEF LaunchProvider
<1>2. store.made \in Nat /\ store.toks \in Nat /\ k \in Nat /\ k > store.toks /\ k > 0 /\ op \in OpRecords /\ store \in Stores
  BY DEF SessionInv, SessionTypes, OpType, StoreType, Stores
<1>3. /\ q \in [tok : Nat, owner : Providers, open : SUBSET Sessions]
      /\ q.tok = k /\ q.owner = "mission" /\ q.open = {}
  BY <1>2 DEF Providers
<1> HIDE DEF k, q
<1>4. /\ op' \in OpRecords /\ op'.phase = "running" /\ op'.tok = (IF short THEN op.tok ELSE k)
      /\ op'.n = op.n /\ op'.agent = op.agent /\ op'.cwd = op.cwd /\ op'.arg = op.arg
      /\ op'.state = op.state /\ op'.sess = op.sess
  BY <1>1, <1>2 DEF OpRecords
<1>5. /\ store' \in Stores /\ store'.made = store.made /\ store'.toks = k
      /\ store'.fresh = store.fresh /\ store'.file = store.file
  BY <1>1, <1>2 DEF Stores
<1>6. /\ WalkType' /\ walk'.pc \in {"idle", "capture"} /\ \A p \in Pids : walk'.seen[p] = 0
      /\ walk'.pc = "capture" => mem.armed /\ Target # NoSession
  BY <1>1, NoWalkIs DEF WalkType
<1>7. ProcsType' /\ (~short => procs'[1] = q) /\ (short => procs' = procs) /\ \A p \in Pids \ {1} : procs'[p] = procs[p]
  BY <1>1, <1>3 DEF SessionInv, SessionTypes, ProcsType, Pids
<1>8. SessionTypes'
  BY <1>1, <1>4, <1>5, <1>6, <1>7 DEF SessionInv, SessionTypes, SavedType, OpType, MemType, StoreType, ProofType
<1>9. FileInv' /\ SavedInv' /\ FreshInv'
  BY <1>1, <1>5 DEF SessionInv, FileInv, SavedInv, FreshInv, Mine, Worked
<1>10. NotesInv'
  BY <1>1, <1>4, <1>5 DEF SessionInv, NotesInv, Ours, Mine, FitsOp
<1>11. ProcInv'
  <2>1. op'.tok <= store'.toks /\ (procs'[1].tok = op'.tok /\ op'.tok # 0 => Mission(1)')
    BY <1>2, <1>3, <1>4, <1>5, <1>7 DEF SessionInv, ProcInv, Mission, SessionTypes, OpType, OpRecords
  <2>2. ASSUME NEW p \in Pids PROVE procs'[p] = procs[p] \/ procs'[p] = q
    BY <1>7
  <2>3. ASSUME NEW p \in Pids
        PROVE  /\ procs'[p].tok <= store'.toks /\ (procs'[p].owner = "none" => procs'[p].tok = 0)
               /\ Mission(p)' => procs'[p].open \subseteq proof'.opened
    <3>1. /\ procs[p].tok \in Nat /\ procs[p].tok <= store.toks /\ (procs[p].owner = "none" => procs[p].tok = 0)
          /\ (Mission(p) => procs[p].open \subseteq proof.opened)
      BY DEF SessionInv, ProcInv, SessionTypes, ProcsType
    <3> QED BY <1>1, <1>2, <1>3, <1>5, <2>2, <3>1 DEF Mission
  <2>4. ASSUME NEW p \in Pids, NEW s \in procs'[p].open
        PROVE  /\ store'.file[s].by # "none" /\ (Mission(p)' => Mine(store.file[s])')
               /\ FitsOp(store.file[s], s)'
    <3>1. procs'[p] = procs[p]
      BY <1>3, <2>2, <2>4
    <3>2. /\ store.file[s].by # "none" /\ (Mission(p) => Mine(store.file[s])) /\ FitsOp(store.file[s], s)
      BY <1>1, <2>4, <3>1 DEF SessionInv, ProcInv
    <3> QED BY <1>1, <1>4, <1>5, <3>1, <3>2 DEF Mission, Mine, FitsOp
  <2> QED BY <2>1, <2>3, <2>4 DEF ProcInv
<1>12. WalkInv'
  BY <1>1, <1>2, <1>4, <1>5, <1>6 DEF WalkInv, Target
<1>13. OutcomeInv'
  BY <1>1, <1>4, <1>5 DEF SessionInv, OutcomeInv, Worked
<1> QED BY <1>8, <1>9, <1>10, <1>11, <1>12, <1>13 DEF SessionInv

-----------------------------------------------------------------------------
(* What the controller looks at *)

\* A look changes no record, no file and no process.
LookStep ==
  /\ saved' = saved /\ op' = op /\ store' = store /\ procs' = procs /\ op.phase = "running"
  /\ mem'.expected = mem.expected /\ mem'.candidate = mem.candidate /\ mem'.armed = mem.armed
  /\ proof'.opened = proof.opened /\ proof'.others = proof.others /\ (proof.reused => proof'.reused)

\* Looking for the session of a launch changes only what was found so far.
LEMMA LookLeaves ==
  ASSUME SessionInv, LookStep, MemType', WalkType', ProofType'
  PROVE  /\ SessionTypes' /\ FileInv' /\ SavedInv' /\ NotesInv' /\ FreshInv' /\ ProcInv' /\ OutcomeInv'
         /\ \A s \in Sessions : (Ours(s) => Ours(s)') /\ (Worked(s) => Worked(s)')
<1>1. SessionTypes'
  BY DEF SessionInv, LookStep, SessionTypes, SavedType, OpType, StoreType, ProcsType
<1>2. /\ saved' = saved /\ op' = op /\ store' = store /\ procs' = procs /\ op.phase = "running"
      /\ mem'.expected = mem.expected /\ mem'.candidate = mem.candidate /\ mem'.armed = mem.armed
  BY DEF LookStep
<1>3. /\ \A s \in Sessions : Mine(store.file[s]) => Mine(store.file[s])'
      /\ \A s \in Sessions : FitsOp(store.file[s], s) => FitsOp(store.file[s], s)'
      /\ \A s \in Sessions : Ours(s) => Ours(s)'
      /\ \A s \in Sessions : Worked(s) => Worked(s)'
  BY DEF LookStep, Mine, FitsOp, Ours, Worked
<1>4. FileInv' /\ SavedInv'
  BY <1>2 DEF LookStep, SessionInv, FileInv, SavedInv, Mine
<1>5. NotesInv'
  <2>1. mem.expected # NoSession => mem.expected = saved[op.agent] /\ Ours(mem.expected)'
    BY <1>2, <1>3 DEF SessionInv, NotesInv, SessionTypes, MemType
  <2>2. mem.candidate # NoSession =>
          /\ mem.candidate <= store.made
          /\ store.file[mem.candidate].by # "none" => Ours(mem.candidate)' /\ store.file[mem.candidate].n = op.n
    BY <1>2, <1>3 DEF SessionInv, NotesInv, SessionTypes, MemType
  <2>3. op.arg # NoSession => op.arg <= store.made /\ (store.file[op.arg].by # "none" => Ours(op.arg)')
    BY <1>2, <1>3 DEF SessionInv, NotesInv, SessionTypes, OpType, OpRecords
  <2> QED BY <1>2, <2>1, <2>2, <2>3 DEF NotesInv
<1>6. FreshInv'
  <2>1. store.fresh \subseteq Sessions
    BY DEF SessionInv, SessionTypes, StoreType, Stores
  <2> QED BY <1>2, <1>3, <2>1 DEF SessionInv, FreshInv
<1>7. ProcInv'
  <2>1. ASSUME NEW p \in Pids, NEW s \in procs[p].open
        PROVE  /\ store.file[s].by # "none" /\ (Mission(p) => Mine(store.file[s])')
               /\ FitsOp(store.file[s], s)'
    <3>1. s \in Sessions
      BY DEF SessionInv, SessionTypes, ProcsType
    <3> QED BY <1>2, <1>3, <3>1 DEF SessionInv, ProcInv
  <2> QED BY <1>2, <2>1 DEF LookStep, SessionInv, ProcInv, Mission
<1>8. OutcomeInv'
  BY <1>2, <1>3 DEF SessionInv, OutcomeInv, SessionTypes, OpType, OpRecords
<1> QED BY <1>1, <1>3, <1>4, <1>5, <1>6, <1>7, <1>8

Look == Observe \/ StatChildren \/ EnterProcess \/ ReadProcess \/ CheckProcess \/ CaptureInterrupted

Walks == [pc : {"idle", "stat", "enter", "read", "check", "conclude", "capture"}, pid : Pids,
          kids : SUBSET Pids, seen : [Pids -> Nat], got : SUBSET Sessions, found : SUBSET Sessions]

\* Where the walk over the processes goes on.
LEMMA OnwardIs ==
  ASSUME NEW w \in Walks
  PROVE  /\ Onward(w) \in Walks /\ Onward(w).pc \in {"enter", "conclude"}
         /\ Onward(w).seen = w.seen /\ Onward(w).found = w.found
BY DEF Onward, Walks, Pids

\* Looking for the session keeps the invariant.
LEMMA LookKeeps ==
  ASSUME SessionInv, Look
  PROVE  SessionInv'
<1>1. /\ walk \in Walks /\ store.toks \in Nat /\ op \in OpRecords /\ proof.reused \in BOOLEAN
      /\ \A p \in Pids : procs[p].open \subseteq Sessions /\ procs[p].tok \in Nat /\ procs[p].owner \in Providers
      /\ MemType /\ ProofType
  BY DEF SessionInv, SessionTypes, WalkType, Walks, StoreType, Stores, OpType, ProcsType, ProofType
<1>2. NoWalk \in Walks /\ NoWalk.pc = "idle" /\ \A p \in Pids : NoWalk.seen[p] = 0
  BY NoWalkIs DEF Walks
<1>3. SUFFICES LookStep /\ MemType' /\ walk' \in Walks /\ ProofType' /\ WalkInv'
  <2>1. WalkType'
    BY <1>3 DEF WalkType, Walks
  <2> QED BY <1>3, <2>1, LookLeaves DEF SessionInv
\* A walk that goes on with what it has seen and found.
<1>4. ASSUME LookStep, walk' \in Walks, ProofType', walk.pc \notin {"idle", "capture"}, walk'.pc \in {"enter", "read", "conclude"},
             walk'.seen = walk.seen, walk'.found = walk.found
      PROVE  WalkInv'
  <2>1. \A s \in Sessions : (Ours(s) => Ours(s)') /\ (Worked(s) => Worked(s)')
    BY <1>4 DEF LookStep, Mine, FitsOp, Ours, Worked
  <2>2. walk.found \subseteq Sessions
    BY <1>1 DEF Walks
  <2>3. \A s \in walk.found : Ours(s) /\ Worked(s)
    BY <1>4 DEF SessionInv, WalkInv
  <2>4. \A p \in Pids : /\ walk.seen[p] <= store.toks
                        /\ Alive(p, walk.seen[p]) => Mission(p) \/ proof.reused
    BY <1>4 DEF SessionInv, WalkInv
  <2> QED BY <1>4, <2>1, <2>2, <2>3, <2>4 DEF WalkInv, LookStep, Alive, Mission
<1>5. CASE Observe
  <2>1. CASE mem' = [mem EXCEPT !.found = TRUE] /\ walk' = walk
    <3>1. MemType' /\ mem'.expected = mem.expected /\ mem'.candidate = mem.candidate /\ mem'.armed = mem.armed
      BY <1>1, <2>1 DEF MemType
    <3>2. LookStep /\ ProofType' /\ walk.pc = "idle"
      BY <1>1, <1>5, <3>1 DEF Observe, LookStep, ProofType
    <3> QED BY <1>1, <2>1, <3>1, <3>2 DEF LookStep, SessionInv, WalkInv
  <2>2. CASE mem' = mem /\ walk' = [NoWalk EXCEPT !.pc = "stat", !.seen[1] = op.tok, !.kids = {p \in {2} : Mission(p)}]
    <3>1. LookStep /\ ProofType' /\ MemType'
      BY <1>1, <1>5, <2>2 DEF Observe, LookStep, ProofType, MemType
    <3>2. op.tok \in Nat /\ op.tok <= store.toks /\ (procs[1].tok = op.tok /\ op.tok # 0 => Mission(1))
      BY <1>1 DEF OpRecords, SessionInv, ProcInv
    <3>3. walk' \in Walks /\ walk'.pc = "stat" /\ walk'.seen[1] = op.tok /\ walk'.seen[2] = 0 /\ walk'.found = {}
      <4>1. /\ NoWalk.seen \in [Pids -> Nat] /\ NoWalk.found = {} /\ NoWalk.seen[2] = 0
            /\ {p \in {2} : Mission(p)} \in SUBSET Pids
        BY <1>2 DEF Walks, NoWalk, Pids
      <4>2. /\ [NoWalk.seen EXCEPT ![1] = op.tok] \in [Pids -> Nat]
            /\ [NoWalk.seen EXCEPT ![1] = op.tok][1] = op.tok /\ [NoWalk.seen EXCEPT ![1] = op.tok][2] = 0
        BY <3>2, <4>1 DEF Pids
      <4>3. walk' = [NoWalk EXCEPT !.pc = "stat", !.seen = [NoWalk.seen EXCEPT ![1] = op.tok],
                                   !.kids = {p \in {2} : Mission(p)}]
        BY <2>2
      <4> QED BY <1>2, <4>1, <4>2, <4>3 DEF Walks
    <3> QED BY <1>1, <3>1, <3>2, <3>3 DEF LookStep, WalkInv, Alive, Mission, Pids
  <2> QED BY <1>5, <2>1, <2>2 DEF Observe
<1>6. CASE StatChildren
  <2>1. /\ walk.pc = "stat" /\ mem' = mem
        /\ walk' = [walk EXCEPT !.pc = "enter", !.seen = [p \in Pids |-> IF p \in walk.kids THEN procs[p].tok ELSE walk.seen[p]]]
        /\ proof' = [proof EXCEPT !.reused = proof.reused \/ \E p \in walk.kids : procs[p].owner = "user"]
        /\ UNCHANGED <<saved, op, mem, store, procs>> /\ op.phase = "running"
    BY <1>6 DEF StatChildren, Observing
  <2>2. /\ ProofType' /\ proof'.opened = proof.opened /\ proof'.others = proof.others
        /\ proof'.reused = (proof.reused \/ \E p \in walk.kids : procs[p].owner = "user")
    BY <1>1, <2>1 DEF ProofType
  <2>3. LookStep /\ MemType'
    BY <1>1, <2>1, <2>2 DEF LookStep, MemType
  <2>4. [p \in Pids |-> IF p \in walk.kids THEN procs[p].tok ELSE walk.seen[p]] \in [Pids -> Nat]
    BY <1>1 DEF Walks
  <2>5. /\ walk' \in Walks /\ walk'.pc = "enter" /\ walk'.found = walk.found
        /\ \A p \in Pids : walk'.seen[p] = IF p \in walk.kids THEN procs[p].tok ELSE walk.seen[p]
    BY <1>1, <2>1, <2>4 DEF Walks
  <2>6. ASSUME NEW p \in Pids
        PROVE  walk'.seen[p] <= store.toks /\ (Alive(p, walk.seen[p])' => Mission(p)' \/ proof'.reused)
    <3>1. procs[p].tok <= store.toks /\ walk.seen[p] <= store.toks /\ (procs[p].owner = "none" => procs[p].tok = 0)
      BY DEF SessionInv, ProcInv, WalkInv
    <3>2. Alive(p, walk.seen[p]) => Mission(p) \/ proof.reused
      BY <2>1 DEF SessionInv, WalkInv
    <3>3. procs[p].owner \in {"none", "mission", "user"}
      BY <1>1 DEF Providers
    <3> QED BY <2>1, <2>2, <2>5, <3>1, <3>2, <3>3 DEF Alive, Mission
  <2>7. \A s \in walk.found : Ours(s)' /\ Worked(s)'
    BY <2>1, <2>2 DEF SessionInv, WalkInv, Ours, Mine, FitsOp, Worked
  <2> QED BY <2>1, <2>3, <2>2, <2>5, <2>6, <2>7 DEF WalkInv
<1>7. CASE EnterProcess
  <2>1. /\ walk.pc = "enter" /\ LookStep /\ ProofType' /\ MemType'
    BY <1>1, <1>7 DEF EnterProcess, Observing, Walk, LookStep, ProofType, MemType
  <2>2. CASE walk' = [walk EXCEPT !.pc = "read"]
    <3>1. walk' \in Walks /\ walk'.pc = "read" /\ walk'.seen = walk.seen /\ walk'.found = walk.found
      BY <1>1, <2>2 DEF Walks
    <3> QED BY <1>4, <2>1, <3>1
  <2>3. CASE walk' = Onward(walk)
    <3>1. walk' \in Walks /\ walk'.pc \in {"enter", "conclude"} /\ walk'.seen = walk.seen /\ walk'.found = walk.found
      BY <1>1, <2>3, OnwardIs
    <3> QED BY <1>4, <2>1, <3>1
  <2> QED BY <1>7, <2>2, <2>3 DEF EnterProcess, Walk
<1>8. CASE ReadProcess
  <2>1. /\ walk.pc = "read" /\ LookStep /\ ProofType' /\ MemType' /\ mem' = mem /\ proof' = proof
        /\ walk' = [walk EXCEPT !.pc = "check", !.got = {s \in procs[walk.pid].open : Fits(s)}]
    BY <1>1, <1>8 DEF ReadProcess, Observing, Walk, LookStep, ProofType, MemType
  <2>2. walk.pid \in Pids /\ walk.found \subseteq Sessions
    BY <1>1 DEF Walks
  <2>3. {s \in procs[walk.pid].open : Fits(s)} \in SUBSET Sessions
    BY <1>1, <2>2
  <2>4. /\ walk' \in Walks /\ walk'.pc = "check" /\ walk'.seen = walk.seen /\ walk'.found = walk.found
        /\ walk'.pid = walk.pid /\ walk'.got \subseteq procs[walk.pid].open
    BY <1>1, <2>1, <2>3 DEF Walks
  <2>5. ASSUME Alive(walk.pid, walk.seen[walk.pid]), NEW s \in procs[walk.pid].open PROVE Ours(s) /\ Worked(s)
    <3>1. /\ s \in Sessions /\ (Mission(walk.pid) \/ proof.reused)
          /\ store.file[s].by # "none" /\ (Mission(walk.pid) => Mine(store.file[s]) /\ s \in proof.opened)
          /\ FitsOp(store.file[s], s)
      BY <1>1, <2>1, <2>2, <2>5 DEF LookStep, SessionInv, WalkInv, ProcInv
    <3>2. store.file[s].by \in Providers
      BY <3>1 DEF SessionInv, SessionTypes, StoreType, Stores, File
    <3> QED BY <3>1, <3>2 DEF Ours, Mine, Worked, Providers
  <2>6. \A s \in walk.found : Ours(s) /\ Worked(s)
    BY <2>1 DEF SessionInv, WalkInv
  <2>7. \A p \in Pids : walk.seen[p] <= store.toks /\ (Alive(p, walk.seen[p]) => Mission(p) \/ proof.reused)
    BY <2>1 DEF SessionInv, WalkInv
  <2> QED BY <2>1, <2>2, <2>4, <2>5, <2>6, <2>7 DEF LookStep, WalkInv, Alive, Mission, Ours, Mine, FitsOp, Worked
<1>9. CASE CheckProcess
  <2>1. /\ walk.pc = "check" /\ LookStep /\ ProofType' /\ MemType' /\ mem' = mem /\ proof' = proof
        /\ op.phase = "running"
    BY <1>1, <1>9 DEF CheckProcess, Observing, Walk, LookStep, ProofType, MemType
  <2>2. CASE Alive(walk.pid, walk.seen[walk.pid]) /\ walk' = Onward([walk EXCEPT !.found = @ \cup walk.got])
    <3> DEFINE w == [walk EXCEPT !.found = @ \cup walk.got]
    <3>1. w \in Walks /\ w.seen = walk.seen /\ w.found = walk.found \cup walk.got
      BY <1>1 DEF Walks
    <3> HIDE DEF w
    <3>2. /\ walk' \in Walks /\ walk'.pc \in {"enter", "conclude"} /\ walk'.seen = walk.seen
          /\ walk'.found = walk.found \cup walk.got
      BY <2>2, <3>1, OnwardIs DEF w
    <3>3. \A s \in walk.found \cup walk.got : Ours(s) /\ Worked(s)
      BY <2>1, <2>2 DEF SessionInv, WalkInv
    <3>4. \A p \in Pids : walk.seen[p] <= store.toks /\ (Alive(p, walk.seen[p]) => Mission(p) \/ proof.reused)
      BY <2>1 DEF SessionInv, WalkInv
    <3> QED BY <2>1, <3>2, <3>3, <3>4 DEF LookStep, WalkInv, Alive, Mission, Ours, Mine, FitsOp, Worked
  <2>3. CASE walk' = NoWalk
    BY <1>1, <1>2, <2>1, <2>3 DEF LookStep, WalkInv
  <2>4. CASE walk' = Onward(walk)
    <3>1. walk' \in Walks /\ walk'.pc \in {"enter", "conclude"} /\ walk'.seen = walk.seen /\ walk'.found = walk.found
      BY <1>1, <2>4, OnwardIs
    <3> QED BY <1>4, <2>1, <3>1
  <2> QED BY <1>9, <2>2, <2>3, <2>4 DEF CheckProcess, Walk
<1>10. CASE CaptureInterrupted
  <2>1. walk' = NoWalk /\ LookStep /\ ProofType' /\ MemType'
    BY <1>1, <1>10 DEF CaptureInterrupted, Observing, Walk, LookStep, ProofType, MemType
  <2> QED BY <1>1, <1>2, <2>1 DEF LookStep, WalkInv
<1> QED BY <1>5, <1>6, <1>7, <1>8, <1>9, <1>10 DEF Look

-----------------------------------------------------------------------------
(* What the controller records *)

\* The session an operation waits for, once its file was written since the launch.
LEMMA TargetIs ==
  ASSUME SessionInv, mem.armed, Written(Target)
  PROVE  /\ Target \in Sessions /\ Ours(Target) /\ Worked(Target) /\ store.file[Target].by # "none"
         /\ mem.expected # NoSession => Target = mem.expected
         /\ mem.expected = NoSession => store.file[Target].n = op.n
<1>1. /\ Target # NoSession /\ store.file[Target].by # "none" /\ Target \in store.fresh
  BY DEF Written, HasRecord
<1>2. Target \in Sessions /\ (Target = mem.expected \/ Target = mem.candidate)
  BY <1>1 DEF SessionInv, SessionTypes, MemType, Target
<1>3. Ours(Target) /\ (mem.expected = NoSession => store.file[Target].n = op.n)
  BY <1>1 DEF SessionInv, NotesInv, Target
<1>4. Worked(Target) \/ store.file[Target].by = "user"
  BY <1>1 DEF SessionInv, FreshInv
<1>5. Worked(Target)
  BY <1>3, <1>4 DEF Ours, Mine, Worked
<1> QED BY <1>1, <1>2, <1>3, <1>5 DEF Target

\* What is known of the sessions that were found.
LEMMA FoundIs ==
  ASSUME SessionInv, walk.pc = "conclude", Cardinality(walk.found) = 1
  PROVE  LET s == CHOOSE x \in walk.found : TRUE IN
         s \in Sessions /\ s \in walk.found /\ Ours(s) /\ Worked(s) /\ store.file[s].by # "none"
<1>1. walk.found # {} /\ walk.found \subseteq Sessions
  BY FS_EmptySet DEF SessionInv, SessionTypes, WalkType
<1>2. \A s \in walk.found : Ours(s) /\ Worked(s)
  BY DEF SessionInv, WalkInv
<1> QED BY <1>1, <1>2 DEF Ours, Mine

\* A session that may be saved.
Savable(s) == /\ s \in Sessions /\ Ours(s) /\ Worked(s) /\ store.file[s].by # "none"
              /\ mem.expected # NoSession => s = mem.expected

\* A record is written; the notes stay until the operation is over.
RecordStep ==
  /\ store' = store /\ procs' = procs /\ proof' = proof /\ walk'.pc = "idle"
  /\ \A p \in Pids : walk'.seen[p] <= store.toks
  /\ op'.n = op.n /\ op'.agent = op.agent /\ op'.cwd = op.cwd /\ op'.tok = op.tok /\ op'.arg = op.arg
  /\ \/ op'.phase \in {"ended", "lost"} /\ mem' = NoNotes
     \/ /\ op.phase = "running" /\ op'.phase \in {"running", "prepared"}
        /\ mem'.expected = mem.expected /\ mem'.armed = mem.armed
        /\ \/ mem'.candidate = mem.candidate
           \/ mem.expected = NoSession /\ Savable(mem'.candidate)
  /\ saved' = saved \/ \E s \in Sessions : Savable(s) /\ saved' = [saved EXCEPT ![op.agent] = s]

\* The outcome names a session that may be saved.
Outcome ==
  \/ op'.state \notin Confirmed
  \/ op'.state = op.state /\ op'.sess = op.sess
  \/ /\ Savable(op'.sess)
     /\ op'.state = "NATIVE_CREATED" => mem.expected = NoSession

\* Recording what was found keeps the invariant.
LEMMA RecordKeeps ==
  ASSUME SessionInv, RecordStep, Outcome, OpType', MemType', WalkType'
  PROVE  SessionInv'
<1>1. /\ store' = store /\ procs' = procs /\ proof' = proof /\ walk'.pc = "idle"
      /\ \A p \in Pids : walk'.seen[p] <= store.toks
      /\ op'.n = op.n /\ op'.agent = op.agent /\ op'.cwd = op.cwd /\ op'.tok = op.tok /\ op'.arg = op.arg
  BY DEF RecordStep
<1>2. op.agent \in Agents /\ saved \in [Agents -> Sessions \cup {NoSession}]
  BY DEF SessionInv, SessionTypes, SavedType, OpType, OpRecords
<1>3. SessionTypes'
  <2>1. SavedType'
    BY <1>2 DEF RecordStep, SavedType
  <2> QED BY <1>1, <2>1 DEF SessionInv, SessionTypes, StoreType, ProcsType, ProofType
<1>4. FileInv'
  BY <1>1 DEF SessionInv, FileInv
<1>5. SavedInv'
  <2> SUFFICES ASSUME NEW a \in Agents, saved'[a] # NoSession
               PROVE  store.file[saved'[a]].agent = a /\ Mine(store.file[saved'[a]])
    BY <1>1 DEF SavedInv, Mine
  <2>1. CASE saved'[a] = saved[a]
    BY <2>1 DEF SessionInv, SavedInv
  <2>2. ASSUME NEW s \in Sessions, Savable(s), a = op.agent, saved'[a] = s
        PROVE  store.file[saved'[a]].agent = a /\ Mine(store.file[saved'[a]])
    BY <2>2 DEF Savable, Ours, FitsOp
  <2> QED BY <1>2, <2>1, <2>2 DEF RecordStep
<1>6. NotesInv'
  <2>1. op.arg # NoSession =>
          op.arg <= store.made /\ (store.file[op.arg].by # "none" /\ op.phase \notin {"ended", "lost"} => Ours(op.arg))
    BY DEF SessionInv, NotesInv
  <2>2. CASE op'.phase \in {"ended", "lost"} /\ mem' = NoNotes
    BY <1>1, <2>1, <2>2 DEF NotesInv, NoNotes
  <2>3. CASE /\ op.phase = "running" /\ op'.phase \in {"running", "prepared"}
             /\ mem'.expected = mem.expected
             /\ \/ mem'.candidate = mem.candidate
                \/ mem.expected = NoSession /\ Savable(mem'.candidate)
    <3>1. \A s \in Sessions : Ours(s) => Ours(s)'
      BY <1>1, <2>3 DEF Ours, Mine, FitsOp
    <3>2. mem.expected # NoSession => mem.expected \in Sessions /\ mem.expected = saved[op.agent] /\ Ours(mem.expected)
      BY DEF SessionInv, NotesInv, SessionTypes, MemType
    <3>3. mem.expected # NoSession => saved'[op.agent] = mem.expected
      BY <1>2, <3>2 DEF RecordStep, Savable
    <3>4. mem'.expected # NoSession => mem'.expected = saved'[op'.agent] /\ Ours(mem.expected)'
      BY <1>1, <2>3, <3>1, <3>2, <3>3
    <3>5. mem'.candidate # NoSession =>
            /\ mem'.candidate \in Sessions /\ mem'.candidate <= store.made
            /\ store.file[mem'.candidate].by # "none" => Ours(mem'.candidate) /\ store.file[mem'.candidate].n = op.n
      <4>1. CASE mem'.candidate = mem.candidate
        BY <4>1 DEF SessionInv, NotesInv, SessionTypes, MemType
      <4>2. CASE mem.expected = NoSession /\ Savable(mem'.candidate)
        <5>1. mem'.candidate \in Nat /\ store.made \in Nat /\ ~(mem'.candidate > store.made)
          BY <4>2, SessionIds DEF Savable, SessionInv, FileInv, SessionTypes, StoreType, Stores
        <5> QED BY <4>2, <5>1, SessionIds DEF Savable, Ours, FitsOp
      <4> QED BY <2>3, <4>1, <4>2
    <3>6. op.arg # NoSession => (store.file[op.arg].by # "none" => Ours(op.arg)')
      BY <1>1, <2>1, <2>3, <3>1 DEF SessionInv, SessionTypes, OpType, OpRecords
    <3>7. mem'.candidate # NoSession /\ Ours(mem'.candidate) => Ours(mem.candidate)'
      BY <3>1, <3>5
    <3> QED BY <1>1, <2>1, <2>3, <3>4, <3>5, <3>6, <3>7 DEF NotesInv
  <2> QED BY <2>2, <2>3 DEF RecordStep
<1>7. FreshInv'
  <2>1. mem'.armed = mem.armed \/ mem' = NoNotes
    BY DEF RecordStep
  <2>2. NoNotes.armed = FALSE
    BY DEF NoNotes
  <2>3. mem'.armed => mem.armed
    BY <2>1, <2>2
  <2> QED BY <1>1, <2>3 DEF SessionInv, FreshInv, Worked
<1>8. ProcInv'
  <2>1. ASSUME op'.phase \notin {"ended", "lost"}, NEW p \in Pids, NEW s \in procs[p].open
        PROVE  /\ store.file[s].by # "none" /\ (Mission(p) => Mine(store.file[s]))
               /\ FitsOp(store.file[s], s)'
    <3>1. op.phase = "running" /\ mem'.expected = mem.expected
      BY <2>1 DEF RecordStep
    <3>2. store.file[s].by # "none" /\ (Mission(p) => Mine(store.file[s])) /\ FitsOp(store.file[s], s)
      BY <2>1, <3>1 DEF SessionInv, ProcInv
    <3> QED BY <1>1, <3>1, <3>2 DEF FitsOp
  <2> QED BY <1>1, <2>1 DEF SessionInv, ProcInv, Mission, Mine
<1>9. WalkInv'
  BY <1>1 DEF WalkInv
<1>10. OutcomeInv'
  <2>1. CASE op'.state \notin Confirmed
    BY <2>1 DEF OutcomeInv
  <2>2. CASE op'.state = op.state /\ op'.sess = op.sess
    BY <1>1, <2>2 DEF SessionInv, OutcomeInv, Worked
  <2>3. CASE Savable(op'.sess) /\ (op'.state = "NATIVE_CREATED" => mem.expected = NoSession)
    BY <1>1, <2>3, SessionIds DEF OutcomeInv, Savable, Ours, FitsOp, Worked
  <2> QED BY <2>1, <2>2, <2>3 DEF Outcome
<1> QED BY <1>3, <1>4, <1>5, <1>6, <1>7, <1>8, <1>9, <1>10 DEF SessionInv

Records == \/ Conclude \/ CaptureFinds \/ CaptureTimesOut
           \/ RelaunchProvider \/ AfterIteration \/ ControllerDies

\* Recording is a step of the kind above: it notes the session found, or none.
LEMMA RecordIs ==
  ASSUME SessionInv, Records
  PROVE  RecordStep /\ Outcome /\ OpType' /\ MemType' /\ WalkType'
<1>1. /\ op \in OpRecords /\ MemType /\ WalkType /\ store.toks \in Nat
      /\ NoWalk.pc = "idle" /\ \A p \in Pids : NoWalk.seen[p] = 0
      /\ \A p \in Pids : walk.seen[p] <= store.toks
  BY NoWalkIs DEF SessionInv, SessionTypes, OpType, StoreType, Stores, WalkInv
<1>2. walk' = NoWalk => WalkType' /\ walk'.pc = "idle" /\ \A p \in Pids : walk'.seen[p] <= store.toks
  BY <1>1, NoWalkIs DEF WalkType
<1>3. /\ NoNotes \in [expected : Sessions \cup {NoSession}, candidate : Sessions \cup {NoSession},
                      armed : BOOLEAN, owned : BOOLEAN, found : BOOLEAN]
  BY DEF NoNotes
<1>4. ASSUME NEW st \in RestorationStates, NEW s \in Sessions \cup {NoSession}, NEW ph \in {"running", "ended"},
             op' = [op EXCEPT !.state = st, !.sess = s, !.phase = ph]
      PROVE  /\ OpType' /\ op'.state = st /\ op'.sess = s /\ op'.phase = ph
             /\ op'.n = op.n /\ op'.agent = op.agent /\ op'.cwd = op.cwd /\ op'.tok = op.tok /\ op'.arg = op.arg
  BY <1>1, <1>4 DEF OpRecords, OpType
<1>5. CASE Conclude
  <2> DEFINE s == CHOOSE x \in walk.found : TRUE
             unique == Alive(1, op.tok) /\ Cardinality(walk.found) = 1
             st == IF mem.expected = s THEN "RESTORED_NATIVE" ELSE "NATIVE_CREATED"
  <2>1. walk.pc = "conclude" /\ op.phase = "running" /\ walk' = NoWalk /\ UNCHANGED <<store, procs, proof>>
    BY <1>5 DEF Conclude, Observing
  <2>2. CASE unique /\ mem.expected \in {NoSession, s}
    <3>1. s \in Sessions /\ s \in walk.found /\ Ours(s) /\ Worked(s) /\ store.file[s].by # "none"
      BY <2>1, <2>2, FoundIs
    <3>2. Savable(s)
      BY <2>2, <3>1 DEF Savable
    <3>3. /\ op' = [op EXCEPT !.state = st, !.sess = s]
          /\ saved' = IF st \in Confirmed THEN [saved EXCEPT ![op.agent] = s] ELSE saved
          /\ mem' = [mem EXCEPT !.found = TRUE, !.candidate = IF mem.expected = NoSession THEN s ELSE mem.candidate]
      BY <1>5, <2>2 DEF Conclude, Record
    <3>4. st \in RestorationStates /\ (st = "NATIVE_CREATED" => mem.expected = NoSession)
      BY <2>2 DEF RestorationStates, Confirmed
    <3> HIDE DEF s, st, unique
    <3>5. op' = [op EXCEPT !.state = st, !.sess = s, !.phase = "running"]
      BY <1>1, <2>1, <3>3 DEF OpRecords
    <3>6. /\ OpType' /\ op'.state = st /\ op'.sess = s /\ op'.phase = "running"
          /\ op'.n = op.n /\ op'.agent = op.agent /\ op'.cwd = op.cwd /\ op'.tok = op.tok /\ op'.arg = op.arg
      BY <1>4, <3>1, <3>4, <3>5
    <3>7. /\ MemType' /\ mem'.expected = mem.expected /\ mem'.armed = mem.armed
          /\ mem'.candidate = IF mem.expected = NoSession THEN s ELSE mem.candidate
      BY <1>1, <3>1, <3>3 DEF MemType
    <3> QED BY <1>2, <2>1, <3>1, <3>2, <3>3, <3>4, <3>6, <3>7 DEF RecordStep, Outcome
  <2>3. CASE UNCHANGED <<op, saved, mem>>
    BY <1>1, <1>2, <2>1, <2>3 DEF RecordStep, Outcome, OpType, MemType
  <2> QED BY <1>5, <2>2, <2>3 DEF Conclude
<1>6. CASE CaptureFinds
  <2>1. /\ walk.pc = "capture" /\ op.phase = "running" /\ Written(Target) /\ walk' = NoWalk
        /\ op' = [op EXCEPT !.state = ConfirmedState, !.sess = Target]
        /\ saved' = IF ConfirmedState \in Confirmed THEN [saved EXCEPT ![op.agent] = Target] ELSE saved
        /\ UNCHANGED <<mem, store, procs, proof>>
    BY <1>6 DEF CaptureFinds, Observing, Record
  <2>2. mem.armed
    BY <2>1 DEF SessionInv, WalkInv
  <2>3. Savable(Target)
    BY <2>1, <2>2, TargetIs DEF Savable
  <2>4. ConfirmedState \in RestorationStates /\ (ConfirmedState = "NATIVE_CREATED" => mem.expected = NoSession)
    BY DEF ConfirmedState, RestorationStates, Confirmed
  <2>5. op' = [op EXCEPT !.state = ConfirmedState, !.sess = Target, !.phase = "running"]
    BY <1>1, <2>1 DEF OpRecords
  <2>6. /\ OpType' /\ op'.state = ConfirmedState /\ op'.sess = Target /\ op'.phase = "running"
        /\ op'.n = op.n /\ op'.agent = op.agent /\ op'.cwd = op.cwd /\ op'.tok = op.tok /\ op'.arg = op.arg
    BY <1>4, <2>3, <2>4, <2>5 DEF Savable
  <2>7. MemType'
    BY <1>1, <2>1 DEF MemType
  <2> QED BY <1>2, <2>1, <2>3, <2>4, <2>6, <2>7 DEF RecordStep, Outcome, Savable
<1>7. CASE CaptureTimesOut
  <2>1. /\ op.phase = "running" /\ walk' = NoWalk
        /\ op' = [op EXCEPT !.state = "UNAVAILABLE", !.sess = NoSession]
        /\ saved' = saved /\ UNCHANGED <<mem, store, procs, proof>>
    BY <1>7 DEF CaptureTimesOut, Observing, Record, Confirmed
  <2>2. op' = [op EXCEPT !.state = "UNAVAILABLE", !.sess = NoSession, !.phase = "running"]
    BY <1>1, <2>1 DEF OpRecords
  <2>3. /\ OpType' /\ op'.state = "UNAVAILABLE" /\ op'.phase = "running"
        /\ op'.n = op.n /\ op'.agent = op.agent /\ op'.cwd = op.cwd /\ op'.tok = op.tok /\ op'.arg = op.arg
    BY <1>4, <2>2 DEF RestorationStates
  <2>4. MemType'
    BY <1>1, <2>1 DEF MemType
  <2> QED BY <1>2, <2>1, <2>3, <2>4 DEF RecordStep, Outcome, Confirmed
<1>8. CASE RelaunchProvider
  <2>1. /\ op.phase = "running" /\ walk.pc = "idle" /\ op' = [op EXCEPT !.phase = "prepared"]
        /\ UNCHANGED <<saved, mem, store, procs, walk, proof>>
    BY <1>8 DEF RelaunchProvider, Returned
  <2>2. /\ OpType' /\ op'.state = op.state /\ op'.sess = op.sess /\ op'.phase = "prepared"
        /\ op'.n = op.n /\ op'.agent = op.agent /\ op'.cwd = op.cwd /\ op'.tok = op.tok /\ op'.arg = op.arg
    BY <1>1, <2>1 DEF OpRecords, OpType
  <2>3. MemType' /\ WalkType'
    BY <1>1, <2>1 DEF MemType, WalkType
  <2> QED BY <1>1, <2>1, <2>2, <2>3 DEF RecordStep, Outcome
<1>9. CASE AfterIteration
  <2> DEFINE s == IF OutcomeState \in Confirmed THEN Target ELSE NoSession
  <2>1. /\ op.phase = "running" /\ walk.pc = "idle" /\ mem' = NoNotes
        /\ op' = [op EXCEPT !.state = OutcomeState, !.sess = s, !.phase = "ended"]
        /\ saved' = IF OutcomeState \in Confirmed THEN [saved EXCEPT ![op.agent] = s] ELSE saved
        /\ UNCHANGED <<store, procs, walk, proof>>
    BY <1>9 DEF AfterIteration, Returned
  <2>2. /\ OutcomeState \in RestorationStates
        /\ OutcomeState \in Confirmed => mem.armed /\ Written(Target)
        /\ OutcomeState = "NATIVE_CREATED" => mem.expected = NoSession
    BY DEF OutcomeState, ConfirmedState, RestorationStates, Confirmed
  <2>3. OutcomeState \in Confirmed => Savable(Target) /\ s = Target
    BY <2>2, TargetIs DEF Savable
  <2>4. s \in Sessions \cup {NoSession}
    BY <2>3 DEF Savable
  <2> HIDE DEF s
  <2>5. /\ OpType' /\ op'.state = OutcomeState /\ op'.sess = s /\ op'.phase = "ended"
        /\ op'.n = op.n /\ op'.agent = op.agent /\ op'.cwd = op.cwd /\ op'.tok = op.tok /\ op'.arg = op.arg
    BY <1>4, <2>1, <2>2, <2>4
  <2>6. MemType' /\ WalkType'
    BY <1>1, <1>3, <2>1 DEF MemType, WalkType
  <2> QED BY <1>1, <2>1, <2>2, <2>3, <2>5, <2>6 DEF RecordStep, Outcome, Savable
<1>10. CASE ControllerDies
  <2>1. op' = [op EXCEPT !.phase = "lost"] /\ mem' = NoNotes /\ walk' = NoWalk /\ UNCHANGED <<saved, store, procs, proof>>
    BY <1>10 DEF ControllerDies
  <2>2. /\ OpType' /\ op'.state = op.state /\ op'.sess = op.sess /\ op'.phase = "lost"
        /\ op'.n = op.n /\ op'.agent = op.agent /\ op'.cwd = op.cwd /\ op'.tok = op.tok /\ op'.arg = op.arg
    BY <1>1, <2>1 DEF OpRecords, OpType
  <2>3. MemType'
    BY <1>3, <2>1 DEF MemType
  <2> QED BY <1>2, <2>1, <2>2, <2>3 DEF RecordStep, Outcome
<1> QED BY <1>5, <1>6, <1>7, <1>8, <1>9, <1>10 DEF Records

-----------------------------------------------------------------------------
(* The invariant holds *)

\* The initial states satisfy the invariant.
LEMMA SessionBegins ==
  ASSUME SessionInit
  PROVE  SessionInv
<1>1. /\ saved = [a \in Agents |-> NoSession] /\ op = NoOp /\ mem = NoNotes /\ walk = NoWalk /\ proof = NoProof
      /\ procs = [p \in Pids |-> NoProcess]
      /\ store = [made |-> 0, toks |-> 0, fresh |-> {},
                  file |-> [s \in Sessions |-> [by |-> "none", agent |-> "codex", cwd |-> NoOp.cwd, n |-> 0]]]
  BY DEF SessionInit
<1>2. /\ store \in Stores /\ \A s \in Sessions : store.file[s].by = "none"
      /\ store.fresh = {} /\ store.toks = 0
  <2>1. [by |-> "none", agent |-> "codex", cwd |-> NoOp.cwd, n |-> 0] \in File
    BY DEF File, Providers, Agents, Cwds
  <2> QED BY <1>1, <2>1 DEF Stores
<1>3. /\ NoProcess \in [tok : Nat, owner : Providers, open : SUBSET Sessions]
      /\ NoProcess.tok = 0 /\ NoProcess.owner = "none" /\ NoProcess.open = {}
  BY DEF NoProcess, Providers
<1>4. SavedType /\ OpType /\ StoreType /\ ProcsType
  <2>1. SavedType
    BY <1>1 DEF SavedType
  <2>2. OpType /\ StoreType
    BY <1>1, <1>2, NoOpIs DEF OpType, StoreType
  <2>3. ProcsType
    BY <1>1, <1>3 DEF ProcsType
  <2> QED BY <2>1, <2>2, <2>3
<1>5. MemType /\ ProofType /\ mem.expected = NoSession /\ mem.candidate = NoSession /\ mem.armed = FALSE
  BY <1>1 DEF MemType, NoNotes, ProofType, NoProof
<1>6. WalkType /\ walk.pc = "idle" /\ \A p \in Pids : walk.seen[p] = 0
  BY <1>1, NoWalkIs DEF WalkType
<1>7. SessionTypes
  BY <1>4, <1>5, <1>6 DEF SessionTypes
<1>8. FileInv /\ SavedInv /\ FreshInv /\ NotesInv
  BY <1>1, <1>2, <1>5, NoOpIs DEF FileInv, SavedInv, FreshInv, NotesInv
<1>9. ProcInv
  <2>1. op.tok = 0 /\ \A p \in Pids : procs[p].tok = 0 /\ procs[p].owner = "none" /\ procs[p].open = {}
    BY <1>1, <1>3, NoOpIs
  <2> QED BY <1>2, <2>1 DEF ProcInv, Pids, Mission
<1>10. WalkInv
  BY <1>2, <1>6 DEF WalkInv
<1>11. OutcomeInv
  BY <1>1, NoOpIs DEF OutcomeInv, Confirmed
<1> QED BY <1>7, <1>8, <1>9, <1>10, <1>11 DEF SessionInv

\* Every step keeps the invariant.
LEMMA SessionStays ==
  ASSUME SessionInv, UNCHANGED <<saved, op, mem, store, procs, walk, proof>>
  PROVE  SessionInv'
<1>1. SessionTypes'
  BY DEF SessionInv, SessionTypes, SavedType, OpType, MemType, StoreType, ProcsType, WalkType, ProofType
<1>2. FileInv' /\ SavedInv' /\ NotesInv' /\ FreshInv'
  BY DEF SessionInv, FileInv, SavedInv, NotesInv, FreshInv, Ours, Mine, FitsOp, Worked
<1>3. ProcInv'
  BY DEF SessionInv, ProcInv, Mission, Mine, FitsOp
<1>4. WalkInv'
  BY DEF SessionInv, WalkInv, Target, Alive, Mission, Ours, Mine, FitsOp, Worked
<1>5. OutcomeInv'
  BY DEF SessionInv, OutcomeInv, Worked
<1> QED BY <1>1, <1>2, <1>3, <1>4, <1>5 DEF SessionInv

\* Every step of a mission's native sessions keeps the invariant: what the
\* processes and the user do, what the controller plans and launches, what it
\* looks at and what it records (llm_tools/bridge_runtime.py).
THEOREM SessionInvHolds == SessionSpec => []SessionInv
<1>1. SessionInit => SessionInv
  BY SessionBegins
<1>2. SessionInv /\ [SessionNext \/ ProviderLogs]_sessionVars => SessionInv'
  <2> SUFFICES ASSUME SessionInv, [SessionNext \/ ProviderLogs]_sessionVars PROVE SessionInv'
    OBVIOUS
  <2>1. CASE World
    BY <2>1, WorldIs, WorldKeeps DEF SessionInv
  <2>2. ASSUME NEW a \in Agents, NEW c \in Folders, BeforeLaunch(a, c) PROVE SessionInv'
    BY <2>2, BeforeLaunchKeeps
  <2>3. ASSUME NEW owned \in BOOLEAN, NEW resumes \in BOOLEAN, NEW plans \in BOOLEAN,
               Transform(owned, resumes, plans)
        PROVE  SessionInv'
    BY <2>3, TransformIs, PlanKeeps DEF SessionInv
  <2>4. ASSUME NEW short \in BOOLEAN, LaunchProvider(short) PROVE SessionInv'
    BY <2>4, LaunchKeeps
  <2>5. CASE Look
    BY <2>5, LookKeeps
  <2>6. CASE Records
    BY <2>6, RecordIs, RecordKeeps
  <2>7. CASE ProviderLogs \/ UNCHANGED sessionVars
    BY <2>7, SessionStays DEF ProviderLogs, sessionVars
  <2> QED BY <2>1, <2>2, <2>3, <2>4, <2>5, <2>6, <2>7 DEF SessionNext, World, Look, Records, Advertised
<1> QED BY <1>1, <1>2, PTL DEF SessionSpec

\* The session saved for the next launch is one a process of the mission
\* started, and an operation that says its session was restored or created
\* names one that was opened in it (bridge_sessions.py,
\* _owned_codex_session_candidates, and bridge_runtime.py,
\* _capture_session_after_launch and _record_session_outcome).
THEOREM SessionIsOursHolds == SessionSpec => []SessionIsOurs
<1>1. SessionInv => SessionIsOurs
  BY DEF SessionInv, SavedInv, OutcomeInv, SessionIsOurs, OwnSessionOnly, ConfirmedIsOpened, Mine, Worked
<1> QED BY <1>1, SessionInvHolds, PTL
=============================================================================
