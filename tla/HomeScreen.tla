----------------------------- MODULE HomeScreen -----------------------------
(***************************************************************************)
(* The home screen (bridge_launcher) over the stations: the mission list,  *)
(* its background reload (bridge_redraw.BackgroundReload), the form for a  *)
(* new mission with its recovery drafts, and the mission picker            *)
(* (bridge_switcher), which closes stations and moves terminals.           *)
(*                                                                         *)
(* Other processes commit to the database; a commit may add a mission or   *)
(* reorder the list.  The probe of the reload is the number of commits, or *)
(* unreadable.  Drawing is left out.                                       *)
(***************************************************************************)
EXTENDS Stations, Sequences, SequencesExt

CONSTANTS
    Ids,         \* missions in the database
    Filter,      \* the missions that match the filter text
    Texts,       \* objectives the operator types
    MaxCommits,  \* bound on commits
    MaxKeys      \* bound on the operator's keys

None == 0
NoRead == [gen |-> -1, ver |-> 0, list |-> << >>, ok |-> TRUE, phase |-> "none"]
NoText == "empty"

ASSUME HomeAssumption ==
    /\ Ids \subseteq Nat \ {0} /\ Filter \subseteq Ids /\ NoText \notin Texts /\ MaxCommits \in Nat /\ MaxKeys \in Nat

HomeStart ==
           [db |-> [ver |-> 0, list |-> << >>],                      \* the committed list
            rl |-> [forced |-> TRUE, seen |-> -1, rebase |-> FALSE, gen |-> 0, read |-> NoRead],
            shown |-> << >>, ver |-> 0, sel |-> 0, filter |-> FALSE,  \* Launcher
            form |-> [open |-> FALSE, text |-> NoText, draft |-> NoText],
            drafts |-> {}, created |-> {},                            \* draft files, objectives of saved missions
            missed |-> FALSE,      \* a commit fell between a rebased read and the poll that took it
            up |-> TRUE, keys |-> 0,
            pick |-> [open |-> FALSE, station |-> FALSE, confirm |-> FALSE]]

HomeInit == home = HomeStart

others == <<mix, files, tmux, lock, mstat, hooks, calls, moves, faults, watch>>
rest == <<mix, files, tmux, lock, mstat, calls, moves, faults, watch>>
AtHome == mix = "home" /\ home.up
Key == home.keys < MaxKeys

\* view: the list, or what matches the filter.
ViewOf(list, filter) == IF filter THEN SelectSeq(list, LAMBDA m : m \in Filter) ELSE list
View == ViewOf(home.shown, home.filter)
\* Row 0 is the new-mission row.
SelectedId(h) == LET v == ViewOf(h.shown, h.filter) IN IF h.sel \in DOMAIN v THEN v[h.sel] ELSE None

HomeTypeOK ==
    /\ home.db.ver \in 0 .. MaxCommits /\ home.db.list \in BoundedSeq(Ids, Cardinality(Ids))
    /\ home.shown \in BoundedSeq(Ids, Cardinality(Ids)) /\ home.ver \in 0 .. MaxCommits
    /\ home.sel \in 0 .. Len(ViewOf(home.shown, home.filter)) /\ home.rl.seen \in -1 .. MaxCommits
    /\ home.form.text \in Texts \cup {NoText} /\ home.drafts \subseteq Texts /\ home.created \subseteq Texts
    /\ home.keys \in 0 .. MaxKeys

\* select_id: the row of a mission that is shown, else the old row within the list.
RowOf(v, id, old) ==
    IF \E i \in DOMAIN v : v[i] = id THEN CHOOSE i \in DOMAIN v : v[i] = id
    ELSE IF old > Len(v) THEN Len(v) ELSE old

\* Mutant: the selection stays on its row.
ReloadRow(h, list, ver) ==
    [h EXCEPT !.shown = list, !.ver = ver, !.sel = RowOf(ViewOf(list, h.filter), None, h.sel)]

\* reload: the list is replaced and the selection follows its mission.
Reload(h, list, ver) ==
    [h EXCEPT !.shown = list, !.ver = ver, !.sel = RowOf(ViewOf(list, h.filter), SelectedId(h), h.sel)]

-----------------------------------------------------------------------------
(* The database and the background reload. *)

\* Another process adds a mission or changes the order (a status, an update).
Commit ==
    /\ mix = "home" /\ home.db.ver < MaxCommits
    /\ \E ids \in SUBSET Ids : ToSet(home.db.list) \subseteq ids /\ Cardinality(ids) <= Len(home.db.list) + 1 /\
        \E list \in SetToSeqs(ids) :
            home' = [home EXCEPT !.db = [ver |-> @.ver + 1, list |-> list],
                                 !.missed = @ \/ (home.rl.rebase /\ home.rl.read.phase \in {"loaded", "ready"})]
    /\ UNCHANGED others

\* The probe: the number of commits, or nothing when the database cannot be read now.
Readings == IF faults < MaxFaults THEN {home.db.ver, -1} ELSE {home.db.ver}

Running == home.rl.read.phase \in {"started", "loaded"}
Held == home.form.open

\* Mutant: a read that failed counts as one of the state its probe saw.
PollTakesFailed ==
    /\ AtHome /\ ~Held /\ home.rl.read.phase = "ready"
    /\ LET r == home.rl.read
           rl == [home.rl EXCEPT !.seen = IF home.rl.rebase THEN home.db.ver ELSE @, !.rebase = FALSE, !.read = NoRead] IN
       home' = IF r.ok THEN Reload([home EXCEPT !.rl = rl], r.list, r.ver) ELSE [home EXCEPT !.rl = rl]
    /\ UNCHANGED others

\* poll with a finished read: it is applied, or its failure makes the next probe read again.
PollTakes ==
    /\ AtHome /\ ~Held /\ home.rl.read.phase = "ready"
    /\ LET r == home.rl.read
           seen == IF ~r.ok THEN -1 ELSE IF home.rl.rebase THEN home.db.ver ELSE home.rl.seen
           rl == [home.rl EXCEPT !.seen = seen, !.rebase = FALSE, !.read = NoRead] IN
       home' = IF r.ok THEN Reload([home EXCEPT !.rl = rl], r.list, r.ver) ELSE [home EXCEPT !.rl = rl]
    /\ UNCHANGED others

Due(reading) == home.rl.forced \/ reading = -1 \/ reading # home.rl.seen

\* poll starts a read when one was requested, or the probe changed or failed.
PollStarts ==
    /\ AtHome /\ ~Held /\ home.rl.read.phase = "none"
    /\ \E reading \in Readings :
        /\ Due(reading)
        /\ home' = [home EXCEPT !.rl = [@ EXCEPT !.forced = FALSE, !.seen = reading, !.rebase = reading = -1,
                                                 !.read = [NoRead EXCEPT !.gen = home.rl.gen, !.phase = "started"]],
                                !.missed = FALSE]
        /\ faults' = IF reading = -1 THEN faults + 1 ELSE faults
    /\ UNCHANGED <<mix, files, tmux, lock, mstat, hooks, calls, moves, watch>>

\* The worker thread reads the list, or fails.
Load ==
    /\ mix = "home" /\ home.rl.read.phase = "started"
    /\ \/ home' = [home EXCEPT !.rl.read = [@ EXCEPT !.ver = home.db.ver, !.list = home.db.list, !.phase = "loaded"]]
          /\ UNCHANGED faults
       \/ Fault /\ home' = [home EXCEPT !.rl.read = [@ EXCEPT !.ok = FALSE, !.phase = "loaded"]]
    /\ UNCHANGED <<mix, files, tmux, lock, mstat, hooks, calls, moves, watch>>

\* Mutant: a read that was invalidated is published all the same.
PublishAny ==
    /\ mix = "home" /\ home.rl.read.phase = "loaded"
    /\ home' = [home EXCEPT !.rl.read = [@ EXCEPT !.phase = "ready"]]
    /\ UNCHANGED others

\* It publishes the result unless the read was invalidated meanwhile.
Publish ==
    /\ mix = "home" /\ home.rl.read.phase = "loaded"
    /\ home' = [home EXCEPT !.rl.read = IF @.gen = home.rl.gen THEN [@ EXCEPT !.phase = "ready"] ELSE NoRead]
    /\ UNCHANGED others

\* invalidate: a result that waits is dropped, one in flight will be.
Invalidate(h) ==
    [h EXCEPT !.rl = [h.rl EXCEPT !.gen = @ + 1, !.forced = TRUE,
                                  !.read = IF @.phase = "ready" THEN NoRead ELSE @]]

\* A synchronous _load_home, which also selects id when there is one; the loop then starts again.
LoadNow(h, id) ==
    LET now == Reload(h, h.db.list, h.db.ver) IN
    Invalidate(IF id = None THEN now ELSE [now EXCEPT !.sel = RowOf(ViewOf(now.shown, now.filter), id, now.sel)])

-----------------------------------------------------------------------------
(* Keys in the list. *)

Up == AtHome /\ ~Held /\ Key /\ home.sel > 0 /\ home' = [home EXCEPT !.sel = @ - 1, !.keys = @ + 1] /\ UNCHANGED others

Down == AtHome /\ ~Held /\ Key /\ home.sel < Len(View) /\ home' = [home EXCEPT !.sel = @ + 1, !.keys = @ + 1]
        /\ UNCHANGED others

\* Typing a filter selects its first match; Esc shows everything and keeps the selected mission.
FilterKey ==
    /\ AtHome /\ ~Held /\ Key
    /\ home' = IF home.filter
               THEN [home EXCEPT !.filter = FALSE, !.sel = RowOf(home.shown, SelectedId(home), @), !.keys = @ + 1]
               ELSE [home EXCEPT !.filter = TRUE, !.keys = @ + 1,
                                 !.sel = IF ViewOf(home.shown, TRUE) = << >> THEN 0 ELSE 1]
    /\ UNCHANGED others

\* Help, the composer and an attach that ends return to the loop, which re-reads the list.
Return ==
    /\ AtHome /\ ~Held /\ Key /\ home' = [Invalidate(home) EXCEPT !.keys = @ + 1]
    /\ UNCHANGED others

\* Opening a mission's controls or quitting ends the home screen.
Leave ==
    /\ AtHome /\ Key /\ home' = [home EXCEPT !.up = FALSE, !.rl.read = NoRead, !.keys = @ + 1]
    /\ UNCHANGED others

\* s starts the selected mission; when that fails before any work the list is read again.
StartSelected ==
    /\ AtHome /\ ~Held /\ Key /\ SelectedId(home) # None
    /\ home' = [LoadNow(home, SelectedId(home)) EXCEPT !.keys = @ + 1]
    /\ UNCHANGED others

-----------------------------------------------------------------------------
(* The form for a new mission. *)

OpenForm ==
    /\ AtHome /\ ~Held /\ Key /\ home' = [home EXCEPT !.form.open = TRUE, !.keys = @ + 1]
    /\ UNCHANGED others

\* Esc leaves the form and keeps what was typed.
CloseForm ==
    /\ AtHome /\ Held /\ Key /\ home' = [home EXCEPT !.form.open = FALSE, !.keys = @ + 1]
    /\ UNCHANGED others

Type ==
    /\ AtHome /\ Held /\ Key /\ \E t \in Texts : home' = [home EXCEPT !.form.text = t, !.keys = @ + 1]
    /\ UNCHANGED others

\* Ctrl-E: the composer starts from the recovery draft when there is one; cancelled, it leaves a new draft.
Compose ==
    /\ AtHome /\ Held /\ Key
    /\ LET initial == IF home.form.draft \in home.drafts THEN home.form.draft ELSE home.form.text IN
       \E t \in Texts \cup {initial} :
        \/ home' = [Invalidate(home) EXCEPT !.form.text = t, !.keys = @ + 1]
        \/ /\ t # NoText
           /\ home' = [Invalidate(home) EXCEPT !.form.draft = t, !.drafts = @ \cup {t}, !.keys = @ + 1]
    /\ UNCHANGED others

\* mission create fails: the objective is written to a draft unless the form has one.
CreateFails ==
    /\ AtHome /\ Held /\ home.form.text # NoText /\ Fault
    /\ home' = Invalidate(IF home.form.draft = NoText
                          THEN [home EXCEPT !.form.draft = home.form.text, !.drafts = @ \cup {home.form.text}]
                          ELSE home)
    /\ UNCHANGED <<mix, files, tmux, lock, mstat, hooks, calls, moves, watch>>

\* Mutant: the draft of a saved mission is removed whatever it holds.
DraftsAfterAny(h) == h.drafts \ {h.form.draft}

\* The draft of a saved mission is removed when it holds the objective that was saved.
DraftsAfter(h) == IF h.form.draft = h.form.text THEN h.drafts \ {h.form.draft} ELSE h.drafts

\* Save: the mission is committed, the form emptied, the list read and the new mission selected.
Create ==
    /\ AtHome /\ Held /\ home.form.text # NoText /\ home.db.ver < MaxCommits
    /\ \E id \in Ids \ ToSet(home.db.list) :
        LET h == [home EXCEPT !.db = [ver |-> @.ver + 1, list |-> <<id>> \o @.list],
                              !.created = @ \cup {home.form.text}, !.drafts = DraftsAfter(home),
                              !.form = [open |-> FALSE, text |-> NoText, draft |-> NoText], !.filter = FALSE] IN
        home' = LoadNow(h, id)
    /\ UNCHANGED others

-----------------------------------------------------------------------------
(* The mission picker, whose rows are a snapshot. *)

Picking == mix = "leave" /\ home.pick.open

PickerOpens ==
    /\ mix = "leave" /\ ~home.pick.open /\ Key
    /\ home' = [home EXCEPT !.keys = @ + 1,
                            !.pick = [open |-> TRUE, confirm |-> FALSE, station |-> ~Absent(Home) /\ mstat = "done"]]
    /\ UNCHANGED others

\* x on an idle station asks; any key but y keeps it.
PickerAsks ==
    /\ Picking /\ ~home.pick.confirm /\ home.pick.station
    /\ home' = [home EXCEPT !.pick.confirm = TRUE]
    /\ UNCHANGED others

PickerKeeps ==
    /\ Picking /\ home.pick.confirm /\ home' = [home EXCEPT !.pick.confirm = FALSE]
    /\ UNCHANGED others

\* y closes the station through gc_finished_station, which checks everything again under the lock.
PickerCloses ==
    /\ Picking /\ home.pick.confirm /\ hooks < MaxMoves /\ hooks' = hooks + 1
    /\ home' = [home EXCEPT !.pick.confirm = FALSE, !.pick.station = FALSE]
    /\ UNCHANGED rest

PickerEnds ==
    /\ Picking /\ ~home.pick.confirm /\ home' = [home EXCEPT !.pick = HomeStart.pick]
    /\ UNCHANGED others

-----------------------------------------------------------------------------

Next ==
    \/ \E a \in Actors : Probe(a) \/ Unanswered(a) \/ Relisten(a) \/ Unlink(a) \/ UnlinkConf(a)
    \/ \E a \in Actors : StopProbe(a) \/ KillServer(a) \/ Confirm(a) \/ Raised(a)
    \/ \E a \in Actors : AskProvider(a) \/ AskClients(a)
    \/ ServerExits \/ ServerDies
    \/ Boot \/ PriorOpened \/ StartStation \/ CheckPaths \/ WriteConfig \/ Spawn \/ Launch \/ ProviderExits
    \/ MissionEnds \/ Finally \/ ControllerEnds \/ ControllerCrashes
    \/ CloseBegins \/ Reopen \/ Opened \/ CloseEnds \/ StopFinished
    \/ ForceStop \/ ForceOpened \/ ForceEnds
    \/ Attach \/ AttachOpened \/ AttachRuns \/ ReclaimAttach \/ AttachEnds \/ Detach
    \/ Switch \/ SwitchOpened \/ HasDestination \/ AttachDestination \/ HasSource \/ AttachSource
    \/ Output \/ BridgeOutput \/ Second \/ ReadWait
    \/ Commit \/ PollTakes \/ PollStarts \/ Load \/ Publish
    \/ Up \/ Down \/ FilterKey \/ Return \/ Leave \/ StartSelected
    \/ OpenForm \/ CloseForm \/ Type \/ Compose \/ CreateFails \/ Create
    \/ PickerOpens \/ PickerAsks \/ PickerKeeps \/ PickerCloses \/ PickerEnds

Spec == Init /\ HomeInit /\ [][Next]_vars

\* The screen loop keeps polling, and the worker thread runs.
FairSpec == Spec /\ WF_vars(PollTakes) /\ WF_vars(PollStarts) /\ WF_vars(Load) /\ WF_vars(Publish)

-----------------------------------------------------------------------------
(* What the home screen promises. *)

\* A reload harms nothing.  The list never goes back to an older state of the database: a background
\* read that predates a synchronous one is not applied (BackgroundReload.invalidate).  The selection
\* stays on its mission while that is shown, wherever the row moves, unless a mission was saved, which
\* closes the form and selects the new one (Launcher.reload).  A recovery draft goes only when a mission
\* was saved with its text (_run_launcher).
ReloadIsHarmless ==
    [][/\ home'.ver >= home.ver
       /\ (home'.ver # home.ver /\ home'.form.open = home.form.open /\ SelectedId(home) \in ToSet(ViewOf(home'.shown, home'.filter)))
            => SelectedId(home') = SelectedId(home)
       /\ home.drafts \subseteq home'.drafts \cup home'.created]_vars

\* The list catches up with the database unless the form holds it, or a commit fell between a read
\* that had no probe to start from and the poll that took it (BackgroundReload.poll).
HomeCatchesUp ==
    mix = "home" => []<>(home.shown = home.db.list \/ Held \/ ~home.up \/ home.missed)
=============================================================================
