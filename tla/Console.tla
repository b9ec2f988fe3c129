------------------------------ MODULE Console ------------------------------
(***************************************************************************)
(* The operator console of one mission (bridge_tui.py): one input loop,    *)
(* and the threads it starts to read the mission's snapshot, to run a      *)
(* command, to read a full task prompt and to checkpoint the composer.     *)
(*                                                                         *)
(* While the composer is open the loop is inside it, so only the threads   *)
(* move.  A view stands for everything a snapshot depends on (view, page,  *)
(* search text); a projection is the part of the store the console shows.  *)
(***************************************************************************)
EXTENDS Integers, Sequences, FiniteSets, TLC

CONSTANTS
  Tasks,          \* the mission's tasks
  Projections,    \* what the store may hold: the listed tasks, those finished, the mission ended
  Views,          \* the console's views; "Tasks" is one of them
  Mixes,          \* bound: what an operator does in one behaviour, sets of
                  \* "views" (switch view), "watch" (select, while others
                  \* commit), "read" (documents, help), "compose", "command"
  MaxWrites,      \* bound: commits by others
  MaxDrafts,      \* bound: composers opened
  MaxEdits,       \* bound: edits of one draft
  MaxReads,       \* bound: document reads requested
  MaxFaults       \* bound: failed writes, reads and probes

ASSUME ConsoleAssumption ==
  /\ "Tasks" \in Views /\ "none" \notin Tasks
  /\ Mixes \subseteq SUBSET {"views", "watch", "read", "compose", "command"}
  /\ Projections \subseteq [list : Seq(Tasks), done : SUBSET Tasks, ended : BOOLEAN]
  /\ {MaxWrites, MaxDrafts, MaxEdits, MaxReads, MaxFaults} \subseteq Nat

VARIABLES
  pc,       \* "loop", "compose", "closed" (a composer just left) or "gone"
  store,    \* [rev, data]: the data_version and what it stands for
  ui,       \* what the operator sees and has asked for
  snap,     \* the displayed snapshot [view, rev, data] and its change token
  reader,   \* the snapshot thread
  cmd,      \* the command thread
  doc,      \* the document read: generation, pending, for_edit, result
  reads,    \* document threads still running
  comp,     \* the open composer, or the last one
  writers,  \* composer checkpoint threads still running
  ck,       \* draft -> its recovery file (the task file written on save goes with it)
  owed,     \* history: draft -> the text the operator was told is kept
  want,     \* history: the document asked for and not called off
  mix,      \* the operator's mix, which does not change
  faults

consoleVars == <<pc, store, ui, snap, reader, cmd, doc, reads, comp, writers, ck, owed, want, mix, faults>>

Drafts == 1..MaxDrafts

\* A text is where it came from and how often it was edited since.
NoText == [src |-> "none", n |-> 0]
Blank == [src |-> "blank", n |-> 0]
Source(t) == [src |-> t, n |-> 0]
Texts == [src : Tasks \cup {"none", "blank", "paste"}, n : 0..MaxEdits]

NoToken == [rev |-> -1, view |-> "none"]
NoDoc == [task |-> "none", edit |-> FALSE]
NoResult == [task |-> "none", ok |-> FALSE]
NoData == [list |-> <<>>, done |-> {}, ended |-> FALSE]
NoCmd == [st |-> "none", draft |-> 0, out |-> "none", long |-> FALSE]

NoSnap == [view |-> "none", rev |-> -1, data |-> NoData, token |-> NoToken, loaded |-> FALSE]
NoReader ==
  [st |-> "idle", token |-> NoToken, ok |-> FALSE, view |-> "none", rev |-> 0, data |-> NoData, aged |-> FALSE]
FreshDoc == [gen |-> 0, pending |-> FALSE, edit |-> FALSE, result |-> NoResult]
NoComposer(id) ==
  [id |-> id, how |-> "key", target |-> "none", buf |-> NoText, checkpointed |-> NoText,
   seq |-> 0, written |-> 0]

\* The console opens with nothing read (last_refresh = 0).
FreshUi ==
  [view |-> "Tasks", sel |-> 1, screen |-> "none", confirm |-> FALSE, viewer |-> "none", docTask |-> "none",
   edit |-> "no", text |-> NoText, paste |-> FALSE, stale |-> TRUE]

-----------------------------------------------------------------------------
(* Selection: the highlighted row names a task of the displayed snapshot.  *)

SelectedTask(s, sel) ==
  LET l == s.data.list
  IN  IF l = <<>> THEN "none" ELSE l[IF sel > Len(l) THEN Len(l) ELSE sel]

\* Mutant: the row is kept, whatever task the new list has there.
ReselectRow(l, key, sel) == sel

\* The highlight moves to the task's new row when the new list still has it.
ReselectTask(l, key, sel) ==
  IF \E i \in 1..Len(l) : l[i] = key THEN CHOOSE i \in 1..Len(l) : l[i] = key ELSE sel

ChooseView(u, v) == [u EXCEPT !.view = v, !.sel = 1]

-----------------------------------------------------------------------------
(* Dispatch.  A command runs on its own thread, one at a time.             *)

\* What the command line can name: a view, a command whose consequence asks
\* for a second keystroke, one that does not.
Lines == {"plain", "risky"} \cup Views

NeedsConfirmation(line) == line = "risky"

Dispatched(draft) == [st |-> "running", draft |-> draft, out |-> "none", long |-> FALSE]

\* run_command: the thread reports what the dispatcher answered: an
\* envelope, several lines of text, or a view to show.  Rejected and failed
\* differ in wording only, and so does a terminal action, after which the
\* loop is entered again.
RunCommand ==
  /\ cmd.st = "running"
  /\ \E out \in IF cmd.draft = 0 THEN {"applied", "view"} ELSE {"applied", "rejected", "unknown"}, long \in BOOLEAN :
       /\ out = "view" => ~long
       /\ cmd' = [cmd EXCEPT !.st = "done", !.out = out, !.long = long]
  /\ UNCHANGED <<mix, pc, store, ui, snap, reader, doc, reads, comp, writers, ck, owed, want, faults>>

-----------------------------------------------------------------------------
(* refresh(): publish what the threads left, then start a read when due.   *)

\* Mutant: any answer of the command removes the draft's files.
AcknowledgedAlways(c) == c.st = "done"

\* Only a positive acknowledgement removes the draft's files.
Acknowledged(c) == c.st = "done" /\ c.out = "applied"

\* ui after the document result: an edit is requested, or the viewer opens.
AfterDocument(u) ==
  IF doc.result = NoResult THEN u
  ELSE LET t == doc.result.task
           v == [u EXCEPT !.docTask = IF t = "objective" THEN "none" ELSE t]
       IN  IF ~doc.result.ok THEN v
           ELSE IF doc.edit THEN [v EXCEPT !.text = Source(t), !.edit = "fresh"]
           ELSE [v EXCEPT !.viewer = t]

\* ui after the snapshot: the highlight follows its task.
AfterSnapshot(u) ==
  IF reader.st # "done" \/ ~reader.ok THEN u
  ELSE IF u.view = "Tasks" /\ snap.data.list # <<>>
       THEN [u EXCEPT !.sel = ReselectTask(reader.data.list, SelectedTask(snap, u.sel), u.sel)]
       ELSE u

\* ui after the command's result: a view command switches, a long answer
\* opens the overlay; in every case the next refresh reads again.
AfterCommand(u) ==
  IF cmd.st # "done" THEN u
  ELSE LET v == IF cmd.out = "view" THEN ChooseView(u, "Tasks") ELSE u
       IN  [v EXCEPT !.stale = TRUE, !.screen = IF cmd.long THEN "response" ELSE @]

\* Mutant: an unchanged token never grows old.
ReadDueByChange(tok, force, s, u, aged) == force \/ u.stale \/ tok = NoToken \/ tok # s.token

\* A read is due when it is forced, when the change token moved or could not
\* be taken, and when the last full read is _FULL_REFRESH_SECONDS old.
ReadDue(tok, force, s, u, aged) ==
  force \/ u.stale \/ tok = NoToken \/ tok # s.token \/ ~s.loaded \/ aged

\* The snapshot thread's result becomes the snapshot, under the token that
\* was taken when the thread was started.
SnapshotAfter ==
  IF reader.st # "done" THEN snap
  ELSE IF reader.ok
       THEN [view |-> reader.view, rev |-> reader.rev, data |-> reader.data, token |-> reader.token, loaded |-> TRUE]
       ELSE [snap EXCEPT !.token = NoToken]

\* An applied command's draft: both its files go, and nothing is owed.
Cleanup ==
  IF Acknowledged(cmd) /\ cmd.draft # 0
  THEN /\ ck' = [ck EXCEPT ![cmd.draft] = NoText]
       /\ owed' = IF cmd.out = "applied" THEN [owed EXCEPT ![cmd.draft] = NoText] ELSE owed
  ELSE UNCHANGED <<ck, owed>>

\* The loop's refresh.  `due` is whether the probe interval has passed; a
\* probe that fails gives no token.
Refresh(force, due, u0) ==
  LET s == SnapshotAfter
      u == AfterCommand(AfterSnapshot(AfterDocument(u0)))
      alive == reader.st = "started"
  IN  /\ snap' = s
      /\ doc' = [doc EXCEPT !.result = NoResult, !.pending = IF doc.result = NoResult THEN @ ELSE FALSE,
                            !.edit = IF doc.result = NoResult THEN @ ELSE FALSE]
      /\ want' = IF doc.result = NoResult THEN want ELSE NoDoc
      /\ Cleanup
      /\ cmd' = IF cmd.st = "done" THEN NoCmd ELSE cmd
      /\ \E tok \in {[rev |-> store.rev, view |-> u.view]} \cup (IF faults < MaxFaults THEN {NoToken} ELSE {}) :
           /\ faults' = IF tok = NoToken THEN faults + 1 ELSE faults
           /\ IF (force \/ due \/ u.stale) /\ ~alive /\ ReadDue(tok, force, s, u, reader.aged)
              THEN /\ reader' = [NoReader EXCEPT !.st = "started", !.token = tok]
                   /\ ui' = [u EXCEPT !.stale = FALSE]
              ELSE /\ tok # NoToken
                   /\ reader' = IF alive THEN reader
                                ELSE [NoReader EXCEPT !.aged = reader.aged]
                   /\ ui' = u

LoopRefresh ==
  /\ pc = "loop" /\ ui.edit = "no" /\ ~ui.paste
  /\ \E due \in BOOLEAN : Refresh(FALSE, due, ui)
  /\ UNCHANGED <<mix, pc, store, reads, comp, writers>>

\* The forced refresh after a composer; it is lost on a read still running.
ClosedRefresh ==
  /\ pc = "closed" /\ pc' = "loop"
  /\ Refresh(TRUE, TRUE, ui)
  /\ UNCHANGED <<mix, store, reads, comp, writers>>

\* read_snapshot: the thread takes the view as it is now, not as it was
\* when the token was taken, and reads the store.
ReadSnapshot ==
  /\ pc # "gone" /\ reader.st = "started"
  /\ \/ /\ reader' = [reader EXCEPT !.st = "done", !.ok = TRUE, !.view = ui.view, !.rev = store.rev, !.data = store.data]
        /\ faults' = faults
     \/ /\ faults < MaxFaults
        /\ reader' = [reader EXCEPT !.st = "done", !.ok = FALSE]
        /\ faults' = faults + 1
  /\ UNCHANGED <<mix, pc, store, ui, snap, cmd, doc, reads, comp, writers, ck, owed, want>>

\* The last read becomes _FULL_REFRESH_SECONDS old.
Age ==
  /\ ~reader.aged /\ snap.loaded /\ mix \cap {"watch", "views"} # {}
  /\ reader' = [reader EXCEPT !.aged = TRUE]
  /\ UNCHANGED <<mix, pc, store, ui, snap, cmd, doc, reads, comp, writers, ck, owed, want, faults>>

\* Another process commits.
StoreWrite ==
  /\ store.rev < MaxWrites /\ "watch" \in mix
  /\ \E d \in Projections : store' = [rev |-> store.rev + 1, data |-> d]
  /\ UNCHANGED <<mix, pc, ui, snap, reader, cmd, doc, reads, comp, writers, ck, owed, want, faults>>

-----------------------------------------------------------------------------
(* Document reads: the full prompt of a task, to view it or to amend it.   *)

\* Mutant: closing the document leaves the read in flight valid.
KeepDocumentRead(d) == [d EXCEPT !.result = NoResult, !.pending = FALSE, !.edit = FALSE]

\* Calls off the read in flight: its generation is over.
InvalidateDocumentRead(d) ==
  [d EXCEPT !.gen = @ + 1, !.result = NoResult, !.pending = FALSE, !.edit = FALSE]

\* request_task_document, and the objective read of the Overview.
RequestDocument(t, edit) ==
  /\ ~doc.pending /\ Cardinality(reads) < MaxReads /\ doc.gen < 2 * MaxReads
  /\ LET d == InvalidateDocumentRead(doc)
     IN  /\ doc' = [d EXCEPT !.pending = TRUE, !.edit = edit]
         /\ reads' = reads \cup {[gen |-> d.gen, task |-> t]}
  /\ want' = [task |-> t, edit |-> edit]

\* read_document: publishes only while its generation is current.
ReadDocument ==
  \E r \in reads, ok \in BOOLEAN :
    /\ ok \/ faults < MaxFaults
    /\ faults' = IF ok THEN faults ELSE faults + 1
    /\ reads' = reads \ {r}
    /\ doc' = IF r.gen = doc.gen THEN [doc EXCEPT !.result = [task |-> r.task, ok |-> ok]] ELSE doc
    /\ UNCHANGED <<mix, pc, store, ui, snap, reader, cmd, comp, writers, ck, owed, want>>

-----------------------------------------------------------------------------
(* Keys.  The document viewer takes every key first, then the overlay.     *)

\* An edit requested by a key opens the composer before the next key; one
\* published by refresh() does so after the key the loop then waits for.
AtKey == pc = "loop" /\ ui.edit # "now" /\ ~ui.paste
AtBody == AtKey /\ ui.viewer = "none" /\ ui.screen = "none"
Key(u) == [u EXCEPT !.edit = IF ui.edit = "fresh" THEN "now" ELSE @]

OnlyUi == UNCHANGED <<mix, pc, store, snap, reader, cmd, doc, reads, comp, writers, ck, owed, want, faults>>

KeyView == "views" \in mix /\ \E v \in Views \ {ui.view} : AtBody /\ ui' = Key(ChooseView(ui, v)) /\ OnlyUi

\* Up, Down, a click: another row of the list; paging reads again.
KeySelect ==
  /\ AtBody /\ ui.view = "Tasks" /\ "watch" \in mix
  /\ \E i \in 1..Len(snap.data.list) : i # ui.sel /\ ui' = Key([ui EXCEPT !.sel = i])
  /\ OnlyUi

\* Enter on the command line.  A refused command stays on the line.
KeyEnter ==
  \E line \in Lines :
    /\ AtBody /\ "command" \in mix
    /\ \/ line \in Views /\ "views" \in mix /\ ui' = Key([ChooseView(ui, line) EXCEPT !.stale = TRUE]) /\ cmd' = cmd
       \/ NeedsConfirmation(line) /\ ui' = Key([ui EXCEPT !.confirm = TRUE, !.screen = "confirm"]) /\ cmd' = cmd
       \/ line = "plain" /\ cmd.st = "none" /\ ui' = Key(ui) /\ cmd' = Dispatched(0)
    /\ UNCHANGED <<mix, pc, store, snap, reader, doc, reads, comp, writers, ck, owed, want, faults>>

\* Y, or N and Esc, on a confirmation; any other key is ignored.
KeyConfirm ==
  /\ AtKey /\ ui.viewer = "none" /\ ui.confirm
  /\ ui' = Key([ui EXCEPT !.confirm = FALSE, !.screen = "none"])
  /\ \/ cmd' = IF cmd.st = "none" THEN Dispatched(0) ELSE cmd
     \/ cmd' = cmd
  /\ UNCHANGED <<mix, pc, store, snap, reader, doc, reads, comp, writers, ck, owed, want, faults>>

KeyDismiss ==
  /\ AtKey /\ ui.viewer = "none" /\ ui.screen = "response" /\ ~ui.confirm
  /\ ui' = Key([ui EXCEPT !.screen = "none"])
  /\ OnlyUi

\* v and Ctrl-R in Tasks, o in Overview.
KeyDocument ==
  /\ AtBody /\ "read" \in mix
  /\ \/ /\ ui.view = "Tasks" /\ SelectedTask(snap, ui.sel) # "none"
        /\ \E edit \in BOOLEAN : RequestDocument(SelectedTask(snap, ui.sel), edit)
     \/ ui.view # "Tasks" /\ RequestDocument("objective", FALSE)
  /\ ui' = Key(ui)
  /\ UNCHANGED <<mix, pc, store, snap, reader, cmd, comp, writers, ck, owed, faults>>

\* ? opens help, in the viewer, and calls off a document read.
KeyHelp ==
  /\ AtBody /\ "read" \in mix /\ doc.gen < 2 * MaxReads
  /\ doc' = InvalidateDocumentRead(doc)
  /\ ui' = Key([ui EXCEPT !.viewer = "help", !.docTask = "none"])
  /\ want' = NoDoc
  /\ UNCHANGED <<mix, pc, store, snap, reader, cmd, reads, comp, writers, ck, owed, faults>>

\* q, Enter and Esc close the viewer; e closes it to edit the task it shows,
\* unless the mission has ended.
KeyViewer ==
  /\ AtKey /\ ui.viewer # "none" /\ doc.gen < 2 * MaxReads
  /\ doc' = InvalidateDocumentRead(doc)
  /\ want' = NoDoc
  /\ \/ ui' = Key([ui EXCEPT !.viewer = "none"])
     \/ /\ ui.docTask # "none" /\ ~snap.data.ended
        /\ ui' = [ui EXCEPT !.viewer = "none", !.edit = "now"]
  /\ UNCHANGED <<mix, pc, store, snap, reader, cmd, reads, comp, writers, ck, owed, faults>>

\* Threads of a composer that closes keep what they will see under its lock.
Detached(off, written) ==
  {IF w.id = comp.id THEN [w EXCEPT !.off = off, !.written = written] ELSE w : w \in writers}

\* The process ends: its memory is gone, its drafts are not.
Leave ==
  /\ pc' = "gone"
  /\ ui' = FreshUi /\ snap' = NoSnap /\ reader' = NoReader /\ cmd' = NoCmd
  /\ doc' = FreshDoc /\ reads' = {} /\ want' = NoDoc
  /\ comp' = NoComposer(comp.id)
  /\ writers' = IF pc = "compose" THEN Detached(FALSE, comp.written) ELSE writers
  /\ UNCHANGED <<mix, store, ck, owed>>

\* Ctrl-C and Ctrl-D leave, once no command is running.
KeyExit == AtBody /\ cmd.st = "none" /\ Leave /\ UNCHANGED faults

\* A hang-up leaves from anywhere, and past every handler of the composer.
HangUp == pc # "gone" /\ faults < MaxFaults /\ faults' = faults + 1 /\ Leave

-----------------------------------------------------------------------------
(* The composer.  Its recovery file is written by numbered snapshots, from *)
(* the loop and from at most one thread of its own, under one lock.        *)

\* A paste of several lines, and a palette action, ask for a new task.
KeyCompose ==
  /\ AtBody /\ "compose" \in mix
  /\ ui' \in {Key([ui EXCEPT !.paste = TRUE]),
              [ui EXCEPT !.docTask = "none", !.text = Blank, !.edit = "now"]}
  /\ OnlyUi

\* _compose_task_prompt: refused when the snapshot says the mission (or the
\* task to amend) is finished; then compose_document makes the recovery
\* file and writes it a first time.
OpenComposer ==
  /\ pc = "loop"
  /\ \E how \in {"paste", "edit", "key"} :
       /\ \/ how = "paste" /\ ui.paste
          \/ how = "edit" /\ ui.edit # "no" /\ ~ui.paste
          \/ how = "key" /\ AtBody /\ "compose" \in mix
       /\ LET target == IF how = "edit" THEN ui.docTask ELSE "none"
              text == CASE how = "paste" -> [src |-> "paste", n |-> 0]
                        [] how = "edit" -> IF ui.text = NoText THEN Blank ELSE ui.text
                        [] how = "key" -> Blank
              taken == [ui EXCEPT !.paste = @ /\ how # "paste", !.edit = IF how = "edit" THEN "no" ELSE Key(ui).edit]
          IN  IF IF target = "none" THEN snap.data.ended ELSE target \in snap.data.done
              THEN /\ ui' = [taken EXCEPT !.text = IF how = "edit" THEN NoText ELSE @]
                   /\ pc' = "closed"
                   /\ UNCHANGED <<comp, ck>>
              ELSE /\ comp.id < MaxDrafts
                   /\ comp' = [id |-> comp.id + 1, how |-> how, target |-> target, buf |-> text,
                               checkpointed |-> text, seq |-> 1, written |-> 1]
                   /\ ck' = [ck EXCEPT ![comp.id + 1] = text]
                   /\ pc' = "compose"
                   /\ ui' = taken
  /\ UNCHANGED <<mix, store, snap, reader, cmd, doc, reads, writers, owed, want, faults>>

\* Mutant: an older snapshot may replace a newer one.
MayWriteAnyOrder(w) == ~w.off

\* write_recovery: nothing after a discard, nothing older than the file.
\* Both are facts of the composer that started the write.
MayWrite(w) == ~w.off /\ w.seq >= w.written

\* The composer's own facts, as its thread sees them under the lock.
Seen(w) ==
  IF comp.id = w.id /\ pc = "compose" THEN [w EXCEPT !.written = comp.written] ELSE w

\* checkpoint_in_background, every 0.8 s while the text is not on disk.
StartCheckpoint ==
  /\ pc = "compose" /\ comp.buf # comp.checkpointed
  /\ \A w \in writers : w.id # comp.id
  /\ comp.seq < 2 * MaxEdits + 2
  /\ comp' = [comp EXCEPT !.seq = @ + 1]
  /\ writers' = writers \cup {[id |-> comp.id, text |-> comp.buf, seq |-> comp.seq + 1, off |-> FALSE, written |-> 0]}
  /\ UNCHANGED <<mix, pc, store, ui, snap, reader, cmd, doc, reads, ck, owed, want, faults>>

\* The thread's write, under the lock: skipped, done or failed.
BackgroundWrite ==
  \E w0 \in writers :
    LET w == Seen(w0)
    IN  /\ writers' = writers \ {w0}
        /\ \/ ~MayWrite(w) /\ UNCHANGED <<ck, comp, faults>>
           \/ /\ MayWrite(w)
              /\ ck' = [ck EXCEPT ![w.id] = w.text]
              /\ comp' = IF comp.id = w.id /\ pc = "compose" THEN [comp EXCEPT !.checkpointed = w.text, !.written = w.seq] ELSE comp
              /\ faults' = faults
           \/ /\ MayWrite(w) /\ faults < MaxFaults
              /\ faults' = faults + 1
              /\ UNCHANGED <<ck, comp>>
        /\ UNCHANGED <<mix, pc, store, ui, snap, reader, cmd, doc, reads, owed, want>>

Edited == [comp.buf EXCEPT !.n = @ + 1]

\* Typing, and an external editor that exits 0.
ComposerEdit ==
  /\ pc = "compose" /\ comp.buf.n < MaxEdits
  /\ comp' = [comp EXCEPT !.buf = Edited]
  /\ UNCHANGED <<mix, pc, store, ui, snap, reader, cmd, doc, reads, writers, ck, owed, want, faults>>

\* An accepted paste is checkpointed at once; a failed checkpoint is reported.
ComposerPaste ==
  /\ pc = "compose" /\ comp.buf.n < MaxEdits
  /\ \/ /\ comp' = [comp EXCEPT !.buf = Edited, !.checkpointed = Edited, !.seq = @ + 1, !.written = comp.seq + 1]
        /\ ck' = [ck EXCEPT ![comp.id] = Edited]
        /\ faults' = faults
     \/ /\ faults < MaxFaults
        /\ faults' = faults + 1
        /\ comp' = [comp EXCEPT !.buf = Edited, !.seq = @ + 1]
        /\ ck' = ck
  /\ UNCHANGED <<mix, pc, store, ui, snap, reader, cmd, doc, reads, writers, owed, want>>

\* After the composer: an edit's initial text is spent.
Closed(u) ==
  /\ pc' = "closed"
  /\ comp' = NoComposer(comp.id)
  /\ ui' = [u EXCEPT !.text = IF comp.how = "edit" THEN NoText ELSE @]
  /\ UNCHANGED <<mix, store, snap, reader, doc, reads, want>>

\* Ctrl-D: no recovery file, under the lock, and none to come.
ComposerDiscard ==
  /\ pc = "compose"
  /\ ck' = [ck EXCEPT ![comp.id] = NoText]
  /\ writers' = Detached(TRUE, comp.written)
  /\ Closed(ui)
  /\ UNCHANGED <<cmd, owed, faults>>

\* Esc, an interrupted paste left with Ctrl-D, Ctrl-C: the text is written
\* and kept.  One failed write is tried again; a second one ends the console.
ComposerKeep ==
  /\ pc = "compose"
  /\ \E failed \in 0..2 :
       /\ faults + failed <= MaxFaults
       /\ faults' = faults + failed
       /\ IF failed = 2
          THEN Leave
          ELSE /\ ck' = [ck EXCEPT ![comp.id] = comp.buf]
               /\ owed' = [owed EXCEPT ![comp.id] = comp.buf]
               /\ writers' = Detached(FALSE, comp.seq + 1 + failed)
               /\ Closed(ui)
               /\ UNCHANGED cmd

\* Ctrl-S: a checkpoint, the task file, and the command that names it.  A
\* file that cannot be written, or a command still running, keeps the draft.
ComposerSave ==
  /\ pc = "compose"
  /\ ck' = [ck EXCEPT ![comp.id] = comp.buf]
  /\ owed' = [owed EXCEPT ![comp.id] = comp.buf]
  /\ writers' = Detached(FALSE, comp.seq + 1)
  /\ \/ /\ faults' = faults
        /\ cmd' = IF cmd.st = "none" THEN Dispatched(comp.id) ELSE cmd
        /\ Closed(ui)
     \/ /\ faults < MaxFaults
        /\ faults' = faults + 1
        /\ Closed([ui EXCEPT !.text = comp.buf])
        /\ UNCHANGED cmd

-----------------------------------------------------------------------------
ConsoleInit ==
  /\ pc = "loop"
  /\ \E d \in Projections : store = [rev |-> 0, data |-> d]
  /\ \E v \in Views : ui = [FreshUi EXCEPT !.view = v]
  /\ snap = NoSnap /\ reader = NoReader /\ cmd = NoCmd /\ doc = FreshDoc
  /\ reads = {} /\ writers = {}
  /\ comp = NoComposer(0)
  /\ ck = [d \in Drafts |-> NoText] /\ owed = ck
  /\ want = NoDoc /\ faults = 0 /\ mix \in Mixes

Composer == OpenComposer \/ StartCheckpoint \/ ComposerEdit \/ ComposerPaste \/ ComposerDiscard
              \/ ComposerKeep \/ ComposerSave

Keys == KeyView \/ KeySelect \/ KeyEnter \/ KeyConfirm \/ KeyDismiss \/ KeyDocument \/ KeyHelp \/ KeyViewer
          \/ KeyCompose \/ KeyExit \/ HangUp

Threads == RunCommand \/ ReadSnapshot \/ ReadDocument \/ BackgroundWrite

ConsoleNext == LoopRefresh \/ ClosedRefresh \/ Age \/ StoreWrite \/ Threads \/ Keys \/ Composer

ConsoleSpec == ConsoleInit /\ [][ConsoleNext]_consoleVars

(* The loop goes round (its wait is bounded), its threads finish, and the   *)
(* clock goes on.  Nothing is assumed of the operator.                      *)
FairSpec ==
  ConsoleSpec /\ WF_consoleVars(LoopRefresh) /\ WF_consoleVars(ReadSnapshot) /\ WF_consoleVars(Age)

-----------------------------------------------------------------------------
ConsoleTypeOK ==
  /\ pc \in {"loop", "compose", "closed", "gone"}
  /\ store \in [rev : 0..MaxWrites, data : Projections]
  /\ ui.view \in Views /\ ui.edit \in {"no", "fresh", "now"} /\ ui.text \in Texts
  /\ reader.st \in {"idle", "started", "done"}
  /\ cmd.st \in {"none", "running", "done"} /\ cmd.draft \in 0..MaxDrafts
  /\ Cardinality({w \in writers : w.id = comp.id}) <= 1
  /\ {ck[d] : d \in Drafts} \subseteq Texts

(* A text the operator saved, or left with the promise that it is kept, is *)
(* on disk until the command that carries it is acknowledged as applied:   *)
(* through refused and lost commands, late checkpoint threads, a second    *)
(* composer, a full disk and a hang-up (compose_document, refresh).        *)
DraftsOutliveFailure == \A d \in Drafts : owed[d] # NoText => ck[d] = owed[d]

(* A thread that ends late changes nothing.  The recovery file only moves  *)
(* on to newer text, and once discarded or applied it never comes back     *)
(* (write_lock, written_seq, discarded); what refresh() publishes is the   *)
(* document last asked for, although its viewer was closed or help opened  *)
(* meanwhile (_document_generation); and a new snapshot keeps the          *)
(* highlight on its task while that is listed, whatever row it moved to.   *)
LateThreadsAreHarmless ==
  [][/\ \A d \in 1..comp.id : /\ ck[d] = NoText => ck'[d] = NoText
                              /\ ck'[d] = NoText \/ ck'[d].n >= ck[d].n
     /\ doc'.result # NoResult =>
          doc'.pending /\ doc'.result.task = want'.task /\ doc'.edit = want'.edit
     /\ LET t == SelectedTask(snap, ui.sel)
        IN  snap' # snap /\ ui.view = "Tasks" /\ cmd.out # "view"
              /\ (\E i \in 1..Len(snap'.data.list) : snap'.data.list[i] = t)
            => SelectedTask(snap', ui'.sel) = t]_consoleVars

(* An operator who stays in a view comes to see that view with the last    *)
(* committed data, although the thread may have read another view than its *)
(* token says (_FULL_REFRESH_SECONDS).                                     *)
ViewCatchesUp ==
  \/ []<><<ui'.view # ui.view>>_consoleVars
  \/ []<>(pc # "loop" \/ ui.edit # "no" \/ ui.paste)
  \/ []<>(snap.view = ui.view /\ snap.rev = store.rev)
=============================================================================
