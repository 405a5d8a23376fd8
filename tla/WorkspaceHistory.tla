-------------------------- MODULE WorkspaceHistory ---------------------------
(***************************************************************************)
(* The active workspace of a server (crates/server/src/store.rs,           *)
(* workspace.rs, rest/workspaces.rs and rest/devices.rs): its arrangement, *)
(* the settings of the radios it draws, and the history undo and redo walk *)
(* through.                                                                *)
(*                                                                         *)
(* Three places hold settings.  The radios have them now (`live`); the     *)
(* table workspace_state has what they are restored from (`stored`), and   *)
(* lags behind by up to an autosave; the rows of workspace_history have    *)
(* them at the steps that moved a dial, and nothing where a step moved     *)
(* only the arrangement.                                                   *)
(*                                                                         *)
(* The handlers that touch the store, and the autosave, run from beginning *)
(* to end under apply_gate, and every call of the store is one             *)
(* transaction, so each is one action.  delete_device_set and the handlers *)
(* of scans only call the engine and take no gate: they may fall between   *)
(* two steps of a handler that holds it, and the model has them before or  *)
(* after it.  A crash between two transactions of a handler leaves what a  *)
(* crash after the last one, or before the first, leaves.  Of the calls of *)
(* the store only those of the autosave are made to fail.  A step of the   *)
(* clock is a second.                                                      *)
(***************************************************************************)
EXTENDS Naturals, FiniteSets, FiniteSetsExt

CONSTANTS
  Clients,      \* browsers that show the workspace
  Nodes,        \* the device nodes a graph may draw
  Values,       \* what a radio's dial may show
  Default,      \* what it shows when the radio is opened
  Snapshots,    \* the arrangements
  First,        \* the arrangement the workspace was created with
  Depth,        \* WORKSPACE_HISTORY_DEPTH
  AutosaveIdle, \* seconds without a change after which the settings are saved
  AutosaveMax,  \* seconds after which they are saved anyway
  MaxSeq,       \* bound: steps recorded
  MaxRevision,  \* bound: revisions of the workspace
  MaxTroubles   \* bound: crashes, radios that do not take their settings back,
                \* saves that fail and sweeps that are started

Unset == "unset"   \* a node that workspace_state does not know
Off == "off"       \* a node whose radio is not open
Null == "null"     \* a row without a node
NoState == [n \in {} |-> Unset]   \* a row without settings

States == [Nodes -> Values \cup {Unset}]

ASSUME HistoryAssumption ==
  /\ \A s \in Snapshots : /\ DOMAIN s = {"held", "free", "look"}
                          /\ s.held \subseteq Nodes /\ s.free \subseteq Nodes
                          /\ s.held \cap s.free = {}
  /\ First \in Snapshots
  /\ Default \in Values /\ {Unset, Off, Null} \cap (Values \cup Nodes) = {}
  /\ IsFiniteSet(Nodes)
  /\ Depth \in Nat \ {0} /\ MaxSeq \in Nat \ {0} /\ MaxRevision \in Nat \ {0}
  /\ AutosaveIdle \in Nat /\ AutosaveMax \in Nat
  /\ MaxTroubles \in Nat

VARIABLES
  \* the store
  snapshot, revision, \* the workspace's row
  rows, at,           \* workspace_history, and where the workspace stands in it
  stored,             \* workspace_state
  \* the server
  live,               \* the radios
  unrestored,         \* nodes whose radio did not take what they remember
  scanning,           \* nodes whose radio follows a scan
  event, saver,       \* a change the autosave task has not seen; the task
  base,               \* what each client has read
  troubles,           \* what has disturbed the settings so far
  \* history
  seen,               \* what the workspace was, last, at each step
  drifted,            \* the settings of a node moved, and not because of a step
  kept                \* a dial moved after an undo, and redo was not dropped

store == <<snapshot, revision, rows, at, stored>>
server == <<live, unrestored, scanning, event, saver>>
ghosts == <<seen, drifted, kept>>
vars == <<store, server, base, troubles, ghosts>>

----------------------------------------------------------------------------
(* The rows of workspace_history.                                          *)

Row(snap, state, node) == [snap |-> snap, state |-> state, node |-> node, fresh |-> TRUE]

NoRows == [q \in {} |-> Null]

Told(h) == {q \in DOMAIN h : h[q].state # NoState}

\* state_at: the nearest settings behind a row, or else the oldest.
StateAt(h, seq) ==
  LET behind == {q \in Told(h) : q <= seq}
  IN CASE behind # {}  -> h[Max(behind)].state
       [] behind = {} /\ Told(h) # {} -> h[Min(Told(h))].state
       [] OTHER -> NoState

\* record_history writes the first row when there is a first step to record.
Based == IF at = 0 THEN [q \in {1} |-> Row(snapshot, NoState, Null)] ELSE rows
Head == IF at = 0 THEN 1 ELSE at

NotFilled(h, before) == h

\* A row without settings gets those from before the dial moved.
Filled(h, before) ==
  IF h[Head].state = NoState THEN [h EXCEPT ![Head].state = before] ELSE h

\* within_coalesce, for the same dial in the same arrangement.
Coalesces(h, node) == h[Head].node = node /\ h[Head].snap = snapshot /\ h[Head].fresh

PushedUnpruned(h, row) ==
  [q \in {p \in DOMAIN h : p <= Head} \cup {Head + 1} |-> IF q = Head + 1 THEN row ELSE h[q]]

\* A step is recorded: what redo reached goes, and what is Depth steps behind.
Pushed(h, row) ==
  LET seq == Head + 1
  IN [q \in {p \in DOMAIN h : p < seq /\ p + Depth > seq} \cup {seq} |->
        IF q = seq THEN row ELSE h[q]]

Record(h, row) ==
  /\ Head < MaxSeq
  /\ rows' = Pushed(h, row)
  /\ at' = Head + 1

----------------------------------------------------------------------------
(* The settings.                                                           *)

Drawn(snap) == snap.held \cup snap.free

\* bind: the nodes of a graph that have an open radio.
Bound(snap, radios) == {n \in snap.held : radios[n] # Off}

\* The nodes that capture passes over: what the store remembers of them stands.
PassedOver == unrestored \cup scanning

\* live_state and capture: what the store remembers, and what the radios of
\* the graph have now.
LiveState(snap, radios) ==
  [n \in Nodes |-> IF n \in Bound(snap, radios) \ PassedOver THEN radios[n] ELSE stored[n]]

Here == [snap |-> snapshot, state |-> LiveState(snapshot, live)]

\* A radio is not any more where it was known to be.
Moved(a, b) == \E n \in Nodes : a.state[n] # Unset /\ b.state[n] # a.state[n]

\* Two views of a workspace that differ at most where one knows nothing.
Agree(a, b) ==
  /\ a.snap = b.snap
  /\ \A n \in a.snap.held : Unset \in {a.state[n], b.state[n]} \/ a.state[n] = b.state[n]

----------------------------------------------------------------------------

Asleep == [armed |-> FALSE, idle |-> 0, hard |-> 0, failed |-> FALSE]

\* The workspace is brought up, and its settings have been saved.
Init ==
  /\ snapshot = First /\ revision = 1
  /\ rows = NoRows /\ at = 0
  /\ live = [n \in Nodes |-> IF n \in First.held THEN Default ELSE Off]
  /\ stored = [n \in Nodes |-> IF n \in First.held THEN Default ELSE Unset]
  /\ unrestored = {} /\ scanning = {} /\ event = FALSE /\ saver = Asleep
  /\ base = [c \in Clients |-> [rev |-> 1, snap |-> First]]
  /\ troubles = 0
  /\ seen = [q \in {1} |-> Here] /\ drifted = FALSE /\ kept = FALSE

\* What the workspace is now is what it last was at its step.  Once the settings
\* have drifted, what they were at the others is of no use.
See ==
  seen' = [q \in DOMAIN rows' \cup {Head'} |-> IF q = Head' \/ drifted' THEN Here' ELSE seen[q]]

----------------------------------------------------------------------------
(* rest/workspaces.rs: GET, PUT, undo and redo.                            *)

Read(c) ==
  /\ base' = [base EXCEPT ![c] = [rev |-> revision, snap |-> snapshot]]
  /\ UNCHANGED <<store, server, troubles, ghosts>>

\* forget_released_radios.
Forgotten(snap) ==
  [n \in Nodes |-> IF n \in snapshot.held \cap snap.free THEN Unset ELSE stored[n]]

\* The revision check of update_workspace.
UpToDate(c) == base[c].rev = revision

\* update_workspace with a snapshot.  A client whose revision is not the
\* workspace's gets a WorkspaceConflict, and reads again.
Edit(c, snap) ==
  /\ UpToDate(c) /\ revision < MaxRevision
  /\ stored' = Forgotten(snap)
  /\ IF Based[Head].snap = snap
     THEN rows' = Based /\ UNCHANGED at
     ELSE Record(Based, Row(snap, NoState, Null))
  /\ snapshot' = snap
  /\ revision' = revision + 1
  /\ base' = [base EXCEPT ![c] = [rev |-> revision', snap |-> snap]]
  /\ UNCHANGED <<server, troubles, kept>>
  /\ drifted' = (drifted \/ Moved(Here, Here'))
  /\ See

\* update_workspace with a name only.
Rename(c) ==
  /\ UpToDate(c) /\ revision < MaxRevision
  /\ revision' = revision + 1
  /\ base' = [base EXCEPT ![c].rev = revision']
  /\ UNCHANGED <<snapshot, rows, at, stored, server, troubles, ghosts>>

Behind == {q \in DOMAIN rows : q < at}
Ahead == {q \in DOMAIN rows : q > at}

\* What restore_device leaves a radio with, given that those in `refused` take
\* nothing: a radio that has to be opened is opened first.
Restored(n, state, refused) ==
  IF state[n] # Unset /\ n \notin refused THEN state[n]
  ELSE IF live[n] = Off THEN Default ELSE live[n]

SteppedQuietly == revision

\* A step is a new revision too.
Stepped == revision + 1

\* step_history of the store, then of the REST handler: reconcile, which stops
\* the scans, and bring_up when the graph is another one, restore_settings when
\* the settings moved.
StepTo(seq, refused) ==
  LET snap == rows[seq].snap
      reaching == StateAt(rows, seq)
      moves == reaching # NoState /\ reaching # StateAt(rows, at)
      saved == IF moves THEN reaching ELSE stored
      reconciles == snap.held # snapshot.held \/ snap.free # snapshot.free
  IN /\ revision < MaxRevision
     /\ troubles + Cardinality(refused) <= MaxTroubles
     /\ refused \subseteq (IF reconciles THEN snap.held
                           ELSE IF moves THEN Bound(snap, live) ELSE {})
     /\ troubles' = troubles + Cardinality(refused)
     /\ stored' = saved
     /\ snapshot' = snap /\ revision' = Stepped /\ at' = seq
     /\ live' = [n \in Nodes |->
                   IF reconciles
                   THEN IF n \in snap.held THEN Restored(n, saved, refused) ELSE Off
                   ELSE IF moves /\ n \in Bound(snap, live)
                        THEN Restored(n, saved, refused) ELSE live[n]]
     /\ unrestored' = IF reconciles THEN refused ELSE unrestored
     /\ scanning' = IF reconciles THEN {} ELSE scanning
     /\ event' = (event \/ reconciles \/ moves)
     /\ UNCHANGED <<rows, saver, base, kept>>
     /\ drifted' = (drifted \/ Moved(seen[seq], Here'))
     /\ See

Undo == Behind # {} /\ \E refused \in SUBSET Nodes : StepTo(Max(Behind), refused)
Redo == Ahead # {} /\ \E refused \in SUBSET Nodes : StepTo(Min(Ahead), refused)

\* apply_workspace: bring_up opens the radios the graph holds and restores them.
Apply(refused) ==
  LET opened == {n \in snapshot.held : live[n] = Off}
  IN /\ opened # {} /\ refused \subseteq opened
     /\ troubles + Cardinality(refused) <= MaxTroubles
     /\ troubles' = troubles + Cardinality(refused)
     /\ live' = [n \in Nodes |->
                   IF n \in opened THEN Restored(n, stored, refused) ELSE live[n]]
     /\ unrestored' = (unrestored \ opened) \cup refused
     /\ event' = TRUE
     /\ UNCHANGED <<store, scanning, saver, base, kept>>
     /\ drifted' = (drifted \/ Moved(Here, Here'))
     /\ See

----------------------------------------------------------------------------
(* rest/devices.rs.                                                        *)

\* patch_device: begin_edit, the engine's patch, finish_edit.  A radio that the
\* graph does not hold has no node whose history could hold the change.
Dial(n, v) ==
  LET radios == [live EXCEPT ![n] = v]
      after == LiveState(snapshot, radios)
      h == Filled(Based, LiveState(snapshot, live))
  IN /\ live[n] # Off /\ live[n] # v
     /\ live' = radios
     /\ event' = TRUE
     /\ \/ /\ n \notin snapshot.held
           /\ UNCHANGED <<rows, at, kept>>
        \/ /\ n \in snapshot.held /\ StateAt(h, Head) = after
           /\ rows' = h
           /\ UNCHANGED <<at, kept>>
        \/ /\ n \in snapshot.held /\ StateAt(h, Head) # after /\ Coalesces(h, n)
           /\ rows' = [h EXCEPT ![Head].state = after, ![Head].fresh = TRUE]
           /\ kept' = (kept \/ Ahead # {})
           /\ UNCHANGED at
        \/ /\ n \in snapshot.held /\ StateAt(h, Head) # after /\ ~Coalesces(h, n)
           /\ Record(h, Row(snapshot, after, n))
           /\ UNCHANGED kept
     /\ UNCHANGED <<snapshot, revision, stored, unrestored, scanning, saver, base, troubles>>
     /\ drifted' = (drifted \/ n \in snapshot.held \cap PassedOver)
     /\ See

\* delete_device_set.
Close(n) ==
  /\ live[n] # Off
  /\ live' = [live EXCEPT ![n] = Off]
  /\ scanning' = scanning \ {n}
  /\ event' = TRUE
  /\ UNCHANGED <<store, unrestored, saver, base, troubles, kept>>
  /\ drifted' = (drifted \/ Moved(Here, Here'))
  /\ See

----------------------------------------------------------------------------
(* rest/scanning.rs and the scanner, on a radio that tunes itself.         *)

\* start_scan.
StartScan(n) ==
  /\ live[n] # Off /\ n \notin scanning
  /\ troubles < MaxTroubles /\ troubles' = troubles + 1
  /\ scanning' = scanning \cup {n}
  /\ event' = TRUE
  /\ UNCHANGED <<store, live, unrestored, saver, base, kept>>
  /\ drifted' = (drifted \/ Moved(Here, Here'))
  /\ See

\* scan_tune_channel: the scan carries the radio along.
SweepTo(n, v) ==
  /\ n \in scanning /\ live[n] # v
  /\ live' = [live EXCEPT ![n] = v]
  /\ event' = TRUE
  /\ UNCHANGED <<store, unrestored, scanning, saver, base, troubles, kept>>
  /\ drifted' = (drifted \/ Moved(Here, Here'))
  /\ See

\* stop_scan, with the settle_tuning that may move the radio once more.
StopScan(n, v) ==
  /\ n \in scanning
  /\ live' = [live EXCEPT ![n] = v]
  /\ scanning' = scanning \ {n}
  /\ event' = TRUE
  /\ UNCHANGED <<store, unrestored, saver, base, troubles, kept>>
  /\ drifted' = (drifted \/ Moved(Here, Here'))
  /\ See

----------------------------------------------------------------------------
(* spawn_autosave.                                                         *)

HardDeadlinePutOff == AutosaveMax

\* The deadline that no further change puts off.
HardDeadline == IF saver.armed THEN saver.hard ELSE AutosaveMax

\* An event that touches settings, or a lagged receiver, arms the timer or
\* puts it off.
Notice ==
  /\ event /\ event' = FALSE
  /\ saver' = [armed |-> TRUE, idle |-> AutosaveIdle, hard |-> HardDeadline, failed |-> FALSE]
  /\ UNCHANGED <<store, live, unrestored, scanning, base, troubles, ghosts>>

Due == saver.armed /\ (saver.idle = 0 \/ saver.hard = 0)

\* The nodes that undo can still bring back.
Recoverable == UNION {Drawn(rows[q].snap) : q \in DOMAIN rows}

SavedFromRadios == live

\* save_active.
Saved ==
  [n \in Nodes |-> IF n \in Drawn(snapshot) \cup Recoverable
                   THEN LiveState(snapshot, live)[n] ELSE Unset]

Save ==
  /\ Due
  /\ stored' = Saved
  /\ saver' = Asleep
  /\ UNCHANGED <<snapshot, revision, rows, at, live, unrestored, scanning, event, base, troubles,
                 kept>>
  /\ drifted' = (drifted \/ Moved(Here, Here'))
  /\ See

\* The store fails save_active: that is logged, and the task waits for the next
\* event.  Nothing is armed again.
SaveFails ==
  /\ Due
  /\ troubles < MaxTroubles /\ troubles' = troubles + 1
  /\ saver' = [Asleep EXCEPT !.failed = TRUE]
  /\ UNCHANGED <<store, live, unrestored, scanning, event, base, ghosts>>

Less(k) == IF k = 0 THEN 0 ELSE k - 1

\* A second passes.
Tick ==
  /\ rows' = [q \in DOMAIN rows |-> [rows[q] EXCEPT !.fresh = FALSE]]
  /\ saver' = [saver EXCEPT !.idle = Less(@), !.hard = Less(@)]
  /\ UNCHANGED <<snapshot, revision, at, stored, live, unrestored, scanning, event, base, troubles,
                 ghosts>>

\* The server dies and is started again: what is left is the store.
Crash ==
  /\ troubles < MaxTroubles /\ troubles' = troubles + 1
  /\ live' = [n \in Nodes |-> Off]
  /\ unrestored' = {} /\ scanning' = {} /\ event' = FALSE /\ saver' = Asleep
  /\ UNCHANGED <<store, base, kept>>
  /\ drifted' = (drifted \/ Moved(Here, Here'))
  /\ See

----------------------------------------------------------------------------

Next ==
  \/ \E c \in Clients : Read(c) \/ Rename(c) \/ \E snap \in Snapshots : Edit(c, snap)
  \/ Undo \/ Redo
  \/ \E refused \in SUBSET Nodes : Apply(refused)
  \/ \E n \in Nodes : \/ Close(n) \/ StartScan(n)
                      \/ \E v \in Values : Dial(n, v) \/ SweepTo(n, v) \/ StopScan(n, v)
  \/ Notice \/ Save \/ SaveFails \/ Tick \/ Crash

Spec == Init /\ [][Next]_vars

\* The autosave task is scheduled and its timers run; tokio's select does not
\* pass over a branch that stays ready.  A save ends, in one way or the other.
FairSpec == Spec /\ WF_vars(Notice) /\ WF_vars(Save \/ SaveFails) /\ WF_vars(Tick)

----------------------------------------------------------------------------
(* Properties                                                              *)

\* Every variable has its type.
TypeOK ==
  /\ snapshot \in Snapshots /\ revision \in 1..MaxRevision
  /\ at \in 0..MaxSeq /\ DOMAIN rows \subseteq 1..MaxSeq
  /\ \A q \in DOMAIN rows :
       rows[q] \in [snap: Snapshots, state: States \cup {NoState},
                    node: Nodes \cup {Null}, fresh: BOOLEAN]
  /\ stored \in States
  /\ live \in [Nodes -> Values \cup {Off}]
  /\ unrestored \subseteq Nodes /\ scanning \subseteq Nodes
  /\ event \in BOOLEAN
  /\ saver \in [armed: BOOLEAN, idle: 0..AutosaveIdle, hard: 0..AutosaveMax, failed: BOOLEAN]
  /\ base \in [Clients -> [rev: 1..MaxRevision, snap: Snapshots]]
  /\ troubles \in 0..MaxTroubles

\* Whatever is recorded, walked over and pruned, workspace_history is one
\* stretch of at most Depth steps, and the row the workspace stands at exists
\* and has the arrangement the workspace has: undo and redo never find a hole,
\* and what record_history compares a change with is what is shown.
HistoryWhole ==
  /\ at # 0 => at \in DOMAIN rows /\ rows[at].snap = snapshot
  /\ \A p, q \in DOMAIN rows : q < p + Depth /\ p..q \subseteq DOMAIN rows

\* What a row says of the settings (state_at: its own, or those of the nearest
\* row behind it) is where the radios were when the workspace last stood at
\* that row, although rows that moved no dial say nothing themselves and the
\* rows they borrow from are coalesced, replaced and pruned.  It holds until the
\* settings move without a step (a crash, a radio closed, restored or taken out
\* of the graph before its settings were saved, a radio that refuses them, a scan
\* that carries a radio along, a node that is forgotten) or a dial that coalesces after an undo leaves rows of
\* another past to redo.  And the undo of a dial reaches a row that has settings
\* of its own: it need not take the oldest there are, which is a guess.
RowsTellTheTruth ==
  /\ ~drifted /\ ~kept =>
       \A q \in DOMAIN rows : (\E m \in Told(rows) : m <= q) =>
         \A n \in Nodes : StateAt(rows, q)[n] \in {Unset, seen[q].state[n]}
  /\ \A q \in DOMAIN rows :
       rows[q].node # Null => {q - 1, q} \cap DOMAIN rows \subseteq Told(rows)

\* A client that holds the current revision holds the current arrangement, so
\* that the revision check of update_workspace refuses every edit made to an
\* arrangement that another client, an undo or a redo has replaced: no edit is
\* lost to one that did not see it.  Dials do not count: they change no
\* arrangement and no revision.
RevisionNamesSnapshot ==
  \A c \in Clients : base[c].rev = revision => base[c].snap = snapshot

\* A dial that the store does not know of yet, of a radio that capture looks at.
Unsaved(n) == n \in Bound(snapshot, live) \ PassedOver /\ stored[n] # live[n]

\* However long dials keep moving, spawn_autosave saves where they stand, or
\* reports that the store failed: the hard deadline is not put off by further
\* events, and what a scan leaves behind is saved once the scan is stopped.  Three
\* dials may stay unsaved.  A save that fails is not tried again before the next
\* event, which is owed a save of its own.  A radio that follows a scan is passed
\* over for as long as the scan runs.  And of a radio that an edit releases and
\* another draws again the task is not told: update_workspace raises no event that
\* touches settings.
EventuallySaved ==
  \A n \in Nodes : Unsaved(n) /\ (event \/ saver.armed) ~> ~Unsaved(n) \/ saver.failed

\* The REST documentation of undo promises "The workspace as it was before its
\* last change": the arrangement and the radios are where they were when the
\* workspace last stood at the step that undo reaches.
UndoGoesBack == [][at' < at /\ ~drifted => Agree(Here', seen[at'])]_vars
=============================================================================
